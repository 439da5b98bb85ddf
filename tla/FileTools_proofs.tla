--------------------------- MODULE FileTools_proofs ---------------------------
(***************************************************************************)
(* Proofs about FileTools for every value of its constants, and so for      *)
(* every tree, with its links, and every set of calls.  First, that no      *)
(* conversation replaces or removes what another one wrote (FileInv).  Then *)
(* what the operators do: InOrder and WalkDir list a set once each, a walk  *)
(* ends at a path that exists, and stays the same while directories and     *)
(* links do.  From these, what each call has under way (SafeInv: Replacing, *)
(* Ready, Progress), and that absences are told, deletions reported, and    *)
(* what is withheld or outside the workspace is left alone.                 *)
(***************************************************************************)
EXTENDS FileTools, WellFoundedInduction, FiniteSetTheorems, SequenceTheorems, TLAPS

(***************************************************************************)
(* Induction over the numbers, for a set of them.                          *)
(***************************************************************************)
LEMMA UpFromZero ==
    ASSUME NEW S, 0 \in S, \A n \in Nat : n \in S => n + 1 \in S
    PROVE  \A n \in Nat : n \in S
  <1> DEFINE T == {n \in Nat : n \notin S}
             R == {s \in Nat \X Nat : s[1] < s[2]}
  <1> SUFFICES ASSUME T # {} PROVE FALSE
    OBVIOUS
  <1>1. IsWellFoundedOn(R, Nat)
    BY NatLessThanWellFounded DEF OpToRel
  <1>2. T \subseteq Nat
    OBVIOUS
  <1> HIDE DEF R
  <1>3. PICK x \in T : \A y \in T : ~(<<y, x>> \in R)
    <2> HIDE DEF T
    <2> QED
      BY <1>1, <1>2, WFMin
  <1>4. x # 0 /\ x \in Nat /\ x \notin S
    OBVIOUS
  <1>5. x - 1 \in Nat /\ x - 1 < x /\ (x - 1) + 1 = x
    BY <1>4
  <1>6. x - 1 \in T
    BY <1>4, <1>5
  <1>7. <<x - 1, x>> \in R
    BY <1>4, <1>5 DEF R
  <1> QED
    BY <1>3, <1>6, <1>7

(***************************************************************************)
(* Walking a path, name by name.                                           *)
(***************************************************************************)
Name == DOMAIN Rank

Start == [at |-> <<>>, err |-> ""]

IsWalk(t, p, n, f) ==
    /\ f = [j \in 0..n |-> f[j]]
    /\ f[0] = Start
    /\ \A j \in 1..n : f[j] = Enter(t, f[j - 1], p[j])

LEMMA WalkExists ==
    ASSUME NEW t, NEW p, NEW n \in Nat
    PROVE  \E f : IsWalk(t, p, n, f)
  <1> DEFINE S == {m \in Nat : \E f : IsWalk(t, p, m, f)}
  <1>1. 0 \in S
    <2>1. IsWalk(t, p, 0, [j \in 0..0 |-> Start])
      BY DEF IsWalk
    <2> QED
      BY <2>1
  <1>2. ASSUME NEW m \in Nat, m \in S
        PROVE  m + 1 \in S
    <2>1. PICK f : IsWalk(t, p, m, f)
      BY <1>2
    <2> DEFINE g == [j \in 0..(m + 1) |-> IF j = m + 1 THEN Enter(t, f[m], p[m + 1]) ELSE f[j]]
    <2>2. g = [j \in 0..(m + 1) |-> g[j]] /\ g[0] = Start
      BY <2>1 DEF IsWalk
    <2>3. ASSUME NEW j \in 1..(m + 1)
          PROVE  g[j] = Enter(t, g[j - 1], p[j])
      <3>1. CASE j = m + 1
        <4>1. g[j] = Enter(t, f[m], p[m + 1])
          BY <3>1
        <4>2. g[j - 1] = f[m] /\ p[j] = p[m + 1]
          BY <3>1
        <4> HIDE DEF g
        <4> QED
          BY <4>1, <4>2
      <3>2. CASE j # m + 1
        <4>1. j \in 1..m /\ j - 1 \in 0..m /\ j \in 0..(m + 1) /\ j - 1 \in 0..(m + 1) /\ j - 1 # m + 1
          BY <3>2
        <4>2. f[j] = Enter(t, f[j - 1], p[j])
          BY <2>1, <4>1 DEF IsWalk
        <4>3. g[j] = f[j] /\ g[j - 1] = f[j - 1]
          BY <3>2, <4>1
        <4> HIDE DEF g
        <4> QED
          BY <4>2, <4>3
      <3> QED
        BY <3>1, <3>2
    <2> HIDE DEF g
    <2>4. IsWalk(t, p, m + 1, g)
      BY <2>2, <2>3 DEF IsWalk
    <2> QED
      BY <2>4
  <1> HIDE DEF S
  <1>3. \A m \in Nat : m \in S
    BY <1>1, <1>2, UpFromZero
  <1> QED
    BY <1>3 DEF S

LEMMA WalkSteps ==
    ASSUME NEW t, NEW p, Len(p) \in Nat
    PROVE  IsWalk(t, p, Len(p), Walk(t, p))
  <1> DEFINE n == Len(p)
             next(g) == [j \in 0..n |-> IF j = 0 THEN Start ELSE Enter(t, g[j - 1], p[j])]
             w == CHOOSE g : g = next(g)
  <1>1. Walk(t, p) = w
    BY DEF Walk, Start
  <1>2. PICK f : IsWalk(t, p, n, f)
    BY WalkExists
  <1>3. ASSUME NEW j \in 0..n
        PROVE  f[j] = IF j = 0 THEN Start ELSE Enter(t, f[j - 1], p[j])
    <2>1. CASE j = 0
      BY <1>2, <2>1 DEF IsWalk
    <2>2. CASE j # 0
      <3>1. j \in 1..n
        BY <2>2
      <3> QED
        BY <1>2, <2>2, <3>1 DEF IsWalk
    <2> QED
      BY <2>1, <2>2
  <1>4. f = [j \in 0..n |-> f[j]]
    BY <1>2 DEF IsWalk
  <1>5. next(f) = [j \in 0..n |-> f[j]]
    BY <1>3
  <1>6. f = next(f)
    BY <1>4, <1>5
  <1>7. w = next(w)
    <2> HIDE DEF next
    <2> QED
      BY <1>6
  <1> HIDE DEF w
  <1>8. w = [j \in 0..n |-> w[j]]
    <2>1. \A j \in 0..n : w[j] = next(w)[j]
      BY <1>7
    <2>2. next(w) = [j \in 0..n |-> next(w)[j]]
      OBVIOUS
    <2> QED
      BY <1>7, <2>1, <2>2
  <1>9. w[0] = Start
    BY <1>7
  <1>10. ASSUME NEW j \in 1..n
         PROVE  w[j] = Enter(t, w[j - 1], p[j])
    <2>1. j \in 0..n /\ j # 0
      OBVIOUS
    <2>2. next(w)[j] = Enter(t, w[j - 1], p[j])
      BY <2>1
    <2> HIDE DEF next
    <2> QED
      BY <1>7, <2>2
  <1> QED
    BY <1>1, <1>8, <1>9, <1>10 DEF IsWalk

IsRecord(w) == w = [at |-> w.at, err |-> w.err]

LEMMA EnterRecord ==
    ASSUME NEW t, NEW w, NEW name, IsRecord(w)
    PROVE  IsRecord(Enter(t, w, name))
  <1> DEFINE e == Enter(t, w, name)
  <1>1. \/ e = w \/ e = [w EXCEPT !.err = "io_error"]
        \/ \E a, c : e = [at |-> a, err |-> c]
    BY DEF Enter
  <1>2. CASE e = w
    BY <1>2
  <1>3. CASE e = [w EXCEPT !.err = "io_error"]
    <2>1. w = [at |-> w.at, err |-> w.err]
      BY DEF IsRecord
    <2>2. [w EXCEPT !.err = "io_error"] = [at |-> w.at, err |-> "io_error"]
      BY <2>1
    <2> QED
      BY <1>3, <2>2 DEF IsRecord
  <1>4. CASE \E a, c : e = [at |-> a, err |-> c]
    <2>1. PICK a, c : e = [at |-> a, err |-> c]
      BY <1>4
    <2> QED
      BY <2>1 DEF IsRecord
  <1> QED
    BY <1>1, <1>2, <1>3, <1>4

\* The whole path is walked like its front, and then its last name.
LEMMA WalkLast ==
    ASSUME NEW t, NEW p \in Seq(Name), p # <<>>
    PROVE  /\ IsRecord(EvalSymlinks(t, Front(p)))
           /\ EvalSymlinks(t, p) = Enter(t, EvalSymlinks(t, Front(p)), Last(p))
  <1> DEFINE n == Len(p)
             q == Front(p)
             u == Walk(t, p)
             v == Walk(t, q)
  <1>1. /\ n \in Nat \ {0} /\ q \in Seq(Name) /\ Len(q) = n - 1 /\ n - 1 \in Nat
        /\ \A j \in 1..(n - 1) : q[j] = p[j]
        /\ Last(p) = p[n]
    BY DEF Front, Last
  <1>2. IsWalk(t, p, n, u) /\ IsWalk(t, q, n - 1, v)
    BY <1>1, WalkSteps
  <1> DEFINE S == {j \in Nat : j <= n - 1 => u[j] = v[j] /\ IsRecord(v[j])}
  <1> HIDE DEF q, u, v, n
  <1>3. 0 \in S
    <2>1. u[0] = Start /\ v[0] = Start
      BY <1>2 DEF IsWalk
    <2>2. IsRecord(Start)
      BY DEF IsRecord, Start
    <2> QED
      BY <2>1, <2>2
  <1>4. ASSUME NEW j \in Nat, j \in S
        PROVE  j + 1 \in S
    <2> SUFFICES ASSUME j + 1 <= n - 1
                 PROVE  u[j + 1] = v[j + 1] /\ IsRecord(v[j + 1])
      OBVIOUS
    <2>1. j + 1 \in 1..(n - 1) /\ j + 1 \in 1..n /\ (j + 1) - 1 = j /\ j <= n - 1
      BY <1>1
    <2>2. u[j] = v[j] /\ IsRecord(v[j])
      BY <1>4, <2>1
    <2>3. u[j + 1] = Enter(t, u[j], p[j + 1]) /\ v[j + 1] = Enter(t, v[j], q[j + 1])
      BY <1>2, <2>1 DEF IsWalk
    <2> QED
      BY <1>1, <2>1, <2>2, <2>3, EnterRecord
  <1>5. \A j \in Nat : j \in S
    <2> HIDE DEF S
    <2> QED
      BY <1>3, <1>4, UpFromZero
  <1>6. u[n - 1] = v[n - 1] /\ IsRecord(v[n - 1])
    BY <1>1, <1>5
  <1>7. u[n] = Enter(t, u[n - 1], p[n])
    <2>1. n \in 1..n
      BY <1>1
    <2> QED
      BY <1>2, <2>1 DEF IsWalk
  <1>8. EvalSymlinks(t, p) = u[n] /\ EvalSymlinks(t, q) = v[n - 1]
    BY <1>1 DEF EvalSymlinks, u, v, n
  <1> QED
    BY <1>1, <1>6, <1>7, <1>8 DEF q

\* A path whose last name is no link leads to that name.
LEMMA SameFile ==
    ASSUME NEW t, NEW p \in Seq(Name), Lstat(t, p).err = "", Kind(t, Lstat(t, p).at) # "link"
    PROVE  EvalSymlinks(t, p) = Lstat(t, p)
  <1>1. CASE p = <<>>
    BY <1>1 DEF Lstat
  <1>2. CASE p # <<>>
    <2> DEFINE w == EvalSymlinks(t, Front(p))
               q == Append(w.at, Last(p))
    <2>1. /\ IsRecord(w) /\ EvalSymlinks(t, p) = Enter(t, w, Last(p))
          /\ Lstat(t, p) = LstatIn(t, w, Last(p))
      BY <1>2, WalkLast DEF Lstat
    <2> HIDE DEF w, q
    <2>2. w.err = "" /\ Kind(t, w.at) = "dir"
      <3>1. CASE w.err # ""
        BY <2>1, <3>1 DEF LstatIn
      <3>2. CASE w.err = "" /\ Kind(t, w.at) # "dir"
        <4>1. Lstat(t, p) = [w EXCEPT !.err = "io_error"]
          BY <2>1, <3>2 DEF LstatIn
        <4>2. [w EXCEPT !.err = "io_error"].err = "io_error"
          BY <2>1 DEF IsRecord
        <4> QED
          BY <4>1, <4>2
      <3> QED
        BY <3>1, <3>2
    <2>3. PICK e \in {"", "not_found"} :
             /\ Lstat(t, p) = [at |-> q, err |-> e]
             /\ e = "" => q \in DOMAIN t
      BY <2>1, <2>2 DEF LstatIn, q
    <2>8. [at |-> q, err |-> e].err = e /\ [at |-> q, err |-> e].at = q
      OBVIOUS
    <2>7. Lstat(t, p).err = e /\ Lstat(t, p).at = q
      BY <2>3, <2>8
    <2>4. Lstat(t, p) = [at |-> q, err |-> ""] /\ q \in DOMAIN t /\ Kind(t, q) # "link"
      BY <2>3, <2>7
    <2>5. Enter(t, w, Last(p)) = [at |-> q, err |-> ""]
      BY <2>2, <2>4 DEF Enter, q
    <2> QED
      BY <2>1, <2>4, <2>5
  <1> QED
    BY <1>1, <1>2

(***************************************************************************)
(* The invariant.                                                          *)
(***************************************************************************)
\* The steps between the check of a call and its last one, which the guard of
\* the workspace covers.
Guarded == {"check", "publish", "create", "recheck", "remove", "plan", "entry", "unlink"}
Label == Guarded \cup {"idle", "read", "remember", "lock"}

Fields == {"abs", "before", "id", "created", "plan", "removed", "failed"}

IsWork(w) == w = [f \in Fields |-> w[f]]

Shape ==
    /\ pc \in [Conversations -> Label]
    /\ call \in [Conversations -> Calls \cup {Idle}]
    /\ work = [c \in Conversations |-> work[c]]
    /\ out = [c \in Conversations |-> out[c]]
    /\ seen = [c \in Conversations |-> seen[c]]
    /\ shown = [c \in Conversations |-> shown[c]]
    /\ touched = [c \in Conversations |-> touched[c]]
    /\ \A c \in Conversations :
          /\ IsWork(work[c])
          /\ pc[c] # "idle" => call[c] \in Calls
          /\ pc[c] \in Guarded => holder = c

\* What a conversation has a record of it was shown.
Recorded ==
    \A c \in Conversations : \A p \in DOMAIN seen[c] :
       p \in DOMAIN shown[c] /\ shown[c][p] = seen[c][p]

\* The conversation c may replace the file p: somebody outside touched it since
\* the guard was taken, or it holds what the call names or c was shown.
Known(c, p) ==
    \/ p \in touched[c]
    \/ /\ Kind(fs, p) = "file"
       /\ \/ fs[p].data = call[c].expected
          \/ p \in DOMAIN shown[c] /\ shown[c][p] = fs[p].data

Checks ==
    \A c \in Conversations : pc[c] \in {"publish", "recheck", "remove"} => Known(c, work[c].abs)

FileInv == Shape /\ Recorded /\ Checks

(***************************************************************************)
(* What a check has found.                                                 *)
(***************************************************************************)
LEMMA SeenIsShown ==
    ASSUME FileInv, NEW c \in Conversations, NEW p \in Seq(Name),
           Lstat(fs, p).err = "", Kind(fs, Lstat(fs, p).at) # "link",
           checkSeenDigest(c, p) = ""
    PROVE  Known(c, Lstat(fs, p).at)
  <1> DEFINE at == Lstat(fs, p).at
             s == readSnapshot(fs, p)
  <1>1. EvalSymlinks(fs, p) = Lstat(fs, p)
    BY SameFile
  <1>2. s.code = "" /\ s.at \in DOMAIN seen[c] /\ seen[c][s.at] = s.data
    BY DEF checkSeenDigest
  <1>3. s.at = at /\ Kind(fs, at) = "file" /\ s.data = fs[at].data
    BY <1>1, <1>2 DEF readSnapshot
  <1> QED
    BY <1>2, <1>3 DEF FileInv, Recorded, Known

LEMMA NamedIsThere ==
    ASSUME FileInv, NEW c \in Conversations, NEW k, k.path \in Seq(Name), NEW any \in BOOLEAN,
           k = call[c],
           Lstat(fs, k.path).err = "", Kind(fs, Lstat(fs, k.path).at) # "link",
           any => Kind(fs, Lstat(fs, k.path).at) = "file",
           checkDigest(c, k, any) = ""
    PROVE  Known(c, Lstat(fs, k.path).at)
  <1> DEFINE at == Lstat(fs, k.path).at
             s == readSnapshot(fs, k.path)
  <1>1. CASE k.expected = None
    BY <1>1, SeenIsShown DEF checkDigest
  <1>2. CASE k.expected # None
    <2>1. EvalSymlinks(fs, k.path) = Lstat(fs, k.path)
      BY SameFile
    <2>2. checkFileDigest(c, k.path, k.expected, any) = ""
      BY <1>2 DEF checkDigest
    <2>3. CASE any
      BY <2>1, <2>2, <2>3 DEF checkFileDigest, Known
    <2>4. CASE ~any
      <3>1. s.code = "" /\ s.data = k.expected
        BY <2>2, <2>4 DEF checkFileDigest
      <3>2. Kind(fs, at) = "file" /\ s.data = fs[at].data
        BY <2>1, <3>1 DEF readSnapshot
      <3> QED
        BY <3>1, <3>2 DEF Known
    <2> QED
      BY <2>3, <2>4
  <1> QED
    BY <1>1, <1>2

\* The check of a call that will replace or remove a file.
LEMMA CheckedIsKnown ==
    ASSUME FileInv, NEW c \in Conversations, call[c].path \in Seq(Name),
           Checked(c, call[c]).code = "",
           Checked(c, call[c]).then \in {"publish", "recheck", "remove"}
    PROVE  Known(c, Lstat(fs, call[c].path).at)
  <1> DEFINE k == call[c]
             l == Lstat(fs, k.path)
             d == checkDigest(c, k, k.tool = "delete_file")
             v == Checked(c, k)
  <1>1. l.err = ""
    BY DEF Checked
  <1>2. CASE k.tool = "edit_file"
    <2>1. Kind(fs, l.at) # "link" /\ d = ""
      BY <1>1, <1>2 DEF Checked
    <2>2. (k.tool = "delete_file") = FALSE
      BY <1>2
    <2> QED
      BY <1>1, <2>1, <2>2, NamedIsThere
  <1>3. CASE k.tool # "edit_file"
    <2>1. fileTarget(l.at) = "" /\ d = ""
      BY <1>1, <1>3 DEF Checked
    <2>2. Kind(fs, l.at) = "file"
      BY <2>1 DEF fileTarget
    <2>3. (k.tool = "delete_file") \in BOOLEAN
      OBVIOUS
    <2> QED
      BY <1>1, <2>1, <2>2, <2>3, NamedIsThere
  <1> QED
    BY <1>2, <1>3

(***************************************************************************)
(* Steps.                                                                  *)
(***************************************************************************)
GuardHeld == \A d \in Conversations : pc[d] \in Guarded => holder = d

\* The conversation c moves to the step l, and the guard stays where it belongs.
Moves(c, l) ==
    /\ pc' = [pc EXCEPT ![c] = l]
    /\ out' = [d \in Conversations |-> out'[d]]
    /\ GuardHeld'

LEMMA FinishMoves ==
    ASSUME Shape, NEW c \in Conversations, NEW o, Finish(c, o)
    PROVE  Moves(c, "idle")
  <1>1. pc' = [pc EXCEPT ![c] = "idle"] /\ out' = [out EXCEPT ![c] = o]
    BY DEF Finish
  <1>2. out' = [d \in Conversations |-> out'[d]]
    BY <1>1 DEF Shape
  <1>3. ASSUME NEW d \in Conversations, pc'[d] \in Guarded
        PROVE  holder' = d
    <2>1. d # c /\ pc[d] \in Guarded
      BY <1>1, <1>3 DEF Shape, Guarded
    <2>2. holder = d
      BY <2>1 DEF Shape
    <2> QED
      BY <2>1, <2>2 DEF Finish
  <1> QED
    BY <1>1, <1>2, <1>3 DEF Moves, GuardHeld

LEMMA GotoMoves ==
    ASSUME Shape, NEW c \in Conversations, NEW l, Goto(c, l),
           l \in Guarded => pc[c] \in Guarded
    PROVE  Moves(c, l)
  <1>1. pc' = [pc EXCEPT ![c] = l] /\ out' = out /\ holder' = holder
    BY DEF Goto
  <1>2. out' = [d \in Conversations |-> out'[d]]
    BY <1>1 DEF Shape
  <1>3. ASSUME NEW d \in Conversations, pc'[d] \in Guarded
        PROVE  holder' = d
    <2>1. pc[d] \in Guarded
      BY <1>1, <1>3 DEF Shape
    <2> QED
      BY <1>1, <2>1 DEF Shape
  <1> QED
    BY <1>1, <1>2, <1>3 DEF Moves, GuardHeld

\* What a step of the conversation c leaves alone: the rest of each record, and
\* the tree unless c has the guard.
OnlyOf(c) ==
    /\ call' \in [Conversations -> Calls \cup {Idle}]
    /\ work' = [d \in Conversations |-> work'[d]]
    /\ seen' = [d \in Conversations |-> seen'[d]]
    /\ shown' = [d \in Conversations |-> shown'[d]]
    /\ touched' = [d \in Conversations |-> touched'[d]]
    /\ \A d \in Conversations \ {c} :
          /\ call'[d] = call[d] /\ work'[d] = work[d] /\ touched'[d] = touched[d]
          /\ seen'[d] = seen[d] /\ shown'[d] = shown[d]
    /\ pc[c] \in Guarded \/ fs' = fs

\* What it must establish for c itself.
Own(c, l) ==
    /\ IsWork(work[c])
    /\ l # "idle" => call[c] \in Calls
    /\ \A p \in DOMAIN seen[c] : p \in DOMAIN shown[c] /\ shown[c][p] = seen[c][p]
    /\ l \in {"publish", "recheck", "remove"} => Known(c, work[c].abs)

LEMMA StepKeeps ==
    ASSUME FileInv, NEW c \in Conversations, NEW l \in Label,
           Moves(c, l), OnlyOf(c), Own(c, l)'
    PROVE  FileInv'
  <1>1. pc' = [pc EXCEPT ![c] = l] /\ pc \in [Conversations -> Label]
    BY DEF Moves, FileInv, Shape
  <1>2. pc' \in [Conversations -> Label] /\ pc'[c] = l
    BY <1>1
  <1>3. \A d \in Conversations \ {c} : pc'[d] = pc[d]
    BY <1>1
  <1>4. \A d \in Conversations : IsWork(work[d])'
    <2>1. ASSUME NEW d \in Conversations \ {c}
          PROVE  IsWork(work[d])'
      <3>1. IsWork(work[d]) /\ work'[d] = work[d]
        BY DEF FileInv, Shape, OnlyOf
      <3> QED
        BY <3>1 DEF IsWork
    <2> QED
      BY <2>1 DEF Own
  <1>5. \A d \in Conversations : pc'[d] # "idle" => call'[d] \in Calls
    <2>1. ASSUME NEW d \in Conversations \ {c}
          PROVE  pc'[d] # "idle" => call'[d] \in Calls
      BY <1>3 DEF FileInv, Shape, OnlyOf
    <2>2. pc'[c] # "idle" => call'[c] \in Calls
      BY <1>2 DEF Own
    <2> QED
      BY <2>1, <2>2
  <1>6. Shape'
    BY <1>2, <1>4, <1>5 DEF Shape, OnlyOf, Moves, GuardHeld
  <1>7. Recorded'
    <2> SUFFICES ASSUME NEW d \in Conversations, NEW p \in DOMAIN seen'[d]
                 PROVE  p \in DOMAIN shown'[d] /\ shown'[d][p] = seen'[d][p]
      BY DEF Recorded
    <2>1. CASE d = c
      BY <2>1 DEF Own
    <2>2. CASE d # c
      BY <2>2 DEF OnlyOf, FileInv, Recorded
    <2> QED
      BY <2>1, <2>2
  <1>8. Checks'
    <2> SUFFICES ASSUME NEW d \in Conversations, pc'[d] \in {"publish", "recheck", "remove"}
                 PROVE  Known(d, work[d].abs)'
      BY DEF Checks
    <2>1. CASE d = c
      BY <1>2, <2>1 DEF Own
    <2>2. CASE d # c
      <3>1. pc[d] = pc'[d] /\ pc[d] \in Guarded /\ Known(d, work[d].abs)
        BY <1>3, <2>2 DEF FileInv, Checks, Guarded
      <3>2. pc[c] \notin Guarded
        BY <2>2, <3>1 DEF FileInv, Shape
      <3>3. /\ fs' = fs /\ call'[d] = call[d] /\ work'[d] = work[d] /\ touched'[d] = touched[d]
            /\ shown'[d] = shown[d]
        BY <2>2, <3>2 DEF OnlyOf
      <3> QED
        BY <3>1, <3>3 DEF Known, Kind
    <2> QED
      BY <2>1, <2>2
  <1> QED
    BY <1>6, <1>7, <1>8 DEF FileInv

\* The part of OnlyOf and of Own that the records have.
RecordsOf(c) ==
    /\ seen' = [d \in Conversations |-> seen'[d]]
    /\ shown' = [d \in Conversations |-> shown'[d]]
    /\ \A d \in Conversations \ {c} : seen'[d] = seen[d] /\ shown'[d] = shown[d]
    /\ \A p \in DOMAIN seen'[c] : p \in DOMAIN shown'[c] /\ shown'[c][p] = seen'[c][p]

LEMMA SameRecords ==
    ASSUME FileInv, NEW c \in Conversations, seen' = seen, shown' = shown
    PROVE  RecordsOf(c)
  BY DEF FileInv, Shape, Recorded, RecordsOf

LEMMA ToldRecords ==
    ASSUME FileInv, NEW c \in Conversations, NEW at, NEW data,
           seen' = [seen EXCEPT ![c] = Put(@, at, data)],
           shown' = [shown EXCEPT ![c] = Put(@, at, data)]
    PROVE  RecordsOf(c)
  <1>1. /\ seen' = [d \in Conversations |-> IF d = c THEN Put(seen[c], at, data) ELSE seen[d]]
        /\ shown' = [d \in Conversations |-> IF d = c THEN Put(shown[c], at, data) ELSE shown[d]]
    BY DEF FileInv, Shape
  <1>2. seen'[c] = Put(seen[c], at, data) /\ shown'[c] = Put(shown[c], at, data)
    BY <1>1
  <1>3. \A p \in DOMAIN seen[c] : p \in DOMAIN shown[c] /\ shown[c][p] = seen[c][p]
    BY DEF FileInv, Recorded
  <1>4. ASSUME NEW s, NEW h, NEW p \in DOMAIN Put(s, at, data),
               \A q \in DOMAIN s : q \in DOMAIN h /\ h[q] = s[q]
        PROVE  p \in DOMAIN Put(h, at, data) /\ Put(h, at, data)[p] = Put(s, at, data)[p]
    BY <1>4 DEF Put
  <1>5. ASSUME NEW p \in DOMAIN seen'[c]
        PROVE  p \in DOMAIN shown'[c] /\ shown'[c][p] = seen'[c][p]
    <2>1. p \in DOMAIN Put(seen[c], at, data)
      BY <1>2
    <2> QED
      BY <1>2, <1>3, <1>4, <2>1
  <1> QED
    BY <1>1, <1>5 DEF RecordsOf

LEMMA ForgottenRecords ==
    ASSUME FileInv, NEW c \in Conversations, NEW at, NEW directory,
           seen' = [seen EXCEPT ![c] = forgotten(@, at, directory)], shown' = shown
    PROVE  RecordsOf(c)
  <1>1. seen' = [d \in Conversations |->
                   IF d = c THEN forgotten(seen[c], at, directory) ELSE seen[d]]
    BY DEF FileInv, Shape
  <1>2. seen'[c] = forgotten(seen[c], at, directory)
    BY <1>1
  <1>3. \A p \in DOMAIN seen[c] : p \in DOMAIN shown[c] /\ shown[c][p] = seen[c][p]
    BY DEF FileInv, Recorded
  <1>4. ASSUME NEW p \in DOMAIN forgotten(seen[c], at, directory)
        PROVE  p \in DOMAIN seen[c] /\ forgotten(seen[c], at, directory)[p] = seen[c][p]
    BY DEF forgotten, Without
  <1>5. ASSUME NEW p \in DOMAIN seen'[c]
        PROVE  p \in DOMAIN shown'[c] /\ shown'[c][p] = seen'[c][p]
    <2>1. p \in DOMAIN forgotten(seen[c], at, directory)
      BY <1>2
    <2>2. seen'[c][p] = seen[c][p] /\ p \in DOMAIN seen[c]
      BY <1>2, <1>4, <2>1
    <2> QED
      BY <1>3, <2>2
  <1> QED
    BY <1>1, <1>5 DEF RecordsOf, FileInv, Shape

\* A step that changes neither the call nor the work of any conversation, and
\* leaves the paths outsiders touched.
LEMMA IdleOthers ==
    ASSUME FileInv, NEW c \in Conversations, RecordsOf(c),
           call' = call, work' = work, touched' = touched, pc[c] \in Guarded \/ fs' = fs
    PROVE  OnlyOf(c) /\ IsWork(work[c])'
  <1>1. OnlyOf(c)
    BY DEF FileInv, Shape, RecordsOf, OnlyOf
  <1>2. IsWork(work[c])
    BY DEF FileInv, Shape
  <1>3. IsWork(work[c])'
    BY <1>2 DEF IsWork
  <1> QED
    BY <1>1, <1>3

\* A step that keeps the call but sets the work of c, with EXCEPT only.
LEMMA WorkOthers ==
    ASSUME FileInv, NEW c \in Conversations, RecordsOf(c), NEW w,
           call' = call, work' = [work EXCEPT ![c] = w], touched' = touched,
           pc[c] \in Guarded \/ fs' = fs, IsWork(w)
    PROVE  OnlyOf(c) /\ IsWork(work[c])' /\ work'[c] = w
  <1>1. work' = [d \in Conversations |-> IF d = c THEN w ELSE work[d]]
    BY DEF FileInv, Shape
  <1> QED
    BY <1>1 DEF FileInv, Shape, RecordsOf, OnlyOf, IsWork

LEMMA StillWork ==
    ASSUME NEW u, IsWork(u), NEW a, NEW b, NEW i, NEW l
    PROVE  /\ IsWork([u EXCEPT !.before = b, !.abs = a, !.id = i])
           /\ IsWork([u EXCEPT !.plan = l])
           /\ IsWork([u EXCEPT !.removed = l])
  <1>1. u = [f \in Fields |-> u[f]]
    BY DEF IsWork
  <1>2. IsWork([u EXCEPT !.before = b, !.abs = a, !.id = i])
    BY <1>1 DEF IsWork
  <1>3. IsWork([u EXCEPT !.plan = l])
    BY <1>1 DEF IsWork
  <1>4. IsWork([u EXCEPT !.removed = l])
    BY <1>1 DEF IsWork
  <1> QED
    BY <1>2, <1>3, <1>4

LEMMA ReadKeeps ==
    ASSUME FileInv, NEW c \in Conversations, Read(c)
    PROVE  FileInv'
  <1>1. PICK s, n, missing, code :
          /\ IF code = "" THEN Goto(c, "remember") ELSE Finish(c, Outcome(code, FALSE))
          /\ work' = [work EXCEPT ![c].before = s.data, ![c].abs = s.at, ![c].id = n]
          /\ \/ seen' = [seen EXCEPT ![c] = forgotten(@, missing, FALSE)]
             \/ seen' = seen
          /\ TellsAbsent(c, missing) \/ UNCHANGED shown
          /\ pc[c] = "read"
          /\ UNCHANGED <<fs, call, touched>>
    BY ZenonT(30) DEF Read
  <1>2. RecordsOf(c)
    <2>1. shown' = shown
      BY <1>1 DEF TellsAbsent
    <2> QED
      BY <1>1, <2>1, SameRecords, ForgottenRecords
  <1>3. PICK l \in {"idle", "remember"} : Moves(c, l)
    <2>1. CASE code = ""
      <3>1. Goto(c, "remember")
        BY <1>1, <2>1
      <3>2. "remember" \notin Guarded
        BY DEF Guarded
      <3> QED
        BY <3>1, <3>2, GotoMoves DEF FileInv
    <2>2. CASE code # ""
      BY <1>1, <2>2, FinishMoves DEF FileInv
    <2> QED
      BY <2>1, <2>2
  <1> DEFINE w == [work[c] EXCEPT !.before = s.data, !.abs = s.at, !.id = n]
  <1>4. work' = [work EXCEPT ![c] = w]
    BY <1>1 DEF FileInv, Shape
  <1>5. IsWork(w)
    <2>1. IsWork(work[c])
      BY DEF FileInv, Shape
    <2> QED
      BY <2>1, StillWork
  <1> HIDE DEF w
  <1>6. OnlyOf(c) /\ IsWork(work[c])'
    BY <1>1, <1>2, <1>4, <1>5, WorkOthers
  <1>7. Own(c, l)'
    BY <1>1, <1>2, <1>3, <1>6 DEF Own, RecordsOf, FileInv, Shape
  <1>8. l \in Label
    BY DEF Label
  <1> QED
    BY <1>3, <1>6, <1>7, <1>8, StepKeeps

LEMMA RememberKeeps ==
    ASSUME FileInv, NEW c \in Conversations, Remember(c)
    PROVE  FileInv'
  <1>1. PICK o : Finish(c, o) /\ UNCHANGED <<fs, call, work, touched>>
    BY DEF Remember
  <1>2. Moves(c, "idle")
    BY <1>1, FinishMoves DEF FileInv
  <1>3. RecordsOf(c)
    <2>1. CASE seen' = seen /\ shown' = shown
      BY <2>1, SameRecords
    <2>2. CASE ~(seen' = seen /\ shown' = shown)
      <3> DEFINE at == EvalSymlinks(fs, call[c].path).at
      <3>1. /\ remember(c, fs, call[c].path, work[c].before)
            /\ Tells(c, at, work[c].before)
        <4>1. CASE EvalSymlinks(fs, call[c].path).err = ""
          BY <4>1 DEF Remember
        <4>2. CASE EvalSymlinks(fs, call[c].path).err # ""
          BY <2>2, <4>2 DEF Remember
        <4> QED
          BY <4>1, <4>2
      <3>2. /\ seen' = [seen EXCEPT ![c] = Put(@, at, work[c].before)]
            /\ shown' = [shown EXCEPT ![c] = Put(@, at, work[c].before)]
        BY <3>1 DEF remember, Tells
      <3> HIDE DEF at
      <3> QED
        BY <3>2, ToldRecords
    <2> QED
      BY <2>1, <2>2
  <1>4. OnlyOf(c) /\ IsWork(work[c])'
    BY <1>1, <1>3, IdleOthers
  <1>5. Own(c, "idle")'
    BY <1>3, <1>4 DEF Own, RecordsOf
  <1>6. "idle" \in Label
    BY DEF Label
  <1> QED
    BY <1>2, <1>4, <1>5, <1>6, StepKeeps

\* The steps that set neither the call nor the work of c, and after which nothing
\* is about to be replaced.
LEMMA CalmKeeps ==
    ASSUME FileInv, NEW c \in Conversations, NEW l \in Label, Moves(c, l), RecordsOf(c),
           call' = call, work' = work, touched' = touched, pc[c] \in Guarded \/ fs' = fs,
           l \notin {"publish", "recheck", "remove"}, pc[c] # "idle" \/ l = "idle"
    PROVE  FileInv'
  <1>1. OnlyOf(c) /\ IsWork(work[c])'
    BY IdleOthers
  <1>2. l # "idle" => call'[c] \in Calls
    BY DEF FileInv, Shape
  <1>3. Own(c, l)'
    BY <1>1, <1>2 DEF Own, RecordsOf
  <1> QED
    BY <1>1, <1>3, StepKeeps

LEMMA LockKeeps ==
    ASSUME FileInv, NEW c \in Conversations, Lock(c)
    PROVE  FileInv'
  <1>1. /\ pc[c] = "lock" /\ holder = None /\ holder' = c /\ pc' = [pc EXCEPT ![c] = "check"]
        /\ touched' = [touched EXCEPT ![c] = {}]
        /\ UNCHANGED <<fs, seen, call, work, out, shown>>
    BY DEF Lock
  <1>2. Moves(c, "check")
    <2>1. ASSUME NEW d \in Conversations, pc'[d] \in Guarded
          PROVE  holder' = d
      <3>1. CASE d = c
        BY <1>1, <3>1
      <3>2. CASE d # c
        <4>1. pc[d] \in Guarded
          BY <1>1, <2>1, <3>2 DEF FileInv, Shape
        <4>2. holder = d
          BY <4>1 DEF FileInv, Shape
        <4> QED
          BY <1>1, <4>2, FileToolsAssumption DEF FileToolsAssumption
      <3> QED
        BY <3>1, <3>2
    <2>2. out' = [d \in Conversations |-> out'[d]]
      BY <1>1 DEF FileInv, Shape
    <2> QED
      BY <1>1, <2>1, <2>2 DEF Moves, GuardHeld
  <1>3. RecordsOf(c)
    BY <1>1, SameRecords
  <1>4. OnlyOf(c)
    BY <1>1, <1>3 DEF FileInv, Shape, RecordsOf, OnlyOf
  <1>5. Own(c, "check")'
    <2>1. IsWork(work[c]) /\ call'[c] \in Calls
      BY <1>1 DEF FileInv, Shape
    <2> QED
      BY <1>1, <1>3, <2>1 DEF Own, RecordsOf, IsWork
  <1>6. "check" \in Label
    BY DEF Label, Guarded
  <1> QED
    BY <1>2, <1>4, <1>5, <1>6, StepKeeps

LEMMA PublishKeeps ==
    ASSUME FileInv, NEW c \in Conversations, Publish(c) \/ Create(c)
    PROVE  FileInv'
  <1>1. /\ \E o : Finish(c, o)
        /\ UNCHANGED <<call, work, touched>> /\ pc[c] \in {"publish", "create"}
    BY DEF Publish, Create
  <1>2. Moves(c, "idle")
    BY <1>1, FinishMoves DEF FileInv
  <1>3. \/ UNCHANGED <<seen, shown>>
        \/ \E p, data : /\ remember(c, fs', p, data)
                        /\ Tells(c, EvalSymlinks(fs', p).at, data)
    BY DEF Publish, Create
  <1>4. RecordsOf(c)
    <2>1. CASE UNCHANGED <<seen, shown>>
      BY <2>1, SameRecords
    <2>2. CASE \E p, data : /\ remember(c, fs', p, data)
                            /\ Tells(c, EvalSymlinks(fs', p).at, data)
      <3>1. PICK p, data : /\ remember(c, fs', p, data)
                           /\ Tells(c, EvalSymlinks(fs', p).at, data)
        BY <2>2
      <3>2. PICK at : /\ seen' = [seen EXCEPT ![c] = Put(@, at, data)]
                      /\ shown' = [shown EXCEPT ![c] = Put(@, at, data)]
        BY <3>1 DEF remember, Tells
      <3> QED
        BY <3>2, ToldRecords
    <2> QED
      BY <1>3, <2>1, <2>2
  <1>5. "idle" \in Label /\ pc[c] \in Guarded
    BY <1>1 DEF Label, Guarded
  <1> QED
    BY <1>1, <1>2, <1>4, <1>5, CalmKeeps

LEMMA StageFailsKeeps ==
    ASSUME FileInv, NEW c \in Conversations, StageFails(c)
    PROVE  FileInv'
  <1>1. /\ Finish(c, Outcome("io_error", FALSE))
        /\ UNCHANGED <<seen, shown, call, work, touched>> /\ pc[c] \in {"publish", "create"}
    BY DEF StageFails
  <1>2. Moves(c, "idle")
    BY <1>1, FinishMoves DEF FileInv
  <1>3. RecordsOf(c)
    BY <1>1, SameRecords
  <1>4. "idle" \in Label /\ pc[c] \in Guarded
    BY <1>1 DEF Label, Guarded
  <1> QED
    BY <1>1, <1>2, <1>3, <1>4, CalmKeeps

LEMMA RemoveFileKeeps ==
    ASSUME FileInv, NEW c \in Conversations, RemoveFile(c)
    PROVE  FileInv'
  <1>1. /\ \E o : Finish(c, o)
        /\ UNCHANGED <<call, work, touched>> /\ pc[c] = "remove"
        /\ \/ UNCHANGED <<seen, shown>>
           \/ /\ seen' = [seen EXCEPT ![c] = forgotten(@, work[c].abs, FALSE)]
              /\ TellsAbsent(c, work[c].abs)
    BY DEF RemoveFile
  <1>2. Moves(c, "idle")
    BY <1>1, FinishMoves DEF FileInv
  <1>3. RecordsOf(c)
    <2>1. shown' = shown
      BY <1>1 DEF TellsAbsent
    <2> QED
      BY <1>1, <2>1, SameRecords, ForgottenRecords
  <1>4. "idle" \in Label /\ pc[c] \in Guarded
    BY <1>1 DEF Label, Guarded
  <1> QED
    BY <1>1, <1>2, <1>3, <1>4, CalmKeeps

LEMMA EntryKeeps ==
    ASSUME FileInv, NEW c \in Conversations, Entry(c)
    PROVE  FileInv'
  <1>1. /\ (\E o : Finish(c, o)) \/ Goto(c, "unlink")
        /\ UNCHANGED <<fs, call, work, touched, seen, shown>> /\ pc[c] = "entry"
    BY DEF Entry
  <1>2. PICK l \in {"idle", "unlink"} : Moves(c, l)
    <2>1. pc[c] \in Guarded
      BY <1>1 DEF Guarded
    <2> QED
      BY <1>1, <2>1, FinishMoves, GotoMoves DEF FileInv
  <1>3. RecordsOf(c)
    BY <1>1, SameRecords
  <1>4. l \in Label /\ l \notin {"publish", "recheck", "remove"} /\ pc[c] # "idle"
    BY <1>1 DEF Label, Guarded
  <1> QED
    BY <1>1, <1>2, <1>3, <1>4, CalmKeeps

LEMMA RecheckKeeps ==
    ASSUME FileInv, NEW c \in Conversations, Recheck(c)
    PROVE  FileInv'
  <1>1. /\ (\E o : Finish(c, o)) \/ Goto(c, "remove")
        /\ UNCHANGED <<fs, call, work, touched, seen, shown>> /\ pc[c] = "recheck"
    BY DEF Recheck
  <1>2. PICK l \in {"idle", "remove"} : Moves(c, l)
    <2>1. pc[c] \in Guarded
      BY <1>1 DEF Guarded
    <2> QED
      BY <1>1, <2>1, FinishMoves, GotoMoves DEF FileInv
  <1>3. RecordsOf(c)
    BY <1>1, SameRecords
  <1>4. l \in Label /\ pc[c] # "idle"
    BY <1>1 DEF Label, Guarded
  <1>5. OnlyOf(c) /\ IsWork(work[c])'
    BY <1>1, <1>3, IdleOthers
  <1>6. call'[c] \in Calls
    BY <1>1 DEF FileInv, Shape
  <1>7. Known(c, work[c].abs)'
    <2>1. Known(c, work[c].abs)
      BY <1>1 DEF FileInv, Checks
    <2> QED
      BY <1>1, <2>1 DEF Known, Kind
  <1>8. Own(c, l)'
    BY <1>3, <1>5, <1>6, <1>7 DEF Own, RecordsOf
  <1> QED
    BY <1>2, <1>4, <1>5, <1>8, StepKeeps

LEMMA PlanKeeps ==
    ASSUME FileInv, NEW c \in Conversations, Plan(c)
    PROVE  FileInv'
  <1>1. PICK l, plan :
          /\ \/ (\E o : Finish(c, o)) /\ work' = work /\ l = "idle"
             \/ Goto(c, "entry") /\ work' = [work EXCEPT ![c].plan = plan] /\ l = "entry"
          /\ UNCHANGED <<fs, call, touched, seen, shown>> /\ pc[c] = "plan"
    BY DEF Plan
  <1>2. Moves(c, l) /\ l \in Label
    <2>1. pc[c] \in Guarded /\ "entry" \in Label /\ "idle" \in Label
      BY <1>1 DEF Guarded, Label
    <2> QED
      BY <1>1, <2>1, FinishMoves, GotoMoves DEF FileInv
  <1>3. RecordsOf(c)
    BY <1>1, SameRecords
  <1>4. OnlyOf(c) /\ IsWork(work[c])'
    <2>1. CASE work' = work
      BY <1>1, <1>3, <2>1, IdleOthers
    <2>2. CASE work' = [work EXCEPT ![c].plan = plan]
      <3>1. work' = [work EXCEPT ![c] = [work[c] EXCEPT !.plan = plan]]
        BY <2>2 DEF FileInv, Shape
      <3>2. IsWork([work[c] EXCEPT !.plan = plan])
        BY StillWork DEF FileInv, Shape
      <3> QED
        BY <1>1, <1>3, <3>1, <3>2, WorkOthers
    <2> QED
      BY <1>1, <2>1, <2>2
  <1>5. call'[c] \in Calls
    BY <1>1 DEF FileInv, Shape
  <1>6. Own(c, l)'
    BY <1>1, <1>3, <1>4, <1>5 DEF Own, RecordsOf
  <1> QED
    BY <1>2, <1>4, <1>6, StepKeeps

LEMMA UnlinkKeeps ==
    ASSUME FileInv, NEW c \in Conversations, Unlink(c)
    PROVE  FileInv'
  <1>1. PICK p, directory, removed :
          /\ \/ UNCHANGED <<seen, shown, work>> /\ \E o : Finish(c, o)
             \/ /\ seen' = [seen EXCEPT ![c] = forgotten(@, p, directory)]
                /\ TellsAbsent(c, p)
                /\ work' = [work EXCEPT ![c] = [@ EXCEPT !.removed = removed]]
                /\ (\E o : Finish(c, o)) \/ Goto(c, "entry")
          /\ UNCHANGED <<call, touched>> /\ pc[c] = "unlink"
    <2> DEFINE e == work[c].plan[Len(work[c].plan) - Len(work[c].removed)]
    <2>1. \/ UNCHANGED <<seen, shown, work>> /\ \E o : Finish(c, o)
          \/ /\ seen' = [seen EXCEPT ![c] = forgotten(@, e.path, e.kind = "dir")]
             /\ TellsAbsent(c, e.path)
             /\ work' = [work EXCEPT ![c] =
                           [work[c] EXCEPT !.removed = Append(@, e.path)]]
             /\ (\E o : Finish(c, o)) \/ Goto(c, "entry")
      BY DEF Unlink
    <2>2. UNCHANGED <<call, touched>> /\ pc[c] = "unlink"
      BY DEF Unlink
    <2>3. work' = [work EXCEPT ![c] = [work[c] EXCEPT !.removed = Append(@, e.path)]]
            => work' = [work EXCEPT ![c] = [@ EXCEPT !.removed = Append(work[c].removed, e.path)]]
      OBVIOUS
    <2>4. \E directory \in BOOLEAN :
             forgotten(seen[c], e.path, e.kind = "dir") = forgotten(seen[c], e.path, directory)
      <3>1. CASE e.kind = "dir"
        <4>1. (e.kind = "dir") = TRUE
          BY <3>1
        <4> QED
          BY <4>1
      <3>2. CASE e.kind # "dir"
        <4>1. (e.kind = "dir") = FALSE
          BY <3>2
        <4> QED
          BY <4>1
      <3> QED
        BY <3>1, <3>2
    <2>5. PICK directory \in BOOLEAN :
             forgotten(seen[c], e.path, e.kind = "dir") = forgotten(seen[c], e.path, directory)
      BY <2>4
    <2>6. \/ UNCHANGED <<seen, shown, work>> /\ \E o : Finish(c, o)
          \/ /\ seen' = [seen EXCEPT ![c] = forgotten(@, e.path, directory)]
             /\ TellsAbsent(c, e.path)
             /\ work' = [work EXCEPT ![c] = [@ EXCEPT !.removed = Append(work[c].removed, e.path)]]
             /\ (\E o : Finish(c, o)) \/ Goto(c, "entry")
      BY <2>1, <2>3, <2>5
    <2> HIDE DEF e
    <2> QED
      BY <2>2, <2>6
  <1>2. PICK l \in {"idle", "entry"} : Moves(c, l)
    <2>1. pc[c] \in Guarded
      BY <1>1 DEF Guarded
    <2> QED
      BY <1>1, <2>1, FinishMoves, GotoMoves DEF FileInv
  <1>3. RecordsOf(c)
    <2>1. shown' = shown
      BY <1>1 DEF TellsAbsent
    <2> QED
      BY <1>1, <2>1, SameRecords, ForgottenRecords
  <1>4. pc[c] \in Guarded /\ l \in Label /\ pc[c] # "idle"
    BY <1>1 DEF Guarded, Label
  <1>5. OnlyOf(c) /\ IsWork(work[c])'
    <2>1. CASE work' = work
      BY <1>1, <1>3, <1>4, <2>1, IdleOthers
    <2>2. CASE work' = [work EXCEPT ![c] = [@ EXCEPT !.removed = removed]]
      <3>1. work' = [work EXCEPT ![c] = [work[c] EXCEPT !.removed = removed]]
        BY <2>2 DEF FileInv, Shape
      <3>2. IsWork([work[c] EXCEPT !.removed = removed])
        BY StillWork DEF FileInv, Shape
      <3> QED
        BY <1>1, <1>3, <1>4, <3>1, <3>2, WorkOthers
    <2> QED
      BY <1>1, <2>1, <2>2
  <1>6. call'[c] \in Calls
    BY <1>1, <1>4 DEF FileInv, Shape
  <1>7. Own(c, l)'
    BY <1>3, <1>5, <1>6 DEF Own, RecordsOf
  <1> QED
    BY <1>2, <1>4, <1>5, <1>7, StepKeeps

LEMMA ForgetKeeps ==
    ASSUME FileInv, NEW c \in Conversations, Forget(c)
    PROVE  FileInv'
  <1>1. /\ pc[c] = "idle" /\ seen' = [seen EXCEPT ![c] = <<>>]
        /\ shown' = [shown EXCEPT ![c] = <<>>]
        /\ UNCHANGED <<fs, holder, pc, call, work, out, touched>>
    BY DEF Forget
  <1>2. Moves(c, "idle")
    <2>1. pc' = [pc EXCEPT ![c] = "idle"]
      BY <1>1 DEF FileInv, Shape
    <2> QED
      BY <1>1, <2>1 DEF Moves, GuardHeld, FileInv, Shape
  <1>3. RecordsOf(c)
    <2>1. seen'[c] = <<>> /\ DOMAIN seen'[c] = {}
      BY <1>1 DEF FileInv, Shape
    <2> QED
      BY <1>1, <2>1 DEF RecordsOf, FileInv, Shape
  <1>4. "idle" \in Label
    BY DEF Label
  <1> QED
    BY <1>1, <1>2, <1>3, <1>4, CalmKeeps

LEMMA CancelKeeps ==
    ASSUME FileInv, NEW c \in Conversations, Cancel(c)
    PROVE  FileInv'
  <1>1. UNCHANGED <<fs, holder, seen, pc, call, work, out, touched, shown>>
    BY DEF Cancel
  <1>2. Shape'
    BY <1>1 DEF FileInv, Shape, IsWork
  <1>3. Recorded' /\ Checks'
    BY <1>1 DEF FileInv, Recorded, Checks, Known, Kind
  <1> QED
    BY <1>2, <1>3 DEF FileInv

LEMMA CallKeeps ==
    ASSUME FileInv, NEW c \in Conversations, NEW k \in Calls, Call(c, k)
    PROVE  FileInv'
  <1>1. PICK l \in {"idle", "read", "lock"} :
          /\ (l = "idle" /\ \E o : Finish(c, o)) \/ Goto(c, l)
          /\ pc[c] = "idle"
          /\ call' = [call EXCEPT ![c] = k] /\ work' = [work EXCEPT ![c] = NoWork]
          /\ touched' = [touched EXCEPT ![c] = {}]
          /\ UNCHANGED <<fs, seen, shown>>
    BY DEF Call
  <1>2. Moves(c, l) /\ l \in Label
    <2>1. l \notin Guarded /\ l \in Label
      BY DEF Guarded, Label
    <2> QED
      BY <1>1, <2>1, FinishMoves, GotoMoves DEF FileInv
  <1>3. RecordsOf(c)
    BY <1>1, SameRecords
  <1>4. call' \in [Conversations -> Calls \cup {Idle}] /\ call'[c] = k
    BY <1>1 DEF FileInv, Shape
  <1>5. work' = [d \in Conversations |-> IF d = c THEN NoWork ELSE work[d]]
    BY <1>1 DEF FileInv, Shape
  <1>6. OnlyOf(c)
    BY <1>1, <1>3, <1>4, <1>5 DEF FileInv, Shape, RecordsOf, OnlyOf
  <1>7. IsWork(work[c])'
    <2>1. work'[c] = NoWork
      BY <1>5
    <2>2. IsWork(NoWork)
      BY DEF IsWork, NoWork, Fields
    <2> QED
      BY <2>1, <2>2 DEF IsWork
  <1>8. Own(c, l)'
    BY <1>3, <1>4, <1>7 DEF Own, RecordsOf
  <1> QED
    BY <1>2, <1>6, <1>8, StepKeeps

\* What the check leads to when it refuses nothing.
LEMMA CheckedThen ==
    ASSUME NEW c, NEW k, Checked(c, k).code = ""
    PROVE  Checked(c, k).then \in {"create", "plan", "recheck", "publish"}
  BY DEF Checked

LEMMA CheckKeeps ==
    ASSUME FileInv, NEW c \in Conversations, Check(c)
    PROVE  FileInv'
  <1> DEFINE v == Checked(c, call[c])
  <1>1. /\ pc[c] = "check" /\ UNCHANGED <<seen, call, touched, shown>>
        /\ v.code # "" => UNCHANGED <<fs, work>> /\ \E o : Finish(c, o)
        /\ v.code = "" => \E dirs : /\ Goto(c, v.then)
                                    /\ Accept(c, Lstat(fs, call[c].path), dirs)
    BY DEF Check
  <1>2. RecordsOf(c)
    BY <1>1, SameRecords
  <1>3. pc[c] \in Guarded
    BY <1>1 DEF Guarded
  <1>4. call[c] \in Calls /\ call[c].path \in Seq(Name)
    BY <1>1, FileToolsAssumption DEF FileInv, Shape, FileToolsAssumption, Name
  <1>5. CASE v.code # ""
    <2>1. Moves(c, "idle") /\ "idle" \in Label
      BY <1>1, <1>5, FinishMoves DEF FileInv, Label
    <2> QED
      BY <1>1, <1>2, <1>3, <1>5, <2>1, CalmKeeps
  <1>6. CASE v.code = ""
    <2>10. PICK at : at = Lstat(fs, call[c].path).at
      OBVIOUS
    <2>1. PICK l \in {"create", "plan", "recheck", "publish"} : l = v.then
      BY <1>6, CheckedThen
    <2>2. l \in Label /\ Moves(c, l)
      BY <1>1, <1>3, <1>6, <2>1, GotoMoves DEF FileInv, Label, Guarded
    <2>3. PICK dirs : Accept(c, Lstat(fs, call[c].path), dirs)
      BY <1>1, <1>6
    <2>4. PICK d, b, i : work' = [work EXCEPT ![c].abs = at, ![c].created = d,
                                    ![c].before = b, ![c].id = i]
      BY <2>3, <2>10 DEF Accept
    <2>12. PICK u : u = work[c]
      OBVIOUS
    <2>11. PICK w : w = [u EXCEPT !.abs = at, !.created = d, !.before = b, !.id = i]
      OBVIOUS
    <2>5. work' = [work EXCEPT ![c] = w]
      BY <2>4, <2>11, <2>12 DEF FileInv, Shape
    <2>6. IsWork(w) /\ w.abs = at
      <3>1. IsWork(u)
        BY <2>12 DEF FileInv, Shape
      <3>2. u = [f \in Fields |-> u[f]]
        BY <3>1 DEF IsWork
      <3>3. IsWork(w)
        BY <2>11, <3>2 DEF IsWork
      <3>4. w.abs = at
        BY <2>11, <3>2 DEF Fields
      <3> QED
        BY <3>3, <3>4
    <2>7. OnlyOf(c) /\ IsWork(work[c])' /\ work'[c] = w
      BY <1>1, <1>2, <1>3, <2>5, <2>6, WorkOthers
    <2>8. l \in {"publish", "recheck", "remove"} => Known(c, work[c].abs)'
      <3> SUFFICES ASSUME l \in {"publish", "recheck", "remove"}
                   PROVE  Known(c, work[c].abs)'
        OBVIOUS
      <3>1. Known(c, at)
        BY <1>4, <1>6, <2>1, <2>10, CheckedIsKnown
      <3>2. at \in DOMAIN fs => at \in DOMAIN fs' /\ fs'[at] = fs[at]
        BY <2>3 DEF Accept
      <3>3. work'[c].abs = at
        BY <2>6, <2>7
      <3>4. Known(c, at)'
        BY <1>1, <3>1, <3>2 DEF Known, Kind
      <3> QED
        BY <3>3, <3>4 DEF Known
    <2>9. Own(c, l)'
      <3>1. call'[c] \in Calls
        BY <1>1, <1>4
      <3> QED
        BY <1>2, <2>7, <2>8, <3>1 DEF Own, RecordsOf
    <2> QED
      BY <2>2, <2>7, <2>9, StepKeeps
  <1> QED
    BY <1>5, <1>6

LEMMA OutsideKeeps ==
    ASSUME FileInv, NEW p \in Files,
           OutsideRemoves(p) \/ (\E d \in Texts : OutsideWrites(p, d) \/ OutsidePuts(p, d))
    PROVE  FileInv'
  <1>1. \E n : \/ Outside(p, [fs EXCEPT ![p].data = n]) \/ Outside(p, Put(fs, p, n))
               \/ Outside(p, Without(fs, {p}))
    BY DEF OutsideRemoves, OutsideWrites, OutsidePuts
  <1>2. /\ touched' = [c \in Conversations |-> touched[c] \cup {p}]
        /\ UNCHANGED <<holder, seen, pc, call, work, out, shown>>
    BY <1>1 DEF Outside
  <1>3. \A q \in DOMAIN fs : q # p => q \in DOMAIN fs' /\ fs'[q] = fs[q]
    <2>1. CASE \E n : Outside(p, [fs EXCEPT ![p].data = n])
      BY <2>1 DEF Outside
    <2>2. CASE \E n : Outside(p, Put(fs, p, n))
      BY <2>2 DEF Outside, Put
    <2>3. CASE Outside(p, Without(fs, {p}))
      BY <2>3 DEF Outside, Without
    <2> QED
      BY <1>1, <2>1, <2>2, <2>3
  <1>4. Shape'
    BY <1>2 DEF FileInv, Shape, IsWork
  <1>5. Recorded'
    BY <1>2 DEF FileInv, Recorded
  <1>6. Checks'
    <2> SUFFICES ASSUME NEW c \in Conversations, pc'[c] \in {"publish", "recheck", "remove"}
                 PROVE  Known(c, work[c].abs)'
      BY DEF Checks
    <2>1. Known(c, work[c].abs)
      BY <1>2 DEF FileInv, Checks
    <2>2. CASE work[c].abs = p
      BY <1>2, <2>2 DEF Known
    <2>3. CASE work[c].abs # p
      BY <1>2, <1>3, <2>1, <2>3 DEF Known, Kind
    <2> QED
      BY <2>2, <2>3
  <1> QED
    BY <1>4, <1>5, <1>6 DEF FileInv

LEMMA InitKeeps ==
    ASSUME Init
    PROVE  FileInv
  <1>1. IsWork(NoWork)
    BY DEF IsWork, NoWork, Fields
  <1>2. Shape
    <2>1. pc \in [Conversations -> Label] /\ call \in [Conversations -> Calls \cup {Idle}]
      BY DEF Init, Label
    <2>2. /\ work = [c \in Conversations |-> work[c]] /\ out = [c \in Conversations |-> out[c]]
          /\ seen = [c \in Conversations |-> seen[c]] /\ shown = [c \in Conversations |-> shown[c]]
          /\ touched = [c \in Conversations |-> touched[c]]
      BY DEF Init
    <2>3. \A c \in Conversations : IsWork(work[c])
      BY <1>1 DEF Init
    <2>4. \A c \in Conversations : pc[c] = "idle" /\ pc[c] \notin Guarded
      BY DEF Init, Guarded
    <2> QED
      BY <2>1, <2>2, <2>3, <2>4 DEF Shape
  <1>3. Recorded
    BY DEF Init, Recorded
  <1>4. Checks
    BY DEF Init, Checks
  <1> QED
    BY <1>2, <1>3, <1>4 DEF FileInv

LEMMA NextKeeps ==
    ASSUME FileInv, [Next]_vars
    PROVE  FileInv'
  <1>1. ASSUME NEW c \in Conversations, Step(c)
        PROVE  FileInv'
    BY <1>1, ReadKeeps, RememberKeeps, LockKeeps, CheckKeeps, PublishKeeps, RecheckKeeps,
       RemoveFileKeeps, PlanKeeps, EntryKeeps, UnlinkKeeps DEF Step
  <1>2. ASSUME NEW c \in Conversations,
               StageFails(c) \/ Cancel(c) \/ Forget(c) \/ \E k \in Calls : Call(c, k)
        PROVE  FileInv'
    BY <1>2, StageFailsKeeps, CancelKeeps, ForgetKeeps, CallKeeps
  <1>3. CASE UNCHANGED vars
    <2>1. UNCHANGED <<fs, holder, seen, pc, call, work, out, touched, shown>>
      BY <1>3 DEF vars
    <2>2. Shape'
      BY <2>1 DEF FileInv, Shape, IsWork
    <2>3. Recorded' /\ Checks'
      BY <2>1 DEF FileInv, Recorded, Checks, Known, Kind
    <2> QED
      BY <2>2, <2>3 DEF FileInv
  <1> QED
    BY <1>1, <1>2, <1>3, OutsideKeeps DEF Next

(***************************************************************************)
(* Creations.                                                              *)
(***************************************************************************)
\* A creation that succeeds has found its name free, and adds it alone.
LEMMA CreateKeepsArrivals ==
    ASSUME FileInv, NEW c \in Conversations, Create(c), out'[c].effect,
           NEW p \in DOMAIN fs
    PROVE  p \in DOMAIN fs' /\ fs'[p] = fs[p]
  <1> DEFINE q == Append(EvalSymlinks(fs, Front(call[c].path)).at, Last(call[c].path))
             code == linkCode(q)
  <1>1. code = ""
    <2> SUFFICES ASSUME code # "" PROVE FALSE
      OBVIOUS
    <2>1. Finish(c, Outcome(code, FALSE))
      BY DEF Create
    <2>2. out'[c] = Outcome(code, FALSE)
      BY <2>1 DEF Finish, FileInv, Shape
    <2>3. Outcome(code, FALSE).effect = FALSE
      BY DEF Outcome
    <2> QED
      BY <2>2, <2>3
  <1>2. fs' = Put(fs, q, File(call[c].data, ids + 1))
    BY <1>1 DEF Create
  <1>3. q \notin DOMAIN fs
    BY <1>1 DEF linkCode
  <1> QED
    BY <1>2, <1>3 DEF Put

\* Nothing else than a step of its own ends a creation.
LEMMA CreatesOnly ==
    ASSUME FileInv, Next, NEW c \in Conversations, pc[c] = "create", pc'[c] # pc[c]
    PROVE  Create(c) \/ StageFails(c)
  <1>1. ASSUME NEW d \in Conversations, d # c,
               Step(d) \/ StageFails(d) \/ Cancel(d) \/ Forget(d) \/ \E k \in Calls : Call(d, k)
        PROVE  pc'[c] = pc[c]
    <2>1. pc' = pc \/ \E l : pc' = [pc EXCEPT ![d] = l]
      BY <1>1 DEF Step, Read, Remember, Lock, Check, Publish, Create, Recheck, RemoveFile, Plan,
                  Entry, Unlink, StageFails, Cancel, Forget, Call, Finish, Goto
    <2> QED
      BY <1>1, <2>1 DEF FileInv, Shape
  <1>2. ASSUME Step(c) \/ StageFails(c) \/ Cancel(c) \/ Forget(c) \/ \E k \in Calls : Call(c, k)
        PROVE  Create(c) \/ StageFails(c)
    BY <1>2 DEF Step, Read, Remember, Lock, Check, Publish, Recheck, RemoveFile, Plan,
                Entry, Unlink, Cancel, Forget, Call
  <1>3. ASSUME NEW p \in Files,
               OutsideRemoves(p) \/ \E d \in Texts : OutsideWrites(p, d) \/ OutsidePuts(p, d)
        PROVE  pc'[c] = pc[c]
    BY <1>3 DEF OutsideRemoves, OutsideWrites, OutsidePuts, Outside
  <1> QED
    BY <1>1, <1>2, <1>3 DEF Next

(***************************************************************************)
(* Whatever the trees, their links and the calls, and however many           *)
(* conversations use the tools at once: a tool replaces or removes only the  *)
(* version its call named or its own conversation was shown, unless somebody *)
(* outside the tools changed the file since the guard was taken, and a       *)
(* creation replaces nothing (publishMu, checkSeenDigest, checkFileDigest    *)
(* and the link in publishNew).                                              *)
(***************************************************************************)
THEOREM VersionsAreKept == Spec => VersionsKept
  <1>1. Init => FileInv
    BY InitKeeps
  <1>2. FileInv /\ [Next]_vars => FileInv'
    BY NextKeeps
  <1>3. ASSUME FileInv PROVE ReplacesKnown
    <2>1. ASSUME NEW c \in Conversations, pc[c] \in {"publish", "remove"}
          PROVE  Known(c, work[c].abs)
      BY <1>3, <2>1 DEF FileInv, Checks
    <2> QED
      BY <2>1 DEF ReplacesKnown, Known
  <1>4. ASSUME FileInv, Next PROVE KeepsArrivals
    <2> SUFFICES ASSUME NEW c \in Conversations, pc[c] = "create", pc'[c] = "idle", out'[c].effect,
                        NEW p \in DOMAIN fs
                 PROVE  p \in DOMAIN fs' /\ fs'[p] = fs[p]
      BY DEF KeepsArrivals
    <2>1. Create(c) \/ StageFails(c)
      BY <1>4, CreatesOnly
    <2>2. ~StageFails(c)
      <3> SUFFICES ASSUME StageFails(c) PROVE FALSE
        OBVIOUS
      <3>1. Finish(c, Outcome("io_error", FALSE))
        BY DEF StageFails
      <3>2. out'[c] = Outcome("io_error", FALSE)
        BY <1>4, <3>1 DEF Finish, FileInv, Shape
      <3> QED
        BY <3>2 DEF Outcome
    <2> QED
      BY <1>4, <2>1, <2>2, CreateKeepsArrivals
  <1>5. FileInv /\ [Next]_vars => [ReplacesKnown /\ KeepsArrivals]_vars
    BY <1>3, <1>4
  <1> QED
    BY <1>1, <1>2, <1>5, PTL DEF Spec, VersionsKept


(***************************************************************************)
(* Lists in order: InOrder holds every member of a finite set just once.    *)
(***************************************************************************)
\* A set in which everything is comparable: B gives what is below a member.
Ordering(S, B) ==
    /\ \A x \in S : B[x] \subseteq S \ {x}
    /\ \A x, y \in S : x # y => \/ x \in B[y] /\ B[x] \subseteq B[y]
                                \/ y \in B[x] /\ B[y] \subseteq B[x]

LEMMA PlacesTaken ==
    ASSUME NEW S, IsFiniteSet(S), NEW B, Ordering(S, B), NEW i \in 1..Cardinality(S)
    PROVE  \E x \in S : Cardinality(B[x]) = i - 1
  <1> DEFINE n == Cardinality(S)
             place == [x \in S |-> Cardinality(B[x])]
             T == 0..(n - 1)
  <1>1. n \in Nat /\ IsFiniteSet(T) /\ Cardinality(T) = n
    <2>1. n \in Nat
      BY FS_CardinalityType
    <2>2. 0 \in Int /\ n - 1 \in Int
      BY <2>1
    <2> HIDE DEF n
    <2>3. IsFiniteSet(0..(n - 1)) /\ Cardinality(0..(n - 1)) = IF 0 > n - 1 THEN 0 ELSE n - 1 - 0 + 1
      BY <2>2, FS_Interval
    <2> QED
      BY <2>1, <2>3
  <1>2. ASSUME NEW x \in S
        PROVE  IsFiniteSet(B[x]) /\ Cardinality(B[x]) \in T
    <2>1. B[x] \in SUBSET (S \ {x}) /\ S \ {x} \in SUBSET S
      BY DEF Ordering
    <2>2. IsFiniteSet(S \ {x}) /\ Cardinality(S \ {x}) = n - 1
      BY FS_RemoveElement
    <2>3. IsFiniteSet(B[x]) /\ Cardinality(B[x]) <= n - 1
      BY <2>1, <2>2, FS_Subset
    <2> QED
      BY <1>1, <2>3, FS_CardinalityType
  <1>3. ASSUME NEW x \in S, NEW y \in S, x \in B[y], B[x] \subseteq B[y]
        PROVE  Cardinality(B[x]) # Cardinality(B[y])
    <2>1. B[x] \in SUBSET B[y] /\ x \notin B[x]
      BY <1>3 DEF Ordering
    <2> QED
      BY <1>2, <1>3, <2>1, FS_Subset
  <1>4. place \in Injection(S, T)
    <2>1. place \in [S -> T]
      BY <1>2
    <2>2. ASSUME NEW x \in S, NEW y \in S, place[x] = place[y]
          PROVE  x = y
      <3> SUFFICES ASSUME x # y PROVE FALSE
        OBVIOUS
      <3>1. Cardinality(B[x]) = Cardinality(B[y])
        BY <2>2
      <3>2. \/ x \in B[y] /\ B[x] \subseteq B[y]
            \/ y \in B[x] /\ B[y] \subseteq B[x]
        BY DEF Ordering
      <3> QED
        BY <1>3, <3>1, <3>2
    <2> QED
      BY <2>1, <2>2 DEF Injection, IsInjective
  <1>5. place \in Surjection(S, T)
    <2> HIDE DEF place, T, n
    <2> QED
      BY <1>1, <1>4, FS_Injection DEF n
  <1>6. i - 1 \in T
    BY <1>1
  <1>7. PICK x \in S : place[x] = i - 1
    <2> HIDE DEF place, T
    <2> QED
      BY <1>5, <1>6 DEF Surjection
  <1> QED
    BY <1>7

\* A list that has at each place a member with as many below it has them all, once.
Lists(s, S) ==
    /\ s = [i \in 1..Cardinality(S) |-> s[i]]
    /\ \A i \in 1..Cardinality(S) : s[i] \in S
    /\ \A i, j \in 1..Cardinality(S) : s[i] = s[j] => i = j
    /\ \A x \in S : \E i \in 1..Cardinality(S) : s[i] = x

Placed(s, S, B) ==
    /\ s = [i \in 1..Cardinality(S) |-> s[i]]
    /\ \A i \in 1..Cardinality(S) :
          (\E x \in S : Cardinality(B[x]) = i - 1)
             => s[i] \in S /\ Cardinality(B[s[i]]) = i - 1

LEMMA OrderedLists ==
    ASSUME NEW S, IsFiniteSet(S), NEW B, Ordering(S, B), NEW s, Placed(s, S, B)
    PROVE  Lists(s, S)
  <1> DEFINE n == Cardinality(S)
  <1>1. n \in Nat
    BY FS_CardinalityType
  <1>2. \A i \in 1..n : s[i] \in S /\ Cardinality(B[s[i]]) = i - 1
    BY PlacesTaken DEF Placed
  <1>3. \A i, j \in 1..n : s[i] = s[j] => i = j
    BY <1>1, <1>2
  <1>4. s \in Injection(1..n, S)
    <2>1. s \in [1..n -> S]
      BY <1>2 DEF Placed
    <2> QED
      BY <1>3, <2>1 DEF Injection, IsInjective
  <1>5. Cardinality(1..n) = n
    BY <1>1, FS_Interval
  <1>6. s \in Surjection(1..n, S)
    <2> HIDE DEF n
    <2> QED
      BY <1>4, <1>5, FS_Injection DEF n
  <1> QED
    BY <1>2, <1>3, <1>6 DEF Lists, Placed, Surjection

(***************************************************************************)
(* The order of WalkDir compares every two paths.                          *)
(***************************************************************************)
TreePath == Seq(Name)

\* The paths agree up to the name i, where p ends or has the smaller name.
Parts(p, q, i) ==
    /\ i \in 1..Len(q) /\ i <= Len(p) + 1
    /\ \A j \in 1..(i - 1) : p[j] = q[j]
    /\ i <= Len(p) => Rank[p[i]] < Rank[q[i]]

LEMMA PrefixIs ==
    ASSUME NEW q \in TreePath, NEW l \in 0..Len(q)
    PROVE  /\ SubSeq(q, 1, l) \in TreePath /\ Len(SubSeq(q, 1, l)) = l
           /\ \A j \in 1..l : SubSeq(q, 1, l)[j] = q[j]
  <1>1. \A i \in 1..l : q[i] \in Name
    BY DEF TreePath
  <1>2. l \in Int /\ 1 \in Int
    OBVIOUS
  <1>3. /\ SubSeq(q, 1, l) \in Seq(Name)
        /\ Len(SubSeq(q, 1, l)) = IF 1 <= l THEN l - 1 + 1 ELSE 0
        /\ \A i \in 1 .. l - 1 + 1 : SubSeq(q, 1, l)[i] = q[1 + i - 1]
    BY <1>1, <1>2, SubSeqProperties
  <1> QED
    BY <1>2, <1>3 DEF TreePath

LEMMA UnderIs ==
    ASSUME NEW p \in TreePath, NEW q \in TreePath
    PROVE  Under(p, q) <=> Len(p) <= Len(q) /\ \A j \in 1..Len(p) : p[j] = q[j]
  <1>1. ASSUME Under(p, q)
        PROVE  Len(p) <= Len(q) /\ \A j \in 1..Len(p) : p[j] = q[j]
    <2>1. PICK l \in 0..Len(q) : p = SubSeq(q, 1, l)
      BY <1>1 DEF Under, Prefixes
    <2> QED
      BY <2>1, PrefixIs
  <1>2. ASSUME Len(p) <= Len(q), \A j \in 1..Len(p) : p[j] = q[j]
        PROVE  Under(p, q)
    <2>1. Len(p) \in 0..Len(q) /\ Len(q) \in Nat
      BY <1>2 DEF TreePath
    <2>2. p = SubSeq(q, 1, Len(p))
      BY <1>2, <2>1, PrefixIs, SeqEqual DEF TreePath
    <2> QED
      BY <2>1, <2>2 DEF Under, Prefixes
  <1> QED
    BY <1>1, <1>2

LEMMA BeforeParts ==
    ASSUME NEW p \in TreePath, NEW q \in TreePath, p # q
    PROVE  Before(p, q) <=> \E i \in Nat : Parts(p, q, i)
  <1>1. Len(p) \in Nat /\ Len(q) \in Nat /\ DOMAIN p = 1..Len(p) /\ DOMAIN q = 1..Len(q)
    BY DEF TreePath
  <1>2. ASSUME Under(p, q)
        PROVE  \E i \in Nat : Parts(p, q, i)
    <2>1. Len(p) <= Len(q) /\ \A j \in 1..Len(p) : p[j] = q[j]
      BY <1>2, UnderIs
    <2>2. Len(p) # Len(q)
      BY <2>1, SeqEqual DEF TreePath
    <2>4. PICK i \in Nat : i = Len(p) + 1
      BY <1>1
    <2>5. i \in 1..Len(q) /\ \A j \in 1..(i - 1) : p[j] = q[j]
      <3>1. i \in 1..Len(q)
        <4>2. Len(p) <= Len(q) /\ Len(p) # Len(q) /\ Len(p) \in Nat /\ Len(q) \in Nat
          BY <1>1, <2>1, <2>2
        <4>1. Len(p) < Len(q)
          BY <4>2
        <4> QED
          BY <1>1, <2>4, <4>1
      <3>2. i - 1 = Len(p)
        BY <1>1, <2>4
      <3> QED
        BY <2>1, <3>1, <3>2
    <2>6. ~(i <= Len(p))
      BY <1>1, <2>4
    <2>3. Parts(p, q, i)
      BY <1>1, <2>4, <2>5, <2>6 DEF Parts
    <2> QED
      BY <2>3
  <1>3. ASSUME NEW i \in DOMAIN p \cap DOMAIN q, SubSeq(p, 1, i - 1) = SubSeq(q, 1, i - 1),
               Rank[p[i]] < Rank[q[i]]
        PROVE  Parts(p, q, i)
    <2>1. i \in 1..Len(p) /\ i \in 1..Len(q) /\ i - 1 \in 0..Len(p) /\ i - 1 \in 0..Len(q)
      BY <1>1
    <2>2. \A j \in 1..(i - 1) : p[j] = q[j]
      BY <1>3, <2>1, PrefixIs
    <2> QED
      BY <1>1, <1>3, <2>1, <2>2 DEF Parts
  <1>4. ASSUME NEW i \in Nat, Parts(p, q, i)
        PROVE  Before(p, q)
    <2>1. CASE i = Len(p) + 1
      <3>1. Len(p) <= Len(q) /\ \A j \in 1..Len(p) : p[j] = q[j]
        BY <1>1, <1>4, <2>1 DEF Parts
      <3> QED
        BY <3>1, UnderIs DEF Before
    <2>2. CASE i <= Len(p)
      <3>1. i \in DOMAIN p \cap DOMAIN q /\ Rank[p[i]] < Rank[q[i]]
            /\ i - 1 \in 0..Len(p) /\ i - 1 \in 0..Len(q)
        BY <1>1, <1>4, <2>2 DEF Parts
      <3> DEFINE a == SubSeq(p, 1, i - 1)
                 b == SubSeq(q, 1, i - 1)
      <3>2. /\ a \in TreePath /\ b \in TreePath /\ Len(a) = i - 1 /\ Len(b) = i - 1
            /\ \A j \in 1..(i - 1) : a[j] = p[j] /\ b[j] = q[j]
        BY <3>1, PrefixIs
      <3>3. \A j \in 1..(i - 1) : p[j] = q[j]
        BY <1>4 DEF Parts
      <3> HIDE DEF a, b
      <3>4. a = b
        BY <3>2, <3>3, SeqEqual DEF TreePath
      <3> QED
        BY <3>1, <3>4 DEF Before, a, b
    <2> QED
      BY <1>1, <1>4, <2>1, <2>2 DEF Parts
  <1>5. ASSUME Before(p, q)
        PROVE  \E i \in Nat : Parts(p, q, i)
    <2>1. CASE Under(p, q)
      BY <1>2, <2>1
    <2>2. CASE ~Under(p, q)
      <3>1. PICK i \in DOMAIN p \cap DOMAIN q :
              SubSeq(p, 1, i - 1) = SubSeq(q, 1, i - 1) /\ Rank[p[i]] < Rank[q[i]]
        BY <1>5, <2>2 DEF Before
      <3> QED
        BY <1>1, <1>3, <3>1
    <2> QED
      BY <2>1, <2>2
  <1> QED
    BY <1>4, <1>5

LEMMA PartsTransitive ==
    ASSUME NEW p \in TreePath, NEW q \in TreePath, NEW r \in TreePath,
           NEW i \in Nat, NEW j \in Nat, Parts(p, q, i), Parts(q, r, j)
    PROVE  \E k \in Nat : Parts(p, r, k)
  <1>1. Len(p) \in Nat /\ Len(q) \in Nat /\ Len(r) \in Nat
    BY DEF TreePath
  <1>0. \A m \in 1..Len(p) : Rank[p[m]] \in Nat
    BY FileToolsAssumption DEF FileToolsAssumption, TreePath, Name
  <1>9. \A m \in 1..Len(q) : Rank[q[m]] \in Nat
    BY FileToolsAssumption DEF FileToolsAssumption, TreePath, Name
  <1>8. \A m \in 1..Len(r) : Rank[r[m]] \in Nat
    BY FileToolsAssumption DEF FileToolsAssumption, TreePath, Name
  <1>2. CASE i < j
    <2>1. q[i] = r[i] /\ i \in 1..Len(r)
      BY <1>1, <1>2 DEF Parts
    <2>2. \A m \in 1..(i - 1) : p[m] = r[m]
      BY <1>1, <1>2 DEF Parts
    <2>3. Parts(p, r, i)
      BY <1>1, <2>1, <2>2 DEF Parts
    <2> QED
      BY <2>3
  <1>3. CASE j < i
    <2>1. p[j] = q[j] /\ j \in 1..Len(r) /\ j <= Len(p) /\ j <= Len(q)
      BY <1>1, <1>3 DEF Parts
    <2>2. \A m \in 1..(j - 1) : p[m] = r[m]
      BY <1>1, <1>3 DEF Parts
    <2>3. Parts(p, r, j)
      BY <1>1, <2>1, <2>2 DEF Parts
    <2> QED
      BY <2>3
  <1>4. CASE i = j
    <2>1. i \in 1..Len(r) /\ i \in 1..Len(q) /\ Rank[q[i]] < Rank[r[i]]
      BY <1>1, <1>4 DEF Parts
    <2>2. \A m \in 1..(i - 1) : p[m] = r[m]
      BY <1>1, <1>4 DEF Parts
    <2>3. i <= Len(p) => Rank[p[i]] < Rank[r[i]]
      <3> SUFFICES ASSUME i <= Len(p) PROVE Rank[p[i]] < Rank[r[i]]
        OBVIOUS
      <3>1. Rank[p[i]] < Rank[q[i]] /\ i \in 1..Len(p)
        BY <2>1 DEF Parts
      <3> QED
        BY <1>0, <1>8, <1>9, <2>1, <3>1
    <2>4. Parts(p, r, i)
      BY <1>1, <2>1, <2>2, <2>3 DEF Parts
    <2> QED
      BY <2>4
  <1> QED
    BY <1>2, <1>3, <1>4

LEMMA PartsNotSelf ==
    ASSUME NEW p \in TreePath, NEW i \in Nat, Parts(p, p, i)
    PROVE  FALSE
  <1>1. i \in 1..Len(p) /\ Rank[p[i]] < Rank[p[i]]
    BY DEF Parts
  <1>2. Rank[p[i]] \in Nat
    BY <1>1, FileToolsAssumption DEF FileToolsAssumption, TreePath, Name
  <1> QED
    BY <1>1, <1>2

LEMMA PartsTotal ==
    ASSUME NEW p \in TreePath, NEW q \in TreePath, p # q
    PROVE  (\E i \in Nat : Parts(p, q, i)) \/ (\E i \in Nat : Parts(q, p, i))
  <1>1. Len(p) \in Nat /\ Len(q) \in Nat
    BY DEF TreePath
  <1> DEFINE Apart == (\E i \in Nat : Parts(p, q, i)) \/ (\E i \in Nat : Parts(q, p, i))
             Agree(j) == j <= Len(p) /\ j <= Len(q) /\ \A m \in 1..j : p[m] = q[m]
             S == {j \in Nat : Apart \/ Agree(j)}
  <1>2. 0 \in S
    BY <1>1
  <1>3. ASSUME NEW j \in Nat, j \in S
        PROVE  j + 1 \in S
    <2> SUFFICES ASSUME ~Apart PROVE Agree(j + 1)
      OBVIOUS
    <2>1. Agree(j)
      BY <1>3
    <2>2. j < Len(q)
      <3> SUFFICES ASSUME j = Len(q) PROVE FALSE
        BY <1>1, <2>1
      <3>1. Len(p) # Len(q)
        BY <2>1, SeqEqual DEF TreePath
      <3>2. Parts(q, p, j + 1)
        BY <1>1, <2>1, <3>1 DEF Parts
      <3> QED
        BY <3>2
    <2>3. j < Len(p)
      <3> SUFFICES ASSUME j = Len(p) PROVE FALSE
        BY <1>1, <2>1
      <3>2. Parts(p, q, j + 1)
        BY <1>1, <2>1, <2>2 DEF Parts
      <3> QED
        BY <3>2
    <2>4. /\ p[j + 1] \in Name /\ q[j + 1] \in Name
          /\ Rank[p[j + 1]] \in Nat /\ Rank[q[j + 1]] \in Nat
      BY SMTT(30), <1>1, <2>2, <2>3, FileToolsAssumption DEF FileToolsAssumption, TreePath, Name
    <2>5. ~(Rank[p[j + 1]] < Rank[q[j + 1]])
      <3> SUFFICES ASSUME Rank[p[j + 1]] < Rank[q[j + 1]] PROVE FALSE
        OBVIOUS
      <3>1. Parts(p, q, j + 1)
        BY <1>1, <2>1, <2>2, <2>3 DEF Parts
      <3> QED
        BY <3>1
    <2>6. ~(Rank[q[j + 1]] < Rank[p[j + 1]])
      <3> SUFFICES ASSUME Rank[q[j + 1]] < Rank[p[j + 1]] PROVE FALSE
        OBVIOUS
      <3>1. Parts(q, p, j + 1)
        BY <1>1, <2>1, <2>2, <2>3 DEF Parts
      <3> QED
        BY <3>1
    <2>7. p[j + 1] = q[j + 1]
      <3>1. Rank[p[j + 1]] = Rank[q[j + 1]]
        BY <2>4, <2>5, <2>6
      <3> QED
        BY <2>4, <3>1, FileToolsAssumption DEF FileToolsAssumption, Name
    <2> QED
      BY <1>1, <2>1, <2>2, <2>3, <2>7
  <1>4. \A j \in Nat : j \in S
    <2> HIDE DEF S
    <2> QED
      BY <1>2, <1>3, UpFromZero
  <1>5. ~Agree(Len(p) + 1)
    BY <1>1
  <1>6. Len(p) + 1 \in S
    BY <1>1, <1>4
  <1> QED
    BY <1>5, <1>6

(***************************************************************************)
(* What deleteTree walks over, and the parents a creation makes.            *)
(***************************************************************************)
LEMMA WalkDirLists ==
    ASSUME NEW t, IsTree(t), NEW p
    PROVE  Lists(WalkDir(t, p), {q \in DOMAIN t : Under(p, q)})
  <1> DEFINE S == {q \in DOMAIN t : Under(p, q)}
             B == [x \in S |-> {y \in S : y # x /\ Before(y, x)}]
             s == WalkDir(t, p)
  <1>1. IsFiniteSet(S) /\ S \subseteq TreePath
    BY FS_Subset DEF IsTree, TreePath, Name
  <1>2. Ordering(S, B)
    <2>1. \A x \in S : B[x] \subseteq S \ {x}
      OBVIOUS
    <2>2. ASSUME NEW x \in S, NEW y \in S, x # y, Before(x, y)
          PROVE  x \in B[y] /\ B[x] \subseteq B[y]
      <3>1. PICK i \in Nat : Parts(x, y, i)
        BY <1>1, <2>2, BeforeParts
      <3>2. ASSUME NEW z \in B[x]
            PROVE  z \in B[y]
        <4>1. z \in S /\ z # x /\ Before(z, x)
          OBVIOUS
        <4>2. PICK j \in Nat : Parts(z, x, j)
          BY <1>1, <4>1, BeforeParts
        <4>3. PICK k \in Nat : Parts(z, y, k)
          BY <1>1, <3>1, <4>1, <4>2, PartsTransitive
        <4>4. z # y
          BY <1>1, <4>1, <4>3, PartsNotSelf
        <4>5. Before(z, y)
          BY <1>1, <4>1, <4>3, <4>4, BeforeParts
        <4> QED
          BY <4>1, <4>4, <4>5
      <3> QED
        BY <2>2, <3>2
    <2>3. ASSUME NEW x \in S, NEW y \in S, x # y
          PROVE  Before(x, y) \/ Before(y, x)
      BY <1>1, <2>3, BeforeParts, PartsTotal
    <2> HIDE DEF B
    <2> QED
      BY <2>1, <2>2, <2>3 DEF Ordering
  <1>3. s = [i \in 1..Cardinality(S) |->
               CHOOSE x \in S : Cardinality({y \in S : y # x /\ Before(y, x)}) = i - 1]
    BY DEF WalkDir, InOrder
  <1>4. ASSUME NEW i \in 1..Cardinality(S), \E x \in S : Cardinality(B[x]) = i - 1
        PROVE  s[i] \in S /\ Cardinality(B[s[i]]) = i - 1
    <2> DEFINE P(x) == Cardinality({y \in S : y # x /\ Before(y, x)}) = i - 1
    <2>1. \E x \in S : P(x)
      BY <1>4
    <2>2. s[i] = CHOOSE x \in S : P(x)
      BY <1>3
    <2> HIDE DEF P
    <2>3. s[i] \in S /\ P(s[i])
      BY <2>1, <2>2
    <2> QED
      BY <2>3 DEF P
  <1>5. s = [i \in 1..Cardinality(S) |-> s[i]]
    BY <1>3
  <1>6. Lists(s, S)
    <2>1. \A i \in 1..Cardinality(S) :
             (\E x \in S : Cardinality(B[x]) = i - 1)
                => s[i] \in S /\ Cardinality(B[s[i]]) = i - 1
      <3> HIDE DEF B, s, S
      <3> QED
        BY <1>4
    <2>2. IsFiniteSet(S)
      BY <1>1
    <2> HIDE DEF B, s, S
    <2>3. Placed(s, S, B)
      BY <1>5, <2>1 DEF Placed
    <2> QED
      BY <1>2, <2>2, <2>3, OrderedLists
  <1> QED
    BY <1>6

LEMMA ParentsListed ==
    ASSUME NEW p \in TreePath, p # <<>>
    PROVE  Lists(missingParents(p), {q \in Prefixes(Front(p)) : EvalSymlinks(fs, q).err = "not_found"})
  <1> DEFINE S == {q \in Prefixes(Front(p)) : EvalSymlinks(fs, q).err = "not_found"}
             B == [x \in S |-> {y \in S : y # x /\ Len(y) < Len(x)}]
             s == missingParents(p)
             f == Front(p)
             n == Len(f)
  <1>0. f \in TreePath /\ n \in Nat
    BY DEF TreePath, Front
  <1>1. S \subseteq {SubSeq(f, 1, l) : l \in 0..n}
    BY DEF Prefixes
  <1>9. ASSUME NEW x \in S
        PROVE  x \in TreePath /\ Len(x) \in 0..n /\ x = SubSeq(f, 1, Len(x))
    <2> HIDE DEF S, f
    <2>1. PICK l \in 0..n : x = SubSeq(f, 1, l)
      BY <1>1
    <2>2. x \in TreePath /\ Len(x) = l
      BY <1>0, <2>1, PrefixIs
    <2> QED
      BY <2>1, <2>2
  <1>8. IsFiniteSet(S)
    <2> DEFINE T == 0..n
               g == [x \in S |-> Len(x)]
    <2>1. IsFiniteSet(T)
      <3>1. 0 \in Int /\ n \in Int
        BY <1>0
      <3> HIDE DEF n
      <3> QED
        BY <3>1, FS_Interval
    <2>2. g \in Injection(S, T)
      <3> HIDE DEF S, f, n
      <3>1. g \in [S -> T]
        BY <1>9
      <3>2. ASSUME NEW x \in S, NEW y \in S, g[x] = g[y]
            PROVE  x = y
        BY <1>9, <3>2
      <3> QED
        BY <3>1, <3>2 DEF Injection, IsInjective
    <2> HIDE DEF S, T, g
    <2> QED
      BY <2>1, <2>2, FS_Injection
  <1>2. Ordering(S, B)
    <2>1. \A x \in S : B[x] \subseteq S \ {x}
      OBVIOUS
    <2>2. ASSUME NEW x \in S, NEW y \in S, x # y
          PROVE  \/ x \in B[y] /\ B[x] \subseteq B[y]
                 \/ y \in B[x] /\ B[y] \subseteq B[x]
      <3> HIDE DEF S, f, n
      <3>1. Len(x) # Len(y)
        BY <1>9, <2>2
      <3>2. \A z \in S : Len(z) \in Int
        BY <1>9
      <3>3. CASE Len(x) < Len(y)
        <4>1. x \in B[y]
          BY <2>2, <3>3
        <4>2. B[x] \subseteq B[y]
          BY <3>2, <3>3
        <4> QED
          BY <4>1, <4>2
      <3>4. CASE Len(y) < Len(x)
        <4>1. y \in B[x]
          BY <2>2, <3>4
        <4>2. B[y] \subseteq B[x]
          BY <3>2, <3>4
        <4> QED
          BY <4>1, <4>2
      <3> QED
        BY <3>1, <3>2, <3>3, <3>4
    <2> HIDE DEF B, S
    <2> QED
      BY <2>1, <2>2 DEF Ordering
  <1>3. s = [i \in 1..Cardinality(S) |->
               CHOOSE x \in S : Cardinality({y \in S : y # x /\ Len(y) < Len(x)}) = i - 1]
    BY DEF missingParents, InOrder
  <1>4. ASSUME NEW i \in 1..Cardinality(S), \E x \in S : Cardinality(B[x]) = i - 1
        PROVE  s[i] \in S /\ Cardinality(B[s[i]]) = i - 1
    <2> DEFINE P(x) == Cardinality({y \in S : y # x /\ Len(y) < Len(x)}) = i - 1
    <2>1. \E x \in S : P(x)
      <3> HIDE DEF S
      <3> QED
        BY <1>4
    <2>2. s[i] = CHOOSE x \in S : P(x)
      <3> HIDE DEF s, S
      <3> QED
        BY <1>3
    <2> HIDE DEF P, s, S
    <2>3. s[i] \in S /\ P(s[i])
      BY <2>1, <2>2
    <2> QED
      BY <2>3 DEF P
  <1>5. s = [i \in 1..Cardinality(S) |-> s[i]]
    <2> DEFINE c(i) == CHOOSE x \in S : Cardinality({y \in S : y # x /\ Len(y) < Len(x)}) = i - 1
    <2>1. s = [i \in 1..Cardinality(S) |-> c(i)]
      BY <1>3
    <2> HIDE DEF s, S, c
    <2> QED
      BY <2>1
  <1>6. Lists(s, S)
    <2>1. \A i \in 1..Cardinality(S) :
             (\E x \in S : Cardinality(B[x]) = i - 1)
                => s[i] \in S /\ Cardinality(B[s[i]]) = i - 1
      <3> HIDE DEF B, s, S
      <3> QED
        BY <1>4
    <2>2. IsFiniteSet(S)
      BY <1>8
    <2> HIDE DEF B, s, S
    <2>3. Placed(s, S, B)
      BY <1>5, <2>1 DEF Placed
    <2> QED
      BY <1>2, <2>2, <2>3, OrderedLists
  <1> QED
    BY <1>6

(***************************************************************************)
(* How far a walk gets along a path.                                       *)
(***************************************************************************)
Walked(t, p, j) == EvalSymlinks(t, SubSeq(p, 1, j))

\* The verdicts a walk can have.
Fine(w) == w.err = ""
Missing(w) == w.err = "not_found"
Broken(w) == w.err = "io_error"

LEMMA Verdicts ==
    \A w : ~(Fine(w) /\ Missing(w)) /\ ~(Fine(w) /\ Broken(w)) /\ ~(Missing(w) /\ Broken(w))
  <1>1. "not_found" # "io_error" /\ "" # "not_found" /\ "" # "io_error"
    BY Zenon
  <1> QED
    BY <1>1, Zenon DEF Fine, Missing, Broken

\* What a walk finds at a name of the tree t.
Found(t, v, q) == v.at = q /\ IF q \in DOMAIN t THEN Fine(v) ELSE Missing(v)

\* From w the walk goes on to v, at the name q.
Entered(t, w, q, v) ==
    /\ ~Fine(w) => v = w
    /\ Fine(w) /\ Kind(t, w.at) # "dir" => Broken(v) /\ v.at = w.at
    /\ Fine(w) /\ Kind(t, w.at) = "dir" /\ Kind(t, q) = "link" => Found(t, v, t[q].to)
    /\ Fine(w) /\ Kind(t, w.at) = "dir" /\ Kind(t, q) # "link" => Found(t, v, q)

LEMMA EnterIs ==
    ASSUME NEW t, NEW w, NEW name, IsRecord(w), NEW q, q = Append(w.at, name),
           NEW v, v = Enter(t, w, name)
    PROVE  Entered(t, w, q, v)
  <1>1. ~Fine(w) => v = w
    BY Zenon DEF Enter, Fine
  <1>2. ASSUME Fine(w), Kind(t, w.at) # "dir"
        PROVE  Broken(v) /\ v.at = w.at
    <2>1. v = [w EXCEPT !.err = "io_error"]
      BY <1>2, Zenon DEF Enter, Fine
    <2>2. w = [at |-> w.at, err |-> w.err]
      BY DEF IsRecord
    <2>3. [w EXCEPT !.err = "io_error"] = [at |-> w.at, err |-> "io_error"]
      BY <2>2
    <2> QED
      BY <2>1, <2>3 DEF Broken
  <1>3. ASSUME NEW r, v = [at |-> r, err |-> IF r \in DOMAIN t THEN "" ELSE "not_found"]
        PROVE  Found(t, v, r)
    <2>1. PICK e : e = IF r \in DOMAIN t THEN "" ELSE "not_found"
      BY Zenon
    <2>2. v = [at |-> r, err |-> e]
      BY <1>3, <2>1, Zenon
    <2>3. [at |-> r, err |-> e].at = r /\ [at |-> r, err |-> e].err = e
      OBVIOUS
    <2>4. v.at = r /\ v.err = e
      BY <2>2, <2>3, Zenon
    <2> QED
      BY <2>1, <2>4, Zenon DEF Found, Fine, Missing
  <1>4. ASSUME Fine(w), Kind(t, w.at) = "dir", Kind(t, q) = "link"
        PROVE  Found(t, v, t[q].to)
    <2>1. v = [at |-> t[q].to, err |-> IF t[q].to \in DOMAIN t THEN "" ELSE "not_found"]
      BY <1>4, Zenon DEF Enter, Fine
    <2> QED
      BY <1>3, <2>1
  <1>5. ASSUME Fine(w), Kind(t, w.at) = "dir", Kind(t, q) # "link"
        PROVE  Found(t, v, q)
    <2>1. v = [at |-> q, err |-> IF q \in DOMAIN t THEN "" ELSE "not_found"]
      BY <1>5, Zenon DEF Enter, Fine
    <2> QED
      BY <1>3, <2>1
  <1> QED
    BY <1>1, <1>2, <1>4, <1>5 DEF Entered

LEMMA WalkNext ==
    ASSUME NEW t, NEW p \in TreePath, NEW j \in Nat, j < Len(p)
    PROVE  /\ IsRecord(Walked(t, p, j))
           /\ Walked(t, p, j + 1) = Enter(t, Walked(t, p, j), p[j + 1])
  <1> DEFINE q == SubSeq(p, 1, j + 1)
             f == SubSeq(p, 1, j)
  <1>1. Len(p) \in Nat /\ j + 1 \in 0..Len(p) /\ j \in 0..Len(p)
    BY DEF TreePath
  <1>2. /\ q \in TreePath /\ Len(q) = j + 1 /\ \A i \in 1..(j + 1) : q[i] = p[i]
        /\ f \in TreePath /\ Len(f) = j /\ \A i \in 1..j : f[i] = p[i]
    BY <1>1, PrefixIs
  <1> HIDE DEF q, f
  <1>3. j \in 0..Len(q) /\ Len(q) \in Nat /\ q # <<>> /\ q \in Seq(Name)
    BY <1>1, <1>2 DEF TreePath
  <1>4. /\ Front(q) \in TreePath /\ Len(Front(q)) = j
        /\ \A i \in 1..j : Front(q)[i] = q[i]
    <2>1. Front(q) = SubSeq(q, 1, j)
      BY <1>2 DEF Front
    <2> QED
      BY <1>2, <1>3, <2>1, PrefixIs
  <1>5. Front(q) = f
    BY <1>2, <1>4, SeqEqual DEF TreePath
  <1>6. Last(q) = p[j + 1]
    BY <1>2, <1>3 DEF Last
  <1> QED
    BY <1>3, <1>5, <1>6, WalkLast DEF Walked, q, f

LEMMA WalkStarts ==
    ASSUME NEW t, NEW p \in TreePath
    PROVE  /\ Walked(t, p, 0) = Start /\ Walked(t, p, Len(p)) = EvalSymlinks(t, p)
           /\ IsRecord(Start) /\ Start.at = <<>> /\ Fine(Start)
  <1>1. SubSeq(p, 1, 0) = <<>>
    BY SubSeqEmpty
  <1>2. IsWalk(t, <<>>, 0, Walk(t, <<>>))
    <2>1. Len(<<>>) = 0
      BY EmptySeq
    <2>2. Len(<<>>) \in Nat
      BY <2>1
    <2> QED
      BY <2>1, <2>2, WalkSteps
  <1>3. EvalSymlinks(t, <<>>) = Start
    <2>1. Len(<<>>) = 0
      BY EmptySeq
    <2> QED
      BY <1>2, <2>1 DEF EvalSymlinks, IsWalk
  <1>4. SubSeq(p, 1, Len(p)) = p
    BY SubSeqFull DEF TreePath
  <1>5. IsRecord(Start) /\ Start.at = <<>> /\ Start.err = ""
    BY Zenon DEF IsRecord, Start
  <1>6. Fine(Start)
    BY <1>5, Zenon DEF Fine
  <1> QED
    BY <1>1, <1>3, <1>4, <1>5, <1>6 DEF Walked

\* Where it stands is a path, and one that exists unless it has failed.
Stands(t, w) ==
    /\ IsRecord(w) /\ w.at \in TreePath /\ (Fine(w) \/ Missing(w) \/ Broken(w))
    /\ Fine(w) => w.at \in DOMAIN t

LEMMA WalkStands ==
    ASSUME NEW t, IsTree(t), NEW p \in TreePath, NEW j \in 0..Len(p)
    PROVE  Stands(t, Walked(t, p, j))
  <1>1. Len(p) \in Nat
    BY DEF TreePath
  <1> DEFINE S == {i \in Nat : i <= Len(p) => Stands(t, Walked(t, p, i))}
  <1>2. 0 \in S
    <2>1. <<>> \in TreePath /\ <<>> \in DOMAIN t
      BY DEF IsTree, TreePath
    <2>2. Stands(t, Walked(t, p, 0))
      BY <2>1, WalkStarts DEF Stands
    <2> QED
      BY <2>2
  <1>3. ASSUME NEW i \in Nat, i \in S
        PROVE  i + 1 \in S
    <2> SUFFICES ASSUME i + 1 <= Len(p) PROVE Stands(t, Walked(t, p, i + 1))
      OBVIOUS
    <2>1. i < Len(p) /\ i <= Len(p) /\ p[i + 1] \in Name
      BY <1>1 DEF TreePath
    <2>2. PICK w : w = Walked(t, p, i)
      OBVIOUS
    <2>3. PICK v : v = Walked(t, p, i + 1)
      OBVIOUS
    <2>4. Stands(t, w) /\ v = Enter(t, w, p[i + 1]) /\ IsRecord(w)
      BY <1>3, <2>1, <2>2, <2>3, WalkNext
    <2>12. w.at \in Seq(Name) /\ p[i + 1] \in Name
      BY <2>1, <2>4 DEF Stands, TreePath
    <2>13. Append(w.at, p[i + 1]) \in Seq(Name)
      BY <2>12, AppendProperties
    <2>5. PICK q : q = Append(w.at, p[i + 1]) /\ q \in TreePath
      BY <2>13 DEF TreePath
    <2>6. IsRecord(v)
      BY <2>4, EnterRecord
    <2>7. \A r \in DOMAIN t : t[r].to \in TreePath
      BY DEF IsTree, TreePath, Name
    <2>8. CASE ~Fine(w)
      BY <2>3, <2>4, <2>5, <2>8, EnterIs DEF Entered
    <2>9. CASE Fine(w) /\ Kind(t, w.at) # "dir"
      <3>1. Broken(v) /\ v.at = w.at
        BY <2>4, <2>5, <2>9, EnterIs DEF Entered
      <3> QED
        BY <2>3, <2>4, <2>6, <3>1, Verdicts DEF Stands
    <2>10. CASE Fine(w) /\ Kind(t, w.at) = "dir" /\ Kind(t, q) = "link"
      <3>1. Found(t, v, t[q].to)
        BY <2>4, <2>5, <2>10, EnterIs DEF Entered
      <3>2. q \in DOMAIN t
        BY <2>10 DEF Kind
      <3> QED
        BY <2>3, <2>6, <2>7, <3>1, <3>2, Verdicts DEF Stands, Found
    <2>11. CASE Fine(w) /\ Kind(t, w.at) = "dir" /\ Kind(t, q) # "link"
      <3>1. Found(t, v, q)
        BY <2>4, <2>5, <2>11, EnterIs DEF Entered
      <3> QED
        BY <2>3, <2>5, <2>6, <3>1, Verdicts DEF Stands, Found
    <2> QED
      BY <2>8, <2>9, <2>10, <2>11
  <1>4. \A i \in Nat : i \in S
    <2> HIDE DEF S
    <2> QED
      BY <1>2, <1>3, UpFromZero
  <1> QED
    BY <1>1, <1>4

LEMMA EvalStands ==
    ASSUME NEW t, IsTree(t), NEW p \in TreePath
    PROVE  Stands(t, EvalSymlinks(t, p))
  <1>1. Len(p) \in 0..Len(p)
    BY DEF TreePath
  <1> QED
    BY <1>1, WalkStands, WalkStarts

\* A walk that has failed stays where it is.
LEMMA WalkStuck ==
    ASSUME NEW t, NEW p \in TreePath, NEW j \in 0..Len(p), ~Fine(Walked(t, p, j))
    PROVE  \A i \in j..Len(p) : Walked(t, p, i) = Walked(t, p, j)
  <1>1. Len(p) \in Nat
    BY DEF TreePath
  <1> DEFINE S == {i \in Nat : j + i <= Len(p) => Walked(t, p, j + i) = Walked(t, p, j)}
  <1>2. 0 \in S
    OBVIOUS
  <1>3. ASSUME NEW i \in Nat, i \in S
        PROVE  i + 1 \in S
    <2> SUFFICES ASSUME j + (i + 1) <= Len(p) PROVE Walked(t, p, j + (i + 1)) = Walked(t, p, j)
      OBVIOUS
    <2>1. PICK k \in Nat : k = j + i
      OBVIOUS
    <2>2. k < Len(p) /\ j + (i + 1) = k + 1
      BY <1>1, <2>1
    <2>3. Walked(t, p, k) = Walked(t, p, j)
      BY <1>1, <1>3, <2>1, <2>2
    <2>4. /\ IsRecord(Walked(t, p, k))
          /\ Walked(t, p, k + 1) = Enter(t, Walked(t, p, k), p[k + 1])
      BY <2>2, WalkNext
    <2>6. PICK q : q = Append(Walked(t, p, k).at, p[k + 1])
      OBVIOUS
    <2>7. PICK v : v = Enter(t, Walked(t, p, k), p[k + 1])
      OBVIOUS
    <2>8. ~Fine(Walked(t, p, k))
      BY <2>3
    <2>5. Walked(t, p, k + 1) = Walked(t, p, k)
      BY <2>4, <2>6, <2>7, <2>8, EnterIs DEF Entered
    <2> QED
      BY <2>2, <2>3, <2>5
  <1>4. \A i \in Nat : i \in S
    <2> HIDE DEF S
    <2> QED
      BY <1>2, <1>3, UpFromZero
  <1>5. ASSUME NEW i \in j..Len(p)
        PROVE  Walked(t, p, i) = Walked(t, p, j)
    <2>1. i - j \in Nat /\ j + (i - j) = i /\ i <= Len(p)
      BY <1>1
    <2>2. i - j \in S
      BY <1>4, <2>1
    <2> QED
      BY <2>1, <2>2
  <1> QED
    BY <1>5


(***************************************************************************)
(* What a tool learns of a path before it acts.                            *)
(***************************************************************************)
LEMMA FrontIs ==
    ASSUME NEW p \in TreePath, p # <<>>
    PROVE  /\ Len(p) \in Nat \ {0} /\ Front(p) \in TreePath /\ Len(Front(p)) = Len(p) - 1
           /\ Front(p) = SubSeq(p, 1, Len(p) - 1) /\ Last(p) = p[Len(p)] /\ Last(p) \in Name
           /\ \A i \in 1..(Len(p) - 1) : Front(p)[i] = p[i]
           /\ \A l \in 0..(Len(p) - 1) : SubSeq(Front(p), 1, l) = SubSeq(p, 1, l)
  <1>1. Len(p) \in Nat \ {0} /\ Len(p) - 1 \in 0..Len(p) /\ p[Len(p)] \in Name
    BY EmptySeq DEF TreePath
  <1>2. Front(p) = SubSeq(p, 1, Len(p) - 1) /\ Last(p) = p[Len(p)]
    BY DEF Front, Last
  <1>3. /\ Front(p) \in TreePath /\ Len(Front(p)) = Len(p) - 1
        /\ \A i \in 1..(Len(p) - 1) : Front(p)[i] = p[i]
    <2>1. PICK l : l = Len(p) - 1
      OBVIOUS
    <2>2. l \in 0..Len(p)
      BY <1>1, <2>1
    <2>3. SubSeq(p, 1, l) \in TreePath /\ Len(SubSeq(p, 1, l)) = l
      BY <2>2, PrefixIs
    <2>4. \A i \in 1..l : SubSeq(p, 1, l)[i] = p[i]
      BY <2>2, PrefixIs
    <2> QED
      BY <1>2, <2>1, <2>3, <2>4
  <1>4. ASSUME NEW l \in 0..(Len(p) - 1)
        PROVE  SubSeq(Front(p), 1, l) = SubSeq(p, 1, l)
    <2> DEFINE a == SubSeq(Front(p), 1, l)
               b == SubSeq(p, 1, l)
    <2>1. l \in 0..Len(p) /\ l \in 0..Len(Front(p))
      BY <1>1, <1>3
    <2>2. a \in TreePath /\ Len(a) = l /\ \A i \in 1..l : a[i] = Front(p)[i]
      BY <1>3, <2>1, PrefixIs
    <2>3. b \in TreePath /\ Len(b) = l /\ \A i \in 1..l : b[i] = p[i]
      BY <2>1, PrefixIs
    <2>4. \A i \in 1..l : a[i] = b[i]
      BY <1>1, <1>3, <2>2, <2>3
    <2> HIDE DEF a, b
    <2> QED
      BY <2>2, <2>3, <2>4, SeqEqual DEF TreePath, a, b
  <1> QED
    BY <1>1, <1>2, <1>3, <1>4

\* What Lstat finds beside EvalSymlinks.
Looked(t, w, q, l) ==
    /\ ~Fine(w) => l = w
    /\ Fine(w) /\ Kind(t, w.at) # "dir" => Broken(l)
    /\ Fine(w) /\ Kind(t, w.at) = "dir" => Found(t, l, q)

LEMMA LastStep ==
    ASSUME NEW t, NEW p \in TreePath, p # <<>>, NEW w, w = EvalSymlinks(t, Front(p)),
           NEW q, q = Append(w.at, Last(p)), NEW v, v = EvalSymlinks(t, p), NEW l, l = Lstat(t, p)
    PROVE  IsRecord(w) /\ Entered(t, w, q, v) /\ Looked(t, w, q, l)
  <1>1. IsRecord(w) /\ v = Enter(t, w, Last(p))
    BY WalkLast DEF TreePath
  <1>2. l = LstatIn(t, w, Last(p))
    BY DEF Lstat
  <1>3. ~Fine(w) => l = w
    BY <1>2, Zenon DEF LstatIn, Fine
  <1>4. ASSUME Fine(w), Kind(t, w.at) # "dir"
        PROVE  Broken(l)
    <2>1. l = [w EXCEPT !.err = "io_error"]
      BY <1>2, <1>4, Zenon DEF LstatIn, Fine
    <2>2. w = [at |-> w.at, err |-> w.err]
      BY <1>1 DEF IsRecord
    <2>3. [w EXCEPT !.err = "io_error"] = [at |-> w.at, err |-> "io_error"]
      BY <2>2
    <2> QED
      BY <2>1, <2>3 DEF Broken
  <1>5. ASSUME Fine(w), Kind(t, w.at) = "dir"
        PROVE  Found(t, l, q)
    <2>1. PICK e : e = IF q \in DOMAIN t THEN "" ELSE "not_found"
      BY Zenon
    <2>2. l = [at |-> q, err |-> e]
      BY <1>2, <1>5, <2>1, Zenon DEF LstatIn, Fine
    <2>3. [at |-> q, err |-> e].at = q /\ [at |-> q, err |-> e].err = e
      OBVIOUS
    <2>4. l.at = q /\ l.err = e
      BY <2>2, <2>3, Zenon
    <2> QED
      BY <2>1, <2>4, Zenon DEF Found, Fine, Missing
  <1> QED
    BY <1>1, <1>3, <1>4, <1>5, EnterIs DEF Looked

LEMMA FineLstat ==
    ASSUME NEW t, NEW p \in TreePath, Fine(EvalSymlinks(t, p))
    PROVE  Fine(Lstat(t, p))
  <1>1. CASE p = <<>>
    BY <1>1 DEF Lstat
  <1>2. CASE p # <<>>
    <2>1. PICK w : w = EvalSymlinks(t, Front(p))
      OBVIOUS
    <2>2. PICK q : q = Append(w.at, Last(p))
      OBVIOUS
    <2>3. PICK v : v = EvalSymlinks(t, p)
      OBVIOUS
    <2>4. PICK l : l = Lstat(t, p)
      OBVIOUS
    <2>5. Entered(t, w, q, v) /\ Looked(t, w, q, l)
      BY <1>2, <2>1, <2>2, <2>3, <2>4, LastStep
    <2>6. Kind(t, q) = "link" => q \in DOMAIN t
      BY DEF Kind
    <2> QED
      BY <2>3, <2>4, <2>5, <2>6, Verdicts DEF Found, Entered, Looked
  <1> QED
    BY <1>1, <1>2

LEMMA MissingName ==
    ASSUME NEW t, NEW p \in TreePath, Missing(Lstat(t, p))
    PROVE  /\ p # <<>> /\ Missing(EvalSymlinks(t, p))
           /\ \/ Missing(EvalSymlinks(t, Front(p)))
              \/ /\ Fine(EvalSymlinks(t, Front(p)))
                 /\ Kind(t, EvalSymlinks(t, Front(p)).at) = "dir"
                 /\ Append(EvalSymlinks(t, Front(p)).at, Last(p)) \notin DOMAIN t
  <1>1. p # <<>>
    <2> SUFFICES ASSUME p = <<>> PROVE FALSE
      OBVIOUS
    <2>1. Lstat(t, p) = EvalSymlinks(t, p) /\ Len(p) = 0
      BY EmptySeq DEF Lstat
    <2>2. Lstat(t, p) = Start
      BY <2>1, WalkStarts
    <2> QED
      BY <2>2, WalkStarts, Verdicts
  <1>2. PICK w : w = EvalSymlinks(t, Front(p))
    OBVIOUS
  <1>3. PICK q : q = Append(w.at, Last(p))
    OBVIOUS
  <1>4. PICK v : v = EvalSymlinks(t, p)
    OBVIOUS
  <1>5. PICK l : l = Lstat(t, p)
    OBVIOUS
  <1>6. Entered(t, w, q, v) /\ Looked(t, w, q, l)
    BY <1>1, <1>2, <1>3, <1>4, <1>5, LastStep
  <1>7. Kind(t, q) = "link" => q \in DOMAIN t
    BY DEF Kind
  <1>8. \/ Missing(w) /\ Missing(v)
        \/ Fine(w) /\ Kind(t, w.at) = "dir" /\ q \notin DOMAIN t /\ Missing(v)
    BY <1>5, <1>6, <1>7, Verdicts DEF Found, Entered, Looked
  <1> QED
    BY <1>1, <1>2, <1>3, <1>4, <1>8

LEMMA MaxIs ==
    ASSUME NEW S, S \subseteq Int, NEW m \in S, \A y \in S : m >= y
    PROVE  Max(S) = m
  <1>1. Max(S) \in S /\ \A y \in S : Max(S) >= y
    <2>1. \E x \in S : \A y \in S : x >= y
      OBVIOUS
    <2> QED
      BY <2>1, Zenon DEF Max
  <1>2. Max(S) \in Int /\ m \in Int /\ Max(S) >= m /\ m >= Max(S)
    BY <1>1
  <1> QED
    BY <1>2

\* A path that resolve accepts, of which the first m names are there.
Accepts(t, p) == resolve(t, p) = ""

LEMMA ResolveIs ==
    ASSUME NEW t, NEW p \in TreePath, Accepts(t, p), NEW m \in 0..Len(p),
           ~Missing(Lstat(t, SubSeq(p, 1, m))),
           \A j \in 0..Len(p) : ~Missing(Lstat(t, SubSeq(p, 1, j))) => j <= m
    PROVE  /\ ~withheld(p) /\ \A i \in DOMAIN p : p[i] # ".."
           /\ Fine(Walked(t, p, m)) /\ insidePath(Walked(t, p, m).at) /\ ~withheld(Walked(t, p, m).at)
  <1> DEFINE S == {j \in 0..Len(p) : Lstat(t, SubSeq(p, 1, j)).err # "not_found"}
  <1>1. Max(S) = m
    <2>1. Len(p) \in Nat
      BY DEF TreePath
    <2>2. S \subseteq Int /\ m \in S /\ \A y \in S : m >= y
      BY <2>1 DEF Missing
    <2> HIDE DEF S
    <2> QED
      BY <2>2, MaxIs
  <1>2. PICK w : w = EvalSymlinks(t, SubSeq(p, 1, Max(S)))
    BY Zenon
  <1>3. /\ ~(withheld(p) \/ \E i \in DOMAIN p : p[i] \in {"..", "NUL"})
        /\ w.err = "" /\ ~(~insidePath(w.at) \/ withheld(w.at))
    BY <1>2, Zenon DEF resolve, Accepts
  <1>4. Fine(w) /\ insidePath(w.at) /\ ~withheld(w.at)
    BY <1>3, Zenon DEF Fine
  <1>5. w = Walked(t, p, m)
    BY <1>1, <1>2, Zenon DEF Walked
  <1>6. ~withheld(p) /\ \A i \in DOMAIN p : p[i] # ".."
    BY <1>3, Zenon
  <1> QED
    BY <1>4, <1>5, <1>6, Zenon

(***************************************************************************)
(* Walks in a tree that changes.                                           *)
(***************************************************************************)
\* The directories and the links of the tree t are those of u too.
Firm(t, u) ==
    \A q \in DOMAIN t : t[q].kind \in {"dir", "link"} =>
       q \in DOMAIN u /\ u[q].kind = t[q].kind /\ u[q].to = t[q].to

LEMMA FirmWalk ==
    ASSUME NEW t, IsTree(t), NEW u, Firm(t, u), NEW p \in TreePath, Fine(EvalSymlinks(t, p)),
           Kind(t, EvalSymlinks(t, p).at) = "dir"
    PROVE  EvalSymlinks(u, p) = EvalSymlinks(t, p)
  <1>1. Len(p) \in Nat
    BY DEF TreePath
  <1> DEFINE S == {i \in Nat : i <= Len(p) =>
                     (Fine(Walked(t, p, i)) /\ Kind(t, Walked(t, p, i).at) = "dir"
                        => Walked(u, p, i) = Walked(t, p, i))}
  <1>2. 0 \in S
    BY WalkStarts
  <1>3. ASSUME NEW i \in Nat, i \in S
        PROVE  i + 1 \in S
    <2> SUFFICES ASSUME i + 1 <= Len(p), Fine(Walked(t, p, i + 1)),
                        Kind(t, Walked(t, p, i + 1).at) = "dir"
                 PROVE  Walked(u, p, i + 1) = Walked(t, p, i + 1)
      OBVIOUS
    <2>1. i < Len(p) /\ i <= Len(p) /\ i \in 0..Len(p)
      BY <1>1
    <2>2. PICK w : w = Walked(t, p, i)
      OBVIOUS
    <2>3. PICK v : v = Walked(t, p, i + 1)
      OBVIOUS
    <2>4. IsRecord(w) /\ v = Enter(t, w, p[i + 1])
      BY <2>1, <2>2, <2>3, WalkNext
    <2>5. PICK q : q = Append(w.at, p[i + 1])
      OBVIOUS
    <2>6. Entered(t, w, q, v)
      BY <2>4, <2>5, EnterIs
    <2>7. Fine(v) /\ Kind(t, v.at) = "dir"
      BY <2>3
    <2>8. Fine(w) /\ Kind(t, w.at) = "dir"
      BY <2>6, <2>7, Verdicts DEF Entered
    <2>9. Walked(u, p, i) = w
      BY <1>3, <2>1, <2>2, <2>8
    <2>10. PICK z : z = Walked(u, p, i + 1)
      OBVIOUS
    <2>11. z = Enter(u, w, p[i + 1])
      BY <2>1, <2>9, <2>10, WalkNext
    <2>12. Entered(u, w, q, z)
      BY <2>4, <2>5, <2>11, EnterIs
    <2>13. Kind(u, w.at) = "dir"
      BY <2>8 DEF Firm, Kind
    <2>14. IsRecord(v) /\ IsRecord(z)
      BY <2>4, <2>11, EnterRecord
    <2>15. z.at = v.at /\ Fine(z)
      <3>1. CASE Kind(t, q) = "link"
        <4>1. Kind(u, q) = "link" /\ u[q].to = t[q].to
          BY <3>1 DEF Firm, Kind
        <4>2. Found(t, v, t[q].to) /\ Found(u, z, u[q].to)
          BY <2>6, <2>8, <2>12, <2>13, <3>1, <4>1 DEF Entered
        <4>3. v.at = t[q].to /\ z.at = t[q].to
          BY <4>1, <4>2 DEF Found
        <4>4. t[q].to \in DOMAIN u
          BY <2>7, <4>3 DEF Firm, Kind
        <4> QED
          BY <4>1, <4>2, <4>3, <4>4 DEF Found
      <3>2. CASE Kind(t, q) # "link"
        <4>1. Found(t, v, q)
          BY <2>6, <2>8, <3>2 DEF Entered
        <4>2. v.at = q /\ Kind(t, q) = "dir"
          BY <2>7, <4>1 DEF Found
        <4>3. Kind(u, q) = "dir" /\ q \in DOMAIN u
          BY <4>2 DEF Firm, Kind
        <4>4. Found(u, z, q)
          BY <2>8, <2>12, <2>13, <4>3 DEF Entered
        <4> QED
          BY <4>2, <4>3, <4>4 DEF Found
      <3> QED
        BY <3>1, <3>2
    <2>16. z = v
      <3>1. z.err = v.err
        BY <2>7, <2>15, Zenon DEF Fine
      <3> QED
        BY <2>14, <2>15, <3>1 DEF IsRecord
    <2> QED
      BY <2>3, <2>10, <2>16
  <1>4. \A i \in Nat : i \in S
    <2> HIDE DEF S
    <2> QED
      BY <1>2, <1>3, UpFromZero
  <1>5. Fine(Walked(t, p, Len(p))) /\ Kind(t, Walked(t, p, Len(p)).at) = "dir"
    BY WalkStarts
  <1>6. Len(p) \in S
    BY <1>1, <1>4
  <1>7. Walked(u, p, Len(p)) = Walked(t, p, Len(p))
    BY <1>1, <1>5, <1>6
  <1> QED
    BY <1>7, WalkStarts

(***************************************************************************)
(* What a creation is about to make.                                       *)
(***************************************************************************)
SafePath(p) == p \in TreePath /\ p # <<>> /\ ~withheld(p) /\ insidePath(p)

LEMMA MissingPathIs ==
    ASSUME NEW t, NEW p \in TreePath, Missing(EvalSymlinks(t, p)), NEW m \in 0..Len(p),
           Fine(Walked(t, p, m)), \A j \in 0..Len(p) : Fine(Walked(t, p, j)) => j <= m
    PROVE  missingPath(t, p) = Walked(t, p, m).at \o SubSeq(p, m + 1, Len(p))
  <1> DEFINE w == [j \in 0..Len(p) |-> EvalSymlinks(t, SubSeq(p, 1, j))]
             S == {j \in 0..Len(p) : w[j].err = ""}
             i == Max(S)
  <1>0. Len(p) \in Nat /\ Len(p) \in 0..Len(p)
    BY DEF TreePath
  <1>1. \A j \in 0..Len(p) : w[j] = Walked(t, p, j)
    BY DEF Walked
  <1>2. S = {j \in 0..Len(p) : Fine(w[j])}
    BY Zenon DEF Fine
  <1>3. i = m
    <2>1. S \subseteq Int /\ m \in S /\ \A y \in S : m >= y
      <3> HIDE DEF S, w
      <3> QED
        BY <1>0, <1>1, <1>2
    <2> HIDE DEF S
    <2> QED
      BY <2>1, MaxIs
  <1>4. ~(w[Len(p)].err = "io_error")
    <2> HIDE DEF w
    <2> QED
      BY <1>0, <1>1, WalkStarts, Verdicts DEF Broken
  <1>5. missingPath(t, p) = w[i].at \o SubSeq(p, i + 1, Len(p))
    BY <1>4, Zenon DEF missingPath
  <1> HIDE DEF i, w
  <1> QED
    BY <1>1, <1>3, <1>5, Zenon

LEMMA SafeName ==
    ASSUME NEW p \in TreePath, ~withheld(p), \A i \in DOMAIN p : p[i] # "..",
           NEW at \in TreePath, ~withheld(at), insidePath(at), NEW name \in Name,
           NEW j \in DOMAIN p, p[j] = name
    PROVE  SafePath(Append(at, name))
  <1>1. at \in Seq(Name) /\ Len(at) \in Nat /\ DOMAIN at = 1..Len(at)
    BY DEF TreePath
  <1>2. PICK q : q = Append(at, name)
    OBVIOUS
  <1>3. /\ q \in Seq(Name) /\ q # <<>> /\ Len(q) = Len(at) + 1
        /\ \A i \in 1..Len(at) : q[i] = at[i]
        /\ q[Len(at) + 1] = name
    BY <1>1, <1>2, AppendProperties
  <1>4. ~withheld(q)
    <2> SUFFICES ASSUME NEW i \in DOMAIN q, q[i] \in WithheldNames PROVE FALSE
      BY DEF withheld
    <2>1. i \in 1..(Len(at) + 1)
      BY <1>3
    <2>2. CASE i = Len(at) + 1
      BY <1>3, <2>2 DEF withheld
    <2>3. CASE i # Len(at) + 1
      <3>1. i \in DOMAIN at /\ q[i] = at[i]
        BY <1>1, <1>3, <2>1, <2>3
      <3> QED
        BY <3>1 DEF withheld
    <2> QED
      BY <2>2, <2>3
  <1>5. insidePath(q)
    <2>1. Head(q) = IF at = <<>> THEN name ELSE Head(at)
      BY <1>1, <1>2, HeadTailAppend
    <2> QED
      BY <2>1 DEF insidePath
  <1> QED
    BY <1>2, <1>3, <1>4, <1>5 DEF SafePath, TreePath

\* A creation whose parent directory is there.
LEMMA ParentThere ==
    ASSUME NEW t, IsTree(t), NEW p \in TreePath, Accepts(t, p), Missing(Lstat(t, p)),
           NEW w, w = EvalSymlinks(t, Front(p)), Fine(w)
    PROVE  /\ p # <<>> /\ Kind(t, w.at) = "dir" /\ Append(w.at, Last(p)) \notin DOMAIN t
           /\ SafePath(Append(w.at, Last(p))) /\ missingPath(t, p) = Append(w.at, Last(p))
           /\ \A q \in Prefixes(Front(p)) : ~Missing(EvalSymlinks(t, q))
  <1>1. /\ p # <<>> /\ Missing(EvalSymlinks(t, p))
        /\ Kind(t, w.at) = "dir" /\ Append(w.at, Last(p)) \notin DOMAIN t
    BY MissingName, Verdicts
  <1>2. PICK n \in Nat : n = Len(p) - 1
    BY <1>1, FrontIs
  <1>3. /\ Len(p) = n + 1 /\ Front(p) \in TreePath /\ Len(Front(p)) = n
        /\ Front(p) = SubSeq(p, 1, n) /\ Last(p) = p[n + 1] /\ Last(p) \in Name
        /\ \A l \in 0..n : SubSeq(Front(p), 1, l) = SubSeq(p, 1, l)
        /\ n \in 0..Len(p) /\ Len(p) \in 0..Len(p)
    BY <1>1, <1>2, FrontIs
  <1>4. Walked(t, p, n) = w /\ Walked(t, p, Len(p)) = EvalSymlinks(t, p)
    BY <1>3, WalkStarts DEF Walked
  <1>5. SubSeq(p, 1, Len(p)) = p
    BY SubSeqFull DEF TreePath
  <1>6. ~Missing(Lstat(t, SubSeq(p, 1, n)))
    <2>1. Fine(Lstat(t, Front(p)))
      BY <1>3, FineLstat
    <2> QED
      BY <1>3, <2>1, Verdicts
  <1>7. \A j \in 0..Len(p) : ~Missing(Lstat(t, SubSeq(p, 1, j))) => j <= n
    <2> SUFFICES ASSUME NEW j \in 0..Len(p), ~(j <= n)
                 PROVE  Missing(Lstat(t, SubSeq(p, 1, j)))
      OBVIOUS
    <2>1. j = Len(p)
      BY <1>3
    <2> QED
      BY <1>5, <2>1
  <1>8. /\ ~withheld(p) /\ \A i \in DOMAIN p : p[i] # ".."
        /\ insidePath(w.at) /\ ~withheld(w.at)
    BY <1>3, <1>4, <1>6, <1>7, ResolveIs
  <1>9. w.at \in TreePath
    BY <1>3, EvalStands DEF Stands
  <1>10. SafePath(Append(w.at, Last(p)))
    <2>1. n + 1 \in DOMAIN p
      BY <1>3 DEF TreePath
    <2> QED
      BY <1>3, <1>8, <1>9, <2>1, SafeName
  <1>11. missingPath(t, p) = Append(w.at, Last(p))
    <2>1. \A j \in 0..Len(p) : Fine(Walked(t, p, j)) => j <= n
      <3> SUFFICES ASSUME NEW j \in 0..Len(p), Fine(Walked(t, p, j)), ~(j <= n) PROVE FALSE
        OBVIOUS
      <3>1. j = Len(p)
        BY <1>3
      <3> QED
        BY <1>1, <1>4, <3>1, Verdicts
    <2>2. missingPath(t, p) = w.at \o SubSeq(p, n + 1, Len(p))
      BY <1>1, <1>3, <1>4, <2>1, MissingPathIs
    <2>3. SubSeq(p, n + 1, n + 1) = <<p[n + 1]>>
      <3> DEFINE s == SubSeq(p, n + 1, n + 1)
      <3>1. \A i \in (n + 1)..(n + 1) : p[i] \in Name
        BY <1>3 DEF TreePath
      <3>2. n + 1 \in Int
        OBVIOUS
      <3>3. /\ s \in Seq(Name)
            /\ Len(s) = IF n + 1 <= n + 1 THEN (n + 1) - (n + 1) + 1 ELSE 0
            /\ \A i \in 1..((n + 1) - (n + 1) + 1) : s[i] = p[n + 1 + i - 1]
        BY <3>1, <3>2, SubSeqProperties
      <3>4. Len(s) = 1 /\ s[1] = p[n + 1]
        BY <3>3
      <3>5. <<p[n + 1]>> \in Seq(Name) /\ Len(<<p[n + 1]>>) = 1 /\ <<p[n + 1]>>[1] = p[n + 1]
        BY <3>1
      <3> HIDE DEF s
      <3>6. s = <<p[n + 1]>>
        BY <3>3, <3>4, <3>5, SeqEqual
      <3> QED
        BY <3>6 DEF s
    <2>4. Append(w.at, Last(p)) = w.at \o <<Last(p)>>
      BY <1>3, <1>9, AppendIsConcat DEF TreePath
    <2> QED
      BY <1>3, <2>2, <2>3, <2>4
  <1>12. ASSUME NEW q \in Prefixes(Front(p)), Missing(EvalSymlinks(t, q))
         PROVE  FALSE
    <2>1. PICK l \in 0..n : q = SubSeq(p, 1, l)
      BY <1>3 DEF Prefixes
    <2>2. ~Fine(Walked(t, p, l)) /\ l \in 0..Len(p) /\ n \in l..Len(p)
      BY <1>3, <1>12, <2>1, Verdicts DEF Walked
    <2>3. Walked(t, p, n) = Walked(t, p, l)
      BY <2>2, WalkStuck
    <2> QED
      BY <1>4, <2>2, <2>3
  <1> QED
    BY <1>1, <1>10, <1>11, <1>12

\* A creation whose parents are to be made first: below the last one that is
\* there, none is a link and nothing exists.
LEMMA ParentsGone ==
    ASSUME NEW t, IsTree(t), NEW p \in TreePath, p # <<>>, \A i \in DOMAIN p : p[i] # "..",
           Missing(EvalSymlinks(t, Front(p))),
           \A q \in Prefixes(Front(p)) : Kind(t, q) # "link"
    PROVE  \A j \in 0..(Len(p) - 1) :
             \/ /\ Fine(Walked(t, p, j)) /\ Walked(t, p, j).at = SubSeq(p, 1, j)
                /\ Kind(t, SubSeq(p, 1, j)) = "dir"
             \/ Missing(Walked(t, p, j)) /\ SubSeq(p, 1, j) \notin DOMAIN t
  <1>1. PICK n \in Nat : n = Len(p) - 1
    BY FrontIs
  <1>2. /\ Len(p) = n + 1 /\ Front(p) \in TreePath /\ Len(Front(p)) = n
        /\ Front(p) = SubSeq(p, 1, n) /\ n \in 0..Len(p)
        /\ \A l \in 0..n : SubSeq(Front(p), 1, l) = SubSeq(p, 1, l)
    BY <1>1, FrontIs
  <1>3. Missing(Walked(t, p, n))
    BY <1>2 DEF Walked
  <1> DEFINE A(j) == /\ Fine(Walked(t, p, j)) /\ Walked(t, p, j).at = SubSeq(p, 1, j)
                     /\ SubSeq(p, 1, j) \in DOMAIN t
             C(j) == Missing(Walked(t, p, j)) /\ SubSeq(p, 1, j) \notin DOMAIN t
             S == {j \in Nat : j <= n => A(j) \/ C(j)}
  <1>4. ASSUME NEW j \in 0..(n - 1), Fine(Walked(t, p, j))
        PROVE  Kind(t, Walked(t, p, j).at) = "dir"
    <2> SUFFICES ASSUME Kind(t, Walked(t, p, j).at) # "dir" PROVE FALSE
      OBVIOUS
    <2>1. PICK w : w = Walked(t, p, j)
      OBVIOUS
    <2>2. PICK v : v = Walked(t, p, j + 1)
      OBVIOUS
    <2>3. IsRecord(w) /\ v = Enter(t, w, p[j + 1])
      BY <1>2, <2>1, <2>2, WalkNext
    <2>4. PICK q : q = Append(w.at, p[j + 1])
      OBVIOUS
    <2>5. Broken(v)
      BY <1>4, <2>1, <2>3, <2>4, EnterIs DEF Entered
    <2>6. j + 1 \in 0..Len(p) /\ n \in (j + 1)..Len(p) /\ ~Fine(Walked(t, p, j + 1))
      BY <1>2, <2>2, <2>5, Verdicts
    <2>7. Walked(t, p, n) = v
      BY <2>2, <2>6, WalkStuck
    <2> QED
      BY <1>3, <2>5, <2>7, Verdicts
  <1>5. 0 \in S
    <2>1. SubSeq(p, 1, 0) = <<>>
      BY SubSeqEmpty
    <2> QED
      BY <2>1, WalkStarts DEF IsTree
  <1>6. ASSUME NEW j \in Nat, j \in S
        PROVE  j + 1 \in S
    <2> SUFFICES ASSUME j + 1 <= n PROVE A(j + 1) \/ C(j + 1)
      OBVIOUS
    <2>1. /\ j \in 0..(n - 1) /\ j < Len(p) /\ j + 1 \in 0..n /\ j + 1 \in 0..Len(p)
          /\ j + 1 \in 1..Len(p) /\ j \in 0..Len(p)
      BY <1>2
    <2>2. PICK w : w = Walked(t, p, j)
      OBVIOUS
    <2>3. PICK v : v = Walked(t, p, j + 1)
      OBVIOUS
    <2>4. IsRecord(w) /\ v = Enter(t, w, p[j + 1])
      BY <2>1, <2>2, <2>3, WalkNext
    <2>5. PICK q : q = SubSeq(p, 1, j + 1)
      OBVIOUS
    <2>6. PICK f : f = SubSeq(p, 1, j)
      OBVIOUS
    <2>7. /\ q \in TreePath /\ Len(q) = j + 1 /\ \A i \in 1..(j + 1) : q[i] = p[i]
          /\ f \in TreePath /\ Len(f) = j /\ \A i \in 1..j : f[i] = p[i]
      BY <2>1, <2>5, <2>6, PrefixIs
    <2>8. q # <<>> /\ q[1] # ".."
      <3>1. q # <<>>
        BY <2>7, EmptySeq
      <3>2. 1 \in DOMAIN p /\ q[1] = p[1]
        BY <2>1, <2>7 DEF TreePath
      <3> QED
        BY <3>1, <3>2
    <2>9. Front(q) = f /\ q = Append(f, p[j + 1])
      <3>8. Len(q) - 1 = j
        BY <2>7
      <3>1. /\ Front(q) \in TreePath /\ Len(Front(q)) = j /\ \A i \in 1..j : Front(q)[i] = q[i]
        BY <2>7, <2>8, <3>8, FrontIs
      <3>2. Front(q) = f
        BY <2>7, <3>1, SeqEqual DEF TreePath
      <3>3. p[j + 1] \in Name
        BY <2>1 DEF TreePath
      <3>4. PICK a : a = Append(f, p[j + 1])
        OBVIOUS
      <3>5. /\ a \in Seq(Name) /\ Len(a) = j + 1 /\ a[j + 1] = p[j + 1]
            /\ \A i \in 1..j : a[i] = f[i]
        BY <2>7, <3>3, <3>4, AppendProperties DEF TreePath
      <3>6. \A i \in 1..(j + 1) : a[i] = q[i]
        BY <2>7, <3>5
      <3>7. q = a
        BY <2>7, <3>5, <3>6, SeqEqual DEF TreePath
      <3> QED
        BY <3>2, <3>4, <3>7
    <2>10. Kind(t, q) # "link"
      <3>1. q \in Prefixes(Front(p))
        BY <1>2, <2>1, <2>5 DEF Prefixes
      <3> QED
        BY <3>1
    <2>11. CASE A(j)
      <3>1. Fine(w) /\ w.at = f /\ Kind(t, w.at) = "dir"
        BY <1>4, <2>1, <2>2, <2>6, <2>11
      <3>3. q = Append(w.at, p[j + 1])
        BY <2>9, <3>1
      <3>4. Entered(t, w, q, v)
        BY <2>4, <3>3, EnterIs
      <3>2. Found(t, v, q)
        BY <2>10, <3>1, <3>4 DEF Entered
      <3> QED
        BY <2>3, <2>5, <3>2 DEF Found
    <2>12. CASE C(j)
      <3>1. v = w
        <4>1. ~Fine(w)
          BY <2>2, <2>12, Verdicts
        <4>2. PICK r : r = Append(w.at, p[j + 1])
          OBVIOUS
        <4> QED
          BY <2>4, <4>1, <4>2, EnterIs DEF Entered
      <3>2. q \notin DOMAIN t
        <4>1. f \notin DOMAIN t
          BY <2>6, <2>12
        <4> QED
          BY <2>8, <2>9, <4>1 DEF IsTree
      <3> QED
        BY <2>2, <2>3, <2>5, <2>12, <3>1, <3>2
    <2>13. A(j) \/ C(j)
      BY <1>6, <2>1
    <2> QED
      BY <2>11, <2>12, <2>13
  <1>7. \A j \in Nat : j \in S
    <2> HIDE DEF S
    <2> QED
      BY <1>5, <1>6, UpFromZero
  <1>8. ASSUME NEW j \in 0..n
        PROVE  C(j) \/ (A(j) /\ Kind(t, SubSeq(p, 1, j)) = "dir")
    <2>1. A(j) \/ C(j)
      BY <1>7
    <2>2. A(j) => Kind(t, SubSeq(p, 1, j)) = "dir"
      <3> SUFFICES ASSUME Fine(Walked(t, p, j)), Walked(t, p, j).at = SubSeq(p, 1, j)
                   PROVE  Kind(t, SubSeq(p, 1, j)) = "dir"
        OBVIOUS
      <3>1. j # n
        BY <1>3, Verdicts
      <3>2. j \in 0..(n - 1)
        BY <3>1
      <3> QED
        BY <1>4, <3>2
    <2>3. CASE A(j)
      <3>1. Kind(t, SubSeq(p, 1, j)) = "dir"
        BY <2>2, <2>3
      <3> HIDE DEF A, C
      <3> QED
        BY <2>3, <3>1
    <2>4. CASE C(j)
      BY <2>4
    <2> HIDE DEF A, C
    <2> QED
      BY <2>1, <2>3, <2>4
  <1> QED
    BY <1>1, <1>8

\* The names of a path, one more.
LEMMA PrefixStep ==
    ASSUME NEW p \in TreePath, NEW j \in Nat, j < Len(p),
           NEW f, f = SubSeq(p, 1, j), NEW q, q = SubSeq(p, 1, j + 1)
    PROVE  /\ f \in TreePath /\ Len(f) = j /\ q \in TreePath /\ Len(q) = j + 1
           /\ q # <<>> /\ q[1] = p[1] /\ Front(q) = f /\ q = Append(f, p[j + 1])
  <1>1. j \in 0..Len(p) /\ j + 1 \in 0..Len(p) /\ j + 1 \in 1..Len(p) /\ 1 \in 1..(j + 1)
    BY DEF TreePath
  <1>2. /\ q \in TreePath /\ Len(q) = j + 1 /\ \A i \in 1..(j + 1) : q[i] = p[i]
        /\ f \in TreePath /\ Len(f) = j /\ \A i \in 1..j : f[i] = p[i]
    BY <1>1, PrefixIs
  <1>3. q # <<>> /\ q[1] = p[1]
    BY <1>1, <1>2, EmptySeq
  <1>4. Front(q) = f
    <2>1. Len(q) - 1 = j
      BY <1>2
    <2>2. /\ Front(q) \in TreePath /\ Len(Front(q)) = j /\ \A i \in 1..j : Front(q)[i] = q[i]
      BY <1>2, <1>3, <2>1, FrontIs
    <2> QED
      BY <1>2, <2>2, SeqEqual DEF TreePath
  <1>5. q = Append(f, p[j + 1])
    <2>1. p[j + 1] \in Name
      BY <1>1 DEF TreePath
    <2>2. PICK a : a = Append(f, p[j + 1])
      OBVIOUS
    <2>3. /\ a \in Seq(Name) /\ Len(a) = j + 1 /\ a[j + 1] = p[j + 1]
          /\ \A i \in 1..j : a[i] = f[i]
      BY <1>2, <2>1, <2>2, AppendProperties DEF TreePath
    <2>4. \A i \in 1..(j + 1) : a[i] = q[i]
      BY <1>2, <2>3
    <2>5. q = a
      BY <1>2, <2>3, <2>4, SeqEqual DEF TreePath
    <2> QED
      BY <2>2, <2>5
  <1> QED
    BY <1>2, <1>3, <1>4, <1>5

\* Below the root, every prefix of a path that exists does.
LEMMA PrefixThere ==
    ASSUME NEW t, IsTree(t), NEW r \in DOMAIN t, r # <<>>, r[1] # "..", NEW l \in 0..Len(r)
    PROVE  SubSeq(r, 1, l) \in DOMAIN t
  <1>1. r \in TreePath /\ Len(r) \in Nat
    BY DEF IsTree, TreePath, Name
  <1> DEFINE S == {k \in Nat : k <= Len(r) => SubSeq(r, 1, Len(r) - k) \in DOMAIN t}
  <1>2. 0 \in S
    <2>1. SubSeq(r, 1, Len(r)) = r /\ Len(r) - 0 = Len(r)
      BY <1>1, SubSeqFull DEF TreePath
    <2> QED
      BY <2>1
  <1>3. ASSUME NEW k \in Nat, k \in S
        PROVE  k + 1 \in S
    <2> SUFFICES ASSUME k + 1 <= Len(r)
                 PROVE  SubSeq(r, 1, Len(r) - (k + 1)) \in DOMAIN t
      OBVIOUS
    <2>10. Len(r) - (k + 1) \in Nat
      BY <1>1
    <2>1. PICK j \in Nat : j = Len(r) - (k + 1)
      BY <2>10
    <2>2. j < Len(r) /\ j + 1 = Len(r) - k /\ k <= Len(r)
      BY <1>1, <2>1
    <2>3. PICK q : q = SubSeq(r, 1, j + 1)
      OBVIOUS
    <2>4. q \in DOMAIN t
      BY <1>3, <2>2, <2>3
    <2>5. PICK f : f = SubSeq(r, 1, j)
      OBVIOUS
    <2>6. q # <<>> /\ q[1] # ".." /\ Front(q) = f
      BY <1>1, <2>2, <2>3, <2>5, PrefixStep
    <2>7. f \in DOMAIN t
      BY <2>4, <2>6 DEF IsTree
    <2> QED
      BY <2>1, <2>5, <2>7
  <1>4. \A k \in Nat : k \in S
    <2> HIDE DEF S
    <2> QED
      BY <1>2, <1>3, UpFromZero
  <1>5. Len(r) - l \in Nat /\ Len(r) - l <= Len(r) /\ Len(r) - (Len(r) - l) = l
    BY <1>1
  <1> QED
    BY <1>4, <1>5

LEMMA MaxExists ==
    ASSUME NEW n \in Nat, NEW S, S \subseteq 0..n, S # {}
    PROVE  \E m \in S : \A y \in S : y <= m
  <1> DEFINE T == {k \in Nat : \A Q \in SUBSET (0..k) : Q # {} => \E m \in Q : \A y \in Q : y <= m}
  <1>1. 0 \in T
    <2> SUFFICES ASSUME NEW Q \in SUBSET (0..0), Q # {}
                 PROVE  \E m \in Q : \A y \in Q : y <= m
      OBVIOUS
    <2>1. PICK m \in Q : TRUE
      OBVIOUS
    <2>2. \A y \in Q : y <= m
      OBVIOUS
    <2> QED
      BY <2>2
  <1>2. ASSUME NEW k \in Nat, k \in T
        PROVE  k + 1 \in T
    <2> SUFFICES ASSUME NEW Q \in SUBSET (0..(k + 1)), Q # {}
                 PROVE  \E m \in Q : \A y \in Q : y <= m
      OBVIOUS
    <2>1. CASE k + 1 \in Q
      <3>1. \A y \in Q : y <= k + 1
        OBVIOUS
      <3> QED
        BY <2>1, <3>1
    <2>2. CASE k + 1 \notin Q
      <3>1. Q \in SUBSET (0..k)
        BY <2>2
      <3> QED
        BY <1>2, <3>1
    <2> QED
      BY <2>1, <2>2
  <1>3. \A k \in Nat : k \in T
    <2> HIDE DEF T
    <2> QED
      BY <1>1, <1>2, UpFromZero
  <1> QED
    BY <1>3

LEMMA AcceptedName ==
    ASSUME NEW t, NEW p, Accepts(t, p)
    PROVE  ~withheld(p) /\ \A i \in DOMAIN p : p[i] # ".."
  <1>1. ~(withheld(p) \/ \E i \in DOMAIN p : p[i] \in {"..", "NUL"})
    BY Zenon DEF resolve, Accepts
  <1> QED
    BY <1>1

\* The tree t after the directories of D were made.
WithDirs(t, D, i) == [q \in DOMAIN t \cup D |-> IF q \in DOMAIN t THEN t[q] ELSE Dir(i)]

LEMMA DirsTree ==
    ASSUME NEW t, IsTree(t), NEW D, IsFiniteSet(D), NEW i, NEW u, u = WithDirs(t, D, i),
           \A d \in D : d \in TreePath /\ d # <<>> /\ Kind(u, Front(d)) = "dir"
    PROVE  IsTree(u)
  <1>1. DOMAIN u = DOMAIN t \cup D
    BY DEF WithDirs
  <1>2. \A q \in DOMAIN t : u[q] = t[q]
    BY DEF WithDirs
  <1>3. \A q \in D \ DOMAIN t : u[q] = Dir(i)
    BY DEF WithDirs
  <1>4. IsFiniteSet(DOMAIN u) /\ <<>> \in DOMAIN u /\ u[<<>>].kind = "dir"
    BY <1>1, <1>2, FS_Union DEF IsTree
  <1>5. ASSUME NEW q \in DOMAIN u
        PROVE  /\ q \in Seq(DOMAIN Rank) /\ u[q].to \in Seq(DOMAIN Rank)
               /\ u[q] = [kind |-> u[q].kind, data |-> u[q].data, to |-> u[q].to,
                          id |-> u[q].id, locked |-> u[q].locked]
               /\ q # <<>> /\ q[1] # ".." => Front(q) \in DOMAIN u /\ u[Front(q)].kind = "dir"
    <2>1. CASE q \in DOMAIN t
      <3>1. /\ q \in Seq(DOMAIN Rank) /\ t[q].to \in Seq(DOMAIN Rank)
            /\ t[q] = [kind |-> t[q].kind, data |-> t[q].data, to |-> t[q].to,
                       id |-> t[q].id, locked |-> t[q].locked]
            /\ q # <<>> /\ q[1] # ".." => Front(q) \in DOMAIN t /\ t[Front(q)].kind = "dir"
        BY <2>1 DEF IsTree
      <3> QED
        BY <1>1, <1>2, <2>1, <3>1
    <2>2. CASE q \notin DOMAIN t
      <3>1. q \in D /\ u[q] = Dir(i)
        BY <1>1, <1>3, <2>2
      <3>2. q \in Seq(DOMAIN Rank) /\ Kind(u, Front(q)) = "dir"
        BY <3>1 DEF TreePath, Name
      <3>3. Front(q) \in DOMAIN u /\ u[Front(q)].kind = "dir"
        BY <3>2 DEF Kind
      <3>4. u[q].to = <<>> /\ <<>> \in Seq(DOMAIN Rank)
        BY <3>1 DEF Dir
      <3>5. u[q] = [kind |-> u[q].kind, data |-> u[q].data, to |-> u[q].to,
                    id |-> u[q].id, locked |-> u[q].locked]
        BY <3>1 DEF Dir
      <3> QED
        BY <3>2, <3>3, <3>4, <3>5
    <2> QED
      BY <2>1, <2>2
  <1> QED
    BY <1>4, <1>5 DEF IsTree

\* What a creation knows of its file p in the tree u: its directory is there, the
\* name is free and one the tools may touch, and nothing is in the directories D
\* that were made for it.
Ready(u, D, p) ==
    /\ p # <<>> /\ Fine(EvalSymlinks(u, Front(p)))
    /\ Kind(u, EvalSymlinks(u, Front(p)).at) = "dir"
    /\ SafePath(Append(EvalSymlinks(u, Front(p)).at, Last(p)))
    /\ \A d \in D : SafePath(d) /\ \A r \in DOMAIN u : Under(d, r) => r \in D \/ Kind(u, r) # "dir"

\* A walk through directories only.
LEMMA StraightWalk ==
    ASSUME NEW t, NEW p \in TreePath, NEW n \in Nat, n <= Len(p),
           \A j \in 0..n : Kind(t, SubSeq(p, 1, j)) = "dir"
    PROVE  Fine(Walked(t, p, n)) /\ Walked(t, p, n).at = SubSeq(p, 1, n)
  <1> DEFINE f(j) == SubSeq(p, 1, j)
  <1> DEFINE S == {j \in Nat : j <= n => Fine(Walked(t, p, j)) /\ Walked(t, p, j).at = f(j)}
  <1>11. 0 \in S
    <2>1. f(0) = <<>>
      BY SubSeqEmpty
    <2> QED
      BY <2>1, WalkStarts
  <1>12. ASSUME NEW j \in Nat, j \in S
         PROVE  j + 1 \in S
    <2> SUFFICES ASSUME j + 1 <= n
                 PROVE  Fine(Walked(t, p, j + 1)) /\ Walked(t, p, j + 1).at = f(j + 1)
      OBVIOUS
    <2>1. j <= n /\ j < Len(p) /\ j \in 0..n /\ j + 1 \in 0..n
      OBVIOUS
    <2>2. PICK w : w = Walked(t, p, j)
      OBVIOUS
    <2>3. PICK v : v = Walked(t, p, j + 1)
      OBVIOUS
    <2>4. PICK q : q = f(j + 1)
      OBVIOUS
    <2>5. PICK g : g = f(j)
      OBVIOUS
    <2>6. IsRecord(w) /\ v = Enter(t, w, p[j + 1])
      BY <2>1, <2>2, <2>3, WalkNext
    <2>7. Fine(w) /\ w.at = g
      BY <1>12, <2>1, <2>2, <2>5
    <2>8. Kind(t, g) = "dir" /\ Kind(t, q) = "dir"
      BY <2>1, <2>4, <2>5
    <2>9. q = Append(w.at, p[j + 1])
      BY <2>1, <2>4, <2>5, <2>7, PrefixStep
    <2>10. Found(t, v, q)
      BY <2>6, <2>7, <2>8, <2>9, EnterIs DEF Entered
    <2>11. q \in DOMAIN t
      BY <2>8 DEF Kind
    <2> QED
      BY <2>3, <2>4, <2>10, <2>11 DEF Found
  <1>13. \A j \in Nat : j \in S
    <2> HIDE DEF S
    <2> QED
      BY <1>11, <1>12, UpFromZero
  <1>14. n \in S
    BY <1>13
  <1> QED
    BY <1>14

LEMMA SafePrefix ==
    ASSUME NEW p \in TreePath, ~withheld(p), p[1] # "..", NEW k \in Nat, k < Len(p),
           NEW d, d = SubSeq(p, 1, k + 1)
    PROVE  SafePath(d) /\ d[1] = p[1] /\ Front(d) = SubSeq(p, 1, k)
  <1>1. PICK g : g = SubSeq(p, 1, k)
    OBVIOUS
  <1>2. d \in TreePath /\ Len(d) = k + 1 /\ d # <<>> /\ d[1] = p[1] /\ Front(d) = g
    <2>1. d \in TreePath
      BY <1>1, PrefixStep
    <2>2. Len(d) = k + 1
      BY <1>1, PrefixStep
    <2>3. d # <<>>
      BY <1>1, PrefixStep
    <2>4. d[1] = p[1]
      BY <1>1, PrefixStep
    <2>5. Front(d) = g
      BY <1>1, PrefixStep
    <2> QED
      BY <2>1, <2>2, <2>3, <2>4, <2>5
  <1>3. ~withheld(d)
    <2>1. k + 1 \in 0..Len(p) /\ Len(p) \in Nat
      BY DEF TreePath
    <2>2. \A j \in 1..(k + 1) : d[j] = p[j]
      BY <2>1, PrefixIs
    <2>3. DOMAIN d = 1..(k + 1) /\ \A j \in DOMAIN d : j \in DOMAIN p
      BY <1>2, <2>1 DEF TreePath
    <2> QED
      BY <2>2, <2>3 DEF withheld
  <1>4. insidePath(d)
    <2>1. Head(d) = d[1]
      BY <1>2 DEF TreePath
    <2> QED
      BY <1>2, <2>1 DEF insidePath
  <1> QED
    BY <1>1, <1>2, <1>3, <1>4 DEF SafePath

LEMMA ParentsMade ==
    ASSUME NEW t, IsTree(t), NEW p \in TreePath, Accepts(t, p), Missing(Lstat(t, p)),
           Missing(EvalSymlinks(t, Front(p))),
           \A q \in Prefixes(Front(p)) : Kind(t, q) # "link",
           NEW D, D = {q \in Prefixes(Front(p)) : Missing(EvalSymlinks(t, q))}, IsFiniteSet(D),
           NEW i, NEW u, u = WithDirs(t, D, i)
    PROVE  /\ IsTree(u) /\ Ready(u, D, p)
           /\ Append(EvalSymlinks(u, Front(p)).at, Last(p)) = missingPath(t, p)
           /\ D \cap DOMAIN t = {}
  <1>1. p # <<>> /\ Missing(EvalSymlinks(t, p))
    BY MissingName
  <1>2. PICK n \in Nat : n = Len(p) - 1
    BY <1>1, FrontIs
  <1>3. /\ Len(p) = n + 1 /\ Front(p) \in TreePath /\ Len(Front(p)) = n
        /\ Front(p) = SubSeq(p, 1, n) /\ Last(p) = p[n + 1]
        /\ \A l \in 0..n : SubSeq(Front(p), 1, l) = SubSeq(p, 1, l)
        /\ n \in 0..Len(p) /\ n < Len(p)
    BY <1>1, <1>2, FrontIs
  <1>4. ~withheld(p) /\ \A j \in DOMAIN p : p[j] # ".."
    BY AcceptedName
  <1>5. 1 \in DOMAIN p /\ DOMAIN p = 1..(n + 1)
    BY <1>3 DEF TreePath
  <1> DEFINE f(j) == SubSeq(p, 1, j)
  <1>6. ASSUME NEW j \in 0..n
        PROVE  \/ Fine(Walked(t, p, j)) /\ Walked(t, p, j).at = f(j) /\ Kind(t, f(j)) = "dir"
               \/ Missing(Walked(t, p, j)) /\ f(j) \notin DOMAIN t
    <2>1. Len(p) - 1 = n
      BY <1>3
    <2>2. \A l \in 0..n :
             \/ Fine(Walked(t, p, l)) /\ Walked(t, p, l).at = f(l) /\ Kind(t, f(l)) = "dir"
             \/ Missing(Walked(t, p, l)) /\ f(l) \notin DOMAIN t
      BY <1>1, <1>4, <2>1, ParentsGone
    <2> QED
      BY <2>2
  <1>7. \A q \in D : \E j \in 0..n : q = f(j) /\ Missing(Walked(t, p, j))
    BY <1>3 DEF Prefixes, Walked
  <1>8. \A j \in 0..n : Missing(Walked(t, p, j)) => f(j) \in D
    BY <1>3 DEF Prefixes, Walked
  <1>9. D \cap DOMAIN t = {}
    <2> SUFFICES ASSUME NEW j \in 0..n, Missing(Walked(t, p, j)) PROVE f(j) \notin DOMAIN t
      BY <1>7
    <2> QED
      BY <1>6, Verdicts
  <1>10. ASSUME NEW j \in 0..n
         PROVE  Kind(u, f(j)) = "dir"
    <2>1. CASE Kind(t, f(j)) = "dir"
      <3>1. f(j) \in DOMAIN t /\ t[f(j)].kind = "dir"
        BY <2>1 DEF Kind
      <3>2. f(j) \in DOMAIN u /\ u[f(j)] = t[f(j)]
        BY <3>1 DEF WithDirs
      <3> QED
        BY <3>1, <3>2 DEF Kind
    <2>2. CASE Missing(Walked(t, p, j)) /\ f(j) \notin DOMAIN t
      <3>1. f(j) \in DOMAIN u /\ u[f(j)] = Dir(i)
        BY <1>8, <2>2 DEF WithDirs
      <3> QED
        BY <3>1 DEF Kind, Dir
    <2> QED
      BY <1>6, <2>1, <2>2
  <1>13. Fine(Walked(u, p, n)) /\ Walked(u, p, n).at = f(n)
    BY <1>3, <1>10, StraightWalk
  <1>14. /\ Fine(EvalSymlinks(u, Front(p))) /\ EvalSymlinks(u, Front(p)).at = Front(p)
         /\ Kind(u, Front(p)) = "dir"
    <2>1. Fine(Walked(u, p, n)) /\ Walked(u, p, n).at = f(n)
      BY <1>13
    <2>2. Walked(u, p, n) = EvalSymlinks(u, Front(p))
      BY <1>3 DEF Walked
    <2>3. Kind(u, f(n)) = "dir"
      BY <1>10
    <2> QED
      BY <1>3, <2>1, <2>2, <2>3
  <1>15. Append(EvalSymlinks(u, Front(p)).at, Last(p)) = p
    <2>1. f(n + 1) = p
      BY <1>3, SubSeqFull DEF TreePath
    <2>2. f(n + 1) = Append(f(n), p[n + 1])
      BY <1>3, PrefixStep
    <2> QED
      BY <1>3, <1>14, <2>1, <2>2
  <1>16. SafePath(p)
    <2>1. Head(p) = p[1]
      BY <1>1, HeadTailOfSubSeq DEF TreePath
    <2> QED
      BY <1>1, <1>4, <1>5, <2>1 DEF SafePath, insidePath
  <1>17. ASSUME NEW d \in D
         PROVE  /\ SafePath(d) /\ d[1] = p[1] /\ Kind(u, Front(d)) = "dir"
                /\ \E j \in 0..(n - 1) : d = f(j + 1)
    <2>1. PICK j \in 0..n : d = f(j) /\ Missing(Walked(t, p, j))
      BY <1>7
    <2>2. j # 0
      BY <2>1, WalkStarts, Verdicts
    <2>3. PICK k \in 0..(n - 1) : k + 1 = j
      BY <2>2
    <2>4. k \in Nat /\ k < Len(p) /\ k \in 0..n
      BY <1>3
    <2>5. p[1] # ".."
      BY <1>4, <1>5
    <2>6. d = SubSeq(p, 1, k + 1)
      BY <2>1, <2>3
    <2>7. SafePath(d) /\ d[1] = p[1] /\ Front(d) = SubSeq(p, 1, k)
      BY <1>4, <2>4, <2>5, <2>6, SafePrefix
    <2>8. Kind(u, SubSeq(p, 1, k)) = "dir"
      BY <1>10, <2>4
    <2> QED
      BY <2>6, <2>7, <2>8
  <1>18. IsTree(u)
    <2>1. \A d \in D : d \in TreePath /\ d # <<>> /\ Kind(u, Front(d)) = "dir"
      BY <1>17 DEF SafePath
    <2> HIDE DEF f
    <2> QED
      BY <2>1, DirsTree
  <1>19. ASSUME NEW d \in D, NEW r \in DOMAIN u, Under(d, r)
         PROVE  r \in D
    <2> SUFFICES ASSUME r \notin D PROVE FALSE
      OBVIOUS
    <2>1. r \in DOMAIN t
      BY DEF WithDirs
    <2>2. r \in TreePath /\ d \in TreePath /\ d # <<>> /\ d[1] # ".." /\ Len(d) \in Nat \ {0} /\ Len(r) \in Nat
      <3>1. r \in TreePath
        BY <2>1 DEF IsTree, TreePath, Name
      <3>2. d \in TreePath /\ d # <<>> /\ d[1] # ".."
        BY <1>4, <1>5, <1>17 DEF SafePath
      <3> QED
        BY <3>1, <3>2, FrontIs DEF TreePath
    <2>3. Len(d) <= Len(r) /\ d[1] = r[1]
      BY <2>2, UnderIs, <1>19
    <2>4. r # <<>>
      BY <2>2, <2>3, EmptySeq
    <2>5. PICK l \in 0..Len(r) : d = SubSeq(r, 1, l)
      BY <1>19 DEF Under, Prefixes
    <2>6. d \in DOMAIN t
      BY <2>1, <2>2, <2>3, <2>4, <2>5, PrefixThere
    <2> QED
      BY <1>9, <2>6
  <1>20. missingPath(t, p) = p
    <2> DEFINE F == {j \in 0..Len(p) : Fine(Walked(t, p, j))}
    <2>1. 0 \in F /\ F \subseteq 0..(n + 1)
      BY <1>3, WalkStarts
    <2>2. PICK m \in F : \A y \in F : y <= m
      <3>1. n + 1 \in Nat /\ F # {}
        BY <2>1
      <3> HIDE DEF F
      <3> QED
        BY <2>1, <3>1, MaxExists
    <2>3. m \in 0..Len(p) /\ Fine(Walked(t, p, m)) /\ \A j \in 0..Len(p) : Fine(Walked(t, p, j)) => j <= m
      BY <2>2
    <2>4. missingPath(t, p) = Walked(t, p, m).at \o SubSeq(p, m + 1, Len(p))
      BY <1>1, <2>3, MissingPathIs
    <2>5. m # n + 1
      <3>1. Walked(t, p, n + 1) = EvalSymlinks(t, p)
        BY <1>3, WalkStarts
      <3> QED
        BY <1>1, <2>3, <3>1, Verdicts
    <2>6. m \in 0..n
      BY <1>3, <2>3, <2>5
    <2>7. Walked(t, p, m).at = f(m)
      BY <1>6, <2>3, <2>6, Verdicts
    <2>8. f(m) \o SubSeq(p, m + 1, Len(p)) = SubSeq(p, 1, Len(p))
      <3>1. p \in Seq(Name) /\ 1 \in 1..Len(p) + 1 /\ m \in 1 - 1 .. Len(p) /\ Len(p) \in m..Len(p)
        BY <1>3, <2>6 DEF TreePath
      <3> QED
        BY <3>1, ConcatAdjacentSubSeq
    <2>9. SubSeq(p, 1, Len(p)) = p
      BY SubSeqFull DEF TreePath
    <2> QED
      BY <2>4, <2>7, <2>8, <2>9
  <1>21. Ready(u, D, p)
    BY <1>1, <1>14, <1>15, <1>16, <1>17, <1>19 DEF Ready
  <1> QED
    BY <1>9, <1>15, <1>18, <1>20, <1>21

\* What the check of a creation has found when it refuses nothing.
Creatable(c, k) == createCode(c, k) = ""

LEMMA CreatableIs ==
    ASSUME NEW c, NEW k, Creatable(c, k), NEW w, w = EvalSymlinks(fs, Front(k.path)),
           Fine(w) \/ Missing(w) \/ Broken(w)
    PROVE  /\ c \in AgentTools => missingPath(fs, k.path) \notin DOMAIN seen[c]
           /\ Fine(w) \/ Missing(w)
           /\ Missing(w) => \A q \in Prefixes(Front(k.path)) : Kind(fs, q) # "link"
  <1>1. /\ ~(c \in AgentTools /\ missingPath(fs, k.path) \in DOMAIN seen[c])
        /\ w.err = "not_found" => ~\E q \in Prefixes(Front(k.path)) : Kind(fs, q) = "link"
        /\ w.err # "not_found" => w.err = ""
    BY Zenon DEF Creatable, createCode
  <1> QED
    BY <1>1, Zenon DEF Fine, Missing

LEMMA ListedSet ==
    ASSUME NEW s, NEW S, Lists(s, S)
    PROVE  ToSet(s) = S
  <1>1. PICK n : n = Cardinality(S)
    OBVIOUS
  <1>2. /\ s = [i \in 1..n |-> s[i]] /\ \A i \in 1..n : s[i] \in S
        /\ \A x \in S : \E i \in 1..n : s[i] = x
    BY <1>1 DEF Lists
  <1>3. DOMAIN s = 1..n
    BY <1>2
  <1> QED
    BY <1>2, <1>3 DEF ToSet

LEMMA FewPrefixes ==
    ASSUME NEW p \in TreePath
    PROVE  IsFiniteSet(Prefixes(p))
  <1>1. Len(p) \in Nat
    BY DEF TreePath
  <1>2. IsFiniteSet(0..Len(p))
    BY <1>1, FS_Interval
  <1> DEFINE g == [l \in 0..Len(p) |-> SubSeq(p, 1, l)]
             T == Prefixes(p)
  <1>3. g \in Surjection(0..Len(p), T)
    BY DEF Prefixes, Surjection
  <1> HIDE DEF g, T
  <1>4. IsFiniteSet(T)
    BY <1>2, <1>3, FS_Surjection
  <1> QED
    BY <1>4 DEF T

\* The directories a creation makes, and the tree it then works in.
LEMMA CreatesReady ==
    ASSUME IsTree(fs), NEW c, NEW k, NEW p \in TreePath, p = k.path, Accepts(fs, p),
           Missing(Lstat(fs, p)), Creatable(c, k),
           NEW D, D = ToSet(missingParents(p)), NEW i, NEW u, u = WithDirs(fs, D, i)
    PROVE  /\ IsTree(u) /\ Ready(u, D, p) /\ D \cap DOMAIN fs = {}
           /\ c \in AgentTools => Append(EvalSymlinks(u, Front(p)).at, Last(p)) \notin DOMAIN seen[c]
  <1>1. PICK w : w = EvalSymlinks(fs, Front(p))
    OBVIOUS
  <1>2. p # <<>> /\ Front(p) \in TreePath
    BY MissingName, FrontIs
  <1>3. Stands(fs, w)
    BY <1>1, <1>2, EvalStands
  <1>4. /\ c \in AgentTools => missingPath(fs, p) \notin DOMAIN seen[c]
        /\ Fine(w) \/ Missing(w)
        /\ Missing(w) => \A q \in Prefixes(Front(p)) : Kind(fs, q) # "link"
    BY <1>1, <1>3, CreatableIs DEF Stands
  <1>5. D = {q \in Prefixes(Front(p)) : Missing(EvalSymlinks(fs, q))}
    BY <1>2, ParentsListed, ListedSet DEF Missing
  <1>6. IsFiniteSet(D)
    <2>1. IsFiniteSet(Prefixes(Front(p))) /\ D \subseteq Prefixes(Front(p))
      BY <1>2, <1>5, FewPrefixes
    <2> QED
      BY <2>1, FS_Subset
  <1>7. CASE Missing(w)
    <2>1. /\ IsTree(u) /\ Ready(u, D, p)
          /\ Append(EvalSymlinks(u, Front(p)).at, Last(p)) = missingPath(fs, p)
          /\ D \cap DOMAIN fs = {}
      BY <1>1, <1>4, <1>5, <1>6, <1>7, ParentsMade
    <2> QED
      BY <1>4, <2>1
  <1>8. CASE Fine(w)
    <2>1. /\ Kind(fs, w.at) = "dir" /\ SafePath(Append(w.at, Last(p)))
          /\ missingPath(fs, p) = Append(w.at, Last(p))
          /\ \A q \in Prefixes(Front(p)) : ~Missing(EvalSymlinks(fs, q))
      BY <1>1, <1>8, ParentThere
    <2>2. D = {}
      BY <1>5, <2>1
    <2>3. DOMAIN u = DOMAIN fs /\ \A q \in DOMAIN fs : u[q] = fs[q]
      BY <2>2 DEF WithDirs
    <2>4. EvalSymlinks(u, Front(p)) = w
      <3>1. Firm(fs, u)
        BY <2>3 DEF Firm
      <3> QED
        BY <1>1, <1>2, <1>8, <2>1, <3>1, FirmWalk
    <2>5. Kind(u, w.at) = "dir"
      BY <2>1, <2>3 DEF Kind
    <2>6. Ready(u, D, p)
      BY <1>2, <1>8, <2>1, <2>2, <2>4, <2>5 DEF Ready
    <2>7. IsTree(u)
      BY <1>6, <2>2, DirsTree
    <2> QED
      BY <1>4, <2>1, <2>2, <2>4, <2>6, <2>7
  <1> QED
    BY <1>4, <1>7, <1>8

(***************************************************************************)
(* What a call is about to replace or remove.                              *)
(***************************************************************************)
Deletable(t, p) == deletePath(t, p) = ""

LEMMA DeletableIs ==
    ASSUME NEW t, NEW p \in TreePath, Deletable(t, p)
    PROVE  /\ SafePath(p) /\ p \in DOMAIN t
           /\ \A q \in Prefixes(p) : q # <<>> /\ q # p => Kind(t, q) = "dir"
  <1>1. /\ ~(withheld(p) \/ p = <<>> \/ \E i \in DOMAIN p : p[i] \in {"..", "NUL"})
        /\ p \in DOMAIN t
    BY Zenon DEF Deletable, deletePath
  <1>2. \A q \in Prefixes(p) : q # <<>> /\ q # p => Kind(t, q) = "dir"
    BY Zenon DEF Deletable, deletePath
  <1>3. insidePath(p)
    <2>1. Head(p) = p[1] /\ 1 \in DOMAIN p
      BY <1>1, EmptySeq DEF TreePath
    <2> QED
      BY <1>1, <2>1 DEF insidePath
  <1> QED
    BY <1>1, <1>2, <1>3 DEF SafePath

\* What the check of a call that will replace or remove a file has found.
LEMMA CheckedIsFile ==
    ASSUME NEW c, NEW k, Fine([err |-> Checked(c, k).code]),
           Checked(c, k).then \in {"publish", "recheck", "remove"}
    PROVE  /\ Fine(Lstat(fs, k.path)) /\ Kind(fs, Lstat(fs, k.path).at) # "link"
           /\ Accepts(fs, k.path) \/ Deletable(fs, k.path)
           /\ k.tool # "edit_file" => Kind(fs, Lstat(fs, k.path).at) = "file"
           /\ k.tool = "edit_file" => Fine([err |-> checkDigest(c, k, FALSE)])
  <1>1. PICK l : l = Lstat(fs, k.path)
    OBVIOUS
  <1>2. Checked(c, k).code = ""
    BY Zenon DEF Fine
  <1> QED
    BY <1>1, <1>2, Zenon DEF Checked, fileTarget, Fine, Accepts, Deletable

LEMMA SnapshotIsFile ==
    ASSUME NEW t, NEW p, NEW v, v = EvalSymlinks(t, p), readSnapshot(t, p).code = ""
    PROVE  Kind(t, v.at) = "file"
  BY Zenon DEF readSnapshot

LEMMA DigestIsFile ==
    ASSUME NEW c, NEW k, NEW v, v = EvalSymlinks(fs, k.path), Fine([err |-> checkDigest(c, k, FALSE)])
    PROVE  Kind(fs, v.at) = "file"
  <1>1. checkDigest(c, k, FALSE) = ""
    BY Zenon DEF Fine
  <1>2. readSnapshot(fs, k.path).code = ""
    <2>1. CASE k.expected = None
      BY <1>1, <2>1, Zenon DEF checkDigest, checkSeenDigest
    <2>2. CASE k.expected # None
      BY <1>1, <2>2, Zenon DEF checkDigest, checkFileDigest
    <2> QED
      BY <2>1, <2>2, Zenon
  <1> QED
    BY <1>2, SnapshotIsFile, Zenon

\* The same for a name that Lstat follows to what it names.
LEMMA SameFileIs ==
    ASSUME NEW t, NEW p \in TreePath, Fine(Lstat(t, p)), Kind(t, Lstat(t, p).at) # "link"
    PROVE  EvalSymlinks(t, p) = Lstat(t, p)
  <1>1. Lstat(t, p).err = ""
    BY Zenon DEF Fine
  <1> QED
    BY <1>1, SameFile, Zenon DEF TreePath

\* A file below the root has a directory there.
LEMMA FileStands ==
    ASSUME NEW t, IsTree(t), NEW q \in TreePath, Kind(t, q) = "file", insidePath(q), ~withheld(q)
    PROVE  SafePath(q) /\ Kind(t, Front(q)) = "dir"
  <1>1. q \in DOMAIN t /\ t[q].kind = "file"
    BY DEF Kind
  <1>2. q # <<>>
    BY <1>1 DEF IsTree
  <1>3. q[1] # ".."
    <2>1. Head(q) = q[1]
      BY <1>2 DEF TreePath
    <2> QED
      BY <1>2, <2>1 DEF insidePath
  <1>4. Front(q) \in DOMAIN t /\ t[Front(q)].kind = "dir"
    BY <1>1, <1>2, <1>3 DEF IsTree
  <1> QED
    BY <1>2, <1>4 DEF SafePath, Kind

LEMMA CheckedIsSafe ==
    ASSUME IsTree(fs), NEW c, NEW k, NEW p \in TreePath, p = k.path, Fine([err |-> Checked(c, k).code]),
           Checked(c, k).then \in {"publish", "recheck", "remove"},
           NEW q, q = Lstat(fs, p).at
    PROVE  SafePath(q) /\ Kind(fs, Front(q)) = "dir"
  <1>1. PICK l : l = Lstat(fs, p)
    OBVIOUS
  <1>2. PICK v : v = EvalSymlinks(fs, p)
    OBVIOUS
  <1>3. /\ Fine(l) /\ Kind(fs, l.at) # "link" /\ (Accepts(fs, p) \/ Deletable(fs, p))
        /\ k.tool # "edit_file" => Kind(fs, l.at) = "file"
        /\ k.tool = "edit_file" => Fine([err |-> checkDigest(c, k, FALSE)])
    BY <1>1, CheckedIsFile
  <1>4. v = l
    BY <1>1, <1>2, <1>3, SameFileIs
  <1>5. Kind(fs, q) = "file"
    BY <1>1, <1>2, <1>3, <1>4, DigestIsFile
  <1>6. q \in TreePath
    <2>1. Stands(fs, v)
      BY <1>2, EvalStands
    <2> QED
      BY <1>1, <1>4, <2>1 DEF Stands
  <1>7. insidePath(q) /\ ~withheld(q)
    <2>1. CASE Accepts(fs, p)
      <3>1. PICK m : m = Len(p)
        OBVIOUS
      <3>2. m \in 0..Len(p) /\ m \in Nat /\ \A j \in 0..Len(p) : j <= m
        BY <3>1 DEF TreePath
      <3>3. SubSeq(p, 1, m) = p
        BY <3>1, SubSeqFull DEF TreePath
      <3>4. ~Missing(Lstat(fs, SubSeq(p, 1, m)))
        BY <1>1, <1>3, <3>3, Verdicts
      <3>5. insidePath(Walked(fs, p, m).at) /\ ~withheld(Walked(fs, p, m).at)
        BY <2>1, <3>2, <3>4, ResolveIs
      <3>6. Walked(fs, p, m) = v
        BY <1>2, <3>1, WalkStarts
      <3> QED
        BY <1>1, <1>4, <3>5, <3>6
    <2>2. CASE Deletable(fs, p)
      <3>1. SafePath(p) /\ \A r \in Prefixes(p) : r # <<>> /\ r # p => Kind(fs, r) = "dir"
        BY <2>2, DeletableIs
      <3>2. PICK n \in Nat : n = Len(p) - 1
        BY <3>1, FrontIs DEF SafePath
      <3>3. n < Len(p) /\ n <= Len(p) /\ Len(p) = n + 1 /\ n \in 0..Len(p)
        BY <3>1, <3>2, FrontIs DEF SafePath
      <3>4. ASSUME NEW j \in 0..n
            PROVE  Kind(fs, SubSeq(p, 1, j)) = "dir"
        <4>1. j \in 0..Len(p) /\ j # Len(p)
          BY <3>3
        <4>2. PICK r : r = SubSeq(p, 1, j)
          OBVIOUS
        <4>3. r \in Prefixes(p)
          BY <4>1, <4>2 DEF Prefixes
        <4>4. r # p
          <5>1. Len(r) = j
            BY <4>1, <4>2, PrefixIs
          <5> QED
            BY <4>1, <5>1
        <4>5. Kind(fs, <<>>) = "dir"
          BY DEF IsTree, Kind
        <4> QED
          BY <3>1, <4>2, <4>3, <4>4, <4>5
      <3>5. Fine(Walked(fs, p, n)) /\ Walked(fs, p, n).at = SubSeq(p, 1, n)
        BY <3>3, <3>4, StraightWalk
      <3>6. Front(p) = SubSeq(p, 1, n) /\ Last(p) = p[n + 1]
        BY <3>1, <3>2, <3>3, FrontIs DEF SafePath
      <3>7. PICK w : w = EvalSymlinks(fs, Front(p))
        OBVIOUS
      <3>8. Fine(w) /\ w.at = SubSeq(p, 1, n) /\ Kind(fs, w.at) = "dir"
        <4>1. n \in 0..n
          OBVIOUS
        <4> QED
          BY <3>4, <3>5, <3>6, <3>7, <4>1 DEF Walked
      <3>9. PICK r : r = Append(w.at, Last(p))
        OBVIOUS
      <3>10. Looked(fs, w, r, l)
        BY <1>1, <3>1, <3>7, <3>9, LastStep DEF SafePath
      <3>11. l.at = r
        BY <3>8, <3>10 DEF Looked, Found
      <3>12. r = p
        <4>1. PICK e : e = SubSeq(p, 1, n + 1)
          OBVIOUS
        <4>2. e = p
          BY <3>3, <4>1, SubSeqFull DEF TreePath
        <4>3. PICK g : g = SubSeq(p, 1, n)
          OBVIOUS
        <4>4. e = Append(g, p[n + 1])
          BY <3>3, <4>1, <4>3, PrefixStep
        <4> QED
          BY <3>6, <3>8, <3>9, <4>2, <4>3, <4>4
      <3> QED
        BY <1>1, <3>1, <3>11, <3>12 DEF SafePath
    <2> QED
      BY <1>3, <2>1, <2>2
  <1> QED
    BY <1>5, <1>6, <1>7, FileStands

(***************************************************************************)
(* Trees that change.                                                      *)
(***************************************************************************)
LEMMA PutTree ==
    ASSUME NEW t, IsTree(t), NEW p \in TreePath, p # <<>>, Kind(t, p) # "dir",
           Kind(t, Front(p)) = "dir", NEW d, NEW i, NEW u, u = Put(t, p, File(d, i))
    PROVE  IsTree(u)
  <1>1. DOMAIN u = DOMAIN t \cup {p}
    BY DEF Put
  <1>2. \A q \in DOMAIN t : q # p => u[q] = t[q]
    BY DEF Put
  <1>3. u[p] = File(d, i)
    BY DEF Put
  <1>4. IsFiniteSet(DOMAIN u) /\ <<>> \in DOMAIN u /\ u[<<>>].kind = "dir"
    BY <1>1, <1>2, FS_AddElement DEF IsTree
  <1>5. ASSUME NEW q \in DOMAIN u, q # <<>>, q[1] # ".."
        PROVE  Front(q) \in DOMAIN u /\ u[Front(q)].kind = "dir"
    <2>1. Front(q) \in DOMAIN t /\ t[Front(q)].kind = "dir"
      <3>1. CASE q = p
        BY <3>1 DEF Kind
      <3>2. CASE q # p
        BY <1>1, <1>5, <3>2 DEF IsTree
      <3> QED
        BY <3>1, <3>2
    <2>2. Front(q) # p
      BY <2>1 DEF Kind
    <2> QED
      BY <1>1, <1>2, <2>1, <2>2
  <1>6. ASSUME NEW q \in DOMAIN u
        PROVE  /\ q \in Seq(DOMAIN Rank) /\ u[q].to \in Seq(DOMAIN Rank)
               /\ u[q] = [kind |-> u[q].kind, data |-> u[q].data, to |-> u[q].to,
                          id |-> u[q].id, locked |-> u[q].locked]
    <2>1. CASE q = p
      <3>1. q \in Seq(DOMAIN Rank)
        BY <2>1 DEF TreePath, Name
      <3>2. u[q].to = <<>> /\ <<>> \in Seq(DOMAIN Rank)
        BY <1>3, <2>1 DEF File
      <3>3. u[q] = [kind |-> u[q].kind, data |-> u[q].data, to |-> u[q].to,
                    id |-> u[q].id, locked |-> u[q].locked]
        BY <1>3, <2>1 DEF File
      <3> QED
        BY <3>1, <3>2, <3>3
    <2>2. CASE q # p
      <3>1. q \in DOMAIN t /\ u[q] = t[q]
        BY <1>1, <1>2, <2>2
      <3> QED
        BY <3>1 DEF IsTree
    <2> QED
      BY <2>1, <2>2
  <1> QED
    BY <1>4, <1>5, <1>6 DEF IsTree

\* Paths are taken away with all that is below them.
LEMMA WithoutTree ==
    ASSUME NEW t, IsTree(t), NEW R, <<>> \notin R,
           \A r \in DOMAIN t : r # <<>> /\ r[1] # ".." /\ Front(r) \in R => r \in R,
           NEW u, u = Without(t, R)
    PROVE  IsTree(u)
  <1>1. DOMAIN u = DOMAIN t \ R /\ \A q \in DOMAIN u : u[q] = t[q]
    BY DEF Without
  <1>2. IsFiniteSet(DOMAIN u)
    BY <1>1, FS_Difference DEF IsTree
  <1>3. <<>> \in DOMAIN u /\ u[<<>>].kind = "dir"
    BY <1>1 DEF IsTree
  <1>4. ASSUME NEW q \in DOMAIN u
        PROVE  /\ q \in Seq(DOMAIN Rank) /\ u[q].to \in Seq(DOMAIN Rank)
               /\ u[q] = [kind |-> u[q].kind, data |-> u[q].data, to |-> u[q].to,
                          id |-> u[q].id, locked |-> u[q].locked]
               /\ q # <<>> /\ q[1] # ".." => Front(q) \in DOMAIN u /\ u[Front(q)].kind = "dir"
    <2>1. q \in DOMAIN t /\ u[q] = t[q] /\ q \notin R
      BY <1>1
    <2>2. /\ q \in Seq(DOMAIN Rank) /\ t[q].to \in Seq(DOMAIN Rank)
          /\ t[q] = [kind |-> t[q].kind, data |-> t[q].data, to |-> t[q].to,
                     id |-> t[q].id, locked |-> t[q].locked]
          /\ q # <<>> /\ q[1] # ".." => Front(q) \in DOMAIN t /\ t[Front(q)].kind = "dir"
      BY <2>1 DEF IsTree
    <2>3. q # <<>> /\ q[1] # ".." => Front(q) \in DOMAIN u
      BY <1>1, <2>1, <2>2
    <2> QED
      BY <1>1, <2>1, <2>2, <2>3
  <1> QED
    BY <1>2, <1>3, <1>4 DEF IsTree

\* One path is, of which nothing is below.
LEMMA WithoutOne ==
    ASSUME NEW t, IsTree(t), NEW p, p # <<>>,
           \A r \in DOMAIN t : r # <<>> /\ Front(r) = p => Kind(t, p) # "dir",
           NEW u, u = Without(t, {p})
    PROVE  IsTree(u)
  <1>1. ASSUME NEW r \in DOMAIN t, r # <<>>, r[1] # "..", Front(r) = p
        PROVE  FALSE
    <2>1. Kind(t, p) = "dir"
      BY <1>1 DEF IsTree, Kind
    <2> QED
      BY <1>1, <2>1
  <1> QED
    BY <1>1, WithoutTree

LEMMA DataTree ==
    ASSUME NEW t, IsTree(t), NEW p, Kind(t, p) = "file", NEW d, NEW u, u = [t EXCEPT ![p].data = d]
    PROVE  /\ IsTree(u) /\ DOMAIN u = DOMAIN t
           /\ \A q \in DOMAIN t : /\ q # p => u[q] = t[q]
                                  /\ u[q].kind = t[q].kind /\ u[q].to = t[q].to
  <1>1. p \in DOMAIN t /\ t[p].kind = "file"
    BY DEF Kind
  <1>2. DOMAIN u = DOMAIN t /\ \A q \in DOMAIN t : q # p => u[q] = t[q]
    OBVIOUS
  <1>3. PICK n : n = t[p]
    OBVIOUS
  <1>4. n = [kind |-> n.kind, data |-> n.data, to |-> n.to, id |-> n.id, locked |-> n.locked]
    BY <1>1, <1>3 DEF IsTree
  <1>5. u[p] = [n EXCEPT !.data = d]
    BY <1>1, <1>3
  <1>6. [n EXCEPT !.data = d] = [kind |-> n.kind, data |-> d, to |-> n.to, id |-> n.id, locked |-> n.locked]
    BY <1>4
  <1>7. u[p] = [kind |-> n.kind, data |-> d, to |-> n.to, id |-> n.id, locked |-> n.locked]
    BY <1>5, <1>6
  <1>8. u[p].kind = n.kind /\ u[p].to = n.to
        /\ u[p] = [kind |-> u[p].kind, data |-> u[p].data, to |-> u[p].to,
                   id |-> u[p].id, locked |-> u[p].locked]
    BY <1>7
  <1>9. \A q \in DOMAIN t : u[q].kind = t[q].kind /\ u[q].to = t[q].to
    BY <1>2, <1>3, <1>8
  <1>10. ASSUME NEW q \in DOMAIN u
         PROVE  /\ q \in Seq(DOMAIN Rank) /\ u[q].to \in Seq(DOMAIN Rank)
                /\ u[q] = [kind |-> u[q].kind, data |-> u[q].data, to |-> u[q].to,
                           id |-> u[q].id, locked |-> u[q].locked]
                /\ q # <<>> /\ q[1] # ".." => Front(q) \in DOMAIN u /\ u[Front(q)].kind = "dir"
    <2>1. /\ q \in Seq(DOMAIN Rank) /\ t[q].to \in Seq(DOMAIN Rank)
          /\ t[q] = [kind |-> t[q].kind, data |-> t[q].data, to |-> t[q].to,
                     id |-> t[q].id, locked |-> t[q].locked]
          /\ q # <<>> /\ q[1] # ".." => Front(q) \in DOMAIN t /\ t[Front(q)].kind = "dir"
      BY <1>2 DEF IsTree
    <2>2. u[q] = [kind |-> u[q].kind, data |-> u[q].data, to |-> u[q].to,
                  id |-> u[q].id, locked |-> u[q].locked]
      <3>1. CASE q = p
        BY <1>8, <3>1
      <3>2. CASE q # p
        BY <1>2, <2>1, <3>2
      <3> QED
        BY <3>1, <3>2
    <2>3. u[q].to = t[q].to
      BY <1>2, <1>9
    <2>4. q # <<>> /\ q[1] # ".." => u[Front(q)].kind = "dir" /\ Front(q) \in DOMAIN u
      BY <1>2, <1>9, <2>1
    <2> QED
      BY <2>1, <2>2, <2>3, <2>4
  <1>11. IsFiniteSet(DOMAIN u) /\ <<>> \in DOMAIN u /\ u[<<>>].kind = "dir"
    BY <1>2, <1>9 DEF IsTree
  <1>12. IsTree(u)
    BY <1>10, <1>11 DEF IsTree
  <1> QED
    BY <1>2, <1>9, <1>12

LEMMA UnderTransitive ==
    ASSUME NEW p \in TreePath, NEW q \in TreePath, NEW r \in TreePath, Under(p, q), Under(q, r)
    PROVE  Under(p, r)
  <1>1. Len(p) \in Nat /\ Len(q) \in Nat /\ Len(r) \in Nat
    BY DEF TreePath
  <1>2. /\ Len(p) <= Len(q) /\ \A j \in 1..Len(p) : p[j] = q[j]
        /\ Len(q) <= Len(r) /\ \A j \in 1..Len(q) : q[j] = r[j]
    BY UnderIs
  <1>3. Len(p) <= Len(r) /\ \A j \in 1..Len(p) : p[j] = r[j]
    BY <1>1, <1>2
  <1> QED
    BY <1>3, UnderIs

LEMMA FrontUnder ==
    ASSUME NEW r \in TreePath, r # <<>>
    PROVE  Front(r) \in TreePath /\ Under(Front(r), r) /\ Front(r) # r
  <1>1. /\ Len(r) \in Nat \ {0} /\ Front(r) \in TreePath /\ Len(Front(r)) = Len(r) - 1
        /\ Front(r) = SubSeq(r, 1, Len(r) - 1)
    BY FrontIs
  <1>2. Len(r) - 1 \in 0..Len(r) /\ Len(r) - 1 # Len(r)
    BY <1>1
  <1> QED
    BY <1>1, <1>2 DEF Under, Prefixes

LEMMA EmptiedTree ==
    ASSUME NEW t, IsTree(t), NEW created, \A d \in ToSet(created) : SafePath(d),
           NEW u, u = removeEmptyDirs(t, created)
    PROVE  IsTree(u)
  <1> DEFINE D == ToSet(created)
             R == {q \in D : \A r \in DOMAIN t : Under(q, r) => r \in D}
  <1>1. u = Without(t, R)
    BY DEF removeEmptyDirs
  <1>2. <<>> \notin R
    BY DEF SafePath
  <1>3. ASSUME NEW r \in DOMAIN t, r # <<>>, Front(r) \in R
        PROVE  r \in R
    <2>1. r \in TreePath
      BY DEF IsTree, TreePath, Name
    <2>2. PICK q : q = Front(r)
      OBVIOUS
    <2>3. q \in TreePath /\ Under(q, r)
      BY <1>3, <2>1, <2>2, FrontUnder
    <2>4. r \in D
      BY <1>3, <2>2, <2>3
    <2>5. ASSUME NEW s \in DOMAIN t, Under(r, s)
          PROVE  s \in D
      <3>1. s \in TreePath
        BY DEF IsTree, TreePath, Name
      <3>2. Under(q, s)
        BY <2>1, <2>3, <2>5, <3>1, UnderTransitive
      <3> QED
        BY <1>3, <2>2, <3>2
    <2> QED
      BY <2>4, <2>5
  <1> HIDE DEF R
  <1> QED
    BY <1>1, <1>2, <1>3, WithoutTree

Removable(t, p) == removeCode(t, p) = ""

LEMMA RemovableIs ==
    ASSUME NEW t, NEW p, Removable(t, p)
    PROVE  p \in DOMAIN t /\ ~(Kind(t, p) = "dir" /\ \E q \in DOMAIN t : Under(p, q) /\ q # p)
  BY Zenon DEF Removable, removeCode

LEMMA RemovedTree ==
    ASSUME NEW t, IsTree(t), NEW p, SafePath(p), Removable(t, p), NEW u, u = Without(t, {p})
    PROVE  IsTree(u)
  <1>1. ASSUME NEW r \in DOMAIN t, r # <<>>, Front(r) = p, Kind(t, p) = "dir"
        PROVE  FALSE
    <2>1. r \in TreePath
      BY DEF IsTree, TreePath, Name
    <2>2. Under(p, r) /\ r # p
      BY <1>1, <2>1, FrontUnder
    <2> QED
      BY <1>1, <2>2, RemovableIs
  <1>2. p # <<>>
    BY DEF SafePath
  <1> QED
    BY <1>1, <1>2, WithoutOne

\* What somebody outside does to a file: the tree stays one, with its directories
\* and links, and only that file changes.
Changed(p) ==
    /\ IsTree(fs)' /\ Firm(fs, fs')
    /\ \A q : q # p => /\ q \in DOMAIN fs <=> q \in DOMAIN fs'
                       /\ q \in DOMAIN fs => fs'[q] = fs[q]
    /\ p \in DOMAIN fs' => fs'[p].kind = "file"

LEMMA OutsideChanges ==
    ASSUME IsTree(fs), NEW p \in Files,
           OutsideRemoves(p) \/ (\E d \in Texts : OutsideWrites(p, d) \/ OutsidePuts(p, d))
    PROVE  Changed(p)
  <1>1. p \in TreePath /\ p # <<>>
    BY FileToolsAssumption DEF FileToolsAssumption, Files, TreePath, Name
  <1>2. CASE OutsideRemoves(p)
    <2>1. Kind(fs, p) = "file" /\ fs' = Without(fs, {p})
      BY <1>2 DEF OutsideRemoves, Outside
    <2>2. p \in DOMAIN fs /\ fs[p].kind = "file"
      BY <2>1 DEF Kind
    <2>3. PICK u : u = fs'
      OBVIOUS
    <2>4. DOMAIN u = DOMAIN fs \ {p} /\ \A q \in DOMAIN u : u[q] = fs[q]
      BY <2>1, <2>3 DEF Without
    <2>5. IsTree(u)
      BY <1>1, <2>1, <2>3, WithoutOne
    <2>6. Firm(fs, u)
      BY <2>2, <2>4 DEF Firm
    <2>7. IsTree(fs)'
      BY <2>3, <2>5 DEF IsTree
    <2> QED
      BY <2>3, <2>4, <2>6, <2>7 DEF Changed
  <1>3. ASSUME NEW d, OutsideWrites(p, d)
        PROVE  Changed(p)
    <2>1. Kind(fs, p) = "file" /\ fs' = [fs EXCEPT ![p].data = d]
      BY <1>3 DEF OutsideWrites, Outside
    <2>2. PICK u : u = fs'
      OBVIOUS
    <2>3. /\ IsTree(u) /\ DOMAIN u = DOMAIN fs
          /\ \A q \in DOMAIN fs : /\ q # p => u[q] = fs[q]
                                  /\ u[q].kind = fs[q].kind /\ u[q].to = fs[q].to
      <3>1. u = [fs EXCEPT ![p].data = d]
        BY <2>1, <2>2
      <3>2. IsTree(u)
        BY <2>1, <3>1, DataTree
      <3>3. DOMAIN u = DOMAIN fs
        BY <2>1, <3>1, DataTree
      <3>4. \A q \in DOMAIN fs : /\ q # p => u[q] = fs[q]
                                /\ u[q].kind = fs[q].kind /\ u[q].to = fs[q].to
        BY <2>1, <3>1, DataTree
      <3> QED
        BY <3>2, <3>3, <3>4
    <2>4. Firm(fs, u)
      BY <2>3 DEF Firm
    <2>5. p \in DOMAIN u /\ u[p].kind = "file"
      BY <2>1, <2>3 DEF Kind
    <2>6. IsTree(fs)'
      BY <2>2, <2>3 DEF IsTree
    <2> QED
      BY <2>2, <2>3, <2>4, <2>5, <2>6 DEF Changed
  <1>4. ASSUME NEW d, OutsidePuts(p, d)
        PROVE  Changed(p)
    <2>1. /\ Kind(fs, p) \in {"file", "none"} /\ Kind(fs, Front(p)) = "dir"
          /\ fs' = Put(fs, p, File(d, ids + 1))
      BY <1>4 DEF OutsidePuts, Outside
    <2>2. PICK u : u = fs'
      OBVIOUS
    <2>3. PICK i : i = ids + 1
      OBVIOUS
    <2>4. u = Put(fs, p, File(d, i)) /\ Kind(fs, p) # "dir"
      BY <2>1, <2>2, <2>3
    <2>5. IsTree(u)
      BY <1>1, <2>1, <2>4, PutTree
    <2>6. /\ DOMAIN u = DOMAIN fs \cup {p} /\ \A q \in DOMAIN fs : q # p => u[q] = fs[q]
          /\ u[p] = File(d, i)
      BY <2>4 DEF Put
    <2>7. Firm(fs, u)
      <3> SUFFICES ASSUME NEW q \in DOMAIN fs, fs[q].kind \in {"dir", "link"}
                   PROVE  q \in DOMAIN u /\ u[q].kind = fs[q].kind /\ u[q].to = fs[q].to
        BY DEF Firm
      <3>1. q # p
        BY <2>1 DEF Kind
      <3> QED
        BY <2>6, <3>1
    <2>8. u[p].kind = "file"
      BY <2>6 DEF File
    <2>9. IsTree(fs)'
      BY <2>2, <2>5 DEF IsTree
    <2> QED
      BY <2>2, <2>6, <2>7, <2>8, <2>9 DEF Changed
  <1> QED
    BY <1>2, <1>3, <1>4

(***************************************************************************)
(* The invariant of what calls may touch.                                  *)
(***************************************************************************)
\* The file a call will replace or remove is one the tools may touch.
Replacing(t, p) == SafePath(p) /\ Kind(t, Front(p)) = "dir"

\* Where a creation puts its file.
NewFile(t, p) == Append(EvalSymlinks(t, Front(p)).at, Last(p))

\* A recursive deletion of p has come as far as w says: what it still plans to
\* remove is there, what it removed is not, but for the paths of T.
Progress(t, w, T, p) ==
    /\ Len(w.plan) \in Nat /\ DOMAIN w.plan = 1..Len(w.plan)
    /\ w.removed \in Seq(TreePath) /\ Len(w.removed) < Len(w.plan)
    /\ \A i \in 1..Len(w.plan) : SafePath(w.plan[i].path)
    /\ \A i, j \in 1..Len(w.plan) : w.plan[i].path = w.plan[j].path => i = j
    /\ \A i \in 1..Len(w.removed) : w.removed[i] = w.plan[Len(w.plan) + 1 - i].path
    /\ \A i \in 1..Len(w.plan) :
          \/ w.plan[i].path \in T
          \/ w.plan[i].path \in DOMAIN t <=> i <= Len(w.plan) - Len(w.removed)
    /\ T = {} => ~\E q \in DOMAIN t : Under(p, q) /\ withheld(q)

Stage(c) ==
    /\ pc[c] \in {"publish", "recheck", "remove"} => Replacing(fs, work[c].abs)
    /\ pc[c] = "create" =>
          /\ Ready(fs, ToSet(work[c].created), call[c].path)
          /\ c \in AgentTools => NewFile(fs, call[c].path) \notin DOMAIN seen[c]
    /\ pc[c] \in {"entry", "unlink"} => Progress(fs, work[c], touched[c], call[c].path)
    /\ pc[c] \in {"lock", "check", "plan"} => work[c].removed = <<>>

\* What a conversation was shown, and not told to be gone, it has a record of.
Told(c) ==
    DOMAIN shown[c] \subseteq TreePath /\ DOMAIN shown[c] \ slipped[c] \subseteq DOMAIN seen[c]

SafeInv ==
    /\ IsTree(fs) /\ outside \in Nat
    /\ slipped = [c \in Conversations |-> slipped[c]]
    /\ \A c \in Conversations : Stage(c) /\ Told(c)

(***************************************************************************)
(* What a step of one conversation leaves alone.                           *)
(***************************************************************************)
Acts(c) == Step(c) \/ StageFails(c) \/ Cancel(c) \/ Forget(c) \/ \E k \in Calls : Call(c, k)

\* The function f becomes g, at c alone.
At(f, g, c) == g = f \/ \E v : g = [f EXCEPT ![c] = v]

LEMMA AtOnly ==
    ASSUME NEW f, f = [d \in Conversations |-> f[d]], NEW g, NEW c, At(f, g, c)
    PROVE  /\ g = [d \in Conversations |-> g[d]]
           /\ \A d \in Conversations \ {c} : g[d] = f[d]
  <1>1. CASE g = f
    BY <1>1
  <1>2. ASSUME NEW v, g = [f EXCEPT ![c] = v]
        PROVE  /\ g = [d \in Conversations |-> g[d]]
               /\ \A d \in Conversations \ {c} : g[d] = f[d]
    BY <1>2
  <1> QED
    BY <1>1, <1>2 DEF At

Others(c) ==
    /\ \A d \in Conversations \ {c} :
          /\ pc'[d] = pc[d] /\ call'[d] = call[d] /\ work'[d] = work[d] /\ touched'[d] = touched[d]
          /\ seen'[d] = seen[d] /\ shown'[d] = shown[d] /\ slipped'[d] = slipped[d]
    /\ slipped' = [d \in Conversations |-> slipped'[d]]
    /\ pc[c] \in Guarded \/ fs' = fs
    /\ outside' \in Nat

LEMMA ActsOnly ==
    ASSUME FileInv, SafeInv, NEW c \in Conversations, Acts(c)
    PROVE  Others(c)
  <1>1. At(pc, pc', c)
    BY DEF At, Acts, Step, Read, Remember, Lock, Check, Publish, Create, Recheck, RemoveFile, Plan,
           Entry, Unlink, StageFails, Cancel, Forget, Call, Finish, Goto
  <1>2. At(call, call', c)
    BY DEF At, Acts, Step, Read, Remember, Lock, Check, Publish, Create, Recheck, RemoveFile, Plan,
           Entry, Unlink, StageFails, Cancel, Forget, Call
  <1>3. At(touched, touched', c)
    BY DEF At, Acts, Step, Read, Remember, Lock, Check, Publish, Create, Recheck, RemoveFile, Plan,
           Entry, Unlink, StageFails, Cancel, Forget, Call
  <1>4. At(seen, seen', c)
    BY DEF At, Acts, Step, Read, Remember, Lock, Check, Publish, Create, Recheck, RemoveFile, Plan,
           Entry, Unlink, StageFails, Cancel, Forget, Call, remember
  <1>5. At(shown, shown', c)
    BY DEF At, Acts, Step, Read, Remember, Lock, Check, Publish, Create, Recheck, RemoveFile, Plan,
           Entry, Unlink, StageFails, Cancel, Forget, Call, Tells, TellsAbsent
  <1>6. At(slipped, slipped', c)
    BY DEF At, Acts, Step, Read, Remember, Lock, Check, Publish, Create, Recheck, RemoveFile, Plan,
           Entry, Unlink, StageFails, Cancel, Forget, Call, Tells, TellsAbsent
  <1>7. At(work, work', c)
    <2>1. CASE Read(c)
      <3>1. PICK s, n : work' = [work EXCEPT ![c].before = s.data, ![c].abs = s.at, ![c].id = n]
        BY <2>1 DEF Read
      <3> DEFINE w == [work[c] EXCEPT !.before = s.data, !.abs = s.at, !.id = n]
      <3>2. work' = [work EXCEPT ![c] = w]
        BY <3>1 DEF FileInv, Shape
      <3> HIDE DEF w
      <3> QED
        BY <3>2 DEF At
    <2>2. CASE Check(c)
      <3>1. work' = work \/ \E l, dirs : Accept(c, l, dirs)
        BY <2>2 DEF Check
      <3>2. CASE \E l, dirs : Accept(c, l, dirs)
        <4>3. PICK l, dirs : Accept(c, l, dirs)
          BY <3>2
        <4>4. PICK a : a = l.at
          OBVIOUS
        <4>1. PICK m, b, i : work' = [work EXCEPT ![c].abs = a, ![c].created = m,
                                        ![c].before = b, ![c].id = i]
          BY <4>3, <4>4 DEF Accept
        <4> DEFINE w == [work[c] EXCEPT !.abs = a, !.created = m, !.before = b, !.id = i]
        <4>2. work' = [work EXCEPT ![c] = w]
          BY <4>1 DEF FileInv, Shape
        <4> HIDE DEF w
        <4> QED
          BY <4>2 DEF At
      <3> QED
        BY <3>1, <3>2 DEF At
    <2>3. CASE Plan(c)
      <3>1. work' = work \/ \E l : work' = [work EXCEPT ![c].plan = l]
        BY <2>3 DEF Plan
      <3>2. CASE \E l : work' = [work EXCEPT ![c].plan = l]
        <4>1. PICK l : work' = [work EXCEPT ![c].plan = l]
          BY <3>2
        <4> DEFINE w == [work[c] EXCEPT !.plan = l]
        <4>2. work' = [work EXCEPT ![c] = w]
          BY <4>1 DEF FileInv, Shape
        <4> HIDE DEF w
        <4> QED
          BY <4>2 DEF At
      <3> QED
        BY <3>1, <3>2 DEF At
    <2>4. CASE Unlink(c)
      BY <2>4 DEF At, Unlink
    <2>5. CASE Acts(c) /\ ~(Read(c) \/ Check(c) \/ Plan(c) \/ Unlink(c))
      BY <2>5 DEF At, Acts, Step, Remember, Lock, Publish, Create, Recheck, RemoveFile,
                  Entry, StageFails, Cancel, Forget, Call
    <2> QED
      BY <2>1, <2>2, <2>3, <2>4, <2>5
  <1>8. pc[c] \in Guarded \/ fs' = fs
    BY DEF Guarded, Acts, Step, Read, Remember, Lock, Check, Publish, Create, Recheck, RemoveFile,
           Plan, Entry, Unlink, StageFails, Cancel, Forget, Call
  <1>9. outside' \in Nat
    <2>1. outside' = outside \/ outside' = outside + 1
      BY DEF Acts, Step, Read, Remember, Lock, Check, Publish, Create, Recheck, RemoveFile,
             Plan, Entry, Unlink, StageFails, Cancel, Forget, Call
    <2> QED
      BY <2>1 DEF SafeInv
  <1>10. /\ pc = [d \in Conversations |-> pc[d]] /\ call = [d \in Conversations |-> call[d]]
         /\ touched = [d \in Conversations |-> touched[d]] /\ seen = [d \in Conversations |-> seen[d]]
         /\ shown = [d \in Conversations |-> shown[d]] /\ slipped = [d \in Conversations |-> slipped[d]]
         /\ work = [d \in Conversations |-> work[d]]
    BY DEF FileInv, Shape, SafeInv
  <1>11. \A d \in Conversations \ {c} :
           /\ pc'[d] = pc[d] /\ call'[d] = call[d] /\ work'[d] = work[d] /\ touched'[d] = touched[d]
           /\ seen'[d] = seen[d] /\ shown'[d] = shown[d] /\ slipped'[d] = slipped[d]
    BY <1>1, <1>2, <1>3, <1>4, <1>5, <1>6, <1>7, <1>10, AtOnly
  <1>12. slipped' = [d \in Conversations |-> slipped'[d]]
    BY <1>6, <1>10, AtOnly
  <1> QED
    BY <1>8, <1>9, <1>11, <1>12 DEF Others

LEMMA OthersStay ==
    ASSUME FileInv, SafeInv, NEW c \in Conversations, Others(c), NEW d \in Conversations \ {c}
    PROVE  Stage(d)' /\ Told(d)'
  <1>1. Stage(d) /\ Told(d)
    BY DEF SafeInv
  <1>2. /\ pc'[d] = pc[d] /\ call'[d] = call[d] /\ work'[d] = work[d] /\ touched'[d] = touched[d]
        /\ seen'[d] = seen[d] /\ shown'[d] = shown[d] /\ slipped'[d] = slipped[d]
    BY DEF Others
  <1>3. Told(d)'
    BY <1>1, <1>2 DEF Told
  <1>4. CASE pc[d] \in Guarded
    <2>1. pc[c] \notin Guarded
      BY <1>4 DEF FileInv, Shape
    <2>2. fs' = fs
      BY <2>1 DEF Others
    <2> QED
      BY <1>1, <1>2, <1>3, <2>2 DEF Stage
  <1>5. CASE pc[d] \notin Guarded
    BY <1>1, <1>2, <1>3, <1>5 DEF Stage, Guarded
  <1> QED
    BY <1>4, <1>5

\* What is withheld or outside the workspace stays as it is.
Harmless ==
    \A p : withheld(p) \/ ~insidePath(p) =>
       /\ p \in DOMAIN fs <=> p \in DOMAIN fs'
       /\ p \in DOMAIN fs => fs'[p] = fs[p]

\* What a step of c must establish.
Safely(c) == IsTree(fs') /\ Stage(c)' /\ Told(c)' /\ Harmless

LEMMA SafelyKeeps ==
    ASSUME FileInv, SafeInv, NEW c \in Conversations, Others(c), Safely(c)
    PROVE  SafeInv' /\ Harmless
  <1>1. IsTree(fs)'
    BY DEF Safely, IsTree
  <1>2. \A d \in Conversations : (Stage(d) /\ Told(d))'
    BY OthersStay DEF Safely
  <1>3. outside' \in Nat /\ slipped' = [d \in Conversations |-> slipped'[d]]
    BY DEF Others
  <1> QED
    BY <1>1, <1>2, <1>3 DEF SafeInv, Safely

LEMMA SameTold ==
    ASSUME SafeInv, NEW c \in Conversations, UNCHANGED <<seen, shown, slipped>>
    PROVE  Told(c)'
  BY DEF SafeInv, Told

LEMMA ShownTold ==
    ASSUME FileInv, SafeInv, NEW c \in Conversations, NEW at \in TreePath, NEW data,
           seen' = [seen EXCEPT ![c] = Put(@, at, data)],
           shown' = [shown EXCEPT ![c] = Put(@, at, data)],
           slipped' = [slipped EXCEPT ![c] = @ \ {at}]
    PROVE  Told(c)'
  <1>1. /\ seen'[c] = Put(seen[c], at, data) /\ shown'[c] = Put(shown[c], at, data)
        /\ slipped'[c] = slipped[c] \ {at}
    BY DEF FileInv, Shape, SafeInv
  <1>2. DOMAIN seen'[c] = DOMAIN seen[c] \cup {at} /\ DOMAIN shown'[c] = DOMAIN shown[c] \cup {at}
    BY <1>1 DEF Put
  <1>3. Told(c)
    BY DEF SafeInv
  <1> QED
    BY <1>1, <1>2, <1>3 DEF Told

LEMMA GoneTold ==
    ASSUME FileInv, SafeInv, NEW c \in Conversations, NEW p, NEW directory,
           \/ seen' = seen
           \/ seen' = [seen EXCEPT ![c] = forgotten(@, p, directory)],
           TellsAbsent(c, p)
    PROVE  Told(c)'
  <1>1. /\ shown' = shown
        /\ slipped'[c] = slipped[c] \cup {q \in DOMAIN shown[c] : Under(p, q)}
    BY DEF TellsAbsent, SafeInv
  <1>2. Told(c)
    BY DEF SafeInv
  <1>3. ASSUME NEW q \in DOMAIN shown[c], q \notin slipped'[c]
        PROVE  q \in DOMAIN seen'[c]
    <2>1. q \in DOMAIN seen[c] /\ ~Under(p, q) /\ q \in TreePath
      BY <1>1, <1>2, <1>3 DEF Told
    <2>2. q # p
      <3>1. Under(q, q)
        BY <2>1, UnderIs DEF TreePath
      <3> QED
        BY <2>1, <3>1
    <2>3. CASE seen' = seen
      BY <2>1, <2>3
    <2>4. CASE seen' = [seen EXCEPT ![c] = forgotten(@, p, directory)]
      <3>1. seen'[c] = forgotten(seen[c], p, directory)
        BY <2>4 DEF FileInv, Shape
      <3> QED
        BY <2>1, <2>2, <3>1 DEF forgotten, Without
    <2> QED
      BY <2>3, <2>4
  <1> QED
    BY <1>1, <1>2, <1>3 DEF Told

LEMMA SlippedTold ==
    ASSUME SafeInv, NEW c \in Conversations, NEW p, seen' = seen, shown' = shown,
           slipped' = [slipped EXCEPT ![c] = @ \cup {p}]
    PROVE  Told(c)'
  <1>1. slipped'[c] = slipped[c] \cup {p} /\ Told(c)
    BY DEF SafeInv
  <1> QED
    BY <1>1 DEF Told

\* Steps that leave the tree alone and end, or come before the guard is taken.
LEMMA AsideSafely ==
    ASSUME SafeInv, NEW c \in Conversations, fs' = fs, pc'[c] \in {"idle", "read", "remember"}, Told(c)'
    PROVE  Safely(c)
  BY DEF SafeInv, Safely, Stage, Harmless

LEMMA FinishIdle ==
    ASSUME FileInv, NEW c \in Conversations, NEW o, Finish(c, o)
    PROVE  pc'[c] = "idle" /\ out'[c] = o
  BY DEF Finish, FileInv, Shape

LEMMA GotoThere ==
    ASSUME FileInv, NEW c \in Conversations, NEW l, Goto(c, l)
    PROVE  pc'[c] = l
  BY DEF Goto, FileInv, Shape

LEMMA CallSafely ==
    ASSUME FileInv, SafeInv, NEW c \in Conversations, NEW k \in Calls, Call(c, k)
    PROVE  Safely(c)
  <1>1. /\ (\E o : Finish(c, o)) \/ \E l \in {"read", "lock"} : Goto(c, l)
        /\ work' = [work EXCEPT ![c] = NoWork]
        /\ UNCHANGED <<fs, seen, shown, slipped>>
    BY DEF Call
  <1>2. pc'[c] \in {"idle", "read", "lock"}
    BY <1>1, FinishIdle, GotoThere
  <1>3. work'[c] = NoWork /\ NoWork.removed = <<>>
    BY <1>1 DEF FileInv, Shape, NoWork
  <1>4. Told(c)'
    BY <1>1, SameTold
  <1>5. Stage(c)'
    BY <1>2, <1>3 DEF Stage
  <1> QED
    BY <1>1, <1>4, <1>5 DEF Safely, SafeInv, Harmless

LEMMA ReadSafely ==
    ASSUME FileInv, SafeInv, NEW c \in Conversations, Read(c)
    PROVE  Safely(c)
  <1>1. PICK missing :
          /\ (\E o : Finish(c, o)) \/ Goto(c, "remember")
          /\ \/ seen' = [seen EXCEPT ![c] = forgotten(@, missing, FALSE)] /\ TellsAbsent(c, missing)
             \/ seen' = seen /\ TellsAbsent(c, missing)
             \/ seen' = seen /\ UNCHANGED <<shown, slipped>>
          /\ fs' = fs
    BY ZenonT(30) DEF Read
  <1>2. pc'[c] \in {"idle", "remember"}
    BY <1>1, FinishIdle, GotoThere
  <1>3. Told(c)'
    BY <1>1, GoneTold, SameTold
  <1> QED
    BY <1>1, <1>2, <1>3, AsideSafely

LEMMA RememberSafely ==
    ASSUME FileInv, SafeInv, NEW c \in Conversations, Remember(c)
    PROVE  Safely(c)
  <1>1. (\E o : Finish(c, o)) /\ fs' = fs /\ pc[c] = "remember"
    BY DEF Remember
  <1>2. pc'[c] = "idle"
    BY <1>1, FinishIdle
  <1>3. PICK at : at = EvalSymlinks(fs, call[c].path).at
    OBVIOUS
  <1>4. at \in TreePath
    <2>1. call[c].path \in TreePath
      BY <1>1, FileToolsAssumption DEF FileInv, Shape, FileToolsAssumption, TreePath, Name
    <2> QED
      BY <1>3, <2>1, EvalStands DEF SafeInv, Stands
  <1>5. PICK data : data = work[c].before
    OBVIOUS
  <1>6. \/ /\ remember(c, fs, call[c].path, data) /\ Tells(c, at, data)
        \/ /\ slipped' = [slipped EXCEPT ![c] = @ \cup {work[c].abs}]
           /\ UNCHANGED <<seen, shown>>
    BY <1>3, <1>5, Zenon DEF Remember
  <1>7. CASE remember(c, fs, call[c].path, data) /\ Tells(c, at, data)
    <2>1. /\ seen' = [seen EXCEPT ![c] = Put(@, at, data)]
          /\ shown' = [shown EXCEPT ![c] = Put(@, at, data)]
          /\ slipped' = [slipped EXCEPT ![c] = @ \ {at}]
      BY <1>3, <1>7 DEF remember, Tells
    <2>2. Told(c)'
      BY <1>4, <2>1, ShownTold
    <2> QED
      BY <1>1, <1>2, <2>2, AsideSafely
  <1>8. CASE /\ slipped' = [slipped EXCEPT ![c] = @ \cup {work[c].abs}]
             /\ UNCHANGED <<seen, shown>>
    <2>1. Told(c)'
      BY <1>8, SlippedTold
    <2> QED
      BY <1>1, <1>2, <2>1, AsideSafely
  <1> QED
    BY <1>6, <1>7, <1>8

LEMMA ForgetSafely ==
    ASSUME FileInv, SafeInv, NEW c \in Conversations, Forget(c)
    PROVE  Safely(c)
  <1>1. /\ pc' = pc /\ pc[c] = "idle" /\ fs' = fs /\ shown' = [shown EXCEPT ![c] = <<>>]
    BY DEF Forget
  <1>2. shown'[c] = <<>> /\ DOMAIN shown'[c] = {}
    BY <1>1 DEF FileInv, Shape
  <1>3. Told(c)'
    BY <1>2 DEF Told
  <1> QED
    BY <1>1, <1>3, AsideSafely

LEMMA CancelSafely ==
    ASSUME FileInv, SafeInv, NEW c \in Conversations, Cancel(c)
    PROVE  Safely(c)
  <1>1. UNCHANGED <<fs, seen, pc, call, work, touched, shown, slipped>>
    BY DEF Cancel
  <1>2. Told(c)'
    BY <1>1, SameTold
  <1>3. Stage(c)'
    BY <1>1 DEF SafeInv, Stage
  <1> QED
    BY <1>1, <1>2, <1>3 DEF SafeInv, Safely, Harmless

LEMMA LockSafely ==
    ASSUME FileInv, SafeInv, NEW c \in Conversations, Lock(c)
    PROVE  Safely(c)
  <1>1. /\ pc[c] = "lock" /\ pc' = [pc EXCEPT ![c] = "check"]
        /\ UNCHANGED <<fs, seen, call, work, shown, slipped>>
    BY DEF Lock
  <1>2. pc'[c] = "check"
    BY <1>1 DEF FileInv, Shape
  <1>3. Told(c)'
    BY <1>1, SameTold
  <1>4. Stage(c)'
    BY <1>1, <1>2 DEF SafeInv, Stage
  <1> QED
    BY <1>1, <1>3, <1>4 DEF SafeInv, Safely, Harmless

LEMMA RecheckSafely ==
    ASSUME FileInv, SafeInv, NEW c \in Conversations, Recheck(c)
    PROVE  Safely(c)
  <1>1. /\ (\E o : Finish(c, o)) \/ Goto(c, "remove")
        /\ pc[c] = "recheck" /\ UNCHANGED <<fs, seen, call, work, shown, slipped>>
    BY DEF Recheck
  <1>2. pc'[c] \in {"idle", "remove"}
    BY <1>1, FinishIdle, GotoThere
  <1>3. Told(c)'
    BY <1>1, SameTold
  <1>4. Stage(c)'
    BY <1>1, <1>2 DEF SafeInv, Stage
  <1> QED
    BY <1>1, <1>3, <1>4 DEF SafeInv, Safely, Harmless

LEMMA FrontAppend ==
    ASSUME NEW p \in TreePath, NEW name \in Name
    PROVE  Front(Append(p, name)) = p /\ Append(p, name) \in TreePath /\ Append(p, name) # <<>>
  <1>1. PICK q : q = Append(p, name)
    OBVIOUS
  <1>2. /\ q \in TreePath /\ q # <<>> /\ Len(q) = Len(p) + 1 /\ \A i \in 1..Len(p) : q[i] = p[i]
        /\ Len(p) \in Nat
    BY <1>1, AppendProperties DEF TreePath
  <1>3. Len(q) - 1 = Len(p)
    BY <1>2
  <1>4. /\ Front(q) \in TreePath /\ Len(Front(q)) = Len(p) /\ \A i \in 1..Len(p) : Front(q)[i] = q[i]
    BY <1>2, <1>3, FrontIs
  <1>5. Front(q) = p
    BY <1>2, <1>4, SeqEqual DEF TreePath
  <1> QED
    BY <1>1, <1>2, <1>5

\* A file that is put where the tools may touch it.
LEMMA PutHarmless ==
    ASSUME NEW p, SafePath(p), NEW node, fs' = Put(fs, p, node)
    PROVE  Harmless
  <1>1. ~withheld(p) /\ insidePath(p)
    BY DEF SafePath
  <1>2. DOMAIN fs' = DOMAIN fs \cup {p} /\ \A q \in DOMAIN fs : q # p => fs'[q] = fs[q]
    BY DEF Put
  <1> QED
    BY <1>1, <1>2 DEF Harmless

LEMMA WithoutHarmless ==
    ASSUME NEW R, \A p \in R : SafePath(p), fs' = Without(fs, R)
    PROVE  Harmless
  <1>1. \A p \in R : ~withheld(p) /\ insidePath(p)
    BY DEF SafePath
  <1>2. DOMAIN fs' = DOMAIN fs \ R /\ \A q \in DOMAIN fs \ R : fs'[q] = fs[q]
    BY DEF Without
  <1> QED
    BY <1>1, <1>2 DEF Harmless

\* The end of a call that wrote data into the file p.
LEMMA WroteSafely ==
    ASSUME FileInv, SafeInv, NEW c \in Conversations, NEW p, SafePath(p), Kind(fs, p) # "dir",
           Kind(fs, Front(p)) = "dir", NEW d, NEW i, fs' = Put(fs, p, File(d, i)),
           NEW at, at = EvalSymlinks(fs', p).at, remember(c, fs', p, d), Tells(c, at, d), pc'[c] = "idle"
    PROVE  Safely(c)
  <1>1. p \in TreePath /\ p # <<>>
    BY DEF SafePath
  <1>2. PICK u : u = fs'
    OBVIOUS
  <1>3. IsTree(u)
    BY <1>1, <1>2, PutTree DEF SafeInv
  <1>4. at \in TreePath
    BY <1>1, <1>2, <1>3, EvalStands DEF Stands
  <1>5. Harmless
    BY PutHarmless
  <1>6. /\ seen' = [seen EXCEPT ![c] = Put(@, at, d)]
        /\ shown' = [shown EXCEPT ![c] = Put(@, at, d)]
        /\ slipped' = [slipped EXCEPT ![c] = @ \ {at}]
    BY DEF remember, Tells
  <1>7. Told(c)'
    BY <1>4, <1>6, ShownTold
  <1>8. Stage(c)'
    BY DEF Stage
  <1> QED
    BY <1>2, <1>3, <1>5, <1>7, <1>8 DEF Safely

LEMMA PublishSafely ==
    ASSUME FileInv, SafeInv, NEW c \in Conversations, Publish(c)
    PROVE  Safely(c)
  <1>1. PICK p : p = work[c].abs
    OBVIOUS
  <1>2. \/ (\E o : Finish(c, o)) /\ UNCHANGED <<fs, seen, shown, slipped>>
        \/ /\ Kind(fs, p) # "dir" /\ (\E o : Finish(c, o))
           /\ fs' = Put(fs, p, File(Written(c), ids + 1))
           /\ remember(c, fs', p, Written(c)) /\ Tells(c, EvalSymlinks(fs', p).at, Written(c))
    BY <1>1, Zenon DEF Publish
  <1>3. pc'[c] = "idle"
    BY <1>2, FinishIdle
  <1>4. CASE UNCHANGED <<fs, seen, shown, slipped>>
    BY <1>3, <1>4, SameTold, AsideSafely
  <1>5. CASE /\ Kind(fs, p) # "dir"
             /\ fs' = Put(fs, p, File(Written(c), ids + 1))
             /\ remember(c, fs', p, Written(c)) /\ Tells(c, EvalSymlinks(fs', p).at, Written(c))
    <2>1. SafePath(p) /\ Kind(fs, Front(p)) = "dir"
      BY <1>1 DEF Publish, SafeInv, Stage, Replacing
    <2>2. PICK d : d = Written(c)
      OBVIOUS
    <2>3. PICK i : i = ids + 1
      OBVIOUS
    <2>4. PICK at : at = EvalSymlinks(fs', p).at
      OBVIOUS
    <2> QED
      BY <1>3, <1>5, <2>1, <2>2, <2>3, <2>4, WroteSafely
  <1> QED
    BY <1>2, <1>4, <1>5

\* The end of a creation that publishes nothing.
LEMMA EmptiedSafely ==
    ASSUME FileInv, SafeInv, NEW c \in Conversations, NEW created, \A d \in ToSet(created) : SafePath(d),
           fs' = removeEmptyDirs(fs, created), UNCHANGED <<seen, shown, slipped>>, pc'[c] = "idle"
    PROVE  Safely(c)
  <1>1. PICK u : u = fs'
    OBVIOUS
  <1>2. IsTree(u)
    BY <1>1, EmptiedTree DEF SafeInv
  <1> DEFINE R == {q \in ToSet(created) : \A r \in DOMAIN fs : Under(q, r) => r \in ToSet(created)}
  <1>3. fs' = Without(fs, R)
    BY DEF removeEmptyDirs
  <1>4. \A p \in R : SafePath(p)
    OBVIOUS
  <1> HIDE DEF R
  <1>5. Harmless
    BY <1>3, <1>4, WithoutHarmless
  <1>6. Told(c)' /\ Stage(c)'
    BY SameTold DEF Stage
  <1> QED
    BY <1>1, <1>2, <1>5, <1>6 DEF Safely

LEMMA CreateSafely ==
    ASSUME FileInv, SafeInv, NEW c \in Conversations, Create(c)
    PROVE  Safely(c)
  <1>1. PICK p : p = call[c].path
    OBVIOUS
  <1>2. PICK q : q = NewFile(fs, p)
    OBVIOUS
  <1>3. PICK created : created = work[c].created
    OBVIOUS
  <1>4. pc[c] = "create" /\ Ready(fs, ToSet(created), p)
    BY <1>1, <1>3 DEF Create, SafeInv, Stage
  <1>5. \/ /\ (\E o : Finish(c, o)) /\ UNCHANGED <<seen, shown, slipped>>
           /\ fs' = removeEmptyDirs(fs, created)
        \/ /\ q \notin DOMAIN fs /\ (\E o : Finish(c, o))
           /\ fs' = Put(fs, q, File(call[c].data, ids + 1))
           /\ remember(c, fs', q, call[c].data) /\ Tells(c, EvalSymlinks(fs', q).at, call[c].data)
    BY <1>1, <1>2, <1>3, Zenon DEF Create, NewFile, linkCode
  <1>6. pc'[c] = "idle"
    BY <1>5, FinishIdle
  <1>7. CASE /\ fs' = removeEmptyDirs(fs, created) /\ UNCHANGED <<seen, shown, slipped>>
    <2>1. \A d \in ToSet(created) : SafePath(d)
      BY <1>4 DEF Ready
    <2> QED
      BY <1>6, <1>7, <2>1, EmptiedSafely
  <1>8. CASE /\ q \notin DOMAIN fs
             /\ fs' = Put(fs, q, File(call[c].data, ids + 1))
             /\ remember(c, fs', q, call[c].data) /\ Tells(c, EvalSymlinks(fs', q).at, call[c].data)
    <2>1. p \in TreePath /\ p # <<>>
      BY <1>1, <1>4, FileToolsAssumption DEF FileInv, Shape, FileToolsAssumption, TreePath, Name, Ready
    <2>2. PICK w : w = EvalSymlinks(fs, Front(p))
      OBVIOUS
    <2>3. w.at \in TreePath /\ Last(p) \in Name
      BY <2>1, <2>2, FrontIs, EvalStands DEF SafeInv, Stands
    <2>4. Kind(fs, w.at) = "dir" /\ SafePath(q) /\ q = Append(w.at, Last(p))
      BY <1>2, <1>4, <2>2 DEF Ready, NewFile
    <2>5. Kind(fs, Front(q)) = "dir"
      BY <2>3, <2>4, FrontAppend
    <2>6. Kind(fs, q) # "dir"
      BY <1>8 DEF Kind
    <2>7. PICK d : d = call[c].data
      OBVIOUS
    <2>8. PICK i : i = ids + 1
      OBVIOUS
    <2>9. PICK at : at = EvalSymlinks(fs', q).at
      OBVIOUS
    <2> QED
      BY <1>6, <1>8, <2>4, <2>5, <2>6, <2>7, <2>8, <2>9, WroteSafely
  <1> QED
    BY <1>5, <1>7, <1>8

LEMMA StageFailsSafely ==
    ASSUME FileInv, SafeInv, NEW c \in Conversations, StageFails(c)
    PROVE  Safely(c)
  <1>1. /\ \E o : Finish(c, o)
        /\ UNCHANGED <<seen, shown, slipped>>
        /\ \/ pc[c] = "create" /\ fs' = removeEmptyDirs(fs, work[c].created)
           \/ fs' = fs
    BY DEF StageFails
  <1>2. pc'[c] = "idle"
    BY <1>1, FinishIdle
  <1>3. CASE fs' = fs
    BY <1>1, <1>2, <1>3, SameTold, AsideSafely
  <1>4. CASE pc[c] = "create" /\ fs' = removeEmptyDirs(fs, work[c].created)
    <2>1. PICK created : created = work[c].created
      OBVIOUS
    <2>2. \A d \in ToSet(created) : SafePath(d)
      BY <1>4, <2>1 DEF SafeInv, Stage, Ready
    <2> QED
      BY <1>1, <1>2, <1>4, <2>1, <2>2, EmptiedSafely
  <1> QED
    BY <1>1, <1>3, <1>4

LEMMA RemoveFileSafely ==
    ASSUME FileInv, SafeInv, NEW c \in Conversations, RemoveFile(c)
    PROVE  Safely(c)
  <1>1. PICK p : p = work[c].abs
    OBVIOUS
  <1>2. \/ (\E o : Finish(c, o)) /\ UNCHANGED <<fs, seen, shown, slipped>>
        \/ /\ Removable(fs, p) /\ (\E o : Finish(c, o))
           /\ fs' = Without(fs, {p})
           /\ seen' = [seen EXCEPT ![c] = forgotten(@, p, FALSE)] /\ TellsAbsent(c, p)
    BY <1>1, Zenon DEF RemoveFile, Removable
  <1>3. pc'[c] = "idle"
    BY <1>2, FinishIdle
  <1>4. CASE UNCHANGED <<fs, seen, shown, slipped>>
    BY <1>3, <1>4, SameTold, AsideSafely
  <1>5. CASE /\ Removable(fs, p) /\ fs' = Without(fs, {p})
             /\ seen' = [seen EXCEPT ![c] = forgotten(@, p, FALSE)] /\ TellsAbsent(c, p)
    <2>1. SafePath(p)
      BY <1>1 DEF RemoveFile, SafeInv, Stage, Replacing
    <2>2. PICK u : u = fs'
      OBVIOUS
    <2>3. IsTree(u)
      BY <1>5, <2>1, <2>2, RemovedTree DEF SafeInv
    <2>4. Harmless
      BY <1>5, <2>1, WithoutHarmless
    <2>5. Told(c)'
      BY <1>5, GoneTold
    <2>6. Stage(c)'
      BY <1>3 DEF Stage
    <2> QED
      BY <2>2, <2>3, <2>4, <2>5, <2>6 DEF Safely
  <1> QED
    BY <1>2, <1>4, <1>5

\* What the check of a creation has found.
LEMMA CheckedCreates ==
    ASSUME NEW c, NEW k, Fine([err |-> Checked(c, k).code]), Checked(c, k).then = "create"
    PROVE  Accepts(fs, k.path) /\ Missing(Lstat(fs, k.path)) /\ Creatable(c, k)
  <1>1. PICK l : l = Lstat(fs, k.path)
    OBVIOUS
  <1>2. Checked(c, k).code = ""
    BY Zenon DEF Fine
  <1> QED
    BY <1>1, <1>2, Zenon DEF Checked, Missing, Accepts, Creatable

\* The work of c once its check has accepted the file a.
Accepted(c, a, dirs) ==
    /\ work'[c].abs = a /\ work'[c].created = dirs /\ work'[c].removed = work[c].removed
    /\ fs' = WithDirs(fs, ToSet(dirs), ids + 1)

LEMMA AcceptIs ==
    ASSUME FileInv, NEW c \in Conversations, NEW l, NEW a, a = l.at, NEW dirs, Accept(c, l, dirs)
    PROVE  Accepted(c, a, dirs)
  <1>1. PICK b, i : work' = [work EXCEPT ![c].abs = a, ![c].created = dirs,
                               ![c].before = b, ![c].id = i]
    BY DEF Accept
  <1>2. PICK u : u = work[c]
    OBVIOUS
  <1>3. PICK w : w = [u EXCEPT !.abs = a, !.created = dirs, !.before = b, !.id = i]
    OBVIOUS
  <1>4. work' = [work EXCEPT ![c] = w]
    BY <1>1, <1>2, <1>3 DEF FileInv, Shape
  <1>5. work'[c] = w
    BY <1>4 DEF FileInv, Shape
  <1>6. u = [f \in Fields |-> u[f]]
    BY <1>2 DEF FileInv, Shape, IsWork
  <1>7. w.abs = a /\ w.created = dirs /\ w.removed = u.removed
    BY <1>3, <1>6 DEF Fields
  <1>8. fs' = WithDirs(fs, ToSet(dirs), ids + 1)
    BY DEF Accept, WithDirs
  <1> QED
    BY <1>2, <1>5, <1>7, <1>8 DEF Accepted

LEMMA CheckSafely ==
    ASSUME FileInv, SafeInv, NEW c \in Conversations, Check(c)
    PROVE  Safely(c)
  <1>1. PICK k : k = call[c]
    OBVIOUS
  <1>2. PICK v : v = Checked(c, k)
    OBVIOUS
  <1>3. PICK p : p = k.path
    OBVIOUS
  <1>4. PICK dirs : dirs = IF v.then = "create" THEN missingParents(p) ELSE <<>>
    OBVIOUS
  <1>5. PICK a : a = Lstat(fs, p).at
    OBVIOUS
  <1>6. /\ pc[c] = "check" /\ UNCHANGED <<seen, call, shown, slipped>>
        /\ \/ (\E o : Finish(c, o)) /\ fs' = fs
           \/ /\ Fine([err |-> v.code]) /\ Goto(c, v.then) /\ Accept(c, Lstat(fs, p), dirs)
    BY <1>1, <1>2, <1>3, <1>4, Zenon DEF Check, Fine
  <1>7. p \in TreePath
    BY <1>1, <1>3, <1>6, FileToolsAssumption DEF FileInv, Shape, FileToolsAssumption, TreePath, Name
  <1>8. Told(c)' /\ IsTree(fs)
    BY <1>6, SameTold DEF SafeInv
  <1>9. CASE (\E o : Finish(c, o)) /\ fs' = fs
    BY <1>8, <1>9, FinishIdle, AsideSafely
  <1>10. CASE Fine([err |-> v.code]) /\ Goto(c, v.then) /\ Accept(c, Lstat(fs, p), dirs)
    <2>1. pc'[c] = v.then /\ v.then \in {"create", "plan", "recheck", "publish"}
      <3>1. v.code = ""
        BY <1>10, Zenon DEF Fine
      <3> QED
        BY <1>2, <1>10, <3>1, CheckedThen, GotoThere
    <2>2. Accepted(c, a, dirs)
      BY <1>5, <1>10, AcceptIs
    <2>3. PICK u : u = fs'
      OBVIOUS
    <2>4. PICK i : i = ids + 1
      OBVIOUS
    <2>5. PICK D : D = ToSet(dirs)
      OBVIOUS
    <2>6. u = WithDirs(fs, D, i)
      BY <2>2, <2>3, <2>4, <2>5 DEF Accepted
    <2>7. CASE v.then = "create"
      <3>1. Accepts(fs, p) /\ Missing(Lstat(fs, p)) /\ Creatable(c, k)
        BY <1>2, <1>3, <1>10, <2>7, CheckedCreates
      <3>2. D = ToSet(missingParents(p))
        BY <1>4, <2>5, <2>7
      <3>3. /\ IsTree(u) /\ Ready(u, D, p) /\ D \cap DOMAIN fs = {}
            /\ c \in AgentTools => NewFile(u, p) \notin DOMAIN seen[c]
        BY <1>3, <1>7, <1>8, <2>6, <3>1, <3>2, CreatesReady DEF NewFile
      <3>4. Stage(c)'
        BY <1>1, <1>3, <1>6, <2>1, <2>2, <2>3, <2>5, <2>7, <3>3 DEF Stage, Accepted
      <3>5. Harmless
        <4>1. \A d \in D : ~withheld(d) /\ insidePath(d)
          BY <3>3 DEF Ready, SafePath
        <4>2. DOMAIN u = DOMAIN fs \cup D /\ \A q \in DOMAIN fs : u[q] = fs[q]
          BY <2>6 DEF WithDirs
        <4> QED
          BY <2>3, <4>1, <4>2 DEF Harmless
      <3> QED
        BY <1>8, <2>3, <3>3, <3>4, <3>5 DEF Safely
    <2>8. CASE v.then # "create"
      <3>1. D = {}
        <4>1. dirs = <<>>
          BY <1>4, <2>8
        <4>2. \A S, x : x \in ToSet(<<>>) => x \in S
          BY DEF ToSet
        <4> QED
          BY <2>5, <4>1, <4>2
      <3>2. DOMAIN u = DOMAIN fs /\ \A q \in DOMAIN fs : u[q] = fs[q]
        BY <2>6, <3>1 DEF WithDirs
      <3>3. IsTree(u)
        <4>1. IsFiniteSet(D)
          BY <3>1, FS_EmptySet
        <4> QED
          BY <1>8, <2>6, <3>1, <4>1, DirsTree
      <3>4. Harmless
        BY <2>3, <3>2 DEF Harmless
      <3>5. v.then \in {"publish", "recheck"} => Replacing(u, a)
        <4> SUFFICES ASSUME v.then \in {"publish", "recheck"} PROVE Replacing(u, a)
          OBVIOUS
        <4>1. SafePath(a) /\ Kind(fs, Front(a)) = "dir"
          BY <1>2, <1>3, <1>5, <1>7, <1>8, <1>10, CheckedIsSafe
        <4>2. Kind(u, Front(a)) = "dir"
          BY <3>2, <4>1 DEF Kind
        <4> QED
          BY <4>1, <4>2 DEF Replacing
      <3>6. work[c].removed = <<>>
        BY <1>6 DEF SafeInv, Stage
      <3>7. Stage(c)'
        BY <2>1, <2>2, <2>3, <2>8, <3>5, <3>6 DEF Stage, Accepted
      <3> QED
        BY <1>8, <2>3, <3>3, <3>4, <3>7 DEF Safely
    <2> QED
      BY <2>7, <2>8
  <1> QED
    BY <1>6, <1>9, <1>10

(***************************************************************************)
(* The progress of a recursive deletion.                                   *)
(***************************************************************************)
LEMMA MinIn ==
    ASSUME NEW S, S \subseteq Nat, S # {}
    PROVE  Min(S) \in S /\ \A y \in S : Min(S) <= y
  <1> DEFINE R == {s \in Nat \X Nat : s[1] < s[2]}
  <1>1. IsWellFoundedOn(R, Nat)
    BY NatLessThanWellFounded DEF OpToRel
  <1>2. PICK x \in S : \A y \in S : ~(<<y, x>> \in R)
    <2> HIDE DEF R
    <2> QED
      BY <1>1, WFMin
  <1>3. ASSUME NEW y \in S
        PROVE  x <= y
    <2>1. x \in Nat /\ y \in Nat /\ ~(<<y, x>> \in R)
      BY <1>2
    <2>2. ~(y < x)
      BY <2>1
    <2> QED
      BY <2>1, <2>2
  <1> DEFINE P(m) == \A y \in S : m <= y
  <1>4. Min(S) = CHOOSE m \in S : P(m)
    BY DEF Min
  <1>5. \E m \in S : P(m)
    BY <1>3
  <1>6. Min(S) \in S /\ P(Min(S))
    <2> HIDE DEF P
    <2> QED
      BY <1>4, <1>5, Zenon
  <1> QED
    BY <1>6

\* A list is a sequence with one place for each member.
LEMMA ListSeq ==
    ASSUME NEW s, NEW n \in Nat, s = [i \in 1..n |-> s[i]], NEW S, \A i \in 1..n : s[i] \in S
    PROVE  s \in Seq(S) /\ Len(s) = n /\ DOMAIN s = 1..n
  <1>1. s \in [1..n -> S]
    BY Zenon
  <1> QED
    BY <1>1

\* The entries a recursive deletion of p has found, each of them deletable.
Entries(t, p, s) ==
    /\ Lists(s, {q \in DOMAIN t : Under(p, q)}) /\ s # <<>>
    /\ \A i \in DOMAIN s : Deletable(t, s[i])

LEMMA ProgressStarts ==
    ASSUME NEW t, IsTree(t), NEW p, NEW s, Entries(t, p, s), NEW w, w.removed = <<>>, NEW g,
           w.plan = [i \in DOMAIN s |-> g[i]], \A i \in DOMAIN s : g[i].path = s[i], NEW T
    PROVE  Progress(t, w, T, p)
  <1> DEFINE S == {q \in DOMAIN t : Under(p, q)}
             n == Cardinality(S)
  <1>1. n \in Nat
    <2>1. IsFiniteSet(S)
      <3>1. S \subseteq DOMAIN t /\ IsFiniteSet(DOMAIN t)
        BY DEF IsTree
      <3> QED
        BY <3>1, FS_Subset
    <2> HIDE DEF S
    <2> QED
      BY <2>1, FS_CardinalityType
  <1>2. /\ s = [i \in 1..n |-> s[i]] /\ \A i \in 1..n : s[i] \in S
        /\ \A i, j \in 1..n : s[i] = s[j] => i = j
        /\ \A x \in S : \E i \in 1..n : s[i] = x
    BY DEF Entries, Lists
  <1>3. \A i \in 1..n : s[i] \in TreePath /\ s[i] \in DOMAIN t
    BY <1>2 DEF IsTree, TreePath, Name
  <1> HIDE DEF S, n
  <1>4. s \in Seq(TreePath) /\ Len(s) = n /\ DOMAIN s = 1..n
    BY <1>1, <1>2, <1>3, ListSeq
  <1>5. n > 0
    BY <1>1, <1>4, EmptySeq DEF Entries
  <1>6. \A i \in 1..n : SafePath(s[i])
    BY <1>3, <1>4, DeletableIs DEF Entries
  <1>7. PICK l : l = w.plan
    OBVIOUS
  <1>8. DOMAIN l = 1..n /\ (\A i \in 1..n : l[i].path = s[i]) /\ Len(l) = n
    <2>1. DOMAIN l = 1..n /\ \A i \in 1..n : l[i] = g[i]
      BY <1>4, <1>7
    <2>2. l = [i \in 1..n |-> l[i]]
      BY <1>4, <1>7
    <2>3. PICK V : V = {l[i] : i \in 1..n}
      OBVIOUS
    <2>4. \A i \in 1..n : l[i] \in V
      BY <2>3
    <2>5. Len(l) = n
      BY <1>1, <2>2, <2>4, ListSeq
    <2> QED
      BY <1>4, <2>1, <2>5
  <1>9. PICK r : r = w.removed
    OBVIOUS
  <1>10. r \in Seq(TreePath) /\ Len(r) = 0
    BY <1>9
  <1>11. \A i \in 1..n : l[i].path \in DOMAIN t /\ i <= n - 0
    BY <1>1, <1>3, <1>8
  <1>12. \A i, j \in 1..n : l[i].path = l[j].path => i = j
    BY <1>2, <1>8
  <1>13. ~\E q \in DOMAIN t : Under(p, q) /\ withheld(q)
    <2> SUFFICES ASSUME NEW q \in DOMAIN t, Under(p, q) PROVE ~withheld(q)
      OBVIOUS
    <2>1. q \in S
      BY DEF S
    <2>2. PICK i \in 1..n : s[i] = q
      BY <1>2, <2>1
    <2> QED
      BY <1>6, <2>2 DEF SafePath
  <1>14. \A i \in 1..n : SafePath(l[i].path)
    BY <1>6, <1>8
  <1>15. /\ Len(w.plan) = n /\ DOMAIN w.plan = 1..n /\ Len(w.removed) = 0
         /\ w.removed \in Seq(TreePath)
    BY <1>7, <1>8, <1>9, <1>10
  <1>16. \A i \in 1..n : w.plan[i].path = l[i].path
    BY <1>7
  <1>17. \A i \in 1..Len(w.removed) : w.removed[i] = w.plan[Len(w.plan) + 1 - i].path
    BY <1>15
  <1>18. n - Len(w.removed) = n
    BY <1>1, <1>15
  <1> QED
    BY <1>1, <1>5, <1>7, <1>11, <1>12, <1>13, <1>14, <1>15, <1>16, <1>17, <1>18 DEF Progress

\* The entry that is next: the last of those still there.
NextEntry(w) == w.plan[Len(w.plan) - Len(w.removed)]

LEMMA NextPlace ==
    ASSUME NEW t, NEW w, NEW T, NEW p, Progress(t, w, T, p)
    PROVE  /\ Len(w.plan) \in Nat /\ Len(w.removed) \in Nat
           /\ Len(w.plan) - Len(w.removed) \in 1..Len(w.plan)
           /\ SafePath(NextEntry(w).path)
  <1>1. Len(w.plan) \in Nat /\ w.removed \in Seq(TreePath) /\ Len(w.removed) < Len(w.plan)
    BY DEF Progress
  <1>2. Len(w.removed) \in Nat
    BY <1>1
  <1>3. Len(w.plan) - Len(w.removed) \in 1..Len(w.plan)
    <2>1. PICK n : n = Len(w.plan)
      OBVIOUS
    <2>2. PICK m : m = Len(w.removed)
      OBVIOUS
    <2>3. n \in Nat /\ m \in Nat /\ m < n => n - m \in 1..n
      OBVIOUS
    <2> QED
      BY <1>1, <1>2, <2>1, <2>2, <2>3
  <1>4. \A i \in 1..Len(w.plan) : SafePath(w.plan[i].path)
    BY DEF Progress
  <1> QED
    BY <1>1, <1>2, <1>3, <1>4 DEF NextEntry

\* The list r is what is gone of the plan l in the tree t, last entry first, but
\* for the paths of T.
Ledger(t, l, r, T) ==
    /\ Len(l) \in Nat /\ DOMAIN l = 1..Len(l) /\ r \in Seq(TreePath) /\ Len(r) <= Len(l)
    /\ \A i, j \in 1..Len(l) : l[i].path = l[j].path => i = j
    /\ \A i \in 1..Len(r) : r[i] = l[Len(l) + 1 - i].path
    /\ \A i \in 1..Len(l) : l[i].path \in T \/ (l[i].path \in DOMAIN t <=> i <= Len(l) - Len(r))

LEMMA LedgerStands ==
    ASSUME NEW t, NEW w, NEW T, NEW p, Progress(t, w, T, p)
    PROVE  Ledger(t, w.plan, w.removed, T) /\ Len(w.removed) < Len(w.plan)
  <1>1. Len(w.plan) \in Nat /\ Len(w.removed) \in Nat /\ Len(w.removed) < Len(w.plan)
    BY NextPlace DEF Progress
  <1>2. Len(w.removed) <= Len(w.plan)
    <2>1. PICK n : n = Len(w.plan)
      OBVIOUS
    <2>2. PICK m : m = Len(w.removed)
      OBVIOUS
    <2>3. n \in Nat /\ m \in Nat /\ m < n => m <= n
      OBVIOUS
    <2> QED
      BY <1>1, <2>1, <2>2, <2>3
  <1> QED
    BY <1>1, <1>2 DEF Progress, Ledger

\* One entry more is removed.
LEMMA LedgerRemoved ==
    ASSUME NEW t, NEW w, NEW T, NEW p, Progress(t, w, T, p),
           NEW e, e = NextEntry(w).path, NEW u, u = Without(t, {e}),
           NEW s, s = Append(w.removed, e)
    PROVE  Ledger(u, w.plan, s, T) /\ Len(s) = Len(w.removed) + 1
  <1>1. PICK n : n = Len(w.plan)
    OBVIOUS
  <1>2. PICK m : m = Len(w.removed)
    OBVIOUS
  <1>3. PICK l : l = w.plan
    OBVIOUS
  <1>4. PICK r : r = w.removed
    OBVIOUS
  <1>5. n \in Nat /\ m \in Nat /\ n - m \in 1..n /\ SafePath(e)
    BY <1>1, <1>2, NextPlace
  <1>6. /\ DOMAIN l = 1..n /\ Len(l) = n /\ r \in Seq(TreePath) /\ Len(r) = m /\ m < n
        /\ \A i \in 1..n : SafePath(l[i].path)
        /\ \A i, j \in 1..n : l[i].path = l[j].path => i = j
        /\ \A i \in 1..m : r[i] = l[n + 1 - i].path
        /\ \A i \in 1..n : l[i].path \in T \/ (l[i].path \in DOMAIN t <=> i <= n - m)
    BY <1>1, <1>2, <1>3, <1>4 DEF Progress
  <1>7. e = l[n - m].path
    BY <1>1, <1>2, <1>3 DEF NextEntry
  <1>8. s = Append(r, e)
    BY <1>4
  <1>9. /\ s \in Seq(TreePath) /\ Len(s) = m + 1 /\ s[m + 1] = e
        /\ \A i \in 1..m : s[i] = r[i]
    <2>1. e \in TreePath
      BY <1>5 DEF SafePath
    <2> QED
      BY <1>6, <1>8, <2>1, AppendProperties
  <1>10. m + 1 <= n /\ m + 1 \in Nat
    BY <1>5, <1>6
  <1>11. Len(s) <= n
    BY <1>9, <1>10
  <1>12. ASSUME NEW i \in 1..(m + 1)
         PROVE  s[i] = l[n + 1 - i].path
    <2>1. CASE i = m + 1
      <3>1. n + 1 - (m + 1) = n - m
        BY <1>5
      <3> QED
        BY <1>7, <1>9, <2>1, <3>1
    <2>2. CASE i # m + 1
      <3>1. i \in 1..m
        BY <1>5, <2>2
      <3> QED
        BY <1>6, <1>9, <3>1
    <2> QED
      BY <2>1, <2>2
  <1>13. DOMAIN u = DOMAIN t \ {e}
    BY DEF Without
  <1>14. ASSUME NEW i \in 1..n, l[i].path \notin T
         PROVE  l[i].path \in DOMAIN u <=> i <= n - (m + 1)
    <2>1. l[i].path \in DOMAIN t <=> i <= n - m
      BY <1>6, <1>14
    <2>2. CASE i = n - m
      <3>1. ~(i <= n - (m + 1))
        BY <1>5, <2>2
      <3> QED
        BY <1>7, <1>13, <2>2, <3>1
    <2>3. CASE i # n - m
      <3>1. l[i].path # e
        BY <1>5, <1>6, <1>7, <2>3
      <3>2. i <= n - m <=> i <= n - (m + 1)
        BY <1>5, <2>3
      <3> QED
        BY <1>13, <2>1, <3>1, <3>2
    <2> QED
      BY <2>2, <2>3
  <1>15. /\ n = Len(l) /\ n \in Nat /\ DOMAIN l = 1..n /\ s \in Seq(TreePath)
         /\ \A i \in 1..Len(s) : s[i] = l[n + 1 - i].path
         /\ \A i \in 1..n : l[i].path \in T \/ (l[i].path \in DOMAIN u <=> i <= n - Len(s))
    BY <1>5, <1>6, <1>9, <1>12, <1>14
  <1>16. Ledger(u, l, s, T)
    BY <1>6, <1>11, <1>15 DEF Ledger
  <1> QED
    BY <1>2, <1>3, <1>9, <1>16

LEMMA ProgressRemoved ==
    ASSUME NEW t, NEW w, NEW T, NEW p, Progress(t, w, T, p),
           NEW e, e = NextEntry(w).path, NEW u, u = Without(t, {e}),
           NEW v, v.plan = w.plan, v.removed = Append(w.removed, e), Len(v.removed) # Len(w.plan)
    PROVE  Progress(u, v, T, p)
  <1>1. PICK s : s = v.removed
    OBVIOUS
  <1>2. Ledger(u, v.plan, s, T)
    BY ZenonT(30), <1>1, LedgerRemoved
  <1>3. Len(s) < Len(v.plan)
    <2>1. PICK n : n = Len(v.plan)
      OBVIOUS
    <2>2. PICK m : m = Len(s)
      OBVIOUS
    <2>3. s \in Seq(TreePath) /\ n \in Nat /\ m <= n /\ m # n
      BY <1>1, <1>2, <2>1, <2>2 DEF Ledger
    <2>4. m \in Nat
      BY <2>2, <2>3
    <2>5. m < n
      BY <2>3, <2>4
    <2> QED
      BY <2>1, <2>2, <2>5
  <1>4. DOMAIN u = DOMAIN t \ {e}
    BY DEF Without
  <1>5. T = {} => ~\E q \in DOMAIN u : Under(p, q) /\ withheld(q)
    BY <1>4 DEF Progress
  <1>6. \A i \in 1..Len(v.plan) : SafePath(v.plan[i].path)
    BY DEF Progress
  <1> QED
    BY <1>1, <1>2, <1>3, <1>5, <1>6 DEF Ledger, Progress

\* Somebody outside changed a file meanwhile.
LEMMA ProgressOutside ==
    ASSUME NEW t, NEW w, NEW T, NEW p, Progress(t, w, T, p), NEW a, NEW u,
           \A q : q # a => (q \in DOMAIN t <=> q \in DOMAIN u)
    PROVE  Progress(u, w, T \cup {a}, p)
  <1>1. ASSUME NEW i \in 1..Len(w.plan), w.plan[i].path \notin T \cup {a}
        PROVE  w.plan[i].path \in DOMAIN u <=> i <= Len(w.plan) - Len(w.removed)
    <2>1. w.plan[i].path \notin T /\ w.plan[i].path # a
      BY <1>1
    <2>2. w.plan[i].path \in DOMAIN t <=> i <= Len(w.plan) - Len(w.removed)
      BY <2>1 DEF Progress
    <2> QED
      BY <2>1, <2>2
  <1>2. T \cup {a} # {}
    OBVIOUS
  <1> QED
    BY <1>1, <1>2 DEF Progress

LEMMA PlanSafely ==
    ASSUME FileInv, SafeInv, NEW c \in Conversations, Plan(c)
    PROVE  Safely(c)
  <1>1. PICK p : p = call[c].path
    OBVIOUS
  <1>2. PICK s : s = WalkDir(fs, p)
    OBVIOUS
  <1> DEFINE bad(i) == IF deletePath(fs, s[i]) # "" THEN deletePath(fs, s[i])
                       ELSE IF Kind(fs, s[i]) = "fifo" THEN "invalid_arguments" ELSE ""
             wrong == {i \in DOMAIN s : bad(i) # ""}
             g == [i \in DOMAIN s |-> [path |-> s[i], id |-> fs[s[i]].id, kind |-> Kind(fs, s[i])]]
  <1>3. Lists(s, {q \in DOMAIN fs : Under(p, q)})
    BY <1>2, WalkDirLists DEF SafeInv
  <1>4. wrong \subseteq Nat
    <2>1. DOMAIN s \subseteq Nat
      BY <1>3 DEF Lists
    <2> QED
      BY <2>1
  <1>5. wrong # {} => bad(Min(wrong)) # ""
    <2> SUFFICES ASSUME wrong # {} PROVE bad(Min(wrong)) # ""
      BY Zenon
    <2>1. Min(wrong) \in wrong
      <3> HIDE DEF wrong
      <3> QED
        BY <1>4, MinIn
    <2> HIDE DEF bad
    <2> QED
      BY <2>1, Zenon
  <1>6. /\ UNCHANGED <<fs, seen, call, touched, shown, slipped>> /\ pc[c] = "plan"
        /\ \/ \E o : Finish(c, o)
           \/ /\ Goto(c, "entry") /\ s # <<>> /\ wrong = {}
              /\ work' = [work EXCEPT ![c].plan = g]
    <2> HIDE DEF bad
    <2> QED
      BY <1>1, <1>2, <1>5, ZenonT(30) DEF Plan, bad
  <1>7. Told(c)'
    BY <1>6, SameTold
  <1>8. CASE \E o : Finish(c, o)
    BY <1>6, <1>7, <1>8, FinishIdle, AsideSafely
  <1>9. CASE Goto(c, "entry") /\ s # <<>> /\ wrong = {} /\ work' = [work EXCEPT ![c].plan = g]
    <2>1. pc'[c] = "entry"
      BY <1>9, GotoThere
    <2>2. \A i \in DOMAIN s : Deletable(fs, s[i])
      BY <1>9, Zenon DEF Deletable
    <2>3. Entries(fs, p, s)
      BY <1>3, <1>9, <2>2 DEF Entries
    <2>4. PICK l : l = [i \in DOMAIN s |-> [path |-> s[i], id |-> fs[s[i]].id, kind |-> Kind(fs, s[i])]]
      OBVIOUS
    <2>5. work' = [work EXCEPT ![c].plan = l]
      BY <1>9, <2>4
    <2>6. PICK w : w = [work[c] EXCEPT !.plan = l]
      OBVIOUS
    <2>7. work'[c] = w
      BY <2>5, <2>6 DEF FileInv, Shape
    <2>8. w.plan = l /\ w.removed = <<>>
      <3>1. work[c] = [f \in Fields |-> work[c][f]]
        BY DEF FileInv, Shape, IsWork
      <3>2. work[c].removed = <<>>
        BY <1>6 DEF SafeInv, Stage
      <3> QED
        BY <2>6, <3>1, <3>2 DEF Fields
    <2>9. \A i \in DOMAIN s : l[i].path = s[i]
      BY <2>4
    <2>10. w.plan = [i \in DOMAIN s |-> l[i]]
      BY <2>4, <2>8
    <2>11. Progress(fs, w, touched[c], p)
      BY <2>3, <2>8, <2>9, <2>10, ProgressStarts DEF SafeInv
    <2>12. Stage(c)'
      BY <1>1, <1>6, <2>1, <2>7, <2>11 DEF Stage
    <2> QED
      BY <1>6, <1>7, <2>12 DEF Safely, SafeInv, Harmless
  <1> QED
    BY <1>6, <1>8, <1>9

LEMMA EntrySafely ==
    ASSUME FileInv, SafeInv, NEW c \in Conversations, Entry(c)
    PROVE  Safely(c)
  <1>1. /\ (\E o : Finish(c, o)) \/ Goto(c, "unlink")
        /\ pc[c] = "entry" /\ UNCHANGED <<fs, seen, call, work, touched, shown, slipped>>
    BY DEF Entry
  <1>2. pc'[c] \in {"idle", "unlink"}
    BY <1>1, FinishIdle, GotoThere
  <1>3. Told(c)'
    BY <1>1, SameTold
  <1>4. Stage(c)'
    BY <1>1, <1>2 DEF SafeInv, Stage
  <1> QED
    BY <1>1, <1>3, <1>4 DEF SafeInv, Safely, Harmless

\* A deletion that ended whole, and one that stopped at the path e.
Whole(w) == report(w, "")
Stopped(w, e, code) == report([w EXCEPT !.failed = e], code)
Fails(code) == code # "" /\ code # "ok"

\* The removal of one entry fails, or removes it and ends or goes on.
UnlinkStops(c, w, e) ==
    /\ \E code : Fails(code) /\ Finish(c, Stopped(w, e, code))
    /\ UNCHANGED <<fs, seen, shown, slipped, work>>

UnlinkGoes(c, w, e, v) ==
    /\ Removable(fs, e) /\ fs' = Without(fs, {e})
    /\ \E directory : seen' = [seen EXCEPT ![c] = forgotten(@, e, directory)]
    /\ TellsAbsent(c, e) /\ work' = [work EXCEPT ![c] = v]
    /\ \/ Len(v.removed) = Len(w.plan) /\ Finish(c, Whole(v))
       \/ Len(v.removed) # Len(w.plan) /\ Goto(c, "entry")

LEMMA RemoveFails ==
    ASSUME NEW t, NEW p, ~Removable(t, p)
    PROVE  Fails(removeCode(t, p))
  <1>1. removeCode(t, p) # ""
    BY Zenon DEF Removable
  <1>2. removeCode(t, p) # "ok"
    BY Zenon DEF removeCode
  <1> QED
    BY <1>1, <1>2, Zenon DEF Fails

LEMMA UnlinkDoes ==
    ASSUME FileInv, NEW c \in Conversations, Unlink(c), NEW w, w = work[c],
           NEW e, e = NextEntry(w).path,
           NEW v, v = [w EXCEPT !.removed = Append(w.removed, e)]
    PROVE  UnlinkStops(c, w, e) \/ UnlinkGoes(c, w, e, v)
  <1>1. PICK code : code = removeCode(fs, e)
    OBVIOUS
  <1>2. PICK kind : kind = NextEntry(w).kind
    OBVIOUS
  <1>3. \/ /\ code # "" /\ Finish(c, report([w EXCEPT !.failed = e], code))
           /\ UNCHANGED <<fs, seen, shown, slipped, work>>
        \/ /\ code = "" /\ fs' = Without(fs, {e})
           /\ seen' = [seen EXCEPT ![c] = forgotten(@, e, kind = "dir")]
           /\ TellsAbsent(c, e) /\ work' = [work EXCEPT ![c] = v]
           /\ \/ Len(v.removed) = Len(w.plan) /\ Finish(c, report(v, ""))
              \/ Len(v.removed) # Len(w.plan) /\ Goto(c, "entry")
    BY <1>1, <1>2, Zenon DEF Unlink, NextEntry
  <1>4. CASE code # "" /\ Finish(c, report([w EXCEPT !.failed = e], code))
             /\ UNCHANGED <<fs, seen, shown, slipped, work>>
    <2>1. ~Removable(fs, e)
      BY <1>1, <1>4, Zenon DEF Removable
    <2>2. Fails(code)
      BY <1>1, <2>1, RemoveFails
    <2> QED
      BY <1>4, <2>2, Zenon DEF UnlinkStops, Stopped
  <1>5. CASE /\ code = "" /\ fs' = Without(fs, {e})
             /\ seen' = [seen EXCEPT ![c] = forgotten(@, e, kind = "dir")]
             /\ TellsAbsent(c, e) /\ work' = [work EXCEPT ![c] = v]
             /\ \/ Len(v.removed) = Len(w.plan) /\ Finish(c, report(v, ""))
                \/ Len(v.removed) # Len(w.plan) /\ Goto(c, "entry")
    <2>1. Removable(fs, e)
      BY <1>1, <1>5, Zenon DEF Removable
    <2>2. \E directory : forgotten(seen[c], e, kind = "dir") = forgotten(seen[c], e, directory)
      BY Zenon
    <2>3. \E directory : seen' = [seen EXCEPT ![c] = forgotten(@, e, directory)]
      BY <1>5, Zenon
    <2> QED
      BY <1>5, <2>1, <2>3, Zenon DEF UnlinkGoes, Whole
  <1> QED
    BY <1>3, <1>4, <1>5, Zenon

\* A record with one entry more removed.
LEMMA RemovedMore ==
    ASSUME FileInv, NEW c \in Conversations, NEW w, w = work[c], NEW e,
           NEW v, v = [w EXCEPT !.removed = Append(w.removed, e)]
    PROVE  v.plan = w.plan /\ v.removed = Append(w.removed, e)
  <1>1. w = [f \in Fields |-> w[f]]
    BY DEF FileInv, Shape, IsWork
  <1> QED
    BY <1>1 DEF Fields

LEMMA UnlinkSafely ==
    ASSUME FileInv, SafeInv, NEW c \in Conversations, Unlink(c)
    PROVE  Safely(c)
  <1>1. PICK w : w = work[c]
    OBVIOUS
  <1>2. PICK e : e = NextEntry(w).path
    OBVIOUS
  <1>3. PICK v : v = [w EXCEPT !.removed = Append(w.removed, e)]
    OBVIOUS
  <1>4. UnlinkStops(c, w, e) \/ UnlinkGoes(c, w, e, v)
    BY <1>1, <1>2, <1>3, UnlinkDoes
  <1>5. pc[c] = "unlink" /\ UNCHANGED <<call, touched>>
    BY DEF Unlink
  <1>6. CASE UnlinkStops(c, w, e)
    <2>1. pc'[c] = "idle"
      BY <1>6, FinishIdle DEF UnlinkStops
    <2>2. Told(c)' /\ fs' = fs
      BY <1>6, SameTold DEF UnlinkStops
    <2> QED
      BY <2>1, <2>2, AsideSafely
  <1>7. CASE UnlinkGoes(c, w, e, v)
    <2>1. PICK p : p = call[c].path
      OBVIOUS
    <2>2. Progress(fs, w, touched[c], p)
      BY <1>1, <1>5, <2>1 DEF SafeInv, Stage
    <2>3. SafePath(e)
      BY <1>2, <2>2, NextPlace
    <2>4. PICK u : u = fs'
      OBVIOUS
    <2>5. u = Without(fs, {e}) /\ Removable(fs, e)
      BY <1>7, <2>4 DEF UnlinkGoes
    <2>6. IsTree(u)
      BY <2>3, <2>5, RemovedTree DEF SafeInv
    <2>7. Harmless
      BY <2>3, <2>4, <2>5, WithoutHarmless
    <2>8. Told(c)'
      BY <1>7, GoneTold DEF UnlinkGoes
    <2>9. v.plan = w.plan /\ v.removed = Append(w.removed, e)
      BY <1>1, <1>3, RemovedMore
    <2>10. work'[c] = v
      BY <1>7 DEF UnlinkGoes, FileInv, Shape
    <2>11. CASE Len(v.removed) = Len(w.plan) /\ Finish(c, Whole(v))
      <3>1. pc'[c] = "idle"
        BY <2>11, FinishIdle
      <3>2. Stage(c)'
        BY <3>1 DEF Stage
      <3> QED
        BY <2>4, <2>6, <2>7, <2>8, <3>2 DEF Safely
    <2>12. CASE Len(v.removed) # Len(w.plan) /\ Goto(c, "entry")
      <3>1. pc'[c] = "entry"
        BY <2>12, GotoThere
      <3>2. Progress(u, v, touched[c], p)
        BY <1>2, <2>2, <2>5, <2>9, <2>12, ProgressRemoved
      <3>3. Stage(c)'
        BY <1>5, <2>1, <2>4, <2>10, <3>1, <3>2 DEF Stage
      <3> QED
        BY <2>4, <2>6, <2>7, <2>8, <3>3 DEF Safely
    <2> QED
      BY <1>7, <2>11, <2>12 DEF UnlinkGoes
  <1> QED
    BY <1>4, <1>6, <1>7

LEMMA ActsSafely ==
    ASSUME FileInv, SafeInv, NEW c \in Conversations, Acts(c)
    PROVE  SafeInv' /\ Harmless
  <1>1. Others(c)
    BY ActsOnly
  <1>2. Safely(c)
    BY ReadSafely, RememberSafely, LockSafely, CheckSafely, PublishSafely, CreateSafely,
       RecheckSafely, RemoveFileSafely, PlanSafely, EntrySafely, UnlinkSafely, StageFailsSafely,
       CancelSafely, ForgetSafely, CallSafely DEF Acts, Step
  <1> QED
    BY <1>1, <1>2, SafelyKeeps

(***************************************************************************)
(* Every step keeps the invariant.                                         *)
(***************************************************************************)
LEMMA ReadyKept ==
    ASSUME IsTree(fs), NEW a, Changed(a), NEW D, NEW p \in TreePath, Ready(fs, D, p)
    PROVE  Ready(fs', D, p) /\ NewFile(fs', p) = NewFile(fs, p)
  <1>1. PICK u : u = fs'
    OBVIOUS
  <1>2. PICK f : f = Front(p)
    OBVIOUS
  <1>3. PICK w : w = EvalSymlinks(fs, f)
    OBVIOUS
  <1>4. p # <<>> /\ Fine(w) /\ Kind(fs, w.at) = "dir" /\ SafePath(Append(w.at, Last(p)))
    BY <1>2, <1>3 DEF Ready
  <1>5. f \in TreePath
    BY <1>2, <1>4, FrontIs
  <1>6. Firm(fs, u)
    BY <1>1 DEF Changed
  <1>7. EvalSymlinks(u, f) = w
    BY <1>3, <1>4, <1>5, <1>6, FirmWalk
  <1>8. Kind(u, w.at) = "dir"
    BY <1>4, <1>6 DEF Firm, Kind
  <1>9. ASSUME NEW d \in D
        PROVE  SafePath(d) /\ \A r \in DOMAIN u : Under(d, r) => r \in D \/ Kind(u, r) # "dir"
    <2>1. SafePath(d) /\ \A r \in DOMAIN fs : Under(d, r) => r \in D \/ Kind(fs, r) # "dir"
      BY DEF Ready
    <2>2. ASSUME NEW r \in DOMAIN u, Under(d, r), r \notin D
          PROVE  Kind(u, r) # "dir"
      <3>1. CASE r = a
        BY <1>1, <3>1 DEF Changed, Kind
      <3>2. CASE r # a
        <4>1. r \in DOMAIN fs /\ u[r] = fs[r]
          BY <1>1, <3>2 DEF Changed
        <4> QED
          BY <2>1, <2>2, <4>1 DEF Kind
      <3> QED
        BY <3>1, <3>2
    <2> QED
      BY <2>1, <2>2
  <1>10. Ready(u, D, p)
    BY <1>2, <1>4, <1>7, <1>8, <1>9 DEF Ready
  <1>11. NewFile(u, p) = NewFile(fs, p)
    BY <1>2, <1>3, <1>7 DEF NewFile
  <1> QED
    BY <1>1, <1>10, <1>11

LEMMA OutsideSafely ==
    ASSUME FileInv, SafeInv, NEW a \in Files,
           OutsideRemoves(a) \/ (\E d \in Texts : OutsideWrites(a, d) \/ OutsidePuts(a, d))
    PROVE  SafeInv' /\ outside' # outside
  <1>1. Changed(a)
    BY OutsideChanges DEF SafeInv
  <1>2. /\ touched' = [c \in Conversations |-> touched[c] \cup {a}]
        /\ outside' = outside + 1
        /\ UNCHANGED <<seen, pc, call, work, shown, slipped>>
    BY DEF OutsideRemoves, OutsideWrites, OutsidePuts, Outside
  <1>3. IsTree(fs)' /\ outside' \in Nat /\ slipped' = [c \in Conversations |-> slipped'[c]]
    BY <1>1, <1>2 DEF Changed, SafeInv
  <1>4. ASSUME NEW c \in Conversations
        PROVE  Stage(c)' /\ Told(c)'
    <2>1. Stage(c) /\ Told(c)
      BY DEF SafeInv
    <2>2. Told(c)'
      BY <1>2, <2>1 DEF Told
    <2>3. ASSUME pc[c] \in {"publish", "recheck", "remove"}
          PROVE  Replacing(fs', work[c].abs)
      <3>1. Replacing(fs, work[c].abs)
        BY <2>1, <2>3 DEF Stage
      <3> QED
        BY <1>1, <3>1 DEF Replacing, Changed, Firm, Kind
    <2>4. ASSUME pc[c] = "create"
          PROVE  /\ Ready(fs', ToSet(work[c].created), call[c].path)
                 /\ c \in AgentTools => NewFile(fs', call[c].path) \notin DOMAIN seen[c]
      <3>1. call[c].path \in TreePath
        BY <2>4, FileToolsAssumption DEF FileInv, Shape, FileToolsAssumption, TreePath, Name
      <3>2. /\ Ready(fs, ToSet(work[c].created), call[c].path)
            /\ c \in AgentTools => NewFile(fs, call[c].path) \notin DOMAIN seen[c]
        BY <2>1, <2>4 DEF Stage
      <3> QED
        BY <1>1, <3>1, <3>2, ReadyKept DEF SafeInv
    <2>5. ASSUME pc[c] \in {"entry", "unlink"}
          PROVE  Progress(fs', work[c], touched'[c], call[c].path)
      <3>1. Progress(fs, work[c], touched[c], call[c].path)
        BY <2>1, <2>5 DEF Stage
      <3>2. PICK u : u = fs'
        OBVIOUS
      <3>3. \A q : q # a => (q \in DOMAIN fs <=> q \in DOMAIN u)
        BY <1>1, <3>2 DEF Changed
      <3>4. Progress(u, work[c], touched[c] \cup {a}, call[c].path)
        BY <3>1, <3>3, ProgressOutside
      <3> QED
        BY <1>2, <3>2, <3>4
    <2>6. Stage(c)'
      BY <1>2, <2>1, <2>3, <2>4, <2>5 DEF Stage
    <2> QED
      BY <2>2, <2>6
  <1>5. outside' # outside
    BY <1>2 DEF SafeInv
  <1> QED
    BY <1>3, <1>4, <1>5 DEF SafeInv

LEMMA InitSafe ==
    ASSUME Init
    PROVE  SafeInv
  <1>1. IsTree(fs)
    BY FileToolsAssumption DEF FileToolsAssumption, Init
  <1>2. outside \in Nat /\ slipped = [c \in Conversations |-> slipped[c]]
    BY DEF Init
  <1>3. ASSUME NEW c \in Conversations
        PROVE  Stage(c) /\ Told(c)
    <2>1. pc[c] = "idle" /\ shown[c] = <<>>
      BY DEF Init
    <2>2. DOMAIN shown[c] = {}
      BY <2>1
    <2> QED
      BY <2>1, <2>2 DEF Stage, Told
  <1> QED
    BY <1>1, <1>2, <1>3 DEF SafeInv

LEMMA NextSafe ==
    ASSUME FileInv, SafeInv, [Next]_vars
    PROVE  SafeInv' /\ (outside' = outside => Harmless)
  <1>1. ASSUME NEW c \in Conversations, Acts(c)
        PROVE  SafeInv' /\ Harmless
    BY <1>1, ActsSafely
  <1>2. ASSUME NEW a \in Files,
               OutsideRemoves(a) \/ \E d \in Texts : OutsideWrites(a, d) \/ OutsidePuts(a, d)
        PROVE  SafeInv' /\ outside' # outside
    BY <1>2, OutsideSafely
  <1>3. CASE UNCHANGED vars
    <2>1. UNCHANGED <<fs, outside, seen, pc, call, work, touched, shown, slipped>>
      BY <1>3 DEF vars
    <2>2. IsTree(fs)' /\ outside' \in Nat /\ slipped' = [c \in Conversations |-> slipped'[c]]
      BY <2>1 DEF SafeInv, IsTree
    <2>3. \A c \in Conversations : (Stage(c) /\ Told(c))'
      BY <2>1 DEF SafeInv, Stage, Told
    <2>4. Harmless
      BY <2>1 DEF Harmless
    <2> QED
      BY <2>2, <2>3, <2>4 DEF SafeInv
  <1> QED
    BY <1>1, <1>2, <1>3 DEF Next, Acts

(***************************************************************************)
(* What a creation tells, and what it leaves.                              *)
(***************************************************************************)
LEMMA CreateDoes ==
    ASSUME FileInv, NEW c \in Conversations, Create(c)
    PROVE  \/ fs' = removeEmptyDirs(fs, work[c].created)
           \/ /\ out'[c].code = "ok"
              /\ DOMAIN fs' = DOMAIN fs \cup {NewFile(fs, call[c].path)}
  <1>1. PICK q : q = NewFile(fs, call[c].path)
    OBVIOUS
  <1>2. \/ fs' = removeEmptyDirs(fs, work[c].created)
        \/ /\ Finish(c, [Outcome("ok", TRUE) EXCEPT !.created = work[c].created])
           /\ fs' = Put(fs, q, File(call[c].data, ids + 1))
    BY <1>1, Zenon DEF Create, NewFile
  <1>3. CASE /\ Finish(c, [Outcome("ok", TRUE) EXCEPT !.created = work[c].created])
             /\ fs' = Put(fs, q, File(call[c].data, ids + 1))
    <2>1. out'[c] = [Outcome("ok", TRUE) EXCEPT !.created = work[c].created]
      BY <1>3, FinishIdle
    <2>2. out'[c].code = "ok"
      BY <2>1 DEF Outcome
    <2>3. DOMAIN fs' = DOMAIN fs \cup {q}
      BY <1>3 DEF Put
    <2> QED
      BY <1>1, <2>2, <2>3
  <1> QED
    BY <1>2, <1>3

\* The steps that a creation takes change no other file than its own.
LEMMA CreatesItsOwn ==
    ASSUME FileInv, SafeInv, NEW c \in Conversations, pc[c] = "create", c \in AgentTools,
           Acts(c), NEW p \in DOMAIN seen[c], p \notin DOMAIN fs
    PROVE  p \notin DOMAIN fs'
  <1>1. Create(c) \/ StageFails(c) \/ Cancel(c)
    BY DEF Acts, Step, Read, Remember, Lock, Check, Publish, Recheck, RemoveFile, Plan,
           Entry, Unlink, Forget, Call
  <1>2. NewFile(fs, call[c].path) \notin DOMAIN seen[c]
    BY DEF SafeInv, Stage
  <1>3. \/ fs' = fs \/ fs' = removeEmptyDirs(fs, work[c].created)
        \/ DOMAIN fs' = DOMAIN fs \cup {NewFile(fs, call[c].path)}
    BY <1>1, CreateDoes DEF StageFails, Cancel
  <1>4. fs' = removeEmptyDirs(fs, work[c].created) => DOMAIN fs' \subseteq DOMAIN fs
    BY DEF removeEmptyDirs, Without
  <1> QED
    BY <1>2, <1>3, <1>4

LEMMA AbsenceTold ==
    ASSUME FileInv, SafeInv, Next
    PROVE  CreatesTold
  <1> SUFFICES ASSUME NEW c \in AgentTools, NEW p \in DOMAIN shown[c] \ slipped[c],
                      pc[c] = "create", outside' = outside, p \notin DOMAIN fs
               PROVE  p \notin DOMAIN fs'
    BY DEF CreatesTold
  <1>1. c \in Conversations
    BY FileToolsAssumption DEF FileToolsAssumption
  <1>2. p \in DOMAIN seen[c]
    BY <1>1 DEF SafeInv, Told
  <1>3. ASSUME NEW d \in Conversations, Acts(d)
        PROVE  p \notin DOMAIN fs'
    <2>1. CASE d = c
      BY <1>1, <1>2, <1>3, <2>1, CreatesItsOwn
    <2>2. CASE d # c
      <3>1. pc[c] \in Guarded
        BY DEF Guarded
      <3>2. pc[d] \notin Guarded
        BY <1>1, <2>2, <3>1 DEF FileInv, Shape
      <3>3. fs' = fs
        BY <1>3, <3>2, ActsOnly DEF Others
      <3> QED
        BY <3>3
    <2> QED
      BY <2>1, <2>2
  <1>4. ASSUME NEW a \in Files,
               OutsideRemoves(a) \/ \E d \in Texts : OutsideWrites(a, d) \/ OutsidePuts(a, d)
        PROVE  FALSE
    BY <1>4, OutsideSafely
  <1> QED
    BY <1>3, <1>4 DEF Next, Acts

LEMMA ParentsAreCleaned ==
    ASSUME FileInv, SafeInv, Next
    PROVE  ParentsCleaned
  <1> SUFFICES ASSUME NEW c \in Conversations, pc[c] = "create", pc'[c] = "idle",
                      out'[c].code # "ok", NEW q \in ToSet(work[c].created) \cap DOMAIN fs'
               PROVE  \E r \in DOMAIN fs' : Under(q, r) /\ Kind(fs', r) # "dir"
    BY DEF ParentsCleaned
  <1>1. PICK D : D = ToSet(work[c].created)
    OBVIOUS
  <1>2. PICK R : R = {d \in D : \A r \in DOMAIN fs : Under(d, r) => r \in D}
    OBVIOUS
  <1>3. fs' = Without(fs, R)
    <2>1. Create(c) \/ StageFails(c)
      BY CreatesOnly
    <2>2. fs' = removeEmptyDirs(fs, work[c].created)
      BY <2>1, CreateDoes DEF StageFails
    <2> QED
      BY <1>1, <1>2, <2>2 DEF removeEmptyDirs
  <1>4. DOMAIN fs' = DOMAIN fs \ R /\ \A r \in DOMAIN fs \ R : fs'[r] = fs[r]
    BY <1>3 DEF Without
  <1>5. PICK r \in DOMAIN fs : Under(q, r) /\ r \notin D
    BY <1>1, <1>2, <1>4
  <1>6. Kind(fs, r) # "dir"
    BY <1>1, <1>5 DEF SafeInv, Stage, Ready
  <1>7. r \in DOMAIN fs' /\ fs'[r] = fs[r]
    BY <1>2, <1>4, <1>5
  <1>8. Kind(fs', r) # "dir"
    BY <1>5, <1>6, <1>7 DEF Kind
  <1> QED
    BY <1>5, <1>7, <1>8

(***************************************************************************)
(* Whatever the trees, their links and the calls: with agents, a file a      *)
(* conversation was last shown is created again only after its absence was   *)
(* told, by whichever alias it was read (missingPath, and the stale_file of  *)
(* writeFileTool.Execute), and a creation that fails takes the directories   *)
(* it made away again (removeEmptyDirs).                                     *)
(***************************************************************************)
THEOREM AbsenceIsKept == Spec => AbsenceKept
  <1>1. Init => FileInv /\ SafeInv
    BY InitKeeps, InitSafe
  <1>2. FileInv /\ SafeInv /\ [Next]_vars => FileInv' /\ SafeInv'
    BY NextKeeps, NextSafe
  <1>3. FileInv /\ SafeInv /\ [Next]_vars => [CreatesTold /\ ParentsCleaned]_vars
    BY AbsenceTold, ParentsAreCleaned
  <1> QED
    BY <1>1, <1>2, <1>3, PTL DEF Spec, AbsenceKept

(***************************************************************************)
(* What a recursive deletion reports.                                      *)
(***************************************************************************)
Planned(l) == {e.path : e \in ToSet(l)}

LEMMA PlannedIs ==
    ASSUME NEW l, DOMAIN l = 1..Len(l)
    PROVE  Planned(l) = {l[i].path : i \in 1..Len(l)}
  <1>1. ToSet(l) = {l[i] : i \in 1..Len(l)}
    BY DEF ToSet
  <1> QED
    BY <1>1 DEF Planned

\* What is gone is what the list has, once each.
Counted(gone, l, r) ==
    /\ Cardinality(gone) = Len(r) /\ gone = {r[j] : j \in 1..Len(r)}
    /\ gone = Planned(l) <=> Len(r) = Len(l)
    /\ gone # {} <=> Len(r) > 0

LEMMA LedgerCounts ==
    ASSUME NEW t, NEW l, NEW r, NEW T, Ledger(t, l, r, T), Planned(l) \cap T = {},
           NEW gone, gone = Planned(l) \ DOMAIN t
    PROVE  Counted(gone, l, r)
  <1>1. PICK n : n = Len(l)
    OBVIOUS
  <1>2. PICK m : m = Len(r)
    OBVIOUS
  <1>3. /\ n \in Nat /\ r \in Seq(TreePath) /\ m <= n /\ m \in Nat
        /\ \A i, j \in 1..n : l[i].path = l[j].path => i = j
        /\ \A i \in 1..m : r[i] = l[n + 1 - i].path
    BY <1>1, <1>2 DEF Ledger
  <1>4. Planned(l) = {l[i].path : i \in 1..n}
    BY <1>1, PlannedIs DEF Ledger
  <1>5. \A i \in 1..n : l[i].path \in DOMAIN t <=> i <= n - m
    BY <1>1, <1>2, <1>4 DEF Ledger
  <1>6. ASSUME NEW i \in 1..n, i > n - m
        PROVE  n + 1 - i \in 1..m /\ r[n + 1 - i] = l[i].path
    <2>1. n + 1 - i \in 1..m /\ n + 1 - (n + 1 - i) = i
      BY <1>3, <1>6
    <2> QED
      BY <1>3, <2>1
  <1>7. ASSUME NEW j \in 1..m
        PROVE  n + 1 - j \in 1..n /\ n + 1 - j > n - m
    BY <1>3
  <1>8. gone = {r[j] : j \in 1..m}
    <2>1. ASSUME NEW q \in gone
          PROVE  q \in {r[j] : j \in 1..m}
      <3>1. PICK i \in 1..n : q = l[i].path
        BY <1>4
      <3>2. i > n - m
        BY <1>3, <1>5, <3>1
      <3> QED
        BY <1>6, <3>1, <3>2
    <2>2. ASSUME NEW j \in 1..m
          PROVE  r[j] \in gone
      <3>1. PICK i : i = n + 1 - j
        OBVIOUS
      <3>2. i \in 1..n /\ i > n - m /\ r[j] = l[i].path
        BY <1>3, <1>7, <3>1
      <3>3. ~(i <= n - m)
        BY <1>3, <3>2
      <3> QED
        BY <1>4, <1>5, <3>2, <3>3
    <2> QED
      BY <2>1, <2>2
  <1>9. Cardinality(gone) = m
    <2> DEFINE f == [j \in 1..m |-> r[j]]
    <2>1. f \in Surjection(1..m, gone)
      BY <1>8 DEF Surjection
    <2>2. f \in Injection(1..m, gone)
      <3>1. ASSUME NEW j \in 1..m, NEW k \in 1..m, r[j] = r[k]
            PROVE  j = k
        <4>1. n + 1 - j \in 1..n /\ n + 1 - k \in 1..n
          BY <1>7
        <4>2. n + 1 - j = n + 1 - k
          BY <1>3, <3>1, <4>1
        <4> QED
          BY <1>3, <4>2
      <3>2. f \in [1..m -> gone] /\ \A j, k \in 1..m : f[j] = f[k] => j = k
        BY <1>8, <3>1
      <3> HIDE DEF f
      <3> QED
        BY <3>2 DEF Injection, IsInjective
    <2>3. IsFiniteSet(1..m) /\ Cardinality(1..m) = m
      <3>1. m \in Nat /\ 1 \in Int /\ m \in Int
        BY <1>3
      <3>2. IsFiniteSet(1..m)
        BY <3>1, FS_Interval
      <3>3. Cardinality(1..m) = IF 1 > m THEN 0 ELSE m - 1 + 1
        BY <3>1, FS_Interval
      <3> QED
        BY <3>1, <3>2, <3>3
    <2> HIDE DEF f
    <2>4. Cardinality(gone) = Cardinality(1..m)
      BY <2>1, <2>2, <2>3, FS_Surjection
    <2> QED
      BY <2>3, <2>4
  <1>10. gone = Planned(l) <=> m = n
    <2>1. CASE m = n
      <3>1. \A i \in 1..n : ~(i <= n - m)
        BY <1>3, <2>1
      <3> QED
        BY <1>4, <1>5, <2>1, <3>1
    <2>2. CASE m # n
      <3>1. 1 \in 1..n /\ 1 <= n - m
        BY <1>3, <2>2
      <3> QED
        BY <1>4, <1>5, <2>2, <3>1
    <2> QED
      BY <2>1, <2>2
  <1>11. gone # {} <=> m > 0
    <2>1. CASE m > 0
      <3>1. 1 \in 1..m
        BY <1>3, <2>1
      <3> QED
        BY <1>8, <2>1, <3>1
    <2>2. CASE ~(m > 0)
      <3>1. 1..m = {}
        BY <1>3, <2>2
      <3> QED
        BY <1>8, <2>2, <3>1
    <2> QED
      BY <2>1, <2>2
  <1> QED
    BY <1>1, <1>2, <1>8, <1>9, <1>10, <1>11 DEF Counted

\* The outcome o says that the list r is gone.
Says(o, r) ==
    /\ o.count = Len(r) /\ o.effect = (Len(r) > 0)
    /\ o.listed = SubSeq(r, 1, Min({Len(r), LedgerMax}))

Verdict(code) == IF code = "" THEN "ok" ELSE code

LEMMA ReportIs ==
    ASSUME NEW w, NEW code
    PROVE  /\ Says(report(w, code), w.removed) /\ report(w, code).failed = w.failed
           /\ report(w, code).code = Verdict(code)
  <1>1. PICK v : v = Verdict(code)
    OBVIOUS
  <1>2. PICK n : n = Len(w.removed)
    OBVIOUS
  <1>3. report(w, code) = [Outcome(v, n > 0) EXCEPT !.count = n, !.failed = w.failed,
                                     !.listed = SubSeq(w.removed, 1, Min({n, LedgerMax}))]
    BY <1>1, <1>2, Zenon DEF report, Verdict
  <1>4. PICK b : b = (n > 0)
    OBVIOUS
  <1>5. PICK listed : listed = SubSeq(w.removed, 1, Min({n, LedgerMax}))
    OBVIOUS
  <1>6. PICK o : o = report(w, code)
    OBVIOUS
  <1>7. o = [Outcome(v, b) EXCEPT !.count = n, !.failed = w.failed, !.listed = listed]
    BY <1>3, <1>4, <1>5, <1>6
  <1>8. o.count = n /\ o.effect = b /\ o.listed = listed /\ o.failed = w.failed /\ o.code = v
    BY <1>7 DEF Outcome
  <1> QED
    BY <1>1, <1>2, <1>4, <1>5, <1>6, <1>8 DEF Says

LEMMA WholeIs ==
    ASSUME NEW w
    PROVE  Says(Whole(w), w.removed) /\ Whole(w).code = "ok"
  <1>1. Whole(w).code = "ok"
    BY ReportIs, Zenon DEF Whole, Verdict
  <1>2. Says(Whole(w), w.removed)
    BY ReportIs, Zenon DEF Whole
  <1> QED
    BY <1>1, <1>2

LEMMA StoppedIs ==
    ASSUME NEW w, w = [f \in Fields |-> w[f]], NEW e, NEW code, Fails(code)
    PROVE  /\ Says(Stopped(w, e, code), w.removed) /\ Stopped(w, e, code).failed = e
           /\ Stopped(w, e, code).code # "ok"
  <1>1. PICK v : v = [w EXCEPT !.failed = e]
    OBVIOUS
  <1>2. v.removed = w.removed /\ v.failed = e
    BY <1>1 DEF Fields
  <1>3. PICK o : o = Stopped(w, e, code)
    OBVIOUS
  <1>4. o = report(v, code)
    BY <1>1, <1>3 DEF Stopped
  <1>5. Verdict(code) # "ok"
    BY Zenon DEF Fails, Verdict
  <1>6. Says(o, v.removed) /\ o.failed = v.failed /\ o.code = Verdict(code)
    BY <1>4, ReportIs
  <1> QED
    BY <1>2, <1>3, <1>5, <1>6

\* What is listed is gone, as far as there is room.
LEMMA SaysTrue ==
    ASSUME NEW r \in Seq(TreePath), NEW o, Says(o, r)
    PROVE  /\ Len(o.listed) = Min({o.count, LedgerMax})
           /\ ToSet(o.listed) \subseteq {r[j] : j \in 1..Len(r)}
  <1>1. PICK n \in Nat : n = Len(r)
    OBVIOUS
  <1>2. PICK k : k = Min({n, LedgerMax})
    OBVIOUS
  <1>3. k \in Nat /\ k <= n
    <2>1. {n, LedgerMax} \subseteq Nat /\ {n, LedgerMax} # {} /\ n \in {n, LedgerMax}
      BY FileToolsAssumption DEF FileToolsAssumption
    <2>2. k \in {n, LedgerMax} /\ k <= n
      BY <1>2, <2>1, MinIn
    <2> QED
      BY <2>1, <2>2
  <1>4. PICK s : s = SubSeq(r, 1, k)
    OBVIOUS
  <1>5. s \in Seq(TreePath) /\ Len(s) = k /\ \A j \in 1..k : s[j] = r[j]
    <2>1. \A j \in 1..k : r[j] \in TreePath
      BY <1>1, <1>3
    <2>2. /\ s \in Seq(TreePath) /\ Len(s) = IF 1 <= k THEN k - 1 + 1 ELSE 0
          /\ \A j \in 1..(k - 1 + 1) : s[j] = r[1 + j - 1]
      BY <1>3, <1>4, <2>1, SubSeqProperties
    <2>3. Len(s) = k
      BY <1>3, <2>2
    <2>4. \A j \in 1..k : j \in 1..(k - 1 + 1) /\ 1 + j - 1 = j
      BY <1>3
    <2> QED
      BY <2>2, <2>3, <2>4
  <1>6. o.listed = s /\ o.count = n
    BY <1>1, <1>2, <1>4 DEF Says
  <1>7. ToSet(s) \subseteq {r[j] : j \in 1..n}
    <2>1. \A j \in 1..k : j \in 1..n
      BY <1>1, <1>3
    <2> QED
      BY <1>5, <2>1 DEF ToSet
  <1> QED
    BY <1>1, <1>2, <1>5, <1>6, <1>7

LEMMA DeleteFails ==
    ASSUME NEW t, NEW p, ~Deletable(t, p)
    PROVE  Fails(deletePath(t, p))
  <1>1. deletePath(t, p) # ""
    BY Zenon DEF Deletable
  <1>2. deletePath(t, p) # "ok"
    BY Zenon DEF deletePath, checkDeleteRoot
  <1> QED
    BY <1>1, <1>2, Zenon DEF Fails

\* The look at one entry stops the deletion, or lets it go on.
LEMMA EntryDoes ==
    ASSUME NEW c \in Conversations, Entry(c), NEW w, w = work[c], NEW e, e = NextEntry(w).path
    PROVE  Goto(c, "unlink") \/ \E code : Fails(code) /\ Finish(c, Stopped(w, e, code))
  <1>1. PICK entry : entry = NextEntry(w)
    OBVIOUS
  <1>2. PICK code :
          /\ code = IF c \in cancelled THEN "not_executed"
                    ELSE IF deletePath(fs, e) # "" THEN deletePath(fs, e)
                    ELSE IF fs[e].id # entry.id \/ Kind(fs, e) # entry.kind THEN "stale_file"
                    ELSE ""
          /\ IF code # "" THEN Finish(c, report([w EXCEPT !.failed = e], code))
             ELSE Goto(c, "unlink")
    BY <1>1, Zenon DEF Entry, NextEntry
  <1>3. code = "" \/ Fails(code)
    <2>1. CASE code = deletePath(fs, e)
      BY <2>1, DeleteFails, Zenon DEF Deletable
    <2>2. CASE code \in {"not_executed", "stale_file"}
      <3>1. code # "" /\ code # "ok"
        BY <2>2, Zenon
      <3> QED
        BY <3>1, Zenon DEF Fails
    <2> QED
      BY <1>2, <2>1, <2>2, Zenon
  <1>4. code # "" => Finish(c, Stopped(w, e, code))
    BY <1>2, Zenon DEF Stopped
  <1> QED
    BY <1>2, <1>3, <1>4, Zenon

\* Nothing else than a step of its own ends a recursive deletion.
LEMMA DeletesOnly ==
    ASSUME FileInv, Next, NEW c \in Conversations, pc[c] \in {"entry", "unlink"}, pc'[c] = "idle"
    PROVE  Entry(c) \/ Unlink(c)
  <1>1. ASSUME NEW d \in Conversations, d # c, Acts(d)
        PROVE  pc'[c] = pc[c]
    <2>1. pc' = pc \/ \E l : pc' = [pc EXCEPT ![d] = l]
      BY <1>1 DEF Acts, Step, Read, Remember, Lock, Check, Publish, Create, Recheck, RemoveFile, Plan,
                  Entry, Unlink, StageFails, Cancel, Forget, Call, Finish, Goto
    <2> QED
      BY <1>1, <2>1 DEF FileInv, Shape
  <1>2. ASSUME Acts(c)
        PROVE  Entry(c) \/ Unlink(c)
    BY <1>2 DEF Acts, Step, Read, Remember, Lock, Check, Publish, Create, Recheck, RemoveFile, Plan,
                StageFails, Cancel, Forget, Call
  <1>3. ASSUME NEW p \in Files,
               OutsideRemoves(p) \/ \E d \in Texts : OutsideWrites(p, d) \/ OutsidePuts(p, d)
        PROVE  pc'[c] = pc[c]
    BY <1>3 DEF OutsideRemoves, OutsideWrites, OutsidePuts, Outside
  <1> QED
    BY <1>1, <1>2, <1>3 DEF Next, Acts

\* The outcome o agrees with what is gone of what was planned.
Agrees(o, gone, planned) ==
    /\ o.count = Cardinality(gone) /\ ToSet(o.listed) \subseteq gone
    /\ Len(o.listed) = Min({o.count, LedgerMax})
    /\ o.effect <=> gone # {}
    /\ o.code = "ok" <=> gone = planned
    /\ gone # planned => o.failed \in planned \ gone

\* The outcome of a deletion that has come as far as r says in the tree t, or
\* stopped at an entry that is still there.
LEMMA OutcomeTrue ==
    ASSUME NEW t, NEW l, NEW r, NEW T, Ledger(t, l, r, T), Planned(l) \cap T = {},
           NEW gone, gone = Planned(l) \ DOMAIN t, NEW o, Says(o, r),
           \/ Len(r) = Len(l) /\ o.code = "ok"
           \/ Len(r) # Len(l) /\ o.code # "ok" /\ o.failed \in Planned(l) \cap DOMAIN t
    PROVE  Agrees(o, gone, Planned(l))
  <1>1. /\ Cardinality(gone) = Len(r) /\ gone = {r[j] : j \in 1..Len(r)}
        /\ gone = Planned(l) <=> Len(r) = Len(l)
        /\ gone # {} <=> Len(r) > 0
    <2>1. Counted(gone, l, r)
      BY LedgerCounts
    <2> QED
      BY <2>1 DEF Counted
  <1>2. r \in Seq(TreePath)
    BY DEF Ledger
  <1>3. /\ Len(o.listed) = Min({o.count, LedgerMax})
        /\ ToSet(o.listed) \subseteq gone
    BY <1>1, <1>2, SaysTrue
  <1>4. o.count = Len(r) /\ (o.effect <=> Len(r) > 0)
    BY <1>2 DEF Says
  <1>5. /\ o.code = "ok" <=> gone = Planned(l)
        /\ gone # Planned(l) => o.failed \in Planned(l) \ gone
    BY <1>1
  <1> QED
    BY <1>1, <1>3, <1>4, <1>5 DEF Agrees

\* The entry that is next is still there.
LEMMA NextThere ==
    ASSUME NEW t, NEW w, NEW T, NEW p, Progress(t, w, T, p), Planned(w.plan) \cap T = {},
           NEW e, e = NextEntry(w).path
    PROVE  e \in Planned(w.plan) \cap DOMAIN t
  <1>1. PICK i : i = Len(w.plan) - Len(w.removed)
    OBVIOUS
  <1>2. PICK n \in Nat : n = Len(w.plan)
    BY DEF Progress
  <1>3. i \in 1..n
    BY <1>1, <1>2, NextPlace
  <1>4. e = w.plan[i].path
    BY <1>1 DEF NextEntry
  <1>5. Planned(w.plan) = {w.plan[j].path : j \in 1..n}
    BY <1>2, PlannedIs DEF Progress
  <1>6. e \in Planned(w.plan) /\ e \notin T
    BY <1>3, <1>4, <1>5
  <1>7. e \in DOMAIN t <=> i <= i
    BY ZenonT(30), <1>1, <1>2, <1>3, <1>4, <1>6 DEF Progress
  <1>8. i <= i
    BY <1>3
  <1> QED
    BY <1>6, <1>7, <1>8

LEMMA DeletionReported ==
    ASSUME FileInv, SafeInv, NEW c \in Conversations, Entry(c) \/ Unlink(c), pc'[c] = "idle",
           NEW l, l = work[c].plan, Planned(l) \cap touched'[c] = {},
           NEW gone, gone = Planned(l) \ DOMAIN fs', NEW o, o = out'[c]
    PROVE  Agrees(o, gone, Planned(l))
  <1>1. PICK w : w = work[c]
    OBVIOUS
  <1>2. PICK e : e = NextEntry(w).path
    OBVIOUS
  <1>3. PICK v : v = [w EXCEPT !.removed = Append(w.removed, e)]
    OBVIOUS
  <1>4. PICK p : p = call[c].path
    OBVIOUS
  <1>5. PICK T : T = touched[c]
    OBVIOUS
  <1>6. pc[c] \in {"entry", "unlink"} /\ touched'[c] = T
    BY <1>5 DEF Entry, Unlink
  <1>7. l = w.plan /\ Planned(l) \cap T = {}
    BY <1>1, <1>6
  <1>8. Progress(fs, w, T, p)
    BY <1>1, <1>4, <1>5, <1>6 DEF SafeInv, Stage
  <1>9. w = [f \in Fields |-> w[f]]
    BY <1>1 DEF FileInv, Shape, IsWork
  <1>10. \/ fs' = fs /\ \E code : Fails(code) /\ Finish(c, Stopped(w, e, code))
         \/ UnlinkGoes(c, w, e, v) /\ Len(v.removed) = Len(w.plan) /\ Finish(c, Whole(v))
    <2>1. CASE Entry(c)
      <3>1. fs' = fs
        BY <2>1 DEF Entry
      <3>2. ~Goto(c, "unlink")
        BY GotoThere
      <3> QED
        BY <1>1, <1>2, <2>1, <3>1, <3>2, EntryDoes
    <2>2. CASE Unlink(c)
      <3>1. UnlinkStops(c, w, e) \/ UnlinkGoes(c, w, e, v)
        BY <1>1, <1>2, <1>3, <2>2, UnlinkDoes
      <3>2. ~Goto(c, "entry")
        BY GotoThere
      <3> QED
        BY <3>1, <3>2 DEF UnlinkStops, UnlinkGoes
    <2> QED
      BY <2>1, <2>2
  <1>11. PICK u : u = fs'
    OBVIOUS
  <1>12. gone = Planned(l) \ DOMAIN u
    BY <1>11
  <1>13. ASSUME NEW code, Fails(code), Finish(c, Stopped(w, e, code)), fs' = fs
         PROVE  \E r : /\ Ledger(u, l, r, T) /\ Says(o, r)
                       /\ Len(r) # Len(l) /\ o.code # "ok" /\ o.failed \in Planned(l) \cap DOMAIN u
    <2>1. o = Stopped(w, e, code)
      BY <1>13, FinishIdle
    <2>2. PICK r : r = w.removed
      OBVIOUS
    <2>3. Says(o, r) /\ o.failed = e /\ o.code # "ok"
      BY <1>9, <1>13, <2>1, <2>2, StoppedIs
    <2>4. Ledger(u, l, r, T) /\ Len(r) < Len(l)
      BY <1>7, <1>8, <1>11, <1>13, <2>2, LedgerStands
    <2>5. e \in Planned(l) \cap DOMAIN u
      BY <1>2, <1>7, <1>8, <1>11, <1>13, NextThere
    <2>6. Len(r) # Len(l)
      <3>1. Len(l) \in Nat /\ r \in Seq(TreePath)
        BY <2>4 DEF Ledger
      <3>2. PICK n \in Nat : n = Len(l)
        BY <3>1
      <3>3. n < n => FALSE
        OBVIOUS
      <3> QED
        BY <2>4, <3>2, <3>3
    <2> QED
      BY <2>3, <2>4, <2>5, <2>6
  <1>14. ASSUME UnlinkGoes(c, w, e, v), Len(v.removed) = Len(w.plan), Finish(c, Whole(v))
         PROVE  \E r : Ledger(u, l, r, T) /\ Says(o, r) /\ Len(r) = Len(l) /\ o.code = "ok"
    <2>1. o = Whole(v)
      BY <1>14, FinishIdle
    <2>2. PICK r : r = Append(w.removed, e)
      OBVIOUS
    <2>3. v.removed = r
      BY <1>1, <1>3, <2>2, RemovedMore
    <2>4. Says(o, r) /\ o.code = "ok"
      BY <2>1, <2>3, WholeIs
    <2>5. u = Without(fs, {e})
      BY <1>11, <1>14 DEF UnlinkGoes
    <2>6. Ledger(u, l, r, T)
      BY <1>2, <1>7, <1>8, <2>2, <2>5, LedgerRemoved
    <2> QED
      BY <1>7, <1>14, <2>3, <2>4, <2>6
  <1>15. PICK r : /\ Ledger(u, l, r, T) /\ Says(o, r)
                  /\ \/ Len(r) = Len(l) /\ o.code = "ok"
                     \/ Len(r) # Len(l) /\ o.code # "ok" /\ o.failed \in Planned(l) \cap DOMAIN u
    <2>1. CASE fs' = fs /\ \E code : Fails(code) /\ Finish(c, Stopped(w, e, code))
      BY <1>13, <2>1
    <2>2. CASE UnlinkGoes(c, w, e, v) /\ Len(v.removed) = Len(w.plan) /\ Finish(c, Whole(v))
      BY <1>14, <2>2
    <2> QED
      BY <1>10, <2>1, <2>2
  <1> QED
    BY <1>7, <1>12, <1>15, OutcomeTrue

LEMMA RemovalsReported ==
    ASSUME FileInv, SafeInv, Next
    PROVE  RemovalsAgree
  <1>1. ASSUME NEW c \in Conversations, pc[c] \in {"entry", "unlink"}, pc'[c] = "idle",
               NEW l, l = work[c].plan, Planned(l) \cap touched'[c] = {}
        PROVE  Agrees(out'[c], Planned(l) \ DOMAIN fs', Planned(l))
    <2>1. Entry(c) \/ Unlink(c)
      BY <1>1, DeletesOnly
    <2>2. PICK gone : gone = Planned(l) \ DOMAIN fs'
      OBVIOUS
    <2>3. PICK o : o = out'[c]
      OBVIOUS
    <2> QED
      BY <1>1, <2>1, <2>2, <2>3, DeletionReported
  <1> QED
    BY <1>1, Zenon DEF RemovalsAgree, Planned, Agrees

LEMMA WithheldKept ==
    ASSUME FileInv, SafeInv, Next
    PROVE  WithheldStays
  <1> SUFFICES ASSUME outside' = outside PROVE
          /\ \A p \in DOMAIN fs \cup DOMAIN fs' : withheld(p) \/ ~insidePath(p) =>
               p \in DOMAIN fs /\ p \in DOMAIN fs' /\ fs'[p] = fs[p]
          /\ \A c \in Conversations : pc[c] = "unlink" /\ touched[c] = {} =>
               ~\E p \in DOMAIN fs : Under(call[c].path, p) /\ withheld(p)
    BY DEF WithheldStays
  <1>1. Harmless
    BY NextSafe
  <1>2. ASSUME NEW c \in Conversations, pc[c] = "unlink", touched[c] = {}
        PROVE  ~\E p \in DOMAIN fs : Under(call[c].path, p) /\ withheld(p)
    <2>1. Progress(fs, work[c], touched[c], call[c].path)
      BY <1>2 DEF SafeInv, Stage
    <2> QED
      BY <1>2, <2>1 DEF Progress
  <1> QED
    BY <1>1, <1>2 DEF Harmless

(***************************************************************************)
(* Whatever the trees and the calls: a recursive deletion, whole or stopped  *)
(* half way, reports what is gone (deleteTree), and no tool changes what is  *)
(* withheld or outside the workspace, by whatever links (resolve and         *)
(* deletePath).                                                              *)
(***************************************************************************)
THEOREM DeletionsAreTrue == Spec => DeletionsTrue
  <1>1. Init => FileInv /\ SafeInv
    BY InitKeeps, InitSafe
  <1>2. FileInv /\ SafeInv /\ [Next]_vars => FileInv' /\ SafeInv'
    BY NextKeeps, NextSafe
  <1>3. FileInv /\ SafeInv /\ [Next]_vars => [RemovalsAgree /\ WithheldStays]_vars
    BY RemovalsReported, WithheldKept
  <1> QED
    BY <1>1, <1>2, <1>3, PTL DEF Spec, DeletionsTrue
===============================================================================
