----------------------------- MODULE Exec_proofs -----------------------------
(***************************************************************************)
(* What Exec promises of every number of agents, calls, commands, processes *)
(* and failed reads of the process table, whatever the processes may do.    *)
(* First what any step does to the processes; then the invariant of each    *)
(* call, which another agent's steps and the processes leave alone; then    *)
(* the steps of the harness for the call itself.                            *)
(***************************************************************************)
EXTENDS Exec, FiniteSetTheorems, SequenceTheorems, WellFoundedInduction, TLAPS

-----------------------------------------------------------------------------
(* The invariant. *)

\* Who owns a process owns its parent, its group and so all who are in it.
Owners ==
  /\ proc[0].group = 0
  /\ \A p \in Pids :
       /\ proc[p].owner \in Agents
       /\ proc[p].group \in DOMAIN proc
       /\ proc[p].group # 0 => proc[proc[p].group].owner = proc[p].owner
       /\ proc[p].parent \in DOMAIN proc \cup {Reaper}
       /\ proc[p].parent \in Pids => proc[proc[p].parent].owner = proc[p].owner
       /\ Alive(p) => proc[p].status = "none"

\* A row that was read is of one owner, though it may be stale.
RowsOwned(e) ==
  /\ e.todo \subseteq Pids
  /\ \A r \in e.rows :
       /\ r.pid \in Pids /\ r.ppid \in DOMAIN proc \cup {Reaper}
       /\ r.ppid \in Pids => proc[r.ppid].owner = proc[r.pid].owner
       /\ r.pgid # 0 => r.pgid \in Pids /\ proc[r.pgid].owner = proc[r.pid].owner

\* Where the call e of agent a, its command and the goroutine of the context
\* are; c says whether the run of a is cancelled.
Placed(a, e, c) ==
  /\ e.leader # 0 => e.leader \in Own(a) /\ proc[e.leader].parent = 0
  /\ e.leader = 0 => e.w = "off" /\ e.rows = {} /\ ~e.incomplete
  /\ e.pc \in {"register", "start"} => e.leader = 0
  /\ e.pc \in {"wait", "reaped", "output"} => e.leader # 0
  /\ e.pc \in {"wait", "reaped"} => e.w # "off"
  /\ e.pc \notin {"wait", "reaped"} => e.w \in {"off", "done"}
  /\ e.incomplete => e.pc \in {"classify", "idle"}
  /\ e.w \notin {"off", "armed"} => e.timed \/ c
  /\ e.w # "done" => e.alive = {}
  /\ e.w \in {"off", "armed"} => ~e.unverified
  /\ e.pc # "idle" =>
       /\ e.step \in 1 .. Len(e.call.commands)
       /\ e.effect = IF e.step = 1 THEN "none" ELSE "applied"
  /\ e.pc = "classify" /\ e.leader # 0 /\ ~e.incomplete => Holders(e.leader) = {}

pidsOf(e) == {t.pid : t \in descendants(e.leader, e.rows)}

\* After the second signal nothing of the group runs; who of the tree is alive
\* after the check was seen alive by it, and is told in the outcome o when the
\* call ends.
Stopped(e, o) ==
  /\ e.w \in {"check", "done"} =>
       \A p \in Pids : p = e.leader \/ proc[p].group = e.leader => ~Executing(p)
  /\ e.w = "done" => {p \in pidsOf(e) : Alive(p)} \subseteq e.alive
  /\ e.w = "done" /\ e.pc = "idle" /\ o.code # "none" =>
       /\ e.alive \subseteq o.survivors
       /\ o.survivors # {} => o.effect = "unknown"

\* What the call, the agent's mth, has come to so far; of its effect only as long
\* as it is the first, since its processes are not told from those of later ones.
Told(a, e, o, m, c) ==
  /\ m = 0 => Own(a) = {} /\ e.pc = "idle" /\ o.code = "none"
  /\ m = 1 /\ e.pc # "idle" =>
       /\ e.leader = 0 => (Own(a) = {} <=> e.step = 1)
       /\ e.w \in {"off", "armed", "reading"} /\ ~e.incomplete => Own(a) \cap hit = {}
       /\ \A p \in Leaders(a) \ {e.leader} : proc[p].status = "zero" /\ Holders(p) = {}
  /\ m = 1 /\ e.pc = "idle" /\ o.code # "none" =>
       /\ o.effect = "none" <=> Own(a) = {}
       /\ o.effect = "applied" =>
            Own(a) \cap hit = {} /\ (e.leader # 0 => Holders(e.leader) = {})
  /\ e.pc = "idle" /\ o.code = "ok" =>
       /\ o.steps = Len(e.call.commands) /\ o.effect = "applied"
       /\ e.leader # 0 /\ proc[e.leader].status = "zero"
       /\ e.w = "off" /\ ~e.timed /\ ~c

CallHolds(a, e, o, m, c) ==
  RowsOwned(e) /\ Placed(a, e, c) /\ Stopped(e, o) /\ Told(a, e, o, m, c)

CallInv(a) == CallHolds(a, ex[a], out[a], made[a], a \in cancelled)

ExecInv == TypeOK /\ Owners /\ (\A a \in Agents : CallInv(a)) /\ OverlapTold

-----------------------------------------------------------------------------
(* What a step does to the processes. *)

\* A process goes on or towards its end; it changes group for one of its own or
\* for that of the harness, and closes the pipe for good.
Onward(p) ==
  /\ proc'[p].owner = proc[p].owner
  /\ proc'[p].group \in {0, p, proc[p].group}
  /\ proc'[p].pipe \in {0, proc[p].pipe}
  /\ proc'[p].parent = proc[p].parent \/ (proc[p].parent \in Pids /\ proc'[p].parent = Reaper)
  /\ proc'[p].st = "run" => proc[p].st = "run"
  /\ proc'[p].st \in {"run", "dying"} => Alive(p) /\ proc'[p].status = proc[p].status
  /\ ~Alive(p) => proc'[p].status = proc[p].status

Forked(q) ==
  \E p \in Pids :
    /\ Executing(p) /\ proc'[q].parent = p /\ proc'[q].status = "none"
    /\ proc'[q].owner = proc[p].owner /\ proc'[q].group = proc[p].group
    /\ proc'[q].pipe = proc[p].pipe

Commanded(q, a) ==
  /\ proc'[q].parent = 0 /\ proc'[q].status = "none"
  /\ proc'[q].owner = a /\ proc'[q].group = q /\ proc'[q].pipe = q

Evolves ==
  /\ \E n \in 0 .. MaxPids : proc' \in [0 .. n -> ProcessType]
  /\ DOMAIN proc \subseteq DOMAIN proc'
  /\ proc'[0].group = proc[0].group
  /\ \A p \in Pids : Onward(p)
  /\ \A q \in DOMAIN proc' \ DOMAIN proc : Forked(q) \/ \E a \in Agents : Commanded(q, a)

\* The processes are numbered from 1 on.
LEMMA PidsAreNumbered ==
    ASSUME TypeOK
    PROVE  \E n \in 0 .. MaxPids :
             /\ n \in Nat /\ n <= MaxPids /\ MaxPids \in Nat
             /\ proc \in [0 .. n -> ProcessType] /\ DOMAIN proc = 0 .. n
             /\ Pids = 1 .. n /\ Cardinality(Pids) = n
  <1>1. PICK n \in 0 .. MaxPids : proc \in [0 .. n -> ProcessType]
    BY DEF TypeOK
  <1>2. n \in Nat /\ n <= MaxPids /\ MaxPids \in Nat
    BY <1>1, ExecAssumption
  <1>3. Pids = 1 .. n
    BY <1>1, <1>2 DEF Pids
  <1>4. Cardinality(1 .. n) = n
    BY <1>2, FS_Interval
  <1> QED
    BY <1>1, <1>2, <1>3, <1>4

\* Nothing at all is a step, too.
LEMMA StandingStill ==
    ASSUME TypeOK, proc' = proc
    PROVE  Evolves
  <1>1. \A p \in Pids : Onward(p)
    BY DEF Onward, Alive
  <1> QED
    BY <1>1 DEF Evolves, TypeOK

\* One more process.
LEMMA OneMore ==
    ASSUME TypeOK,
           NEW q, q = Cardinality(Pids) + 1, q <= MaxPids,
           NEW new \in ProcessType,
           proc' = [r \in DOMAIN proc \cup {q} |-> IF r = q THEN new ELSE proc[r]],
           Forked(q) \/ \E a \in Agents : Commanded(q, a)
    PROVE  Evolves /\ q \notin DOMAIN proc /\ q \in Nat \ {0} /\ proc'[q] = new /\ DOMAIN proc' = DOMAIN proc \cup {q}
  <1>1. PICK n \in 0 .. MaxPids :
          /\ n \in Nat /\ n <= MaxPids /\ MaxPids \in Nat
          /\ proc \in [0 .. n -> ProcessType] /\ DOMAIN proc = 0 .. n
          /\ Pids = 1 .. n /\ Cardinality(Pids) = n
    BY PidsAreNumbered
  <1>2. q = n + 1 /\ q \in 0 .. MaxPids /\ q \notin 0 .. n /\ (0 .. n) \cup {q} = 0 .. q
    BY <1>1
  <1>3. proc' \in [0 .. q -> ProcessType] /\ DOMAIN proc' = (DOMAIN proc) \cup {q}
    BY <1>1, <1>2
  <1>4. \A r \in DOMAIN proc : proc'[r] = proc[r]
    BY <1>1, <1>2
  <1>5. \A p \in Pids : Onward(p)
    BY <1>4 DEF Onward, Alive, Pids
  <1>6. 0 \in DOMAIN proc
    BY <1>1
  <1>7. \A r \in DOMAIN proc' \ DOMAIN proc : r = q
    BY <1>3
  <1>8. Evolves
    BY <1>2, <1>3, <1>4, <1>5, <1>6, <1>7 DEF Evolves
  <1> QED
    BY <1>1, <1>2, <1>3, <1>8

\* Every process changes as one may.
LEMMA NoneMore ==
    ASSUME TypeOK,
           DOMAIN proc' = DOMAIN proc, proc' = [r \in DOMAIN proc |-> proc'[r]],
           \A r \in DOMAIN proc : proc'[r] \in ProcessType,
           proc'[0].group = proc[0].group,
           \A p \in Pids : Onward(p)
    PROVE  Evolves
  <1>1. PICK n \in 0 .. MaxPids :
          /\ n \in Nat /\ n <= MaxPids /\ MaxPids \in Nat
          /\ proc \in [0 .. n -> ProcessType] /\ DOMAIN proc = 0 .. n
          /\ Pids = 1 .. n /\ Cardinality(Pids) = n
    BY PidsAreNumbered
  <1>2. proc' \in [0 .. n -> ProcessType]
    BY <1>1
  <1> QED
    BY <1>1, <1>2 DEF Evolves

\* A fork.
LEMMA ForkEvolves ==
    ASSUME TypeOK, NEW p \in Pids, Fork(p)
    PROVE  Evolves
  <1> DEFINE q == Cardinality(Pids) + 1
             child == Process(p, proc[p].group, proc[p].pipe, proc[p].resists, proc[p].owner)
  <1>1. PICK n \in 0 .. MaxPids :
          /\ n \in Nat /\ n <= MaxPids /\ MaxPids \in Nat
          /\ proc \in [0 .. n -> ProcessType] /\ DOMAIN proc = 0 .. n
          /\ Pids = 1 .. n /\ Cardinality(Pids) = n
    BY PidsAreNumbered
  <1>2. /\ Executing(p) /\ Cardinality(Pids) < MaxPids
        /\ proc' = [r \in DOMAIN proc \cup {q} |-> IF r = q THEN child ELSE proc[r]]
    BY DEF Fork
  <1>3. q <= MaxPids
    BY <1>1, <1>2
  <1>4. proc[p] \in ProcessType /\ p \in Nat
    BY <1>1
  <1>5. child \in ProcessType
    <2>1. "none" \in Status
      BY DEF Status
    <2>2. PICK t \in Status : t = "none"
      BY <2>1
    <2>3. child = [st |-> "run", parent |-> p, group |-> proc[p].group, pipe |-> proc[p].pipe,
                   resists |-> proc[p].resists, status |-> t, owner |-> proc[p].owner]
      BY <2>2 DEF Process
    <2> QED
      BY <1>4, <2>3 DEF ProcessType
  <1>6. proc'[q] = child
    BY <1>2
  <1>7. Forked(q)
    BY <1>2, <1>6 DEF Forked, Process
  <1> HIDE DEF q, child
  <1> QED
    BY <1>2, <1>3, <1>5, <1>7, OneMore DEF q

\* A process changes its pipe, its group or what it makes of SIGTERM.
LEMMA ChangesEvolves ==
    ASSUME TypeOK, NEW p \in Pids, NEW new \in ProcessType, Changes(p, new),
           new.owner = proc[p].owner, new.group \in {0, p, proc[p].group},
           new.pipe \in {0, proc[p].pipe}, new.parent = proc[p].parent,
           new.st = proc[p].st, new.status = proc[p].status
    PROVE  Evolves
  <1>1. PICK n \in 0 .. MaxPids :
          /\ n \in Nat /\ n <= MaxPids /\ MaxPids \in Nat
          /\ proc \in [0 .. n -> ProcessType] /\ DOMAIN proc = 0 .. n
          /\ Pids = 1 .. n /\ Cardinality(Pids) = n
    BY PidsAreNumbered
  <1>2. proc' = [proc EXCEPT ![p] = new]
    BY DEF Changes
  <1>3. proc'[p] = new /\ \A r \in DOMAIN proc \ {p} : proc'[r] = proc[r]
    BY <1>1, <1>2
  <1>4. \A r \in Pids : Onward(r)
    <2> TAKE r \in Pids
    <2>1. CASE r = p
      BY <1>3, <2>1 DEF Onward, Alive
    <2>2. CASE r # p
      <3>1. proc'[r] = proc[r]
        BY <1>3, <2>2 DEF Pids
      <3> QED
        BY <3>1 DEF Onward, Alive
    <2> QED
      BY <2>1, <2>2
  <1>5. proc' = [r \in DOMAIN proc |-> proc'[r]] /\ DOMAIN proc' = DOMAIN proc
    BY <1>1, <1>2
  <1>6. \A r \in DOMAIN proc : proc'[r] \in ProcessType
    BY <1>1, <1>3
  <1>7. proc'[0].group = proc[0].group
    BY <1>1, <1>3 DEF Pids
  <1> QED
    BY <1>4, <1>5, <1>6, <1>7, NoneMore

\* A process that was waited for.
LEMMA GoneType ==
    ASSUME NEW p \in Nat, proc[p] \in ProcessType
    PROVE  /\ Gone(p) \in ProcessType
           /\ Gone(p).st = "gone" /\ Gone(p).group = p /\ Gone(p).pipe = 0
           /\ Gone(p).parent = proc[p].parent /\ Gone(p).owner = proc[p].owner
           /\ Gone(p).status = proc[p].status
  <1>1. PICK z \in Nat : z = 0
    OBVIOUS
  <1>2. Gone(p) = [proc[p] EXCEPT !.st = "gone", !.group = p, !.pipe = z, !.resists = FALSE]
    BY <1>1 DEF Gone
  <1> QED
    BY <1>1, <1>2 DEF ProcessType

\* It is waited for.
LEMMA GoneEvolves ==
    ASSUME TypeOK, NEW p \in Pids, proc[p].st = "zombie",
           proc' = [proc EXCEPT ![p] = Gone(p)]
    PROVE  Evolves /\ DOMAIN proc' = DOMAIN proc /\ proc'[p] = Gone(p)
  <1>1. PICK n \in 0 .. MaxPids :
          /\ n \in Nat /\ n <= MaxPids /\ MaxPids \in Nat
          /\ proc \in [0 .. n -> ProcessType] /\ DOMAIN proc = 0 .. n
          /\ Pids = 1 .. n /\ Cardinality(Pids) = n
    BY PidsAreNumbered
  <1>2. proc'[p] = Gone(p) /\ \A r \in DOMAIN proc \ {p} : proc'[r] = proc[r]
    BY <1>1
  <1>3. p \in Nat /\ proc[p] \in ProcessType
    BY <1>1
  <1>4. /\ Gone(p) \in ProcessType
        /\ Gone(p).st = "gone" /\ Gone(p).group = p /\ Gone(p).pipe = 0
        /\ Gone(p).parent = proc[p].parent /\ Gone(p).owner = proc[p].owner
        /\ Gone(p).status = proc[p].status
    BY <1>3, GoneType
  <1>5. \A r \in Pids : Onward(r)
    <2> TAKE r \in Pids
    <2>1. CASE r = p
      BY <1>2, <1>4, <2>1 DEF Onward, Alive
    <2>2. CASE r # p
      <3>1. proc'[r] = proc[r]
        BY <1>2, <2>2 DEF Pids
      <3> QED
        BY <3>1 DEF Onward, Alive
    <2> QED
      BY <2>1, <2>2
  <1>6. proc' = [r \in DOMAIN proc |-> proc'[r]] /\ DOMAIN proc' = DOMAIN proc
    BY <1>1
  <1>7. \A r \in DOMAIN proc : proc'[r] \in ProcessType
    BY <1>1, <1>2, <1>4
  <1>8. proc'[0].group = proc[0].group
    BY <1>1, <1>2 DEF Pids
  <1> QED
    BY <1>2, <1>5, <1>6, <1>7, <1>8, NoneMore

\* It ends and leaves its children to init.
LEMMA EndedEvolves ==
    ASSUME TypeOK, Owners, NEW p \in Pids, Alive(p), NEW status \in Status,
           proc' = Ended(p, status)
    PROVE  Evolves
  <1> DEFINE closed == [proc[p] EXCEPT !.st = "zombie", !.pipe = 0, !.resists = FALSE,
                                       !.status = IF proc[p].parent = 0 THEN status ELSE "none"]
  <1>1. PICK n \in 0 .. MaxPids :
          /\ n \in Nat /\ n <= MaxPids /\ MaxPids \in Nat
          /\ proc \in [0 .. n -> ProcessType] /\ DOMAIN proc = 0 .. n
          /\ Pids = 1 .. n /\ Cardinality(Pids) = n
    BY PidsAreNumbered
  <1>2. \A r \in DOMAIN proc : r \in Nat /\ proc[r] \in ProcessType
    BY <1>1
  <1>3. \A r \in DOMAIN proc :
          /\ Gone(r) \in ProcessType
          /\ Gone(r).st = "gone" /\ Gone(r).group = r /\ Gone(r).pipe = 0
          /\ Gone(r).parent = proc[r].parent /\ Gone(r).owner = proc[r].owner
          /\ Gone(r).status = proc[r].status
    BY <1>2, GoneType
  <1>4. p \in DOMAIN proc /\ p # 0 /\ Reaper \in Nat /\ Reaper # 0
    BY <1>1 DEF Pids, Reaper
  <1>5. /\ closed \in ProcessType /\ closed.st = "zombie" /\ closed.pipe = 0
        /\ closed.group = proc[p].group /\ closed.parent = proc[p].parent
        /\ closed.owner = proc[p].owner
    <2>1. PICK z \in Nat : z = 0
      OBVIOUS
    <2>0. "none" \in Status
      BY DEF Status
    <2>2. PICK t \in Status : t = IF proc[p].parent = 0 THEN status ELSE "none"
      BY <2>0
    <2>3. closed = [proc[p] EXCEPT !.st = "zombie", !.pipe = z, !.resists = FALSE, !.status = t]
      BY <2>1, <2>2
    <2> HIDE DEF closed
    <2> QED
      BY <1>2, <1>4, <2>1, <2>3 DEF ProcessType
  <1>6. proc'[p] = IF proc[p].parent = Reaper THEN Gone(p) ELSE closed
    BY <1>4 DEF Ended
  <1> HIDE DEF closed
  <1>7. \A r \in DOMAIN proc \ {p} :
          proc'[r] = IF proc[r].parent # p THEN proc[r]
                     ELSE IF proc[r].st = "zombie" THEN [Gone(r) EXCEPT !.parent = Reaper]
                     ELSE [proc[r] EXCEPT !.parent = Reaper]
    BY DEF Ended
  <1>8. proc'[p] \in ProcessType /\ Onward(p)
    BY <1>3, <1>4, <1>5, <1>6 DEF Onward, Alive
  <1>9. ASSUME NEW r \in DOMAIN proc \ {p}
        PROVE  /\ proc'[r] \in ProcessType
               /\ proc'[r].group \in {r, proc[r].group}
               /\ r # 0 => Onward(r)
    <2>1. CASE proc[r].parent # p
      BY <1>2, <1>7, <2>1 DEF Onward, Alive
    <2>2. CASE proc[r].parent = p /\ proc[r].st = "zombie"
      <3>1. proc'[r] = [Gone(r) EXCEPT !.parent = Reaper]
        BY <1>7, <2>2
      <3>2. Gone(r) \in ProcessType
        BY <1>3
      <3>3. /\ proc'[r] \in ProcessType /\ proc'[r].parent = Reaper /\ proc'[r].st = "gone"
            /\ proc'[r].group = r /\ proc'[r].pipe = 0 /\ proc'[r].owner = Gone(r).owner
            /\ proc'[r].status = Gone(r).status
        <4>1. PICK v : v = [Gone(r) EXCEPT !.parent = Reaper]
          OBVIOUS
        <4>2. v \in ProcessType /\ v.parent = Reaper
          BY <3>2, <4>1, <1>4 DEF ProcessType
        <4>3. v.st = Gone(r).st /\ v.group = Gone(r).group /\ v.pipe = Gone(r).pipe
              /\ v.owner = Gone(r).owner /\ v.status = Gone(r).status
          BY <3>2, <4>1 DEF ProcessType
        <4> QED
          BY <3>1, <4>1, <4>2, <4>3, <1>3
      <3> QED
        BY <1>3, <2>2, <3>3 DEF Onward, Alive
    <2>3. CASE proc[r].parent = p /\ proc[r].st # "zombie"
      <3>1. proc'[r] = [proc[r] EXCEPT !.parent = Reaper]
        BY <1>7, <2>3
      <3>2. proc'[r] \in ProcessType /\ proc'[r].parent = Reaper
        <4>1. PICK v : v = [proc[r] EXCEPT !.parent = Reaper]
          OBVIOUS
        <4> QED
          BY <1>2, <1>4, <3>1, <4>1 DEF ProcessType
      <3>3. /\ proc'[r].st = proc[r].st /\ proc'[r].group = proc[r].group
            /\ proc'[r].pipe = proc[r].pipe /\ proc'[r].owner = proc[r].owner
            /\ proc'[r].status = proc[r].status
        BY <1>2, <3>1 DEF ProcessType
      <3> QED
        BY <2>3, <3>2, <3>3 DEF Onward, Alive
    <2> QED
      BY <2>1, <2>2, <2>3
  <1>10. proc' = [r \in DOMAIN proc |-> proc'[r]] /\ DOMAIN proc' = DOMAIN proc
    BY DEF Ended
  <1>11. \A r \in DOMAIN proc : proc'[r] \in ProcessType
    BY <1>8, <1>9
  <1>12. proc'[0].group = proc[0].group
    BY <1>1, <1>4, <1>9 DEF Owners
  <1>13. \A r \in Pids : Onward(r)
    BY <1>8, <1>9 DEF Pids
  <1> QED
    BY <1>10, <1>11, <1>12, <1>13, NoneMore

\* Processes are signalled.
LEMMA SignalEvolves ==
    ASSUME TypeOK, NEW sig, NEW pids, NEW groups_, Signal(sig, pids, groups_)
    PROVE  Evolves /\ DOMAIN proc' = DOMAIN proc
  <1> DEFINE ends == {p \in DOMAIN proc : Executing(p) /\ (p \in pids \/ proc[p].group \in groups_)
                                            /\ (sig = "KILL" \/ ~proc[p].resists)}
  <1>1. PICK n \in 0 .. MaxPids :
          /\ n \in Nat /\ n <= MaxPids /\ MaxPids \in Nat
          /\ proc \in [0 .. n -> ProcessType] /\ DOMAIN proc = 0 .. n
          /\ Pids = 1 .. n /\ Cardinality(Pids) = n
    BY PidsAreNumbered
  <1>2. proc' = [p \in DOMAIN proc |-> IF p \in ends THEN [proc[p] EXCEPT !.st = "dying"] ELSE proc[p]]
    BY DEF Signal
  <1>3. \A p \in ends : Executing(p)
    OBVIOUS
  <1> HIDE DEF ends
  <1>4. ASSUME NEW p \in DOMAIN proc
        PROVE  /\ proc'[p] \in ProcessType /\ proc'[p].group = proc[p].group
               /\ p # 0 => Onward(p)
    <2>1. proc[p] \in ProcessType
      BY <1>1
    <2>2. CASE p \in ends
      <3>1. proc'[p] = [proc[p] EXCEPT !.st = "dying"]
        BY <1>2, <2>2
      <3>2. /\ proc'[p] \in ProcessType /\ proc'[p].st = "dying" /\ proc'[p].group = proc[p].group
            /\ proc'[p].pipe = proc[p].pipe /\ proc'[p].owner = proc[p].owner
            /\ proc'[p].status = proc[p].status /\ proc'[p].parent = proc[p].parent
        BY <2>1, <3>1 DEF ProcessType
      <3> QED
        BY <1>3, <2>2, <3>2 DEF Onward, Alive, Executing
    <2>3. CASE p \notin ends
      BY <1>2, <2>1, <2>3 DEF Onward, Alive
    <2> QED
      BY <2>2, <2>3
  <1>5. proc' = [r \in DOMAIN proc |-> proc'[r]] /\ DOMAIN proc' = DOMAIN proc
    BY <1>2
  <1>6. \A r \in Pids : Onward(r)
    BY <1>4 DEF Pids
  <1>7. proc'[0].group = proc[0].group
    BY <1>1, <1>4
  <1> QED
    BY <1>4, <1>5, <1>6, <1>7, NoneMore

\* Whatever the processes of the commands do.
LEMMA ActsEvolve ==
    ASSUME TypeOK, Owners, NEW p \in Pids, Acts(p) \/ Die(p)
    PROVE  /\ Evolves /\ UNCHANGED <<ex, execs, cancelled, out, made, faults, hit>>
           /\ \A q \in DOMAIN proc' \ DOMAIN proc : Forked(q)
  <1>1. proc[p] \in ProcessType /\ p \in Nat /\ p # 0
    BY PidsAreNumbered
  <1>2. CASE Fork(p)
    <2>1. Evolves
      BY <1>2, ForkEvolves
    <2>2. \A q \in DOMAIN proc' \ DOMAIN proc : Forked(q)
      BY <1>2 DEF Fork, Forked, Process
    <2> QED
      BY <1>2, <2>1, <2>2 DEF Fork
  <1>3. ASSUME NEW new \in ProcessType, Changes(p, new),
               new.owner = proc[p].owner, new.group \in {0, p, proc[p].group},
               new.pipe \in {0, proc[p].pipe}, new.parent = proc[p].parent,
               new.st = proc[p].st, new.status = proc[p].status
        PROVE  /\ Evolves /\ UNCHANGED <<ex, execs, cancelled, out, made, faults, hit>>
               /\ \A q \in DOMAIN proc' \ DOMAIN proc : Forked(q)
    <2>1. Evolves
      BY <1>3, ChangesEvolves
    <2>2. DOMAIN proc' = DOMAIN proc
      BY <1>3 DEF Changes
    <2> QED
      BY <1>3, <2>1, <2>2 DEF Changes
  <1>4. CASE Redirect(p)
    <2>1. PICK z \in Nat : z = 0
      OBVIOUS
    <2>2. PICK v : v = [proc[p] EXCEPT !.pipe = z]
      OBVIOUS
    <2>3. /\ v \in ProcessType /\ v.owner = proc[p].owner /\ v.group = proc[p].group /\ v.pipe = z
          /\ v.parent = proc[p].parent /\ v.st = proc[p].st /\ v.status = proc[p].status
      BY <1>1, <2>2 DEF ProcessType
    <2>4. Changes(p, v)
      BY <1>4, <2>1, <2>2 DEF Redirect
    <2> QED
      BY <1>3, <2>1, <2>3, <2>4
  <1>5. CASE Ignore(p)
    <2>2. PICK v : v = [proc[p] EXCEPT !.resists = TRUE]
      OBVIOUS
    <2>3. /\ v \in ProcessType /\ v.owner = proc[p].owner /\ v.group = proc[p].group
          /\ v.pipe = proc[p].pipe
          /\ v.parent = proc[p].parent /\ v.st = proc[p].st /\ v.status = proc[p].status
      BY <1>1, <2>2 DEF ProcessType
    <2>4. Changes(p, v)
      BY <1>5, <2>2 DEF Ignore
    <2> QED
      BY <1>3, <2>3, <2>4
  <1>6. CASE Setsid(p)
    <2>2. PICK v : v = [proc[p] EXCEPT !.group = p]
      OBVIOUS
    <2>3. /\ v \in ProcessType /\ v.owner = proc[p].owner /\ v.group = p /\ v.pipe = proc[p].pipe
          /\ v.parent = proc[p].parent /\ v.st = proc[p].st /\ v.status = proc[p].status
      BY <1>1, <2>2 DEF ProcessType
    <2>4. Changes(p, v)
      BY <1>6, <2>2 DEF Setsid
    <2> QED
      BY <1>3, <2>3, <2>4
  <1>7. CASE JoinHarness(p)
    <2>1. PICK z \in Nat : z = 0
      OBVIOUS
    <2>2. PICK v : v = [proc[p] EXCEPT !.group = z]
      OBVIOUS
    <2>3. /\ v \in ProcessType /\ v.owner = proc[p].owner /\ v.group = z /\ v.pipe = proc[p].pipe
          /\ v.parent = proc[p].parent /\ v.st = proc[p].st /\ v.status = proc[p].status
      BY <1>1, <2>2 DEF ProcessType
    <2>4. Changes(p, v)
      BY <1>7, <2>1, <2>2 DEF JoinHarness
    <2> QED
      BY <1>3, <2>1, <2>3, <2>4
  <1>8. CASE Reap(p)
    <2>1. Evolves /\ DOMAIN proc' = DOMAIN proc
      BY <1>8, GoneEvolves DEF Reap
    <2> QED
      BY <1>8, <2>1 DEF Reap
  <1>9. ASSUME NEW s \in Statuses, Exit(p, s)
        PROVE  /\ Evolves /\ UNCHANGED <<ex, execs, cancelled, out, made, faults, hit>>
               /\ \A q \in DOMAIN proc' \ DOMAIN proc : Forked(q)
    <2>1. s \in Status /\ Alive(p)
      BY <1>9 DEF Status, Exit, Executing, Alive
    <2>2. Evolves
      BY <1>9, <2>1, EndedEvolves DEF Exit
    <2>3. DOMAIN proc' = DOMAIN proc
      BY <1>9 DEF Exit, Ended
    <2> QED
      BY <1>9, <2>2, <2>3 DEF Exit
  <1>10. CASE Die(p)
    <2>1. "signal" \in Status /\ Alive(p)
      BY <1>10 DEF Status, Die, Alive
    <2>2. Evolves
      BY <1>10, <2>1, EndedEvolves DEF Die
    <2>3. DOMAIN proc' = DOMAIN proc
      BY <1>10 DEF Die, Ended
    <2> QED
      BY <1>10, <2>2, <2>3 DEF Die
  <1> QED
    BY <1>2, <1>4, <1>5, <1>6, <1>7, <1>8, <1>9, <1>10 DEF Acts

\* Owners is kept by every step.
LEMMA OwnersStay ==
    ASSUME TypeOK, Owners, Evolves
    PROVE  Owners'
  <1>1. PICK n \in 0 .. MaxPids :
          /\ n \in Nat /\ n <= MaxPids /\ MaxPids \in Nat
          /\ proc \in [0 .. n -> ProcessType] /\ DOMAIN proc = 0 .. n
          /\ Pids = 1 .. n /\ Cardinality(Pids) = n
    BY PidsAreNumbered
  <1>2. PICK m \in 0 .. MaxPids : proc' \in [0 .. m -> ProcessType]
    BY DEF Evolves
  <1>3. Reaper \notin DOMAIN proc' /\ Reaper # 0
    BY <1>1, <1>2 DEF Reaper
  <1>4. DOMAIN proc \subseteq DOMAIN proc' /\ 0 \in DOMAIN proc
    BY <1>1 DEF Evolves
  <1>5. Pids' = DOMAIN proc' \ {0} /\ Pids = DOMAIN proc \ {0}
    BY DEF Pids
  <1>6. ASSUME NEW p \in Pids'
        PROVE  /\ proc'[p].owner \in Agents
               /\ proc'[p].group \in DOMAIN proc'
               /\ proc'[p].group # 0 => proc'[proc'[p].group].owner = proc'[p].owner
               /\ proc'[p].parent \in DOMAIN proc' \cup {Reaper}
               /\ proc'[p].parent \in Pids' => proc'[proc'[p].parent].owner = proc'[p].owner
               /\ proc'[p].st \in {"run", "dying"} => proc'[p].status = "none"
    <2>1. CASE p \in Pids
      <3>1. Onward(p)
        BY <2>1 DEF Evolves
      <3>2. /\ proc[p].owner \in Agents
            /\ proc[p].group \in DOMAIN proc
            /\ proc[p].group # 0 => proc[proc[p].group].owner = proc[p].owner
            /\ proc[p].parent \in DOMAIN proc \cup {Reaper}
            /\ proc[p].parent \in Pids => proc[proc[p].parent].owner = proc[p].owner
            /\ Alive(p) => proc[p].status = "none"
        BY <2>1 DEF Owners
      <3>3. proc'[p].owner \in Agents /\ proc'[p].group \in DOMAIN proc'
        BY <1>4, <1>5, <2>1, <3>1, <3>2 DEF Onward
      <3>4. proc'[p].group # 0 => proc'[proc'[p].group].owner = proc'[p].owner
        <4>1. ASSUME proc'[p].group # 0, proc'[p].group # p
              PROVE  proc'[proc'[p].group].owner = proc'[p].owner
          <5>1. proc'[p].group = proc[p].group /\ proc[p].group \in Pids
            BY <1>5, <3>1, <3>2, <4>1 DEF Onward
          <5>2. Onward(proc[p].group)
            BY <5>1 DEF Evolves
          <5> QED
            BY <3>1, <3>2, <4>1, <5>1, <5>2 DEF Onward
        <4> QED
          BY <4>1
      <3>5. /\ proc'[p].parent \in DOMAIN proc' \cup {Reaper}
            /\ proc'[p].parent \in Pids' => proc'[proc'[p].parent].owner = proc'[p].owner
        <4>1. CASE proc'[p].parent = Reaper
          BY <1>3, <1>5, <4>1
        <4>2. CASE proc'[p].parent # Reaper
          <5>1. proc'[p].parent = proc[p].parent /\ proc[p].parent \in DOMAIN proc
            BY <3>1, <3>2, <4>2 DEF Onward
          <5>2. proc[p].parent \in Pids => Onward(proc[p].parent)
            BY DEF Evolves
          <5>3. proc'[p].parent \in Pids' => proc[p].parent \in Pids
            BY <1>5, <5>1
          <5> QED
            BY <1>4, <3>1, <3>2, <5>1, <5>2, <5>3 DEF Onward
        <4> QED
          BY <4>1, <4>2
      <3>6. proc'[p].st \in {"run", "dying"} => proc'[p].status = "none"
        BY <3>1, <3>2 DEF Onward
      <3> QED
        BY <3>3, <3>4, <3>5, <3>6
    <2>2. CASE p \notin Pids
      <3>1. p \in DOMAIN proc' \ DOMAIN proc /\ p # 0
        BY <1>5, <2>2
      <3>2. CASE Forked(p)
        <4>1. PICK q \in Pids :
                /\ Executing(q) /\ proc'[p].parent = q /\ proc'[p].status = "none"
                /\ proc'[p].owner = proc[q].owner /\ proc'[p].group = proc[q].group
                /\ proc'[p].pipe = proc[q].pipe
          BY <3>2 DEF Forked
        <4>2. /\ proc[q].owner \in Agents
              /\ proc[q].group \in DOMAIN proc
              /\ proc[q].group # 0 => proc[proc[q].group].owner = proc[q].owner
          BY DEF Owners
        <4>3. Onward(q) /\ (proc[q].group \in Pids => Onward(proc[q].group))
          BY DEF Evolves
        <4> QED
          BY <1>4, <1>5, <4>1, <4>2, <4>3 DEF Onward
      <3>3. ASSUME NEW a \in Agents, Commanded(p, a)
            PROVE  /\ proc'[p].owner \in Agents
                   /\ proc'[p].group = p /\ proc'[p].parent = 0 /\ proc'[p].status = "none"
        BY <3>3 DEF Commanded
      <3>4. 0 \notin Pids' /\ 0 \in DOMAIN proc'
        BY <1>4, <1>5
      <3> QED
        BY <3>1, <3>2, <3>3, <3>4 DEF Evolves
    <2> QED
      BY <2>1, <2>2
  <1>7. proc'[0].group = 0
    BY DEF Owners, Evolves
  <1> QED
    BY <1>6, <1>7 DEF Owners, Alive

-----------------------------------------------------------------------------
(* The tree of a command. *)

\* The tree read from the process table has only processes of the agent, and so
\* have the groups found in it.
LEMMA TreeOwned ==
    ASSUME NEW a \in Agents, NEW e, RowsOwned(e), e.leader \in Own(a)
    PROVE  /\ pidsOf(e) \subseteq Own(a) /\ e.leader \in pidsOf(e)
           /\ \E t \in descendants(e.leader, e.rows) : t.pgid = e.leader
           /\ \A t \in descendants(e.leader, e.rows) : t.pgid # 0 => t.pgid \in Own(a)
  <1> DEFINE pid == e.leader
             rows == e.rows
             leader == [pid |-> pid, pgid |-> pid, ppid |-> 0]
             all == rows \cup {leader}
             closed(T) == leader \in T /\ \A t \in T, r \in rows : r.ppid = t.pid => r \in T
             kin == descendants(e.leader, e.rows)
             mine == {t \in all : t.pid \in Own(a)}
  <1>1. kin = {t \in all : \A T \in SUBSET all : closed(T) => t \in T}
    BY DEF descendants
  <1>2. pid \in Pids /\ proc[pid].owner = a /\ leader.pid = pid /\ leader.pgid = pid
    BY DEF Own
  <1>3. \A r \in rows :
          /\ r.pid \in Pids
          /\ r.ppid \in Pids => proc[r.ppid].owner = proc[r.pid].owner
          /\ r.pgid # 0 => r.pgid \in Pids /\ proc[r.pgid].owner = proc[r.pid].owner
    BY DEF RowsOwned
  <1>4. mine \in SUBSET all
    OBVIOUS
  <1>5. leader \in mine
    BY <1>2
  <1>6. ASSUME NEW t \in mine, NEW r \in rows, r.ppid = t.pid
        PROVE  r \in mine
    <2>1. t.pid \in Pids /\ proc[t.pid].owner = a
      BY DEF Own
    <2>2. r.pid \in Pids /\ proc[r.pid].owner = a
      BY <1>3, <1>6, <2>1
    <2> QED
      BY <2>2 DEF Own
  <1>7. closed(mine)
    BY <1>5, <1>6
  <1>8. leader \in all /\ \A T \in SUBSET all : closed(T) => leader \in T
    OBVIOUS
  <1> HIDE DEF closed, mine, leader, kin
  <1>9. leader \in kin
    BY <1>1, <1>8
  <1>10. \A t \in kin : t \in mine
    BY <1>1, <1>4, <1>7
  <1>11. \A t \in kin : t.pid \in Own(a)
    BY <1>10 DEF mine
  <1>12. \A t \in kin : t.pgid # 0 => t.pgid \in Own(a)
    <2> SUFFICES ASSUME NEW t \in kin, t.pgid # 0 PROVE t.pgid \in Own(a)
      OBVIOUS
    <2>1. CASE t = leader
      BY <1>2, <2>1 DEF Own
    <2>2. CASE t \in rows
      BY <1>3, <1>11, <2>2 DEF Own
    <2> QED
      BY <1>1, <2>1, <2>2
  <1>13. pid # 0
    BY <1>2 DEF Pids
  <1> QED
    BY <1>2, <1>9, <1>11, <1>12, <1>13 DEF pidsOf, kin

-----------------------------------------------------------------------------
(* What others do leaves a call alone. *)

\* A pipe that nobody holds stays so.
LEMMA NobodyHolds ==
    ASSUME Evolves, NEW p \in Pids, Holders(p) = {}
    PROVE  Holders(p)' = {}
  <1> SUFFICES ASSUME NEW q \in Pids', proc'[q].st \in {"run", "dying"}, proc'[q].pipe = p
               PROVE  FALSE
    BY DEF Holders, Alive
  <1>1. p # 0 /\ p \in DOMAIN proc
    BY DEF Pids
  <1>2. CASE q \in Pids
    <2>1. Onward(q)
      BY <1>2 DEF Evolves
    <2>2. Alive(q) /\ proc[q].pipe = p
      BY <1>1, <2>1 DEF Onward
    <2> QED
      BY <1>2, <2>2 DEF Holders
  <1>3. CASE q \notin Pids
    <2>1. q \in DOMAIN proc' \ DOMAIN proc
      BY <1>3 DEF Pids
    <2>2. CASE Forked(q)
      <3>1. PICK r \in Pids : Executing(r) /\ proc'[q].pipe = proc[r].pipe
        BY <2>2 DEF Forked
      <3> QED
        BY <3>1 DEF Holders, Alive, Executing
    <2>3. ASSUME NEW a \in Agents, Commanded(q, a) PROVE FALSE
      BY <1>1, <2>1, <2>3 DEF Commanded
    <2> QED
      BY <2>1, <2>2, <2>3 DEF Evolves
  <1> QED
    BY <1>2, <1>3

\* Who is not of a stopped group does not come to run in it.
LEMMA GroupStaysStopped ==
    ASSUME Evolves, NEW g \in Pids,
           \A p \in Pids : p = g \/ proc[p].group = g => ~Executing(p)
    PROVE  \A p \in Pids' : p = g \/ proc'[p].group = g => proc'[p].st # "run"
  <1> SUFFICES ASSUME NEW q \in Pids', q = g \/ proc'[q].group = g, proc'[q].st = "run"
               PROVE  FALSE
    OBVIOUS
  <1>1. g # 0 /\ g \in DOMAIN proc
    BY DEF Pids
  <1>2. CASE q \in Pids
    <2>1. Onward(q)
      BY <1>2 DEF Evolves
    <2> QED
      BY <1>1, <1>2, <2>1 DEF Onward, Executing
  <1>3. CASE q \notin Pids
    <2>1. q \in DOMAIN proc' \ DOMAIN proc /\ q # g
      BY <1>1, <1>3 DEF Pids
    <2>2. CASE Forked(q)
      <3>1. PICK r \in Pids : Executing(r) /\ proc'[q].group = proc[r].group
        BY <2>2 DEF Forked
      <3> QED
        BY <2>1, <3>1
    <2>3. ASSUME NEW a \in Agents, Commanded(q, a) PROVE FALSE
      BY <2>1, <2>3 DEF Commanded
    <2> QED
      BY <2>1, <2>2, <2>3 DEF Evolves
  <1> QED
    BY <1>2, <1>3

\* An agent that starts nothing owns what it owned and what that forks, and its
\* commands stay the same.
LEMMA OwnStays ==
    ASSUME Evolves, NEW a \in Agents, hit' \subseteq Pids,
           \A q \in DOMAIN proc' \ DOMAIN proc : proc'[q].owner = a => Forked(q)
    PROVE  /\ Own(a) \subseteq Own(a)'
           /\ Own(a) = {} <=> Own(a)' = {}
           /\ Own(a)' \cap hit' \subseteq Own(a)
           /\ Leaders(a)' = Leaders(a)
  <1>1. \A p \in Pids : p \in Pids' /\ Onward(p) /\ Reaper # 0
    <2>1. Pids \subseteq Pids'
      BY DEF Evolves, Pids
    <2>2. Reaper # 0
      BY ExecAssumption DEF Reaper
    <2> QED
      BY <2>1, <2>2 DEF Evolves
  <1>2. Own(a) \subseteq Own(a)'
    BY <1>1 DEF Own, Onward
  <1>3. ASSUME NEW q \in Own(a)', q \notin Pids
        PROVE  Own(a) # {} /\ q \notin Leaders(a)'
    <2>1. q \in DOMAIN proc' \ DOMAIN proc /\ proc'[q].owner = a
      BY <1>3 DEF Own, Pids
    <2>2. PICK r \in Pids : proc'[q].parent = r /\ proc'[q].owner = proc[r].owner
      BY <2>1 DEF Forked
    <2> QED
      BY <2>1, <2>2 DEF Own, Leaders, Pids
  <1>4. \A q \in Own(a)' : q \in Pids => q \in Own(a)
    BY <1>1 DEF Own, Onward
  <1>5. Leaders(a)' = Leaders(a)
    <2>1. Leaders(a)' \subseteq Leaders(a)
      <3> SUFFICES ASSUME NEW q \in Leaders(a)' PROVE q \in Leaders(a)
        OBVIOUS
      <3>1. q \in Own(a)' /\ proc'[q].parent = 0
        BY DEF Leaders
      <3>2. q \in Pids /\ q \in Own(a)
        BY <1>3, <1>4, <3>1
      <3> QED
        BY <1>1, <3>1, <3>2 DEF Leaders, Onward
    <2>2. Leaders(a) \subseteq Leaders(a)'
      <3> SUFFICES ASSUME NEW q \in Leaders(a) PROVE q \in Leaders(a)'
        OBVIOUS
      <3>1. q \in Own(a) /\ q \in Pids /\ proc[q].parent = 0
        BY DEF Leaders, Own
      <3>2. 0 \notin Pids /\ Onward(q)
        BY <1>1, <3>1 DEF Pids
      <3> QED
        BY <1>2, <3>1, <3>2 DEF Leaders, Onward
    <2> QED
      BY <2>1, <2>2
  <1> QED
    BY <1>2, <1>3, <1>4, <1>5

\* What holds of a call goes on to hold while the processes do what they like,
\* as long as its agent starts nothing and what it started is not hit, or may be.
LEMMA CallStays ==
    ASSUME TypeOK, Owners, Evolves, NEW a \in Agents,
           NEW e, NEW o, NEW m, NEW c \in BOOLEAN, CallHolds(a, e, o, m, c),
           hit' \subseteq Pids,
           \/ hit' \cap Own(a) \subseteq hit
           \/ e.pc # "idle" /\ (e.w \notin {"off", "armed", "reading"} \/ e.incomplete),
           \A q \in DOMAIN proc' \ DOMAIN proc : proc'[q].owner = a => Forked(q)
    PROVE  CallHolds(a, e, o, m, c)'
  <1>1. /\ Own(a) \subseteq Own(a)'
        /\ Own(a) = {} <=> Own(a)' = {}
        /\ Own(a)' \cap hit' \subseteq Own(a)
        /\ Leaders(a)' = Leaders(a)
    BY OwnStays
  <1>2. \A p \in Pids : p \in Pids' /\ Onward(p)
    BY DEF Evolves, Pids
  <1>3. e.leader # 0 => e.leader \in Own(a) /\ e.leader \in Pids /\ proc[e.leader].parent = 0
    BY DEF CallHolds, Placed, Own
  <1>4. e.leader # 0 /\ Holders(e.leader) = {} => Holders(e.leader)' = {}
    BY <1>3, NobodyHolds
  <1>5. RowsOwned(e)'
    <2>1. e.todo \subseteq Pids'
      BY <1>2 DEF CallHolds, RowsOwned
    <2>2. Reaper \notin Pids' /\ 0 \notin Pids'
      <3>1. PICK n \in 0 .. MaxPids : proc' \in [0 .. n -> ProcessType]
        BY DEF Evolves
      <3> QED
        BY <3>1, ExecAssumption DEF Reaper, Pids
    <2>3. ASSUME NEW r \in e.rows
          PROVE  /\ r.pid \in Pids' /\ r.ppid \in DOMAIN proc' \cup {Reaper}
                 /\ r.ppid \in Pids' => proc'[r.ppid].owner = proc'[r.pid].owner
                 /\ r.pgid # 0 => r.pgid \in Pids' /\ proc'[r.pgid].owner = proc'[r.pid].owner
      <3>1. /\ r.pid \in Pids /\ r.ppid \in DOMAIN proc \cup {Reaper}
            /\ r.ppid \in Pids => proc[r.ppid].owner = proc[r.pid].owner
            /\ r.pgid # 0 => r.pgid \in Pids /\ proc[r.pgid].owner = proc[r.pid].owner
        BY DEF CallHolds, RowsOwned
      <3>2. DOMAIN proc \subseteq DOMAIN proc'
        BY DEF Evolves
      <3>3. r.ppid \in Pids' => r.ppid \in Pids
        BY <2>2, <3>1 DEF Pids
      <3> QED
        BY <1>2, <3>1, <3>2, <3>3 DEF Onward
    <2> QED
      BY <2>1, <2>3 DEF RowsOwned
  <1>6. Placed(a, e, c)'
    <2>1. e.leader # 0 => e.leader \in Own(a)' /\ proc'[e.leader].parent = 0
      <3>1. e.leader # 0 => Onward(e.leader) /\ 0 \notin Pids
        BY <1>2, <1>3 DEF Pids
      <3> QED
        BY <1>1, <1>3, <3>1 DEF Onward
    <2>2. Placed(a, e, c)
      BY DEF CallHolds
    <2> QED
      BY <1>4, <2>1, <2>2 DEF Placed
  <1>7. Stopped(e, o)'
    <2>1. e.w \in {"check", "done"} => e.leader # 0
      BY DEF CallHolds, Placed
    <2>2. ASSUME e.w \in {"check", "done"}
          PROVE  \A p \in Pids' : p = e.leader \/ proc'[p].group = e.leader => proc'[p].st # "run"
      <3>1. \A p \in Pids : p = e.leader \/ proc[p].group = e.leader => ~Executing(p)
        BY <2>2 DEF CallHolds, Stopped
      <3>2. e.leader \in Pids
        BY <1>3, <2>1, <2>2
      <3> QED
        BY <3>1, <3>2, GroupStaysStopped
    <2>3. ASSUME e.w = "done", NEW p \in pidsOf(e), proc'[p].st \in {"run", "dying"}
          PROVE  p \in e.alive
      <3>1. pidsOf(e) \subseteq Own(a)
        BY <1>3, <2>1, <2>3, TreeOwned DEF CallHolds
      <3>2. p \in Pids /\ Onward(p)
        BY <1>2, <2>3, <3>1 DEF Own
      <3>3. Alive(p)
        BY <2>3, <3>2 DEF Onward
      <3> QED
        BY <2>3, <3>3 DEF CallHolds, Stopped
    <2>4. e.w = "done" /\ e.pc = "idle" /\ o.code # "none" =>
            e.alive \subseteq o.survivors /\ (o.survivors # {} => o.effect = "unknown")
      BY DEF CallHolds, Stopped
    <2>5. pidsOf(e)' = pidsOf(e)
      BY DEF pidsOf, descendants
    <2> QED
      BY <2>2, <2>3, <2>4, <2>5 DEF Stopped, Executing, Alive
  <1>8. Told(a, e, o, m, c)'
    <2>1. Told(a, e, o, m, c)
      BY DEF CallHolds
    <2>2. hit' \cap Own(a) \subseteq hit => Own(a)' \cap hit' \subseteq Own(a) \cap hit
      BY <1>1
    <2>4. ASSUME NEW p \in Pids, proc[p].status = "zero"
          PROVE  proc'[p].status = "zero"
      <3>1. ~Alive(p) /\ Onward(p)
        BY <1>2, <2>4 DEF Owners
      <3> QED
        BY <2>4, <3>1 DEF Onward
    <2>5. ASSUME NEW p \in Leaders(a)' \ {e.leader}, proc[p].status = "zero", Holders(p) = {}
          PROVE  proc'[p].status = "zero" /\ Holders(p)' = {}
      <3>1. p \in Pids
        BY <1>1 DEF Leaders, Own
      <3> QED
        BY <2>4, <2>5, <3>1, NobodyHolds
    <2>6. m = 0 => Own(a)' = {} /\ e.pc = "idle" /\ o.code = "none"
      BY <1>1, <2>1 DEF Told
    <2>7. m = 1 /\ e.pc # "idle" =>
            /\ e.leader = 0 => (Own(a)' = {} <=> e.step = 1)
            /\ e.w \in {"off", "armed", "reading"} /\ ~e.incomplete => Own(a)' \cap hit' = {}
            /\ \A p \in Leaders(a)' \ {e.leader} : proc'[p].status = "zero" /\ Holders(p)' = {}
      BY <1>1, <2>1, <2>2, <2>5 DEF Told
    <2>8. m = 1 /\ e.pc = "idle" /\ o.code # "none" =>
            /\ o.effect = "none" <=> Own(a)' = {}
            /\ o.effect = "applied" =>
                 Own(a)' \cap hit' = {} /\ (e.leader # 0 => Holders(e.leader)' = {})
      BY <1>1, <1>4, <2>1, <2>2 DEF Told
    <2>9. e.pc = "idle" /\ o.code = "ok" =>
            /\ o.steps = Len(e.call.commands) /\ o.effect = "applied"
            /\ e.leader # 0 /\ proc'[e.leader].status = "zero"
            /\ e.w = "off" /\ ~e.timed /\ ~c
      BY <1>3, <2>1, <2>4 DEF Told
    <2> QED
      BY <2>6, <2>7, <2>8, <2>9 DEF Told
  <1> QED
    BY <1>5, <1>6, <1>7, <1>8 DEF CallHolds

\* So the call of an agent that does nothing.
LEMMA CallInvStays ==
    ASSUME TypeOK, Owners, Evolves, NEW b \in Agents, CallInv(b),
           ex'[b] = ex[b], out'[b] = out[b], made'[b] = made[b],
           b \in cancelled' <=> b \in cancelled,
           hit' \subseteq Pids, hit' \cap Own(b) \subseteq hit,
           \A q \in DOMAIN proc' \ DOMAIN proc : proc'[q].owner = b => Forked(q)
    PROVE  CallInv(b)'
  <1>1. PICK e : e = ex[b]
    OBVIOUS
  <1>2. PICK o : o = out[b]
    OBVIOUS
  <1>3. PICK m : m = made[b]
    OBVIOUS
  <1>4. PICK c \in BOOLEAN : c <=> b \in cancelled
    <2>1. (b \in cancelled) \in BOOLEAN
      OBVIOUS
    <2> QED
      BY <2>1
  <1>5. CallHolds(b, e, o, m, c)
    BY <1>1, <1>2, <1>3, <1>4 DEF CallInv, CallHolds, RowsOwned, Placed, Stopped, Told, pidsOf
  <1>6. CallHolds(b, e, o, m, c)'
    BY <1>5, CallStays
  <1> QED
    BY <1>1, <1>2, <1>3, <1>4, <1>6 DEF CallInv, CallHolds, RowsOwned, Placed, Stopped, Told, pidsOf

-----------------------------------------------------------------------------
(* The steps of one call. *)

\* The call of agent a becomes v, its outcome o, the calls made m; its agent is
\* told of the others when its command begins and not untold after.
Becomes(a, v, o, m, c) ==
  /\ ex' = [ex EXCEPT ![a] = v] /\ out' = [out EXCEPT ![a] = o] /\ made' = [made EXCEPT ![a] = m]
  /\ execs' = {b \in Agents : ex'[b].pc \notin {"idle", "register"}}
  /\ c <=> a \in cancelled'
  /\ cancelled' \in {cancelled, cancelled \cup {a}}
  /\ faults' \in Nat
  /\ hit' \subseteq Pids /\ hit' \ hit \subseteq Own(a)
  /\ \/ v.pc \in {"idle", "register"}
     \/ v.told = ex[a].told /\ ex[a].pc \notin {"idle", "register"}
     \/ v.told = {b \in execs \ {a} : <<a, b>> \in Overlap}

\* A step for one call keeps the invariant if it keeps that call's part of it
\* and starts only what is its own.
LEMMA StepOfCall ==
    ASSUME ExecInv, Evolves, NEW a \in Agents,
           NEW v \in CallType, NEW o \in OutcomeType, NEW m \in Nat, NEW c \in BOOLEAN,
           Becomes(a, v, o, m, c),
           \A q \in DOMAIN proc' \ DOMAIN proc : Forked(q) \/ proc'[q].owner = a,
           CallHolds(a, v, o, m, c)'
    PROVE  ExecInv'
  <1> USE DEF ExecInv, Becomes
  <1>1. ex \in [Agents -> CallType] /\ out \in [Agents -> OutcomeType] /\ made \in [Agents -> Nat]
    BY DEF TypeOK
  <1>2. ex'[a] = v /\ out'[a] = o /\ made'[a] = m
    BY <1>1
  <1>3. ASSUME NEW b \in Agents, b # a
        PROVE  ex'[b] = ex[b] /\ out'[b] = out[b] /\ made'[b] = made[b]
    BY <1>1, <1>3
  <1>4. TypeOK'
    <2>1. \E n \in 0 .. MaxPids : proc' \in [0 .. n -> ProcessType]
      BY DEF Evolves
    <2>2. ex' \in [Agents -> CallType] /\ out' \in [Agents -> OutcomeType] /\ made' \in [Agents -> Nat]
      BY <1>1
    <2>3. cancelled' \subseteq Agents /\ hit' \subseteq Pids'
      BY DEF TypeOK, Evolves, Pids
    <2> QED
      BY <2>1, <2>2, <2>3 DEF TypeOK
  <1>5. Owners'
    BY OwnersStay
  <1>6. ASSUME NEW b \in Agents
        PROVE  CallInv(b)'
    <2>1. CASE b = a
      <3>1. CallHolds(b, v, o, m, c)'
        BY <2>1
      <3>2. ex'[b] = v /\ out'[b] = o /\ made'[b] = m /\ (c <=> b \in cancelled')
        BY <1>2, <2>1
      <3> QED
        BY SMTT(30), <3>1, <3>2 DEF CallInv, CallHolds, RowsOwned, Placed, Stopped, Told, pidsOf
    <2>2. CASE b # a
      <3>1. hit' \cap Own(b) \subseteq hit
        BY <2>2 DEF Own
      <3>2. \A q \in DOMAIN proc' \ DOMAIN proc : proc'[q].owner = b => Forked(q)
        BY <2>2
      <3>3. ex'[b] = ex[b] /\ out'[b] = out[b] /\ made'[b] = made[b]
        BY <1>3, <2>2
      <3>4. b \in cancelled' <=> b \in cancelled
        BY <2>2
      <3>5. CallInv(b)
        OBVIOUS
      <3> QED
        BY <3>1, <3>2, <3>3, <3>4, <3>5, CallInvStays
    <2> QED
      BY <2>1, <2>2
  <1>7. OverlapTold'
    <2> SUFFICES ASSUME NEW b \in Agents, NEW d \in Agents, b # d, <<b, d>> \in Overlap,
                        ex'[b].pc \notin {"idle", "register"}, ex'[d].pc \notin {"idle", "register"}
                 PROVE  b \in ex'[d].told \/ d \in ex'[b].told
      BY DEF OverlapTold
    <2>1. \A x \in Agents \ {a} : ex'[x] = ex[x]
      BY <1>3
    <2>2. execs = {x \in Agents : ex[x].pc \notin {"idle", "register"}}
      BY DEF TypeOK
    <2>3. CASE v.told = ex[a].told /\ ex[a].pc \notin {"idle", "register"}
      <3>1. \A x \in Agents : ex'[x].pc \notin {"idle", "register"} =>
              ex'[x].told = ex[x].told /\ ex[x].pc \notin {"idle", "register"}
        BY <1>2, <2>1, <2>3
      <3> QED
        BY <3>1 DEF OverlapTold
    <2>4. CASE v.told = {x \in execs \ {a} : <<a, x>> \in Overlap}
      <3>1. CASE b # a /\ d # a
        BY <2>1, <3>1 DEF OverlapTold
      <3>2. CASE b = a
        BY <1>2, <2>1, <2>2, <2>4, <3>2
      <3>3. CASE d = a
        <4>1. <<d, b>> \in Overlap
          BY ExecAssumption
        <4> QED
          BY <1>2, <2>1, <2>2, <2>4, <3>3, <4>1
      <3> QED
        BY <3>1, <3>2, <3>3
    <2>5. CASE v.pc \in {"idle", "register"}
      <3>1. b # a /\ d # a
        BY <1>2, <2>5
      <3> QED
        BY <2>1, <3>1 DEF OverlapTold
    <2> QED
      BY <2>3, <2>4, <2>5
  <1> QED
    BY <1>4, <1>5, <1>6, <1>7

\* The same where the call's part holds of its new state before the processes move.
LEMMA StepThenEvolve ==
    ASSUME ExecInv, Evolves, NEW a \in Agents,
           NEW v \in CallType, NEW o \in OutcomeType, NEW m \in Nat, NEW c \in BOOLEAN,
           Becomes(a, v, o, m, c),
           DOMAIN proc' = DOMAIN proc,
           \/ hit' = hit
           \/ v.pc # "idle" /\ (v.w \notin {"off", "armed", "reading"} \/ v.incomplete),
           CallHolds(a, v, o, m, c)
    PROVE  ExecInv'
  <1>1. /\ hit' \subseteq Pids
        /\ hit' = hit => hit' \cap Own(a) \subseteq hit
        /\ \A q \in DOMAIN proc' \ DOMAIN proc : proc'[q].owner = a => Forked(q)
        /\ \A q \in DOMAIN proc' \ DOMAIN proc : Forked(q) \/ proc'[q].owner = a
    BY DEF Becomes
  <1>2. \/ hit' \cap Own(a) \subseteq hit
        \/ v.pc # "idle" /\ (v.w \notin {"off", "armed", "reading"} \/ v.incomplete)
    BY <1>1
  <1>3. TypeOK /\ Owners
    BY DEF ExecInv
  <1>4. CallHolds(a, v, o, m, c)'
    BY <1>1, <1>2, <1>3, CallStays
  <1> QED
    BY <1>1, <1>4, StepOfCall

\* What the invariant says of one call.
LEMMA TheCall ==
    ASSUME ExecInv, NEW a \in Agents
    PROVE  \E e \in CallType, o \in OutcomeType, m \in Nat, c \in BOOLEAN :
             /\ ex[a] = e /\ out[a] = o /\ made[a] = m /\ (c <=> a \in cancelled)
             /\ CallHolds(a, e, o, m, c)
             /\ out = [out EXCEPT ![a] = o] /\ made = [made EXCEPT ![a] = m]
             /\ TypeOK /\ Owners
  <1>1. ex \in [Agents -> CallType] /\ out \in [Agents -> OutcomeType] /\ made \in [Agents -> Nat]
    BY DEF ExecInv, TypeOK
  <1>2. PICK e \in CallType : ex[a] = e
    BY <1>1
  <1>3. PICK o \in OutcomeType : out[a] = o /\ out = [out EXCEPT ![a] = o]
    BY <1>1
  <1>4. PICK m \in Nat : made[a] = m /\ made = [made EXCEPT ![a] = m]
    BY <1>1
  <1>5. PICK c \in BOOLEAN : c <=> a \in cancelled
    <2>1. (a \in cancelled) \in BOOLEAN
      OBVIOUS
    <2> QED
      BY <2>1
  <1>6. CallInv(a)
    BY DEF ExecInv
  <1>7. CallHolds(a, e, o, m, c)
    BY <1>2, <1>3, <1>4, <1>5, <1>6
       DEF CallInv, CallHolds, RowsOwned, Placed, Stopped, Told, pidsOf
  <1> QED
    BY <1>2, <1>3, <1>4, <1>5, <1>7 DEF ExecInv

\* execs follows a call that stays among those that run a command.
LEMMA ExecsStay ==
    ASSUME ExecInv, NEW a \in Agents, NEW v \in CallType, ex' = [ex EXCEPT ![a] = v],
           ex[a].pc \notin {"idle", "register"}, v.pc \notin {"idle", "register"}, execs' = execs
    PROVE  execs' = {b \in Agents : ex'[b].pc \notin {"idle", "register"}}
  <1>1. ex \in [Agents -> CallType] /\ execs = {b \in Agents : ex[b].pc \notin {"idle", "register"}}
    BY DEF ExecInv, TypeOK
  <1>2. \A b \in Agents : ex'[b].pc \notin {"idle", "register"} <=> ex[b].pc \notin {"idle", "register"}
    BY <1>1
  <1> QED
    BY <1>1, <1>2

\* A step of a call under way that leaves the processes alone.
Quiet(a, v, o, m, c) ==
  /\ ex' = [ex EXCEPT ![a] = v] /\ ex[a].pc \notin {"idle", "register"}
  /\ v.pc \notin {"idle", "register"} /\ v.told = ex[a].told
  /\ o = out[a] /\ m = made[a] /\ (c <=> a \in cancelled)
  /\ faults' \in Nat /\ UNCHANGED <<proc, execs, cancelled, out, made, hit>>

\* It keeps the invariant if it keeps that call's part.
LEMMA QuietStep ==
    ASSUME ExecInv, NEW a \in Agents, NEW v \in CallType,
           NEW o \in OutcomeType, NEW m \in Nat, NEW c \in BOOLEAN,
           Quiet(a, v, o, m, c), CallHolds(a, v, o, m, c)
    PROVE  ExecInv'
  <1>1. Evolves
    BY StandingStill DEF ExecInv, Quiet
  <1>2. execs' = {b \in Agents : ex'[b].pc \notin {"idle", "register"}}
    BY ExecsStay DEF Quiet
  <1>3. out' = [out EXCEPT ![a] = o] /\ made' = [made EXCEPT ![a] = m] /\ hit' \subseteq Pids
    BY DEF ExecInv, TypeOK, Quiet
  <1>4. Becomes(a, v, o, m, c)
    BY <1>2, <1>3 DEF Becomes, Quiet
  <1>5. DOMAIN proc' = DOMAIN proc /\ hit' = hit
    BY DEF Quiet
  <1> QED
    BY <1>1, <1>4, <1>5, StepThenEvolve

\* The output has been read to its end.
LEMMA OutputEndsKeeps ==
    ASSUME ExecInv, NEW a \in Agents, OutputEnds(a)
    PROVE  ExecInv'
  <1>1. PICK e \in CallType, o \in OutcomeType, m \in Nat, c \in BOOLEAN :
          /\ ex[a] = e /\ out[a] = o /\ made[a] = m /\ (c <=> a \in cancelled)
          /\ CallHolds(a, e, o, m, c)
          /\ out = [out EXCEPT ![a] = o] /\ made = [made EXCEPT ![a] = m]
          /\ TypeOK /\ Owners
    BY TheCall
  <1>2. PICK v : v = [e EXCEPT !.pc = "classify"]
    OBVIOUS
  <1>3. /\ v \in CallType /\ v.pc = "classify" /\ v.call = e.call /\ v.step = e.step
        /\ v.leader = e.leader /\ v.timed = e.timed /\ v.w = e.w /\ v.todo = e.todo
        /\ v.rows = e.rows /\ v.alive = e.alive /\ v.unverified = e.unverified
        /\ v.incomplete = e.incomplete /\ v.effect = e.effect /\ v.told = e.told
    BY <1>2 DEF CallType
  <1>4. ex' = [ex EXCEPT ![a] = v] /\ e.pc = "output" /\ Holders(e.leader) = {}
    BY <1>1, <1>2 DEF OutputEnds
  <1>5. RowsOwned(v)
    BY <1>1, <1>3 DEF CallHolds, RowsOwned
  <1>6. Placed(a, v, c)
    BY <1>1, <1>3, <1>4 DEF CallHolds, Placed
  <1>7. pidsOf(v) = pidsOf(e)
    BY <1>3 DEF pidsOf
  <1>8. Stopped(v, o)
    BY <1>1, <1>3, <1>4, <1>7 DEF CallHolds, Stopped
  <1>9. Told(a, v, o, m, c)
    BY <1>1, <1>3, <1>4 DEF CallHolds, Told
  <1>10. CallHolds(a, v, o, m, c)
    BY <1>5, <1>6, <1>8, <1>9 DEF CallHolds
  <1>11. Quiet(a, v, o, m, c)
    BY <1>1, <1>3, <1>4 DEF OutputEnds, TypeOK, Quiet
  <1> QED
    BY <1>3, <1>10, <1>11, QuietStep

\* The deadline of the command has passed.
LEMMA DeadlineKeeps ==
    ASSUME ExecInv, NEW a \in Agents, Deadline(a)
    PROVE  ExecInv'
  <1>1. PICK e \in CallType, o \in OutcomeType, m \in Nat, c \in BOOLEAN :
          /\ ex[a] = e /\ out[a] = o /\ made[a] = m /\ (c <=> a \in cancelled)
          /\ CallHolds(a, e, o, m, c)
          /\ out = [out EXCEPT ![a] = o] /\ made = [made EXCEPT ![a] = m]
          /\ TypeOK /\ Owners
    BY TheCall
  <1>2. PICK v : v = [e EXCEPT !.timed = TRUE]
    OBVIOUS
  <1>3. /\ v \in CallType /\ v.pc = e.pc /\ v.call = e.call /\ v.step = e.step
        /\ v.leader = e.leader /\ v.timed = TRUE /\ v.w = e.w /\ v.todo = e.todo
        /\ v.rows = e.rows /\ v.alive = e.alive /\ v.unverified = e.unverified
        /\ v.incomplete = e.incomplete /\ v.effect = e.effect /\ v.told = e.told
    BY <1>2 DEF CallType
  <1>4. ex' = [ex EXCEPT ![a] = v] /\ e.pc \notin {"idle", "register"}
    BY <1>1, <1>2 DEF Deadline
  <1>5. RowsOwned(v)
    BY <1>1, <1>3, <1>4 DEF CallHolds, RowsOwned
  <1>6. Placed(a, v, c)
    BY <1>1, <1>3, <1>4 DEF CallHolds, Placed
  <1>7. pidsOf(v) = pidsOf(e)
    BY <1>3 DEF pidsOf
  <1>8. Stopped(v, o)
    BY <1>1, <1>3, <1>4, <1>7 DEF CallHolds, Stopped
  <1>9. Told(a, v, o, m, c)
    BY <1>1, <1>3, <1>4 DEF CallHolds, Told
  <1>10. CallHolds(a, v, o, m, c)
    BY <1>5, <1>6, <1>8, <1>9 DEF CallHolds
  <1>11. Quiet(a, v, o, m, c)
    BY <1>1, <1>3, <1>4 DEF Deadline, TypeOK, Quiet
  <1> QED
    BY <1>3, <1>10, <1>11, QuietStep

\* Wait has joined the goroutine of the context.
LEMMA JoinedKeeps ==
    ASSUME ExecInv, NEW a \in Agents, Joined(a)
    PROVE  ExecInv'
  <1>1. PICK e \in CallType, o \in OutcomeType, m \in Nat, c \in BOOLEAN :
          /\ ex[a] = e /\ out[a] = o /\ made[a] = m /\ (c <=> a \in cancelled)
          /\ CallHolds(a, e, o, m, c)
          /\ out = [out EXCEPT ![a] = o] /\ made = [made EXCEPT ![a] = m]
          /\ TypeOK /\ Owners
    BY TheCall
  <1>12. PICK w \in {"off", "done"} : e.w \in {"armed", "done"} => w = IF e.w = "armed" THEN "off" ELSE e.w
    OBVIOUS
  <1>0. w = (IF e.w = "armed" THEN "off" ELSE e.w) /\ w \in {"off", "done"}
    BY <1>1, <1>12 DEF Joined
  <1>2. PICK v : v = [e EXCEPT !.pc = "output", !.w = w]
    OBVIOUS
  <1>3. /\ v \in CallType /\ v.pc = "output" /\ v.call = e.call /\ v.step = e.step
        /\ v.leader = e.leader /\ v.timed = e.timed /\ v.w = w /\ v.todo = e.todo
        /\ v.rows = e.rows /\ v.alive = e.alive /\ v.unverified = e.unverified
        /\ v.incomplete = e.incomplete /\ v.effect = e.effect /\ v.told = e.told
    BY <1>2, <1>0 DEF CallType
  <1>4. ex' = [ex EXCEPT ![a] = v] /\ e.pc = "reaped" /\ e.w \in {"armed", "done"}
    BY <1>1, <1>2, <1>0 DEF Joined
  <1>5. RowsOwned(v)
    BY <1>1, <1>3, <1>4, <1>0 DEF CallHolds, RowsOwned
  <1>6. Placed(a, v, c)
    BY <1>1, <1>3, <1>4, <1>0 DEF CallHolds, Placed
  <1>7. pidsOf(v) = pidsOf(e)
    BY <1>3 DEF pidsOf
  <1>8. Stopped(v, o)
    BY <1>1, <1>3, <1>4, <1>7, <1>0 DEF CallHolds, Stopped
  <1>9. Told(a, v, o, m, c)
    BY <1>1, <1>3, <1>4, <1>0 DEF CallHolds, Told
  <1>10. CallHolds(a, v, o, m, c)
    BY <1>5, <1>6, <1>8, <1>9 DEF CallHolds
  <1>11. Quiet(a, v, o, m, c)
    BY <1>1, <1>3, <1>4, <1>0 DEF Joined, TypeOK, Quiet
  <1> QED
    BY <1>3, <1>10, <1>11, QuietStep

\* The names of the processes are listed.
LEMMA SnapshotBeginsKeeps ==
    ASSUME ExecInv, NEW a \in Agents, SnapshotBegins(a)
    PROVE  ExecInv'
  <1>1. PICK e \in CallType, o \in OutcomeType, m \in Nat, c \in BOOLEAN :
          /\ ex[a] = e /\ out[a] = o /\ made[a] = m /\ (c <=> a \in cancelled)
          /\ CallHolds(a, e, o, m, c)
          /\ out = [out EXCEPT ![a] = o] /\ made = [made EXCEPT ![a] = m]
          /\ TypeOK /\ Owners
    BY TheCall
  <1>0. e.w = "armed" => e.leader # 0 /\ e.pc \in {"wait", "reaped"}
    BY <1>1 DEF CallHolds, Placed
  <1>12. PICK listed \in SUBSET Nat : listed \subseteq Pids /\ listed = {p \in Pids : Exists(p)}
    <2>1. Pids \subseteq Nat
      BY <1>1, PidsAreNumbered
    <2> QED
      BY <2>1
  <1>2. PICK v : v = [e EXCEPT !.w = "reading", !.todo = listed]
    OBVIOUS
  <1>3. /\ v \in CallType /\ v.pc = e.pc /\ v.call = e.call /\ v.step = e.step
        /\ v.leader = e.leader /\ v.timed = e.timed /\ v.w = "reading" /\ v.todo = listed
        /\ v.rows = e.rows /\ v.alive = e.alive /\ v.unverified = e.unverified
        /\ v.incomplete = e.incomplete /\ v.effect = e.effect /\ v.told = e.told
    BY <1>2 DEF CallType
  <1>4. ex' = [ex EXCEPT ![a] = v] /\ e.w = "armed" /\ (e.timed \/ c)
    BY <1>1, <1>2, <1>12 DEF SnapshotBegins
  <1>5. RowsOwned(v)
    BY <1>1, <1>3, <1>4, <1>12 DEF CallHolds, RowsOwned
  <1>6. Placed(a, v, c)
    BY <1>1, <1>3, <1>4, <1>0 DEF CallHolds, Placed
  <1>7. pidsOf(v) = pidsOf(e)
    BY <1>3 DEF pidsOf
  <1>8. Stopped(v, o)
    BY <1>1, <1>3, <1>4, <1>7 DEF CallHolds, Stopped
  <1>9. Told(a, v, o, m, c)
    BY <1>1, <1>3, <1>4 DEF CallHolds, Told
  <1>10. CallHolds(a, v, o, m, c)
    BY <1>5, <1>6, <1>8, <1>9 DEF CallHolds
  <1>11. Quiet(a, v, o, m, c)
    BY <1>1, <1>3, <1>4, <1>0 DEF SnapshotBegins, TypeOK, Quiet
  <1> QED
    BY <1>3, <1>10, <1>11, QuietStep

\* The read of the process table fails.
LEMMA SnapshotFailsKeeps ==
    ASSUME ExecInv, NEW a \in Agents, SnapshotFails(a)
    PROVE  ExecInv'
  <1>1. PICK e \in CallType, o \in OutcomeType, m \in Nat, c \in BOOLEAN :
          /\ ex[a] = e /\ out[a] = o /\ made[a] = m /\ (c <=> a \in cancelled)
          /\ CallHolds(a, e, o, m, c)
          /\ out = [out EXCEPT ![a] = o] /\ made = [made EXCEPT ![a] = m]
          /\ TypeOK /\ Owners
    BY TheCall
  <1>0. e.w = "reading" => e.leader # 0 /\ e.pc \in {"wait", "reaped"}
    BY <1>1 DEF CallHolds, Placed
  <1>2. PICK v : v = [e EXCEPT !.todo = {}, !.rows = {}, !.unverified = TRUE]
    OBVIOUS
  <1>3. /\ v \in CallType /\ v.pc = e.pc /\ v.call = e.call /\ v.step = e.step
        /\ v.leader = e.leader /\ v.timed = e.timed /\ v.w = e.w /\ v.todo = {} /\ v.rows = {}
        /\ v.alive = e.alive /\ v.unverified = TRUE /\ v.incomplete = e.incomplete
        /\ v.effect = e.effect /\ v.told = e.told
    BY <1>2 DEF CallType
  <1>4. ex' = [ex EXCEPT ![a] = v] /\ e.w = "reading"
    BY <1>1, <1>2 DEF SnapshotFails
  <1>5. RowsOwned(v)
    BY <1>1, <1>3, <1>4 DEF CallHolds, RowsOwned
  <1>6. Placed(a, v, c)
    BY <1>1, <1>3, <1>4, <1>0 DEF CallHolds, Placed
  <1>8. Stopped(v, o)
    BY <1>1, <1>3, <1>4 DEF CallHolds, Stopped
  <1>9. Told(a, v, o, m, c)
    BY <1>1, <1>3, <1>4 DEF CallHolds, Told
  <1>10. CallHolds(a, v, o, m, c)
    BY <1>5, <1>6, <1>8, <1>9 DEF CallHolds
  <1>16. faults' = faults + 1 /\ faults \in Nat
    BY <1>1 DEF SnapshotFails, TypeOK
  <1>17. faults' \in Nat
    BY <1>16
  <1>11. Quiet(a, v, o, m, c)
    BY <1>1, <1>3, <1>4, <1>0, <1>16, <1>17 DEF SnapshotFails, Quiet
  <1> QED
    BY <1>3, <1>10, <1>11, QuietStep

\* The processes of the tree were looked for.
LEMMA CheckedKeeps ==
    ASSUME ExecInv, NEW a \in Agents, Checked(a)
    PROVE  ExecInv'
  <1>1. PICK e \in CallType, o \in OutcomeType, m \in Nat, c \in BOOLEAN :
          /\ ex[a] = e /\ out[a] = o /\ made[a] = m /\ (c <=> a \in cancelled)
          /\ CallHolds(a, e, o, m, c)
          /\ out = [out EXCEPT ![a] = o] /\ made = [made EXCEPT ![a] = m]
          /\ TypeOK /\ Owners
    BY TheCall
  <1>0. e.w = "check" => e.leader # 0 /\ e.pc \in {"wait", "reaped"}
    BY <1>1 DEF CallHolds, Placed
  <1>12. treePids(a) = pidsOf(e) /\ (e.w = "check" => pidsOf(e) \subseteq Own(a))
    <2>1. e.w = "check" => e.leader # 0 /\ RowsOwned(e) /\ e.leader \in Own(a)
      BY <1>1 DEF CallHolds, Placed
    <2> QED
      BY <1>1, <2>1, TreeOwned DEF treePids, tree, pidsOf
  <1>13. Own(a) \subseteq Nat
    BY <1>1, PidsAreNumbered DEF Own
  <1>14. e.w = "check"
    BY <1>1 DEF Checked
  <1>15. PICK seen \in SUBSET Nat : seen = {p \in pidsOf(e) : Alive(p)}
    BY <1>12, <1>13, <1>14
  <1>2. PICK v : v = [e EXCEPT !.w = "done", !.alive = seen]
    OBVIOUS
  <1>3. /\ v \in CallType /\ v.pc = e.pc /\ v.call = e.call /\ v.step = e.step
        /\ v.leader = e.leader /\ v.timed = e.timed /\ v.w = "done" /\ v.todo = e.todo
        /\ v.rows = e.rows /\ v.alive = seen /\ v.unverified = e.unverified
        /\ v.incomplete = e.incomplete /\ v.effect = e.effect /\ v.told = e.told
    BY <1>2 DEF CallType
  <1>4. ex' = [ex EXCEPT ![a] = v] /\ e.w = "check"
    BY <1>1, <1>2, <1>12, <1>15 DEF Checked, liveExecPIDs
  <1>5. RowsOwned(v)
    BY <1>1, <1>3, <1>4 DEF CallHolds, RowsOwned
  <1>6. Placed(a, v, c)
    BY <1>1, <1>3, <1>4, <1>0 DEF CallHolds, Placed
  <1>7. pidsOf(v) = pidsOf(e)
    BY <1>3 DEF pidsOf
  <1>8. Stopped(v, o)
    BY <1>1, <1>3, <1>4, <1>7, <1>0, <1>15 DEF CallHolds, Stopped, Alive, Exists
  <1>9. Told(a, v, o, m, c)
    BY <1>1, <1>3, <1>4 DEF CallHolds, Told
  <1>10. CallHolds(a, v, o, m, c)
    BY <1>5, <1>6, <1>8, <1>9 DEF CallHolds
  <1>11. Quiet(a, v, o, m, c)
    BY <1>1, <1>3, <1>4, <1>0 DEF Checked, liveExecPIDs, TypeOK, Quiet
  <1> QED
    BY <1>3, <1>10, <1>11, QuietStep

\* They could not be looked for and are taken to be alive.
LEMMA CheckFailsKeeps ==
    ASSUME ExecInv, NEW a \in Agents, CheckFails(a)
    PROVE  ExecInv'
  <1>1. PICK e \in CallType, o \in OutcomeType, m \in Nat, c \in BOOLEAN :
          /\ ex[a] = e /\ out[a] = o /\ made[a] = m /\ (c <=> a \in cancelled)
          /\ CallHolds(a, e, o, m, c)
          /\ out = [out EXCEPT ![a] = o] /\ made = [made EXCEPT ![a] = m]
          /\ TypeOK /\ Owners
    BY TheCall
  <1>0. e.w = "check" => e.leader # 0 /\ e.pc \in {"wait", "reaped"}
    BY <1>1 DEF CallHolds, Placed
  <1>12. treePids(a) = pidsOf(e) /\ (e.w = "check" => pidsOf(e) \subseteq Own(a))
    <2>1. e.w = "check" => e.leader # 0 /\ RowsOwned(e) /\ e.leader \in Own(a)
      BY <1>1 DEF CallHolds, Placed
    <2> QED
      BY <1>1, <2>1, TreeOwned DEF treePids, tree, pidsOf
  <1>13. Own(a) \subseteq Nat
    BY <1>1, PidsAreNumbered DEF Own
  <1>14. e.w = "check"
    BY <1>1 DEF CheckFails
  <1>15. PICK seen \in SUBSET Nat : seen = {p \in pidsOf(e) : Exists(p)}
    BY <1>12, <1>13, <1>14
  <1>2. PICK v : v = [e EXCEPT !.w = "done", !.alive = seen, !.unverified = TRUE]
    OBVIOUS
  <1>3. /\ v \in CallType /\ v.pc = e.pc /\ v.call = e.call /\ v.step = e.step
        /\ v.leader = e.leader /\ v.timed = e.timed /\ v.w = "done" /\ v.todo = e.todo
        /\ v.rows = e.rows /\ v.alive = seen /\ v.unverified = TRUE
        /\ v.incomplete = e.incomplete /\ v.effect = e.effect /\ v.told = e.told
    BY <1>2 DEF CallType
  <1>4. ex' = [ex EXCEPT ![a] = v] /\ e.w = "check"
    BY <1>1, <1>2, <1>12, <1>15 DEF CheckFails
  <1>5. RowsOwned(v)
    BY <1>1, <1>3, <1>4 DEF CallHolds, RowsOwned
  <1>6. Placed(a, v, c)
    BY <1>1, <1>3, <1>4, <1>0 DEF CallHolds, Placed
  <1>7. pidsOf(v) = pidsOf(e)
    BY <1>3 DEF pidsOf
  <1>8. Stopped(v, o)
    BY <1>1, <1>3, <1>4, <1>7, <1>0, <1>15 DEF CallHolds, Stopped, Alive, Exists
  <1>9. Told(a, v, o, m, c)
    BY <1>1, <1>3, <1>4 DEF CallHolds, Told
  <1>10. CallHolds(a, v, o, m, c)
    BY <1>5, <1>6, <1>8, <1>9 DEF CallHolds
  <1>16. faults' = faults + 1 /\ faults \in Nat
    BY <1>1 DEF CheckFails, TypeOK
  <1>17. faults' \in Nat
    BY <1>16
  <1>11. Quiet(a, v, o, m, c)
    BY <1>1, <1>3, <1>4, <1>0, <1>16, <1>17 DEF CheckFails, Quiet
  <1> QED
    BY <1>3, <1>10, <1>11, QuietStep

\* There is a least number in a set of some.
LEMMA LeastOf ==
    ASSUME NEW S \in SUBSET Nat, S # {}
    PROVE  (CHOOSE p \in S : \A q \in S : p <= q) \in S
  <1> DEFINE R == {s \in Nat \X Nat : s[1] < s[2]}
  <1>1. IsWellFoundedOn(R, Nat)
    BY NatLessThanWellFounded DEF OpToRel
  <1>2. PICK x \in S : \A y \in S : ~(<<y, x>> \in R)
    <2> HIDE DEF R
    <2> QED
      BY <1>1, WFMin
  <1>3. ASSUME NEW y \in S
        PROVE  x <= y
    <2>1. x \in Nat /\ y \in Nat /\ ~(<<y, x>> \in R)
      BY <1>2
    <2>2. ~(y < x)
      BY <2>1
    <2> QED
      BY <2>1, <2>2
  <1> QED
    BY <1>3

\* One more row has been read, or the process is gone.
LEMMA ReadStatKeeps ==
    ASSUME ExecInv, NEW a \in Agents, ReadStat(a)
    PROVE  ExecInv'
  <1>1. PICK e \in CallType, o \in OutcomeType, m \in Nat, c \in BOOLEAN :
          /\ ex[a] = e /\ out[a] = o /\ made[a] = m /\ (c <=> a \in cancelled)
          /\ CallHolds(a, e, o, m, c)
          /\ out = [out EXCEPT ![a] = o] /\ made = [made EXCEPT ![a] = m]
          /\ TypeOK /\ Owners
    BY TheCall
  <1>0. e.w = "reading" => e.leader # 0 /\ e.pc \in {"wait", "reaped"}
    BY <1>1 DEF CallHolds, Placed
  <1>12. e.todo \in SUBSET Nat /\ e.todo # {} /\ e.todo \subseteq Pids
    BY <1>1 DEF CallHolds, RowsOwned, CallType, ReadStat
  <1>13. PICK p : p = CHOOSE x \in e.todo : \A q \in e.todo : x <= q
    OBVIOUS
  <1>14. p \in Pids /\ p \in e.todo
    BY <1>12, <1>13, LeastOf
  <1>15. PICK row : row = [pid |-> p, ppid |-> proc[p].parent, pgid |-> proc[p].group]
    OBVIOUS
  <1>16. /\ row \in [pid : Nat, ppid : Nat, pgid : Nat] /\ row.pid \in Pids
         /\ row.ppid \in DOMAIN proc \cup {Reaper}
         /\ row.ppid \in Pids => proc[row.ppid].owner = proc[row.pid].owner
         /\ row.pgid # 0 => row.pgid \in Pids /\ proc[row.pgid].owner = proc[row.pid].owner
    <2>1. p \in Nat /\ proc[p].parent \in Nat /\ proc[p].group \in Nat
      <3>1. p \in Nat /\ proc[p] \in ProcessType
        BY <1>1, <1>14, PidsAreNumbered DEF Pids
      <3> QED
        BY <3>1 DEF ProcessType
    <2>2. row.pid = p /\ row.ppid = proc[p].parent /\ row.pgid = proc[p].group
      BY <1>15
    <2>3. row \in [pid : Nat, ppid : Nat, pgid : Nat]
      BY <1>15, <2>1
    <2> QED
      BY <1>1, <1>14, <2>2, <2>3 DEF Owners, Pids
  <1>17. PICK left : left = e.todo \ {p}
    OBVIOUS
  <1>18. PICK read : read = e.rows \cup (IF Exists(p) THEN {row} ELSE {})
    OBVIOUS
  <1>19. left \in SUBSET Nat /\ read \in SUBSET [pid : Nat, ppid : Nat, pgid : Nat]
    BY <1>12, <1>16, <1>17, <1>18 DEF CallType
  <1>20. \A r \in read : r \in e.rows \/ r = row
    BY <1>18
  <1>2. PICK v : v = [e EXCEPT !.todo = left, !.rows = read]
    OBVIOUS
  <1>3. /\ v \in CallType /\ v.pc = e.pc /\ v.call = e.call /\ v.step = e.step
        /\ v.leader = e.leader /\ v.timed = e.timed /\ v.w = e.w /\ v.todo = left
        /\ v.rows = read /\ v.alive = e.alive /\ v.unverified = e.unverified
        /\ v.incomplete = e.incomplete /\ v.effect = e.effect /\ v.told = e.told
    BY <1>2, <1>19 DEF CallType
  <1>4. ex' = [ex EXCEPT ![a] = v] /\ e.w = "reading"
    <2>1. p = CHOOSE x \in ex[a].todo : \A q \in ex[a].todo : x <= q
      BY <1>1, <1>13
    <2>2. /\ e.w = "reading"
          /\ ex' = [ex EXCEPT ![a].todo = @ \ {p},
                              ![a].rows = @ \cup (IF Exists(p) THEN {row} ELSE {})]
      BY <1>1, <1>15, <2>1 DEF ReadStat
    <2>3. CASE Exists(p)
      <3>1. read = e.rows \cup {row} /\ ex' = [ex EXCEPT ![a].todo = @ \ {p}, ![a].rows = @ \cup {row}]
        BY <1>18, <2>2, <2>3
      <3> QED
        BY ZenonT(30), <1>1, <1>2, <1>17, <2>2, <3>1
    <2>4. CASE ~Exists(p)
      <3>1. read = e.rows \cup {} /\ ex' = [ex EXCEPT ![a].todo = @ \ {p}, ![a].rows = @ \cup {}]
        BY <1>18, <2>2, <2>4
      <3> QED
        BY <1>1, <1>2, <1>17, <2>2, <3>1
    <2> QED
      BY <2>3, <2>4
  <1>5. RowsOwned(v)
    BY <1>1, <1>3, <1>4, <1>12, <1>16, <1>17, <1>20 DEF CallHolds, RowsOwned
  <1>6. Placed(a, v, c)
    BY <1>1, <1>3, <1>4, <1>0 DEF CallHolds, Placed
  <1>8. Stopped(v, o)
    BY <1>1, <1>3, <1>4 DEF CallHolds, Stopped
  <1>9. Told(a, v, o, m, c)
    BY <1>1, <1>3, <1>4, <1>0 DEF CallHolds, Told
  <1>10. CallHolds(a, v, o, m, c)
    BY <1>5, <1>6, <1>8, <1>9 DEF CallHolds
  <1>11. Quiet(a, v, o, m, c)
    BY <1>1, <1>3, <1>4, <1>0 DEF ReadStat, TypeOK, Quiet
  <1> QED
    BY <1>3, <1>10, <1>11, QuietStep

\* A signal to processes and groups of an agent hits only what is the agent's.
LEMMA SignalOwn ==
    ASSUME TypeOK, Owners, NEW a \in Agents, NEW sig,
           NEW pids, pids \subseteq Own(a), NEW grps, grps \subseteq Own(a),
           Signal(sig, pids, grps)
    PROVE  /\ Evolves /\ DOMAIN proc' = DOMAIN proc
           /\ hit' \subseteq Pids /\ hit' \ hit \subseteq Own(a)
  <1>1. Evolves /\ DOMAIN proc' = DOMAIN proc
    BY SignalEvolves
  <1>2. ASSUME NEW p \in DOMAIN proc, p \in pids \/ proc[p].group \in grps
        PROVE  p \in Own(a)
    <2>1. CASE p \in pids
      BY <2>1
    <2>2. CASE proc[p].group \in grps
      <3>1. proc[p].group \in Pids /\ proc[p].group # 0 /\ proc[proc[p].group].owner = a
        BY <2>2 DEF Own, Pids
      <3>2. p \in Pids
        BY <3>1 DEF Owners, Pids
      <3> QED
        BY <3>1, <3>2 DEF Owners, Own
    <2> QED
      BY <1>2, <2>1, <2>2
  <1>3. hit' \ hit \subseteq Own(a)
    BY <1>2 DEF Signal
  <1>4. hit' \subseteq Pids
    BY <1>3 DEF TypeOK, Own
  <1> QED
    BY <1>1, <1>3, <1>4

\* The run is cancelled.
LEMMA CancelKeeps ==
    ASSUME ExecInv, NEW a \in Agents, Cancel(a)
    PROVE  ExecInv'
  <1>1. PICK e \in CallType, o \in OutcomeType, m \in Nat, c \in BOOLEAN :
          /\ ex[a] = e /\ out[a] = o /\ made[a] = m /\ (c <=> a \in cancelled)
          /\ CallHolds(a, e, o, m, c)
          /\ out = [out EXCEPT ![a] = o] /\ made = [made EXCEPT ![a] = m]
          /\ TypeOK /\ Owners
    BY TheCall
  <1>2. e.pc # "idle" /\ ex' = [ex EXCEPT ![a] = e]
    BY <1>1 DEF Cancel, TypeOK
  <1>3. PICK d \in BOOLEAN : d = TRUE
    OBVIOUS
  <1>4. RowsOwned(e) /\ Placed(a, e, d) /\ Stopped(e, o) /\ Told(a, e, o, m, d)
    BY <1>1, <1>2, <1>3 DEF CallHolds, Placed, Told
  <1>5. CallHolds(a, e, o, m, d)
    BY <1>4 DEF CallHolds
  <1>6. Evolves /\ DOMAIN proc' = DOMAIN proc /\ hit' = hit
    BY <1>1, StandingStill DEF Cancel
  <1>7. execs' = {b \in Agents : ex'[b].pc \notin {"idle", "register"}}
    BY <1>1 DEF TypeOK, Cancel
  <1>8. /\ out' = [out EXCEPT ![a] = o] /\ made' = [made EXCEPT ![a] = m]
        /\ d <=> a \in cancelled'
        /\ cancelled' \in {cancelled, cancelled \cup {a}}
        /\ faults' \in Nat /\ hit' \subseteq Pids /\ hit' \ hit \subseteq Own(a)
    BY <1>1, <1>3 DEF Cancel, TypeOK
  <1>9. e.pc \in {"idle", "register"} \/ (e.told = ex[a].told /\ ex[a].pc \notin {"idle", "register"})
    BY <1>1
  <1>10. Becomes(a, e, o, m, d)
    BY <1>2, <1>7, <1>8, <1>9 DEF Becomes
  <1> QED
    BY <1>5, <1>6, <1>10, StepThenEvolve

\* The tree and its groups are asked to end.
LEMMA TermKeeps ==
    ASSUME ExecInv, NEW a \in Agents, Term(a)
    PROVE  ExecInv'
  <1>1. PICK e \in CallType, o \in OutcomeType, m \in Nat, c \in BOOLEAN :
          /\ ex[a] = e /\ out[a] = o /\ made[a] = m /\ (c <=> a \in cancelled)
          /\ CallHolds(a, e, o, m, c)
          /\ out = [out EXCEPT ![a] = o] /\ made = [made EXCEPT ![a] = m]
          /\ TypeOK /\ Owners
    BY TheCall
  <1>0. e.w = "reading" /\ e.leader # 0 /\ e.pc \in {"wait", "reaped"}
    BY <1>1 DEF CallHolds, Placed, Term
  <1>12. treePids(a) \subseteq Own(a) /\ groups(a) \subseteq Own(a)
         /\ e.leader \in treePids(a) /\ e.leader \in groups(a)
    <2>1. RowsOwned(e) /\ e.leader \in Own(a)
      BY <1>0, <1>1 DEF CallHolds, Placed
    <2>2. /\ pidsOf(e) \subseteq Own(a) /\ e.leader \in pidsOf(e)
          /\ \E t \in descendants(e.leader, e.rows) : t.pgid = e.leader
          /\ \A t \in descendants(e.leader, e.rows) : t.pgid # 0 => t.pgid \in Own(a)
      BY <2>1, TreeOwned
    <2> QED
      BY <1>0, <1>1, <2>2 DEF treePids, groups, tree, pidsOf
  <1>2. PICK v : v = [e EXCEPT !.w = "grace"]
    OBVIOUS
  <1>3. /\ v \in CallType /\ v.pc = e.pc /\ v.call = e.call /\ v.step = e.step
        /\ v.leader = e.leader /\ v.timed = e.timed /\ v.w = "grace" /\ v.todo = e.todo
        /\ v.rows = e.rows /\ v.alive = e.alive /\ v.unverified = e.unverified
        /\ v.incomplete = e.incomplete /\ v.effect = e.effect /\ v.told = e.told
    BY <1>2 DEF CallType
  <1>4. ex' = [ex EXCEPT ![a] = v] /\ e.w = "reading"
    BY <1>0, <1>1, <1>2 DEF Term
  <1>5. /\ Evolves /\ DOMAIN proc' = DOMAIN proc
        /\ hit' \subseteq Pids /\ hit' \ hit \subseteq Own(a)
    BY <1>1, <1>12, SignalOwn DEF Term
  <1>6. pidsOf(v) = pidsOf(e)
    BY <1>3 DEF pidsOf
  <1>7. RowsOwned(v) /\ Placed(a, v, c) /\ Stopped(v, o)
    BY <1>0, <1>1, <1>3, <1>4, <1>6 DEF CallHolds, RowsOwned, Placed, Stopped
  <1>8. Told(a, v, o, m, c)
    BY <1>0, <1>1, <1>3, <1>4 DEF CallHolds, Told
  <1>9. CallHolds(a, v, o, m, c)
    BY <1>7, <1>8 DEF CallHolds
  <1>20. execs' = {b \in Agents : ex'[b].pc \notin {"idle", "register"}}
    BY <1>0, <1>1, <1>3, <1>4, ExecsStay DEF Term
  <1>21. /\ out' = [out EXCEPT ![a] = o] /\ made' = [made EXCEPT ![a] = m]
         /\ c <=> a \in cancelled'
         /\ cancelled' \in {cancelled, cancelled \cup {a}}
         /\ faults' \in Nat
    BY <1>1 DEF Term, TypeOK
  <1>22. v.told = ex[a].told /\ ex[a].pc \notin {"idle", "register"}
    BY <1>0, <1>1, <1>3, <1>4
  <1>23. Becomes(a, v, o, m, c)
    BY <1>4, <1>5, <1>20, <1>21, <1>22 DEF Becomes
  <1>24. v.pc # "idle" /\ (v.w \notin {"off", "armed", "reading"} \/ v.incomplete)
    BY <1>0, <1>3
  <1> QED
    BY <1>3, <1>5, <1>9, <1>23, <1>24, StepThenEvolve

\* The readers of the output give up and the leader's group is killed.
LEMMA OutputGivenUpKeeps ==
    ASSUME ExecInv, NEW a \in Agents, OutputGivenUp(a)
    PROVE  ExecInv'
  <1>1. PICK e \in CallType, o \in OutcomeType, m \in Nat, c \in BOOLEAN :
          /\ ex[a] = e /\ out[a] = o /\ made[a] = m /\ (c <=> a \in cancelled)
          /\ CallHolds(a, e, o, m, c)
          /\ out = [out EXCEPT ![a] = o] /\ made = [made EXCEPT ![a] = m]
          /\ TypeOK /\ Owners
    BY TheCall
  <1>0. e.pc = "output" /\ e.leader # 0 /\ e.leader \in Own(a)
    BY <1>1 DEF CallHolds, Placed, OutputGivenUp
  <1>2. PICK v : v = [e EXCEPT !.pc = "classify", !.incomplete = TRUE]
    OBVIOUS
  <1>3. /\ v \in CallType /\ v.pc = "classify" /\ v.call = e.call /\ v.step = e.step
        /\ v.leader = e.leader /\ v.timed = e.timed /\ v.w = e.w /\ v.todo = e.todo
        /\ v.rows = e.rows /\ v.alive = e.alive /\ v.unverified = e.unverified
        /\ v.incomplete = TRUE /\ v.effect = e.effect /\ v.told = e.told
    BY <1>2 DEF CallType
  <1>4. ex' = [ex EXCEPT ![a] = v] /\ e.pc = "output"
    BY <1>0, <1>1, <1>2 DEF OutputGivenUp
  <1>5. /\ Evolves /\ DOMAIN proc' = DOMAIN proc
        /\ hit' \subseteq Pids /\ hit' \ hit \subseteq Own(a)
    <2>1. PICK none : none = {}
      OBVIOUS
    <2>2. PICK own : own = {e.leader}
      OBVIOUS
    <2>3. Signal("KILL", none, own)
      BY <1>1, <2>1, <2>2 DEF OutputGivenUp
    <2>4. none \subseteq Own(a) /\ own \subseteq Own(a)
      BY <1>0, <2>1, <2>2
    <2> QED
      BY <1>1, <2>3, <2>4, SignalOwn
  <1>6. pidsOf(v) = pidsOf(e)
    BY <1>3 DEF pidsOf
  <1>7. RowsOwned(v) /\ Placed(a, v, c) /\ Stopped(v, o)
    BY <1>0, <1>1, <1>3, <1>4, <1>6 DEF CallHolds, RowsOwned, Placed, Stopped
  <1>8. Told(a, v, o, m, c)
    BY <1>0, <1>1, <1>3, <1>4 DEF CallHolds, Told
  <1>9. CallHolds(a, v, o, m, c)
    BY <1>7, <1>8 DEF CallHolds
  <1>20. execs' = {b \in Agents : ex'[b].pc \notin {"idle", "register"}}
    BY <1>0, <1>1, <1>3, <1>4, ExecsStay DEF OutputGivenUp
  <1>21. /\ out' = [out EXCEPT ![a] = o] /\ made' = [made EXCEPT ![a] = m]
         /\ c <=> a \in cancelled'
         /\ cancelled' \in {cancelled, cancelled \cup {a}}
         /\ faults' \in Nat
    BY <1>1 DEF OutputGivenUp, TypeOK
  <1>22. v.told = ex[a].told /\ ex[a].pc \notin {"idle", "register"}
    BY <1>0, <1>1, <1>3, <1>4
  <1>23. Becomes(a, v, o, m, c)
    BY <1>4, <1>5, <1>20, <1>21, <1>22 DEF Becomes
  <1>24. v.pc # "idle" /\ (v.w \notin {"off", "armed", "reading"} \/ v.incomplete)
    BY <1>3
  <1> QED
    BY <1>3, <1>5, <1>9, <1>23, <1>24, StepThenEvolve

\* The leader is waited for.
LEMMA WaitKeeps ==
    ASSUME ExecInv, NEW a \in Agents, Wait(a)
    PROVE  ExecInv'
  <1>1. PICK e \in CallType, o \in OutcomeType, m \in Nat, c \in BOOLEAN :
          /\ ex[a] = e /\ out[a] = o /\ made[a] = m /\ (c <=> a \in cancelled)
          /\ CallHolds(a, e, o, m, c)
          /\ out = [out EXCEPT ![a] = o] /\ made = [made EXCEPT ![a] = m]
          /\ TypeOK /\ Owners
    BY TheCall
  <1>0. e.pc = "wait" /\ e.leader # 0 /\ e.leader \in Own(a) /\ e.leader \in Pids
    BY <1>1 DEF CallHolds, Placed, Wait, Own
  <1>2. PICK v : v = [e EXCEPT !.pc = "reaped"]
    OBVIOUS
  <1>3. /\ v \in CallType /\ v.pc = "reaped" /\ v.call = e.call /\ v.step = e.step
        /\ v.leader = e.leader /\ v.timed = e.timed /\ v.w = e.w /\ v.todo = e.todo
        /\ v.rows = e.rows /\ v.alive = e.alive /\ v.unverified = e.unverified
        /\ v.incomplete = e.incomplete /\ v.effect = e.effect /\ v.told = e.told
    BY <1>2 DEF CallType
  <1>4. ex' = [ex EXCEPT ![a] = v] /\ e.pc = "wait"
    BY <1>0, <1>1, <1>2 DEF Wait
  <1>5. /\ Evolves /\ DOMAIN proc' = DOMAIN proc /\ hit' = hit
        /\ hit' \subseteq Pids /\ hit' \ hit \subseteq Own(a)
    <2>1. proc[e.leader].st = "zombie" /\ proc' = [proc EXCEPT ![e.leader] = Gone(e.leader)]
      BY <1>1 DEF Wait
    <2>2. Evolves /\ DOMAIN proc' = DOMAIN proc
      BY <1>0, <1>1, <2>1, GoneEvolves
    <2> QED
      BY <1>1, <2>2 DEF Wait, TypeOK
  <1>6. pidsOf(v) = pidsOf(e)
    BY <1>3 DEF pidsOf
  <1>7. RowsOwned(v) /\ Placed(a, v, c) /\ Stopped(v, o)
    BY <1>0, <1>1, <1>3, <1>4, <1>6 DEF CallHolds, RowsOwned, Placed, Stopped
  <1>8. Told(a, v, o, m, c)
    BY <1>0, <1>1, <1>3, <1>4 DEF CallHolds, Told
  <1>9. CallHolds(a, v, o, m, c)
    BY <1>7, <1>8 DEF CallHolds
  <1>20. execs' = {b \in Agents : ex'[b].pc \notin {"idle", "register"}}
    BY ZenonT(30), <1>0, <1>1, <1>3, <1>4, ExecsStay DEF Wait
  <1>21. /\ out' = [out EXCEPT ![a] = o] /\ made' = [made EXCEPT ![a] = m]
         /\ c <=> a \in cancelled'
         /\ cancelled' \in {cancelled, cancelled \cup {a}}
         /\ faults' \in Nat
    BY <1>1 DEF Wait, TypeOK
  <1>22. v.told = ex[a].told /\ ex[a].pc \notin {"idle", "register"}
    BY <1>0, <1>1, <1>3, <1>4
  <1>23. Becomes(a, v, o, m, c)
    BY <1>4, <1>5, <1>20, <1>21, <1>22 DEF Becomes
  <1> QED
    BY <1>3, <1>5, <1>9, <1>23, StepThenEvolve

\* The tree and its groups are killed: nothing of the leader's group runs on.
LEMMA KillKeeps ==
    ASSUME ExecInv, NEW a \in Agents, Kill(a)
    PROVE  ExecInv'
  <1>1. PICK e \in CallType, o \in OutcomeType, m \in Nat, c \in BOOLEAN :
          /\ ex[a] = e /\ out[a] = o /\ made[a] = m /\ (c <=> a \in cancelled)
          /\ CallHolds(a, e, o, m, c)
          /\ out = [out EXCEPT ![a] = o] /\ made = [made EXCEPT ![a] = m]
          /\ TypeOK /\ Owners
    BY TheCall
  <1>0. e.w = "grace" /\ e.leader # 0 /\ e.pc \in {"wait", "reaped"}
    BY <1>1 DEF CallHolds, Placed, Kill
  <1>12. treePids(a) \subseteq Own(a) /\ groups(a) \subseteq Own(a)
         /\ e.leader \in treePids(a) /\ e.leader \in groups(a)
    <2>1. RowsOwned(e) /\ e.leader \in Own(a)
      BY <1>0, <1>1 DEF CallHolds, Placed
    <2>2. /\ pidsOf(e) \subseteq Own(a) /\ e.leader \in pidsOf(e)
          /\ \E t \in descendants(e.leader, e.rows) : t.pgid = e.leader
          /\ \A t \in descendants(e.leader, e.rows) : t.pgid # 0 => t.pgid \in Own(a)
      BY <2>1, TreeOwned
    <2> QED
      BY <1>0, <1>1, <2>2 DEF treePids, groups, tree, pidsOf
  <1>2. PICK v : v = [e EXCEPT !.w = "check"]
    OBVIOUS
  <1>3. /\ v \in CallType /\ v.pc = e.pc /\ v.call = e.call /\ v.step = e.step
        /\ v.leader = e.leader /\ v.timed = e.timed /\ v.w = "check" /\ v.todo = e.todo
        /\ v.rows = e.rows /\ v.alive = e.alive /\ v.unverified = e.unverified
        /\ v.incomplete = e.incomplete /\ v.effect = e.effect /\ v.told = e.told
    BY <1>2 DEF CallType
  <1>4. ex' = [ex EXCEPT ![a] = v] /\ e.w = "grace"
    BY <1>0, <1>1, <1>2 DEF Kill
  <1>5. /\ Evolves /\ DOMAIN proc' = DOMAIN proc
        /\ hit' \subseteq Pids /\ hit' \ hit \subseteq Own(a)
    BY <1>1, <1>12, SignalOwn DEF Kill
  <1>6. CallHolds(a, e, o, m, c)'
    <2>1. e.pc # "idle" /\ (e.w \notin {"off", "armed", "reading"} \/ e.incomplete)
      BY <1>0
    <2>2. \A q \in DOMAIN proc' \ DOMAIN proc : proc'[q].owner = a => Forked(q)
      BY <1>5
    <2> QED
      BY <1>1, <1>5, <2>1, <2>2, CallStays
  <1>7. RowsOwned(v)'
    BY <1>3, <1>6 DEF CallHolds, RowsOwned
  <1>8. Placed(a, v, c)'
    BY <1>0, <1>3, <1>6 DEF CallHolds, Placed
  <1>9. Stopped(v, o)'
    <2>1. ASSUME NEW p \in Pids', p = e.leader \/ proc'[p].group = e.leader
          PROVE  proc'[p].st # "run"
      <3>1. p \in DOMAIN proc /\ Signal("KILL", treePids(a), groups(a))
        BY <1>5, <2>1 DEF Kill, Pids
      <3>2. CASE Executing(p) /\ (p \in treePids(a) \/ proc[p].group \in groups(a))
        <4>1. proc'[p] = [proc[p] EXCEPT !.st = "dying"]
          BY <3>1, <3>2 DEF Signal
        <4>2. proc[p] \in ProcessType
          BY <1>1, <3>1 DEF TypeOK
        <4> QED
          BY <4>1, <4>2 DEF ProcessType
      <3>3. CASE ~(Executing(p) /\ (p \in treePids(a) \/ proc[p].group \in groups(a)))
        <4>1. proc'[p] = proc[p]
          BY <3>1, <3>3 DEF Signal
        <4> QED
          BY <1>12, <2>1, <3>3, <4>1 DEF Executing
      <3> QED
        BY <3>2, <3>3
    <2>2. \A p \in Pids' : p = v.leader \/ proc'[p].group = v.leader => proc'[p].st # "run"
      BY <1>3, <2>1
    <2> QED
      BY <1>3, <2>2 DEF Stopped, Executing
  <1>10. Told(a, v, o, m, c)'
    BY <1>0, <1>3, <1>6 DEF CallHolds, Told
  <1>11. CallHolds(a, v, o, m, c)'
    BY <1>7, <1>8, <1>9, <1>10 DEF CallHolds
  <1>20. execs' = {b \in Agents : ex'[b].pc \notin {"idle", "register"}}
    BY <1>0, <1>1, <1>3, <1>4, ExecsStay DEF Kill
  <1>21. /\ out' = [out EXCEPT ![a] = o] /\ made' = [made EXCEPT ![a] = m]
         /\ c <=> a \in cancelled'
         /\ cancelled' \in {cancelled, cancelled \cup {a}}
         /\ faults' \in Nat
    BY <1>1 DEF Kill, TypeOK
  <1>22. v.told = ex[a].told /\ ex[a].pc \notin {"idle", "register"}
    BY <1>0, <1>1, <1>3, <1>4
  <1>23. Becomes(a, v, o, m, c)
    BY <1>4, <1>5, <1>20, <1>21, <1>22 DEF Becomes
  <1>24. \A q \in DOMAIN proc' \ DOMAIN proc : Forked(q) \/ proc'[q].owner = a
    BY <1>5
  <1> QED
    BY <1>3, <1>5, <1>11, <1>23, <1>24, StepOfCall

\* The agent enters itself and learns who else runs a command.
LEMMA startExecKeeps ==
    ASSUME ExecInv, NEW a \in Agents, startExec(a)
    PROVE  ExecInv'
  <1>1. PICK e \in CallType, o \in OutcomeType, m \in Nat, c \in BOOLEAN :
          /\ ex[a] = e /\ out[a] = o /\ made[a] = m /\ (c <=> a \in cancelled)
          /\ CallHolds(a, e, o, m, c)
          /\ out = [out EXCEPT ![a] = o] /\ made = [made EXCEPT ![a] = m]
          /\ TypeOK /\ Owners
    BY TheCall
  <1>2. e.pc = "register" /\ e.leader = 0
    BY <1>1 DEF CallHolds, Placed, startExec
  <1>3. PICK others \in SUBSET Agents : others = {b \in execs \ {a} : <<a, b>> \in Overlap}
    BY <1>1 DEF TypeOK
  <1>4. PICK v : v = [e EXCEPT !.pc = "start", !.told = others]
    OBVIOUS
  <1>5. /\ v \in CallType /\ v.pc = "start" /\ v.call = e.call /\ v.step = e.step
        /\ v.leader = e.leader /\ v.timed = e.timed /\ v.w = e.w /\ v.todo = e.todo
        /\ v.rows = e.rows /\ v.alive = e.alive /\ v.unverified = e.unverified
        /\ v.incomplete = e.incomplete /\ v.effect = e.effect /\ v.told = others
    BY <1>4 DEF CallType
  <1>6. ex' = [ex EXCEPT ![a] = v]
    BY <1>1, <1>3, <1>4 DEF startExec
  <1>7. RowsOwned(v) /\ Placed(a, v, c) /\ Stopped(v, o)
    BY <1>1, <1>2, <1>5 DEF CallHolds, RowsOwned, Placed, Stopped
  <1>8. Told(a, v, o, m, c)
    BY <1>1, <1>2, <1>5 DEF CallHolds, Told
  <1>9. CallHolds(a, v, o, m, c)
    BY <1>7, <1>8 DEF CallHolds
  <1>10. execs' = {b \in Agents : ex'[b].pc \notin {"idle", "register"}}
    <2>1. execs' = execs \cup {a} /\ execs = {b \in Agents : ex[b].pc \notin {"idle", "register"}}
      BY <1>1 DEF startExec, TypeOK
    <2>2. ex'[a] = v /\ \A b \in Agents \ {a} : ex'[b] = ex[b]
      BY <1>1, <1>6 DEF TypeOK
    <2> QED
      BY <1>5, <2>1, <2>2
  <1>11. /\ out' = [out EXCEPT ![a] = o] /\ made' = [made EXCEPT ![a] = m]
         /\ c <=> a \in cancelled'
         /\ cancelled' \in {cancelled, cancelled \cup {a}}
         /\ faults' \in Nat /\ hit' \subseteq Pids /\ hit' \ hit \subseteq Own(a)
    BY <1>1 DEF startExec, TypeOK
  <1>12. v.told = {b \in execs \ {a} : <<a, b>> \in Overlap}
    BY <1>3, <1>5
  <1>13. Becomes(a, v, o, m, c)
    BY <1>6, <1>10, <1>11, <1>12 DEF Becomes
  <1>14. Evolves /\ DOMAIN proc' = DOMAIN proc /\ hit' = hit
    BY <1>1, StandingStill DEF startExec
  <1> QED
    BY <1>5, <1>9, <1>13, <1>14, StepThenEvolve

\* The command is started, or it is not.
LEMMA StartKeeps ==
    ASSUME ExecInv, NEW a \in Agents, Start(a)
    PROVE  ExecInv'
  <1>1. PICK e \in CallType, o \in OutcomeType, m \in Nat, c \in BOOLEAN :
          /\ ex[a] = e /\ out[a] = o /\ made[a] = m /\ (c <=> a \in cancelled)
          /\ CallHolds(a, e, o, m, c)
          /\ out = [out EXCEPT ![a] = o] /\ made = [made EXCEPT ![a] = m]
          /\ TypeOK /\ Owners
    BY TheCall
  <1> DEFINE q == Cardinality(Pids) + 1
             kind == e.call.commands[e.step]
             refused == kind \in {"missing", "unstartable"} \/ a \in cancelled \/ e.timed
  <1>2. /\ e.pc = "start" /\ e.leader = 0 /\ e.w = "off" /\ e.rows = {} /\ ~e.incomplete
        /\ e.alive = {} /\ ~e.unverified /\ m # 0
    BY <1>1 DEF CallHolds, Placed, Told, Start
  <1>3. faults' \in Nat /\ UNCHANGED <<execs, cancelled, out, made, hit>>
    BY <1>1 DEF Start, TypeOK
  <1>4. CASE refused
    <2>1. PICK v : v = [e EXCEPT !.pc = "classify"]
      OBVIOUS
    <2>2. /\ v \in CallType /\ v.pc = "classify" /\ v.call = e.call /\ v.step = e.step
          /\ v.leader = e.leader /\ v.timed = e.timed /\ v.w = e.w /\ v.todo = e.todo
          /\ v.rows = e.rows /\ v.alive = e.alive /\ v.unverified = e.unverified
          /\ v.incomplete = e.incomplete /\ v.effect = e.effect /\ v.told = e.told
      BY <2>1 DEF CallType
    <2>3. ex' = [ex EXCEPT ![a] = v] /\ proc' = proc
      BY <1>1, <1>4, <2>1 DEF Start
    <2>4. RowsOwned(v) /\ Placed(a, v, c) /\ Stopped(v, o)
      BY <1>1, <1>2, <2>2 DEF CallHolds, RowsOwned, Placed, Stopped
    <2>5. Told(a, v, o, m, c)
      BY <1>1, <1>2, <2>2 DEF CallHolds, Told
    <2>6. CallHolds(a, v, o, m, c)
      BY <2>4, <2>5 DEF CallHolds
    <2>7. Quiet(a, v, o, m, c)
      BY <1>1, <1>2, <1>3, <2>2, <2>3 DEF Quiet
    <2> QED
      BY <2>2, <2>6, <2>7, QuietStep
  <1>5. CASE ~refused
    <2>1. PICK p : p = q
      OBVIOUS
    <2>2. /\ p <= MaxPids
          /\ proc' = [r \in DOMAIN proc \cup {p} |-> IF r = p THEN Process(0, p, p, FALSE, a) ELSE proc[r]]
          /\ ex' = [ex EXCEPT ![a].pc = "wait", ![a].leader = p, ![a].w = "armed"]
      BY <1>1, <1>5, <2>1 DEF Start
    <2>3. p \in Nat
      BY <1>1, <2>1, PidsAreNumbered
    <2>4. PICK new : new = Process(0, p, p, FALSE, a)
      OBVIOUS
    <2>5. /\ new \in ProcessType /\ new.parent = 0 /\ new.status = "none" /\ new.owner = a
          /\ new.group = p /\ new.pipe = p
      <3>1. PICK t \in Status : t = "none"
        BY DEF Status
      <3>2. PICK z \in Nat : z = 0
        OBVIOUS
      <3>3. new = [st |-> "run", parent |-> z, group |-> p, pipe |-> p, resists |-> FALSE,
                   status |-> t, owner |-> a]
        BY <2>4, <3>1, <3>2 DEF Process
      <3> QED
        BY <2>3, <3>1, <3>2, <3>3 DEF ProcessType
    <2>6. proc' = [r \in DOMAIN proc \cup {p} |-> IF r = p THEN new ELSE proc[r]]
      BY <2>2, <2>4
    <2>7. proc'[p] = new
      BY <2>6
    <2>8. Forked(p) \/ \E b \in Agents : Commanded(p, b)
      BY <2>5, <2>7 DEF Commanded
    <2> HIDE DEF q
    <2>9. /\ Evolves /\ p \notin DOMAIN proc /\ p \in Nat \ {0}
          /\ proc'[p] = new /\ DOMAIN proc' = DOMAIN proc \cup {p}
      <3>1. p = Cardinality(Pids) + 1 /\ TypeOK
        BY <1>1, <2>1 DEF q
      <3>2. p <= MaxPids
        BY <2>2
      <3>3. new \in ProcessType
        BY <2>5
      <3> QED
        BY <2>6, <2>8, <3>1, <3>2, <3>3, OneMore
    <2>10. PICK v : v = [e EXCEPT !.pc = "wait", !.leader = p, !.w = "armed"]
      OBVIOUS
    <2>11. /\ v \in CallType /\ v.pc = "wait" /\ v.call = e.call /\ v.step = e.step /\ v.leader = p
           /\ v.timed = e.timed /\ v.w = "armed" /\ v.todo = e.todo /\ v.rows = e.rows
           /\ v.alive = e.alive /\ v.unverified = e.unverified /\ v.incomplete = e.incomplete
           /\ v.effect = e.effect /\ v.told = e.told
      BY <2>3, <2>10 DEF CallType
    <2>12. ex' = [ex EXCEPT ![a] = v]
      BY <1>1, <2>2, <2>10
    <2>13. Pids' = Pids \cup {p} /\ p \notin Pids /\ \A r \in Pids : proc'[r] = proc[r]
      BY <2>6, <2>9 DEF Pids
    <2>14. Own(a)' = Own(a) \cup {p} /\ Leaders(a)' = Leaders(a) \cup {p} /\ p \notin hit
      <3>1. hit \subseteq Pids
        BY <1>1 DEF TypeOK
      <3>2. Own(a)' = Own(a) \cup {p}
        BY <2>5, <2>9, <2>13 DEF Own
      <3>3. \A r \in Own(a) : r \in Pids /\ proc'[r] = proc[r]
        BY <2>13 DEF Own
      <3> QED
        BY <2>5, <2>9, <2>13, <3>1, <3>2, <3>3 DEF Leaders
    <2>15. RowsOwned(v)'
      BY <1>1, <1>2, <2>11, <2>13 DEF CallHolds, RowsOwned
    <2>16. Placed(a, v, c)'
      <3>1. v.leader \in Own(a)' /\ proc'[v.leader].parent = 0 /\ v.leader # 0
        BY <2>5, <2>9, <2>11, <2>14
      <3>2. /\ v.step \in 1 .. Len(v.call.commands)
            /\ v.effect = IF v.step = 1 THEN "none" ELSE "applied"
        BY <1>1, <1>2, <2>11 DEF CallHolds, Placed
      <3> QED
        BY <1>2, <2>11, <3>1, <3>2 DEF Placed
    <2>17. Stopped(v, o)'
      BY <2>11 DEF Stopped
    <2>18. Told(a, v, o, m, c)'
      <3>1. ASSUME m = 1
            PROVE  /\ Own(a) \cap hit = {}
                   /\ \A r \in Leaders(a) : proc[r].status = "zero" /\ Holders(r) = {}
        <4>1. 0 \notin Leaders(a)
          BY DEF Leaders, Own, Pids
        <4> QED
          BY <1>1, <1>2, <3>1, <4>1 DEF CallHolds, Told
      <3>2. ASSUME m = 1, NEW r \in Leaders(a)
            PROVE  proc'[r].status = "zero" /\ Holders(r)' = {}
        <4>1. r \in Pids /\ Holders(r) = {} /\ proc[r].status = "zero"
          BY <3>1, <3>2 DEF Leaders, Own
        <4>2. Holders(r)' = {}
          BY <2>9, <4>1, NobodyHolds
        <4> QED
          BY <2>13, <4>1, <4>2
      <3>3. m = 1 => Own(a)' \cap hit' = {}
        BY <1>3, <2>14, <3>1
      <3>4. m = 1 => \A r \in Leaders(a)' \ {v.leader} : proc'[r].status = "zero" /\ Holders(r)' = {}
        BY <2>11, <2>14, <3>2
      <3> QED
        BY <1>2, <2>9, <2>11, <3>3, <3>4 DEF Told
    <2>19. CallHolds(a, v, o, m, c)'
      BY <2>15, <2>16, <2>17, <2>18 DEF CallHolds
    <2>20. execs' = {b \in Agents : ex'[b].pc \notin {"idle", "register"}}
      BY <1>1, <1>2, <1>3, <2>11, <2>12, ExecsStay
    <2>21. /\ out' = [out EXCEPT ![a] = o] /\ made' = [made EXCEPT ![a] = m]
           /\ c <=> a \in cancelled'
           /\ cancelled' \in {cancelled, cancelled \cup {a}}
           /\ faults' \in Nat /\ hit' \subseteq Pids /\ hit' \ hit \subseteq Own(a)
      BY <1>1, <1>3 DEF TypeOK
    <2>22. v.told = ex[a].told /\ ex[a].pc \notin {"idle", "register"}
      BY <1>1, <1>2, <2>11
    <2>23. Becomes(a, v, o, m, c)
      BY <2>12, <2>20, <2>21, <2>22 DEF Becomes
    <2>24. \A r \in DOMAIN proc' \ DOMAIN proc : Forked(r) \/ proc'[r].owner = a
      BY <2>5, <2>9
    <2> QED
      BY <2>9, <2>11, <2>19, <2>23, <2>24, StepOfCall
  <1> QED
    BY <1>4, <1>5

\* No call is a call of its type.
LEMMA IdleType ==
    Idle \in CallType
  <1>1. PICK z \in Nat : z = 0
    OBVIOUS
  <1>2. <<>> \in Seq({"run", "missing", "unstartable", "empty", "nul"})
    OBVIOUS
  <1>3. PICK t : t = [given |-> "omitted", ms |-> z]
    OBVIOUS
  <1>4. t \in [given : {"omitted", "null", "bad", "int"}, ms : Nat]
    BY <1>3
  <1>5. NoCall = [argv |-> "ok", timeout |-> t, cwd |-> "dir", commands |-> <<>>]
    BY <1>1, <1>3 DEF NoCall
  <1>6. NoCall \in Arguments
    BY <1>2, <1>4, <1>5 DEF Arguments
  <1>7. Idle = [pc |-> "idle", call |-> NoCall, step |-> z, leader |-> z, timed |-> FALSE,
                w |-> "off", todo |-> {}, rows |-> {}, alive |-> {}, unverified |-> FALSE,
                incomplete |-> FALSE, effect |-> "none", told |-> {}]
    BY <1>1 DEF Idle
  <1> HIDE DEF Idle
  <1> QED
    BY <1>6, <1>7 DEF CallType

\* What no call is.
LEMMA IdleFields ==
    /\ Idle.pc = "idle" /\ Idle.step = 0 /\ Idle.leader = 0 /\ Idle.timed = FALSE
    /\ Idle.w = "off" /\ Idle.todo = {} /\ Idle.rows = {} /\ Idle.alive = {}
    /\ Idle.unverified = FALSE /\ Idle.incomplete = FALSE /\ Idle.effect = "none"
    /\ Idle.told = {}
  BY DEF Idle

\* What a call may be refused for.
LEMMA RefusalIs ==
    ASSUME NEW k
    PROVE  refusal(k) \in {"invalid_arguments", "invalid_path", "not_found", "not_directory", ""}
  BY DEF refusal

\* The outcome of a refusal.
LEMMA OutcomeIs ==
    ASSUME NEW code \in {"none", "invalid_arguments", "invalid_path", "not_found", "not_directory"}
    PROVE  /\ Outcome(code, "none") \in OutcomeType
           /\ Outcome(code, "none").code = code /\ Outcome(code, "none").effect = "none"
           /\ Outcome(code, "none").survivors = {}
  <1>1. PICK z \in Nat : z = 0
    OBVIOUS
  <1>2. PICK t \in Status : t = "none"
    BY DEF Status
  <1>3. Outcome(code, "none") =
          [code |-> code, effect |-> "none", steps |-> z, survivors |-> {}, incomplete |-> FALSE,
           reason |-> "none", status |-> t]
    BY <1>1, <1>2 DEF Outcome
  <1>4. PICK x : x = [code |-> code, effect |-> "none", steps |-> z, survivors |-> {},
                      incomplete |-> FALSE, reason |-> "none", status |-> t]
    OBVIOUS
  <1>5. x.code = code /\ x.effect = "none" /\ x.survivors = {}
    BY <1>4
  <1>6. x \in OutcomeType
    BY <1>4 DEF OutcomeType
  <1> QED
    BY <1>3, <1>4, <1>5, <1>6

\* A call is refused before anything runs, or begins with its first command.
LEMMA ExecuteKeeps ==
    ASSUME ExecInv, NEW a \in Agents, NEW k \in Calls[a],
           Execute(a, k)
    PROVE  ExecInv'
  <1>1. PICK e \in CallType, o \in OutcomeType, m \in Nat, c \in BOOLEAN :
          /\ ex[a] = e /\ out[a] = o /\ made[a] = m /\ (c <=> a \in cancelled)
          /\ CallHolds(a, e, o, m, c)
          /\ out = [out EXCEPT ![a] = o] /\ made = [made EXCEPT ![a] = m]
          /\ TypeOK /\ Owners
    BY TheCall
  <1>2. /\ e.pc = "idle" /\ made' = [made EXCEPT ![a] = m + 1]
        /\ UNCHANGED <<proc, execs, cancelled, faults, hit>>
    BY <1>1 DEF Execute, TypeOK
  <1>3. PICK n \in Nat : n = m + 1
    OBVIOUS
  <1>4. n # 0 /\ (n = 1 => m = 0)
    BY <1>3
  <1>5. n = 1 => Own(a) = {}
    BY <1>1, <1>4 DEF CallHolds, Told
  <1>6. k \in Arguments /\ Len(k.commands) \in Nat /\ Len(k.commands) >= 1
    <2>1. k \in Arguments /\ k.commands # <<>>
      BY ExecAssumption
    <2>2. k.commands \in Seq({"run", "missing", "unstartable", "empty", "nul"})
      BY <2>1 DEF Arguments
    <2> QED
      BY <2>1, <2>2, EmptySeq
  <1>7. Evolves /\ DOMAIN proc' = DOMAIN proc /\ hit' = hit
    BY <1>1, <1>2, StandingStill
  <1>8. ASSUME NEW v \in CallType, NEW x \in OutcomeType, ex' = [ex EXCEPT ![a] = v],
               out' = [out EXCEPT ![a] = x], v.pc \in {"idle", "register"}
        PROVE  Becomes(a, v, x, n, c)
    <2>1. execs' = {b \in Agents : ex'[b].pc \notin {"idle", "register"}}
      <3>1. /\ execs' = execs /\ execs = {b \in Agents : ex[b].pc \notin {"idle", "register"}}
            /\ ex'[a] = v /\ \A b \in Agents \ {a} : ex'[b] = ex[b]
        BY <1>1, <1>2, <1>8 DEF TypeOK
      <3> QED
        BY <1>1, <1>2, <1>8, <3>1
    <2>2. /\ made' = [made EXCEPT ![a] = n]
          /\ c <=> a \in cancelled'
          /\ cancelled' \in {cancelled, cancelled \cup {a}}
          /\ faults' \in Nat /\ hit' \subseteq Pids /\ hit' \ hit \subseteq Own(a)
      BY <1>1, <1>2, <1>3 DEF TypeOK
    <2> QED
      BY <1>8, <2>1, <2>2 DEF Becomes
  <1>9. CASE refusal(k) # ""
    <2>1. PICK code \in {"invalid_arguments", "invalid_path", "not_found", "not_directory"} :
            code = refusal(k)
      BY <1>9, RefusalIs
    <2>2. PICK x \in OutcomeType :
            /\ x = Outcome(code, "none") /\ x.code = code /\ x.effect = "none"
            /\ x.survivors = {}
      BY OutcomeIs
    <2>3. PICK v \in CallType : v = Idle
      BY IdleType
    <2>4. ex' = [ex EXCEPT ![a] = v] /\ out' = [out EXCEPT ![a] = x]
      BY <1>9, <2>1, <2>2, <2>3 DEF Execute
    <2>5. RowsOwned(v) /\ Placed(a, v, c) /\ Stopped(v, x)
      BY <2>2, <2>3, IdleFields DEF RowsOwned, Placed, Stopped
    <2>6. Told(a, v, x, n, c)
      <3>1. v.pc = "idle" /\ x.code # "ok" /\ x.effect = "none"
        BY <2>1, <2>2, <2>3, IdleFields
      <3> QED
        BY <1>4, <1>5, <3>1 DEF Told
    <2>7. CallHolds(a, v, x, n, c)
      BY <2>5, <2>6 DEF CallHolds
    <2>8. Becomes(a, v, x, n, c)
      BY <1>8, <2>3, <2>4, IdleFields
    <2> QED
      BY <1>7, <2>7, <2>8, StepThenEvolve
  <1>10. CASE refusal(k) = ""
    <2>1. PICK one \in Nat : one = 1
      OBVIOUS
    <2>2. PICK v : v = [Idle EXCEPT !.pc = "register", !.call = k, !.step = one]
      OBVIOUS
    <2>3. /\ v \in CallType /\ v.pc = "register" /\ v.call = k /\ v.step = one
          /\ v.leader = 0 /\ v.timed = FALSE /\ v.w = "off" /\ v.todo = {} /\ v.rows = {}
          /\ v.alive = {} /\ v.unverified = FALSE /\ v.incomplete = FALSE /\ v.effect = "none"
      BY <1>6, <2>2, IdleType, IdleFields DEF CallType
    <2>4. ex' = [ex EXCEPT ![a] = v] /\ out' = [out EXCEPT ![a] = o]
      BY <1>1, <1>10, <2>1, <2>2 DEF Execute
    <2>5. v.step \in 1 .. Len(v.call.commands)
      BY <1>6, <2>1, <2>3
    <2>6. RowsOwned(v) /\ Placed(a, v, c) /\ Stopped(v, o)
      BY <2>1, <2>3, <2>5 DEF RowsOwned, Placed, Stopped
    <2>7. Told(a, v, o, n, c)
      BY <1>4, <1>5, <2>1, <2>3 DEF Told, Leaders
    <2>8. CallHolds(a, v, o, n, c)
      BY <2>6, <2>7 DEF CallHolds
    <2>9. Becomes(a, v, o, n, c)
      BY <1>8, <2>3, <2>4
    <2> QED
      BY <1>7, <2>3, <2>8, <2>9, StepThenEvolve
  <1> QED
    BY <1>9, <1>10

\* What the end of a command comes to.
LEMMA Classified ==
    ASSUME NEW a \in Agents, NEW e, ex[a] = e
    PROVE  /\ classifyRun(a)[1] \in {"executable_not_found", "process_start_failed", "cancelled",
                                     "timeout", "output_wait_failed", "command_failed", "ok"}
           /\ classifyRun(a)[2] \in {"none", "applied", "unknown"}
           /\ e.leader = 0 <=> classifyRun(a)[2] = "none"
           /\ classifyRun(a)[2] = "applied" => a \notin cancelled /\ ~e.timed /\ ~e.incomplete
           /\ classifyRun(a)[1] = "ok" =>
                /\ classifyRun(a)[2] = "applied" /\ proc[e.leader].status = "zero"
  <1> DEFINE kind == e.call.commands[e.step]
             run == classifyRun(a)
  <1>1. CASE e.leader = 0 /\ kind = "missing"
    <2>1. run = <<"executable_not_found", "none">>
      BY <1>1 DEF classifyRun
    <2> QED
      BY <1>1, <2>1
  <1>2. CASE e.leader = 0 /\ kind # "missing" /\ a \in cancelled
    <2>1. run = <<"cancelled", "none">>
      BY <1>2 DEF classifyRun
    <2> QED
      BY <1>2, <2>1
  <1>3. CASE e.leader = 0 /\ kind # "missing" /\ a \notin cancelled
    <2>1. run = <<"process_start_failed", "none">>
      BY <1>3 DEF classifyRun
    <2> QED
      BY <1>3, <2>1
  <1>4. CASE e.leader # 0 /\ a \in cancelled
    <2>1. run = <<"cancelled", "unknown">>
      BY <1>4 DEF classifyRun
    <2> QED
      BY <1>4, <2>1
  <1>5. CASE e.leader # 0 /\ a \notin cancelled /\ e.timed
    <2>1. run = <<"timeout", "unknown">>
      BY <1>5 DEF classifyRun
    <2> QED
      BY <1>5, <2>1
  <1>6. CASE e.leader # 0 /\ a \notin cancelled /\ ~e.timed /\ e.incomplete
    <2>1. run = <<"output_wait_failed", "unknown">>
      BY <1>6 DEF classifyRun
    <2> QED
      BY <1>6, <2>1
  <1>7. CASE /\ e.leader # 0 /\ a \notin cancelled /\ ~e.timed /\ ~e.incomplete
             /\ proc[e.leader].status # "zero"
    <2>1. run = <<"command_failed", "applied">>
      BY <1>7 DEF classifyRun
    <2> QED
      BY <1>7, <2>1
  <1>8. CASE /\ e.leader # 0 /\ a \notin cancelled /\ ~e.timed /\ ~e.incomplete
             /\ proc[e.leader].status = "zero"
    <2>1. run = <<"ok", "applied">>
      BY <1>8 DEF classifyRun
    <2> QED
      BY <1>8, <2>1
  <1> QED
    BY <1>1, <1>2, <1>3, <1>4, <1>5, <1>6, <1>7, <1>8

\* What the outcome of the last command says of the call.
LEMMA OutcomeSays ==
    ASSUME TypeOK, NEW a \in Agents, NEW e \in CallType, NEW o, NEW m,
           NEW c \in BOOLEAN, ex[a] = e, c <=> a \in cancelled, CallHolds(a, e, o, m, c),
           e.pc = "classify"
    PROVE  \E x \in OutcomeType :
             /\ x = outcome(a) /\ x.code # "none"
             /\ x.survivors = e.alive /\ x.steps = e.step
             /\ e.unverified \/ e.alive # {} => x.effect = "unknown"
             /\ e.leader = 0 => x.effect = e.effect
             /\ e.leader # 0 => x.effect # "none"
             /\ x.effect = "applied" /\ e.leader # 0 => ~c /\ ~e.timed /\ ~e.incomplete
             /\ x.code = "ok" =>
                  /\ e.leader # 0 /\ ~c /\ ~e.timed /\ ~e.incomplete
                  /\ proc[e.leader].status = "zero" /\ x.effect = "applied"
  <1> DEFINE own == IF e.unverified \/ e.alive # {} THEN "unknown" ELSE classifyRun(a)[2]
  <1>1. /\ classifyRun(a)[1] \in {"executable_not_found", "process_start_failed", "cancelled",
                                  "timeout", "output_wait_failed", "command_failed", "ok"}
        /\ classifyRun(a)[2] \in {"none", "applied", "unknown"}
        /\ e.leader = 0 <=> classifyRun(a)[2] = "none"
        /\ classifyRun(a)[2] = "applied" => a \notin cancelled /\ ~e.timed /\ ~e.incomplete
        /\ classifyRun(a)[1] = "ok" =>
             /\ classifyRun(a)[2] = "applied" /\ proc[e.leader].status = "zero"
    BY Classified
  <1>2. PICK code \in {"executable_not_found", "process_start_failed", "cancelled",
                       "timeout", "output_wait_failed", "command_failed", "ok"} :
          code = classifyRun(a)[1]
    BY <1>1
  <1>3. PICK seen \in {"none", "applied", "unknown"} : seen = own
    BY <1>1
  <1>4. /\ e.effect \in {"none", "applied"}
        /\ e.leader = 0 => e.w = "off" /\ ~e.incomplete
        /\ e.w \in {"off", "done"}
        /\ e.w # "done" => e.alive = {}
        /\ e.w \in {"off", "armed"} => ~e.unverified
        /\ e.w \notin {"off", "armed"} => e.timed \/ c
    BY DEF CallHolds, Placed
  <1>5. PICK eff : eff = chainEffect(e.effect, seen)
    OBVIOUS
  <1>6. /\ eff \in {"none", "applied", "unknown"}
        /\ seen = "unknown" => eff = "unknown"
        /\ seen = "none" => eff = e.effect
        /\ seen = "applied" => eff = "applied"
    BY <1>4, <1>5 DEF chainEffect
  <1>7. PICK status \in Status : status = IF e.leader # 0 THEN proc[e.leader].status ELSE "none"
    <2>1. e.leader # 0 => e.leader \in Pids
      BY DEF CallHolds, Placed, Own
    <2>2. e.leader # 0 => proc[e.leader] \in ProcessType
      BY <2>1, PidsAreNumbered DEF Pids
    <2>3. e.leader # 0 => proc[e.leader].status \in Status
      BY <2>2 DEF ProcessType
    <2> QED
      BY <2>3 DEF Status
  <1>8. PICK reason \in {"none", "cancelled", "timeout"} :
          reason = CASE e.leader # 0 /\ a \in cancelled -> "cancelled"
                     [] e.leader # 0 /\ a \notin cancelled /\ e.timed -> "timeout"
                     [] OTHER -> "none"
    OBVIOUS
  <1>9. PICK x : x = [code |-> code, effect |-> eff, steps |-> e.step, survivors |-> e.alive,
                      incomplete |-> e.incomplete, reason |-> reason, status |-> status]
    OBVIOUS
  <1>10. x = outcome(a)
    BY <1>2, <1>3, <1>5, <1>7, <1>8, <1>9 DEF outcome
  <1>11. e.step \in Nat /\ e.alive \in SUBSET Nat /\ e.incomplete \in BOOLEAN
    BY DEF CallType
  <1>12. /\ x \in OutcomeType /\ x.code = code /\ x.effect = eff /\ x.steps = e.step
         /\ x.survivors = e.alive
    BY <1>6, <1>9, <1>11 DEF OutcomeType
  <1> HIDE DEF own
  <1>13. /\ e.unverified \/ e.alive # {} => seen = "unknown"
         /\ ~(e.unverified \/ e.alive # {}) => seen = classifyRun(a)[2]
    BY <1>3 DEF own
  <1>14. e.leader = 0 => seen = "none"
    BY <1>1, <1>4, <1>13
  <1>15. e.leader # 0 => seen # "none"
    BY <1>1, <1>13
  <1>16. e.leader # 0 /\ seen = "applied" => ~c /\ ~e.timed /\ ~e.incomplete
    BY <1>1, <1>13
  <1>17. code = "ok" =>
           /\ e.leader # 0 /\ ~c /\ ~e.timed /\ ~e.incomplete
           /\ proc[e.leader].status = "zero" /\ seen = "applied"
    BY <1>1, <1>2, <1>4, <1>13
  <1>18. /\ code # "none"
         /\ e.unverified \/ e.alive # {} => eff = "unknown"
         /\ e.leader = 0 => eff = e.effect
         /\ e.leader # 0 => eff # "none"
         /\ eff = "applied" /\ e.leader # 0 => ~c /\ ~e.timed /\ ~e.incomplete
         /\ code = "ok" =>
              /\ e.leader # 0 /\ ~c /\ ~e.timed /\ ~e.incomplete
              /\ proc[e.leader].status = "zero" /\ eff = "applied"
    BY <1>6, <1>13, <1>14, <1>15, <1>16, <1>17
  <1> QED
    BY <1>10, <1>12, <1>18

\* The outcome is taken: the chain goes on, or the call ends with it.
LEMMA ClassifyKeeps ==
    ASSUME ExecInv, NEW a \in Agents, Classify(a)
    PROVE  ExecInv'
  <1>1. PICK e \in CallType, o \in OutcomeType, m \in Nat, c \in BOOLEAN :
          /\ ex[a] = e /\ out[a] = o /\ made[a] = m /\ (c <=> a \in cancelled)
          /\ CallHolds(a, e, o, m, c)
          /\ out = [out EXCEPT ![a] = o] /\ made = [made EXCEPT ![a] = m]
          /\ TypeOK /\ Owners
    BY TheCall
  <1>2. e.pc = "classify" /\ execs' = execs \ {a} /\ UNCHANGED <<proc, cancelled, made, faults, hit>>
    BY <1>1 DEF Classify
  <1>3. PICK x \in OutcomeType :
          /\ x = outcome(a) /\ x.code # "none"
          /\ x.survivors = e.alive /\ x.steps = e.step
          /\ e.unverified \/ e.alive # {} => x.effect = "unknown"
          /\ e.leader = 0 => x.effect = e.effect
          /\ e.leader # 0 => x.effect # "none"
          /\ x.effect = "applied" /\ e.leader # 0 => ~c /\ ~e.timed /\ ~e.incomplete
          /\ x.code = "ok" =>
               /\ e.leader # 0 /\ ~c /\ ~e.timed /\ ~e.incomplete
               /\ proc[e.leader].status = "zero" /\ x.effect = "applied"
    BY <1>1, <1>2, OutcomeSays
  <1>4. /\ e.w \in {"off", "done"}
        /\ e.w # "done" => e.alive = {}
        /\ e.w \in {"off", "armed"} => ~e.unverified
        /\ e.w \notin {"off", "armed"} => e.timed \/ c
        /\ e.leader = 0 => e.w = "off" /\ e.rows = {} /\ ~e.incomplete
        /\ e.leader # 0 => e.leader \in Own(a) /\ proc[e.leader].parent = 0
        /\ e.leader # 0 /\ ~e.incomplete => Holders(e.leader) = {}
        /\ e.step \in 1 .. Len(e.call.commands)
        /\ e.effect = IF e.step = 1 THEN "none" ELSE "applied"
    BY <1>1, <1>2 DEF CallHolds, Placed
  <1>5. Len(e.call.commands) \in Nat
    <2>1. e.call \in Arguments
      BY DEF CallType
    <2>2. e.call.commands \in Seq({"run", "missing", "unstartable", "empty", "nul"})
      BY <2>1 DEF Arguments
    <2> QED
      BY <2>2
  <1>6. /\ m # 0
        /\ m = 1 =>
             /\ e.leader = 0 => (Own(a) = {} <=> e.step = 1)
             /\ e.w \in {"off", "armed", "reading"} /\ ~e.incomplete => Own(a) \cap hit = {}
             /\ \A p \in Leaders(a) \ {e.leader} : proc[p].status = "zero" /\ Holders(p) = {}
    BY <1>1, <1>2 DEF CallHolds, Told
  <1>7. Evolves /\ DOMAIN proc' = DOMAIN proc /\ hit' = hit
    BY <1>1, <1>2, StandingStill
  <1>8. ASSUME NEW v \in CallType, NEW y \in OutcomeType, ex' = [ex EXCEPT ![a] = v],
               out' = [out EXCEPT ![a] = y], v.pc \in {"idle", "register"}
        PROVE  Becomes(a, v, y, m, c)
    <2>1. execs' = {b \in Agents : ex'[b].pc \notin {"idle", "register"}}
      <3>1. /\ execs' = execs \ {a} /\ execs = {b \in Agents : ex[b].pc \notin {"idle", "register"}}
            /\ ex'[a] = v /\ \A b \in Agents \ {a} : ex'[b] = ex[b]
        BY <1>1, <1>2, <1>8 DEF TypeOK
      <3> QED
        BY <1>8, <3>1
    <2>2. /\ made' = [made EXCEPT ![a] = m]
          /\ c <=> a \in cancelled'
          /\ cancelled' \in {cancelled, cancelled \cup {a}}
          /\ faults' \in Nat /\ hit' \subseteq Pids /\ hit' \ hit \subseteq Own(a)
      BY <1>1, <1>2 DEF TypeOK
    <2> QED
      BY <1>8, <2>1, <2>2 DEF Becomes
  <1>9. CASE goesOn(a, x)
    <2>1. x.code = "ok" /\ e.step < Len(e.call.commands)
      BY <1>1, <1>9 DEF goesOn
    <2>2. PICK n \in Nat : n = e.step + 1
      BY <1>4, <1>5
    <2>3. n \in 1 .. Len(e.call.commands) /\ n # 1
      BY <1>4, <1>5, <2>1, <2>2
    <2>4. PICK v : v = [Idle EXCEPT !.pc = "register", !.call = e.call, !.step = n, !.effect = x.effect]
      OBVIOUS
    <2>5. x.effect = "applied" /\ e.leader # 0 /\ e.w = "off" /\ ~e.incomplete
      BY <1>3, <1>4, <2>1
    <2>6. /\ v \in CallType /\ v.pc = "register" /\ v.call = e.call /\ v.step = n
          /\ v.leader = 0 /\ v.timed = FALSE /\ v.w = "off" /\ v.todo = {} /\ v.rows = {}
          /\ v.alive = {} /\ v.unverified = FALSE /\ v.incomplete = FALSE /\ v.effect = "applied"
      BY <2>2, <2>4, <2>5, IdleType, IdleFields DEF CallType
    <2>7. ex' = [ex EXCEPT ![a] = v] /\ out' = [out EXCEPT ![a] = o]
      BY <1>1, <1>3, <1>9, <2>2, <2>4 DEF Classify
    <2>8. RowsOwned(v) /\ Placed(a, v, c) /\ Stopped(v, o)
      BY <2>3, <2>6 DEF RowsOwned, Placed, Stopped
    <2>9. Told(a, v, o, m, c)
      <3>1. m = 1 => Own(a) # {} /\ Own(a) \cap hit = {}
        BY <1>4, <1>6, <2>5
      <3>2. m = 1 => \A p \in Leaders(a) : proc[p].status = "zero" /\ Holders(p) = {}
        BY <1>3, <1>4, <1>6, <2>1, <2>5
      <3> QED
        BY <1>6, <2>3, <2>6, <3>1, <3>2 DEF Told
    <2>10. CallHolds(a, v, o, m, c)
      BY <2>8, <2>9 DEF CallHolds
    <2>11. Becomes(a, v, o, m, c)
      BY <1>8, <2>6, <2>7
    <2> QED
      BY <1>7, <2>6, <2>10, <2>11, StepThenEvolve
  <1>10. CASE ~goesOn(a, x)
    <2>1. PICK v : v = [e EXCEPT !.pc = "idle"]
      OBVIOUS
    <2>2. /\ v \in CallType /\ v.pc = "idle" /\ v.call = e.call /\ v.step = e.step
          /\ v.leader = e.leader /\ v.timed = e.timed /\ v.w = e.w /\ v.todo = e.todo
          /\ v.rows = e.rows /\ v.alive = e.alive /\ v.unverified = e.unverified
          /\ v.incomplete = e.incomplete /\ v.effect = e.effect /\ v.told = e.told
      BY <2>1 DEF CallType
    <2>3. ex' = [ex EXCEPT ![a] = v] /\ out' = [out EXCEPT ![a] = x]
      BY <1>1, <1>3, <1>10, <2>1 DEF Classify
    <2>4. x.code = "ok" => x.steps = Len(e.call.commands)
      <3>1. x.code = "ok" => ~(e.step < Len(e.call.commands))
        BY <1>1, <1>10 DEF goesOn
      <3> QED
        BY <1>3, <1>4, <1>5, <3>1
    <2>5. RowsOwned(v) /\ Placed(a, v, c)
      BY <1>1, <1>2, <2>2 DEF CallHolds, RowsOwned, Placed
    <2>6. pidsOf(v) = pidsOf(e)
      BY <2>2 DEF pidsOf
    <2>7. Stopped(v, x)
      BY <1>1, <1>3, <2>2, <2>6 DEF CallHolds, Stopped
    <2>8. Told(a, v, x, m, c)
      <3>1. m = 1 => (x.effect = "none" <=> Own(a) = {})
        BY <1>3, <1>4, <1>6
      <3>2. m = 1 /\ x.effect = "applied" =>
              Own(a) \cap hit = {} /\ (e.leader # 0 => Holders(e.leader) = {})
        BY <1>3, <1>4, <1>6
      <3>3. x.code = "ok" =>
              /\ x.steps = Len(e.call.commands) /\ x.effect = "applied"
              /\ e.leader # 0 /\ proc[e.leader].status = "zero"
              /\ e.w = "off" /\ ~e.timed /\ ~c
        BY <1>3, <1>4, <2>4
      <3> QED
        BY <1>6, <2>2, <3>1, <3>2, <3>3 DEF Told
    <2>9. CallHolds(a, v, x, m, c)
      BY <2>5, <2>7, <2>8 DEF CallHolds
    <2>10. Becomes(a, v, x, m, c)
      BY <1>8, <2>2, <2>3
    <2> QED
      BY <1>7, <2>2, <2>9, <2>10, StepThenEvolve
  <1> QED
    BY <1>9, <1>10

-----------------------------------------------------------------------------
(* The invariant and what follows from it. *)

\* It holds before any call.
LEMMA InitInv ==
    ASSUME Init
    PROVE  ExecInv
  <1>1. Pids = {} /\ DOMAIN proc = {0} /\ proc[0] = Process(0, 0, 0, FALSE, "harness")
    BY DEF Init, Pids
  <1>2. Process(0, 0, 0, FALSE, "harness") \in ProcessType
    <2>1. PICK z \in Nat : z = 0
      OBVIOUS
    <2>2. PICK t \in Status : t = "none"
      BY DEF Status
    <2>3. PICK h \in Agents \cup {"harness"} : h = "harness"
      OBVIOUS
    <2>4. PICK x : x = [st |-> "run", parent |-> z, group |-> z, pipe |-> z, resists |-> FALSE,
                        status |-> t, owner |-> h]
      OBVIOUS
    <2>5. x \in ProcessType
      BY <2>4 DEF ProcessType
    <2>6. x = Process(0, 0, 0, FALSE, "harness")
      BY <2>1, <2>2, <2>3, <2>4 DEF Process
    <2> QED
      BY <2>5, <2>6
  <1>3. PICK x \in OutcomeType : x = Outcome("none", "none") /\ x.code = "none"
    BY OutcomeIs
  <1>4. PICK v \in CallType : v = Idle
    BY IdleType
  <1>5. \A a \in Agents : ex[a] = v /\ out[a] = x /\ made[a] = 0
    BY <1>3, <1>4 DEF Init
  <1>6. TypeOK
    <2>1. 0 .. 0 = {0} /\ 0 \in 0 .. MaxPids
      BY ExecAssumption
    <2>2. proc \in [0 .. 0 -> ProcessType]
      BY <1>2, <2>1 DEF Init
    <2>3. ex \in [Agents -> CallType] /\ out \in [Agents -> OutcomeType] /\ made \in [Agents -> Nat]
      BY <1>3, <1>4 DEF Init
    <2>4. execs = {a \in Agents : ex[a].pc \notin {"idle", "register"}}
      BY <1>4, <1>5, IdleFields DEF Init
    <2> QED
      BY <2>1, <2>2, <2>3, <2>4 DEF TypeOK, Init
  <1>7. Owners
    <2>1. proc[0].group = 0
      BY <1>1 DEF Process
    <2> QED
      BY <1>1, <2>1 DEF Owners
  <1>8. ASSUME NEW a \in Agents
        PROVE  CallInv(a)
    <2>1. Own(a) = {} /\ a \notin cancelled
      BY <1>1 DEF Own, Init
    <2>2. PICK c \in BOOLEAN : c = FALSE
      OBVIOUS
    <2>3. PICK m \in Nat : m = 0
      OBVIOUS
    <2>4. RowsOwned(v) /\ Placed(a, v, c) /\ Stopped(v, x)
      BY <1>3, <1>4, IdleFields DEF RowsOwned, Placed, Stopped
    <2>5. Told(a, v, x, m, c)
      BY <1>3, <1>4, <2>1, <2>3, IdleFields DEF Told
    <2> QED
      BY <1>5, <2>1, <2>2, <2>3, <2>4, <2>5
         DEF CallInv, CallHolds, RowsOwned, Placed, Stopped, Told, pidsOf
  <1>9. OverlapTold
    BY <1>4, <1>5, IdleFields DEF OverlapTold
  <1> QED
    BY <1>6, <1>7, <1>8, <1>9 DEF ExecInv

\* What the processes do breaks nothing.
LEMMA ActsKeep ==
    ASSUME ExecInv, NEW p \in Pids, Acts(p) \/ Die(p)
    PROVE  ExecInv'
  <1>1. TypeOK /\ Owners /\ (\A a \in Agents : CallInv(a)) /\ OverlapTold
    BY DEF ExecInv
  <1>2. /\ Evolves /\ UNCHANGED <<ex, execs, cancelled, out, made, faults, hit>>
        /\ \A q \in DOMAIN proc' \ DOMAIN proc : Forked(q)
    BY <1>1, ActsEvolve
  <1>3. TypeOK'
    <2>1. \E n \in 0 .. MaxPids : proc' \in [0 .. n -> ProcessType]
      BY <1>2 DEF Evolves
    <2>2. hit' \subseteq Pids'
      BY <1>1, <1>2 DEF TypeOK, Evolves, Pids
    <2> QED
      BY <1>1, <1>2, <2>1, <2>2 DEF TypeOK
  <1>4. Owners'
    BY <1>1, <1>2, OwnersStay
  <1>5. ASSUME NEW b \in Agents
        PROVE  CallInv(b)'
    <2>1. CallInv(b) /\ hit' \subseteq Pids /\ hit' \cap Own(b) \subseteq hit
      BY <1>1, <1>2 DEF TypeOK
    <2>2. /\ ex'[b] = ex[b] /\ out'[b] = out[b] /\ made'[b] = made[b]
          /\ b \in cancelled' <=> b \in cancelled
      BY <1>2
    <2>3. \A q \in DOMAIN proc' \ DOMAIN proc : proc'[q].owner = b => Forked(q)
      BY <1>2
    <2> QED
      BY <1>1, <1>2, <2>1, <2>2, <2>3, CallInvStays
  <1>6. OverlapTold'
    BY <1>1, <1>2 DEF OverlapTold
  <1> QED
    BY <1>3, <1>4, <1>5, <1>6 DEF ExecInv

\* Every step keeps it.
LEMMA NextInv ==
    ASSUME ExecInv, [Next]_vars
    PROVE  ExecInv'
  <1>1. ASSUME NEW p \in Pids, Acts(p) \/ Die(p) PROVE ExecInv'
    BY <1>1, ActsKeep
  <1>2. ASSUME NEW a \in Agents, startExec(a) PROVE ExecInv'
    BY <1>2, startExecKeeps
  <1>3. ASSUME NEW a \in Agents, Start(a) PROVE ExecInv'
    BY <1>3, StartKeeps
  <1>4. ASSUME NEW a \in Agents, Wait(a) PROVE ExecInv'
    BY <1>4, WaitKeeps
  <1>5. ASSUME NEW a \in Agents, Joined(a) PROVE ExecInv'
    BY <1>5, JoinedKeeps
  <1>6. ASSUME NEW a \in Agents, OutputEnds(a) PROVE ExecInv'
    BY <1>6, OutputEndsKeeps
  <1>7. ASSUME NEW a \in Agents, OutputGivenUp(a) PROVE ExecInv'
    BY <1>7, OutputGivenUpKeeps
  <1>8. ASSUME NEW a \in Agents, Classify(a) PROVE ExecInv'
    BY <1>8, ClassifyKeeps
  <1>9. ASSUME NEW a \in Agents, SnapshotBegins(a) PROVE ExecInv'
    BY <1>9, SnapshotBeginsKeeps
  <1>10. ASSUME NEW a \in Agents, ReadStat(a) PROVE ExecInv'
    BY <1>10, ReadStatKeeps
  <1>11. ASSUME NEW a \in Agents, Term(a) PROVE ExecInv'
    BY <1>11, TermKeeps
  <1>12. ASSUME NEW a \in Agents, Kill(a) PROVE ExecInv'
    BY <1>12, KillKeeps
  <1>13. ASSUME NEW a \in Agents, Checked(a) PROVE ExecInv'
    BY <1>13, CheckedKeeps
  <1>14. ASSUME NEW a \in Agents, Deadline(a) PROVE ExecInv'
    BY <1>14, DeadlineKeeps
  <1>15. ASSUME NEW a \in Agents, Cancel(a) PROVE ExecInv'
    BY <1>15, CancelKeeps
  <1>16. ASSUME NEW a \in Agents, SnapshotFails(a) PROVE ExecInv'
    BY <1>16, SnapshotFailsKeeps
  <1>17. ASSUME NEW a \in Agents, CheckFails(a) PROVE ExecInv'
    BY <1>17, CheckFailsKeeps
  <1>18. ASSUME NEW a \in Agents, NEW k \in Calls[a], Execute(a, k) PROVE ExecInv'
    BY <1>18, ExecuteKeeps
  <1>19. CASE UNCHANGED vars
    BY SMTT(30), <1>19 DEF vars, ExecInv, TypeOK, Owners, CallInv, CallHolds, RowsOwned, Placed, Stopped,
       Told,
             OverlapTold, Own, Leaders, Holders, Pids, Alive, Executing, pidsOf
  <1> QED
    BY <1>1, <1>2, <1>3, <1>4, <1>5, <1>6, <1>7, <1>8, <1>9, <1>10, <1>11, <1>12, <1>13, <1>14,
       <1>15, <1>16, <1>17, <1>18, <1>19 DEF Next, Harness

\* The invariant holds of every number of agents, calls and processes.
THEOREM InvHolds == Spec => []ExecInv
  <1>1. Init => ExecInv
    BY InitInv
  <1>2. ExecInv /\ [Next]_vars => ExecInv'
    BY NextInv
  <1> QED
    BY <1>1, <1>2, PTL DEF Spec

\* The processes of a tree to be signalled, and the groups found in it.
LEMMA SignalledTree ==
    ASSUME ExecInv, NEW a \in Agents, ex[a].w \in {"reading", "grace"}
    PROVE  treePids(a) \subseteq Own(a) /\ groups(a) \subseteq Own(a)
  <1>1. PICK e \in CallType, o \in OutcomeType, m \in Nat, c \in BOOLEAN :
          /\ ex[a] = e /\ out[a] = o /\ made[a] = m /\ (c <=> a \in cancelled)
          /\ CallHolds(a, e, o, m, c)
          /\ out = [out EXCEPT ![a] = o] /\ made = [made EXCEPT ![a] = m]
          /\ TypeOK /\ Owners
    BY TheCall
  <1>2. RowsOwned(e) /\ e.leader \in Own(a)
    BY <1>1 DEF CallHolds, Placed
  <1>3. /\ pidsOf(e) \subseteq Own(a)
        /\ \A t \in descendants(e.leader, e.rows) : t.pgid # 0 => t.pgid \in Own(a)
    BY <1>2, TreeOwned
  <1> QED
    BY <1>1, <1>3 DEF treePids, groups, tree, pidsOf

\* Only three steps send signals, and they hit what is the agent's.
LEMMA HitsOwn ==
    ASSUME ExecInv, NEW a \in Agents, Term(a) \/ Kill(a) \/ OutputGivenUp(a)
    PROVE  hit' \ hit \subseteq Own(a)
  <1>1. TypeOK /\ Owners
    BY DEF ExecInv
  <1>2. CASE Term(a)
    BY <1>1, <1>2, SignalledTree, SignalOwn DEF Term
  <1>3. CASE Kill(a)
    BY <1>1, <1>3, SignalledTree, SignalOwn DEF Kill
  <1>4. CASE OutputGivenUp(a)
    <2>1. PICK none : none = {}
      OBVIOUS
    <2>2. PICK own : own = {ex[a].leader}
      OBVIOUS
    <2>3. Signal("KILL", none, own) /\ ex[a].pc = "output"
      BY <1>4, <2>1, <2>2 DEF OutputGivenUp
    <2>4. ex[a].leader \in Own(a)
      BY <2>3 DEF ExecInv, CallInv, CallHolds, Placed
    <2>5. none \subseteq Own(a) /\ own \subseteq Own(a)
      BY <2>1, <2>2, <2>4
    <2> QED
      BY <1>1, <2>3, <2>5, SignalOwn
  <1> QED
    BY <1>2, <1>3, <1>4

\* Every other step leaves the leaders alone but Start, which comes when the
\* commands before have ended as they should.
LEMMA LeadersStay ==
    ASSUME TypeOK, NEW b \in Agents, NEW a \in Agents,
           \/ Harness(b) /\ ~Start(b)
           \/ Deadline(b) \/ Cancel(b) \/ SnapshotFails(b) \/ CheckFails(b)
           \/ \E k \in Calls[b] : Execute(b, k)
    PROVE  ex'[a].leader \in {0, ex[a].leader} /\ (a # b => ex'[a] = ex[a])
  <1>1. ex \in [Agents -> CallType]
    BY DEF TypeOK
  <1>2. ASSUME NEW v, ex' = [ex EXCEPT ![b] = v], v.leader \in {0, ex[b].leader}
        PROVE  ex'[a].leader \in {0, ex[a].leader} /\ (a # b => ex'[a] = ex[a])
    BY <1>1, <1>2
  <1>3. PICK e \in CallType : ex[b] = e
    BY <1>1
  <1>4. CASE startExec(b)
    <2>1. PICK v : v = [e EXCEPT !.pc = "start", !.told = {d \in execs \ {b} : <<b, d>> \in Overlap}]
      OBVIOUS
    <2>2. v.leader = e.leader
      BY <2>1 DEF CallType
    <2>3. ex' = [ex EXCEPT ![b] = v]
      BY <1>1, <1>3, <1>4, <2>1 DEF startExec
    <2> QED
      BY <1>2, <1>3, <2>2, <2>3
  <1>5. CASE Wait(b)
    <2>1. PICK v : v = [e EXCEPT !.pc = "reaped"]
      OBVIOUS
    <2>2. v.leader = e.leader
      BY <2>1 DEF CallType
    <2>3. ex' = [ex EXCEPT ![b] = v]
      BY <1>1, <1>3, <1>5, <2>1 DEF Wait
    <2> QED
      BY <1>2, <1>3, <2>2, <2>3
  <1>6. CASE Joined(b)
    <2>1. PICK v : v = [e EXCEPT !.pc = "output", !.w = IF @ = "armed" THEN "off" ELSE @]
      OBVIOUS
    <2>2. v.leader = e.leader
      BY <2>1 DEF CallType
    <2>3. ex' = [ex EXCEPT ![b] = v]
      BY <1>1, <1>3, <1>6, <2>1 DEF Joined
    <2> QED
      BY <1>2, <1>3, <2>2, <2>3
  <1>7. CASE OutputEnds(b)
    <2>1. PICK v : v = [e EXCEPT !.pc = "classify"]
      OBVIOUS
    <2>2. v.leader = e.leader
      BY <2>1 DEF CallType
    <2>3. ex' = [ex EXCEPT ![b] = v]
      BY <1>1, <1>3, <1>7, <2>1 DEF OutputEnds
    <2> QED
      BY <1>2, <1>3, <2>2, <2>3
  <1>8. CASE OutputGivenUp(b)
    <2>1. PICK v : v = [e EXCEPT !.pc = "classify", !.incomplete = TRUE]
      OBVIOUS
    <2>2. v.leader = e.leader
      BY <2>1 DEF CallType
    <2>3. ex' = [ex EXCEPT ![b] = v]
      BY <1>1, <1>3, <1>8, <2>1 DEF OutputGivenUp
    <2> QED
      BY <1>2, <1>3, <2>2, <2>3
  <1>9. CASE SnapshotBegins(b)
    <2>1. PICK v : v = [e EXCEPT !.w = "reading", !.todo = {p \in Pids : Exists(p)}]
      OBVIOUS
    <2>2. v.leader = e.leader
      BY <2>1 DEF CallType
    <2>3. ex' = [ex EXCEPT ![b] = v]
      BY <1>1, <1>3, <1>9, <2>1 DEF SnapshotBegins
    <2> QED
      BY <1>2, <1>3, <2>2, <2>3
  <1>10. CASE Term(b)
    <2>1. PICK v : v = [e EXCEPT !.w = "grace"]
      OBVIOUS
    <2>2. v.leader = e.leader
      BY <2>1 DEF CallType
    <2>3. ex' = [ex EXCEPT ![b] = v]
      BY <1>1, <1>3, <1>10, <2>1 DEF Term
    <2> QED
      BY <1>2, <1>3, <2>2, <2>3
  <1>11. CASE Kill(b)
    <2>1. PICK v : v = [e EXCEPT !.w = "check"]
      OBVIOUS
    <2>2. v.leader = e.leader
      BY <2>1 DEF CallType
    <2>3. ex' = [ex EXCEPT ![b] = v]
      BY <1>1, <1>3, <1>11, <2>1 DEF Kill
    <2> QED
      BY <1>2, <1>3, <2>2, <2>3
  <1>12. CASE Checked(b)
    <2>1. PICK v : v = [e EXCEPT !.w = "done", !.alive = liveExecPIDs(b)]
      OBVIOUS
    <2>2. v.leader = e.leader
      BY <2>1 DEF CallType
    <2>3. ex' = [ex EXCEPT ![b] = v]
      BY <1>1, <1>3, <1>12, <2>1 DEF Checked
    <2> QED
      BY <1>2, <1>3, <2>2, <2>3
  <1>13. CASE Deadline(b)
    <2>1. PICK v : v = [e EXCEPT !.timed = TRUE]
      OBVIOUS
    <2>2. v.leader = e.leader
      BY <2>1 DEF CallType
    <2>3. ex' = [ex EXCEPT ![b] = v]
      BY <1>1, <1>3, <1>13, <2>1 DEF Deadline
    <2> QED
      BY <1>2, <1>3, <2>2, <2>3
  <1>14. CASE SnapshotFails(b)
    <2>1. PICK v : v = [e EXCEPT !.todo = {}, !.rows = {}, !.unverified = TRUE]
      OBVIOUS
    <2>2. v.leader = e.leader
      BY <2>1 DEF CallType
    <2>3. ex' = [ex EXCEPT ![b] = v]
      BY <1>1, <1>3, <1>14, <2>1 DEF SnapshotFails
    <2> QED
      BY <1>2, <1>3, <2>2, <2>3
  <1>15. CASE CheckFails(b)
    <2>1. PICK v : v = [e EXCEPT !.w = "done", !.unverified = TRUE, !.alive = {p \in treePids(b) : Exists(p)}]
      OBVIOUS
    <2>2. v.leader = e.leader
      BY <2>1 DEF CallType
    <2>3. ex' = [ex EXCEPT ![b] = v]
      BY <1>1, <1>3, <1>15, <2>1 DEF CheckFails
    <2> QED
      BY <1>2, <1>3, <2>2, <2>3
  <1>16. CASE ReadStat(b)
    <2>1. PICK x, y : ex' = [ex EXCEPT ![b].todo = x, ![b].rows = y]
      BY <1>16 DEF ReadStat
    <2>2. PICK v : v = [e EXCEPT !.todo = x, !.rows = y]
      OBVIOUS
    <2>3. v.leader = e.leader
      BY <2>2 DEF CallType
    <2>4. ex' = [ex EXCEPT ![b] = v]
      BY <1>1, <1>3, <2>1, <2>2
    <2> QED
      BY <1>2, <1>3, <2>3, <2>4
  <1>17. CASE Cancel(b)
    BY <1>17 DEF Cancel
  <1>18. CASE Classify(b)
    <2>1. CASE goesOn(b, outcome(b))
      <3>1. PICK v : v = [Idle EXCEPT !.pc = "register", !.call = e.call, !.step = e.step + 1,
                                     !.effect = outcome(b).effect]
        OBVIOUS
      <3>2. v.leader = 0
        BY <3>1 DEF Idle
      <3>3. ex' = [ex EXCEPT ![b] = v]
        BY <1>3, <1>18, <2>1, <3>1 DEF Classify
      <3> QED
        BY <1>2, <3>2, <3>3
    <2>2. CASE ~goesOn(b, outcome(b))
      <3>1. PICK v : v = [e EXCEPT !.pc = "idle"]
        OBVIOUS
      <3>2. v.leader = e.leader
        BY <3>1 DEF CallType
      <3>3. ex' = [ex EXCEPT ![b] = v]
        BY <1>1, <1>3, <1>18, <2>2, <3>1 DEF Classify
      <3> QED
        BY <1>2, <1>3, <3>2, <3>3
    <2> QED
      BY <2>1, <2>2
  <1>19. ASSUME NEW k \in Calls[b], Execute(b, k)
       PROVE  ex'[a].leader \in {0, ex[a].leader} /\ (a # b => ex'[a] = ex[a])
    <2>1. CASE refusal(k) # ""
      <3>1. ex' = [ex EXCEPT ![b] = Idle]
        BY <1>19, <2>1 DEF Execute
      <3> QED
        BY <1>2, <3>1, IdleFields
    <2>2. CASE refusal(k) = ""
      <3>1. PICK v : v = [Idle EXCEPT !.pc = "register", !.call = k, !.step = 1]
        OBVIOUS
      <3>2. v.leader = 0
        BY <3>1 DEF Idle
      <3>3. ex' = [ex EXCEPT ![b] = v]
        BY <1>19, <2>2, <3>1 DEF Execute
      <3> QED
        BY <1>2, <3>2, <3>3
    <2> QED
      BY <2>1, <2>2
  <1> QED
    BY <1>4, <1>5, <1>6, <1>7, <1>8, <1>9, <1>10, <1>11, <1>12, <1>13, <1>14, <1>15, <1>16,
       <1>17, <1>18, <1>19 DEF Harness

\* For every call, whatever the others and the processes do: once the tree of a
\* cancelled or timed out command has been terminated nothing of its group runs
\* on, and who of the tree is alive is named in the outcome, whose effect is
\* then unknown (terminateExecTree and its report).
THEOREM TreesAlwaysEnd == Spec => []TreesEnd
  <1>1. ExecInv => GroupEnds
    BY DEF ExecInv, CallInv, CallHolds, Stopped, GroupEnds
  <1>2. ExecInv => SurvivorsNamed
    <2> SUFFICES ASSUME ExecInv, NEW a \in Agents, Done(a), ex[a].w = "done"
                 PROVE  /\ {p \in treePids(a) : Alive(p)} \subseteq out[a].survivors
                        /\ out[a].survivors # {} => out[a].effect = "unknown"
      BY DEF SurvivorsNamed
    <2>1. Stopped(ex[a], out[a])
      BY DEF ExecInv, CallInv, CallHolds
    <2>2. treePids(a) = pidsOf(ex[a])
      BY DEF treePids, tree, pidsOf
    <2> QED
      BY <2>1, <2>2 DEF Stopped, Done
  <1>3. ExecInv => TreesEnd
    BY <1>1, <1>2 DEF TreesEnd
  <1> QED
    BY <1>3, InvHolds, PTL

\* The outcome of a call is never better than what happened: "none" only when
\* nothing was started, "applied" only when the harness ended nothing and all
\* output was read, "ok" only when every command ended with status 0 in time; and
\* one of two agents in overlapping workspaces is told of the other (execTool.run,
\* runChain and agentTree.startExec).
THEOREM OutcomesAreTrue == Spec => []OutcomesTrue
  <1>1. ExecInv => EffectTrue
    BY DEF ExecInv, CallInv, CallHolds, Told, EffectTrue, Done
  <1>2. ExecInv => OkMeansDone
    BY DEF ExecInv, CallInv, CallHolds, Told, OkMeansDone, Done
  <1>3. ExecInv => OutcomesTrue
    BY <1>1, <1>2 DEF OutcomesTrue, ExecInv
  <1> QED
    BY <1>3, InvHolds, PTL

\* A signal never reaches the harness or what another agent started, even if a
\* descendant has joined the harness' group or the rows read are stale, and a
\* chain starts its next command only after those before it ended well.
THEOREM OnlyOwnProcesses == Spec => OwnProcessesOnly
  <1>1. ASSUME ExecInv, Next
        PROVE  OnlyOwn /\ ChainStops
    <2> SUFFICES ASSUME NEW a \in Agents
                 PROVE  /\ ex'[a] # ex[a] => hit' \ hit \subseteq Own(a)
                        /\ ex'[a].leader \notin {0, ex[a].leader} /\ made[a] = 1 =>
                             /\ Own(a) \cap hit = {}
                             /\ \A p \in Leaders(a) : proc[p].status = "zero" /\ Holders(p) = {}
      BY DEF OnlyOwn, ChainStops
    <2>1. TypeOK
      BY <1>1 DEF ExecInv
    <2>2. ASSUME NEW p \in Pids, Acts(p) \/ Die(p)
          PROVE  ex' = ex
      BY <1>1, <2>2, ActsEvolve DEF ExecInv
    <2>3. ASSUME NEW b \in Agents,
                 \/ Harness(b) /\ ~Start(b)
                 \/ Deadline(b) \/ Cancel(b) \/ SnapshotFails(b) \/ CheckFails(b)
                 \/ \E k \in Calls[b] : Execute(b, k)
          PROVE  ex'[a].leader \in {0, ex[a].leader} /\ (ex'[a] # ex[a] => hit' \ hit \subseteq Own(a))
      <3>1. ex'[a].leader \in {0, ex[a].leader} /\ (a # b => ex'[a] = ex[a])
        BY <2>1, <2>3, LeadersStay
      <3>2. hit' = hit \/ Term(b) \/ Kill(b) \/ OutputGivenUp(b)
        BY <2>3 DEF Harness, startExec, Wait, Joined, OutputEnds, Classify, SnapshotBegins,
           ReadStat,
                    Checked, Deadline, Cancel, SnapshotFails, CheckFails, Execute
      <3>3. hit' \ hit \subseteq Own(b)
        BY <1>1, <3>2, HitsOwn
      <3> QED
        BY <3>1, <3>3
    <2>4. ASSUME NEW b \in Agents, Start(b)
          PROVE  /\ hit' = hit
                 /\ ex'[a].leader \notin {0, ex[a].leader} /\ made[a] = 1 =>
                      /\ Own(a) \cap hit = {}
                      /\ \A p \in Leaders(a) : proc[p].status = "zero" /\ Holders(p) = {}
      <3>1. hit' = hit /\ ex[b].pc = "start"
        BY <2>4 DEF Start
      <3>2. CASE a # b
        <4>1. ex'[a] = ex[a]
          BY <2>1, <2>4, <3>2 DEF Start, TypeOK
        <4> QED
          BY <3>1, <4>1
      <3>3. CASE a = b
        <4>1. /\ Placed(a, ex[a], a \in cancelled)
              /\ Told(a, ex[a], out[a], made[a], a \in cancelled)
          BY <1>1 DEF ExecInv, CallInv, CallHolds
        <4>2. ex[a].leader = 0 /\ ex[a].w = "off" /\ ~ex[a].incomplete /\ ex[a].pc # "idle"
          BY <3>1, <3>3, <4>1 DEF Placed
        <4>3. 0 \notin Leaders(a)
          BY DEF Leaders, Own, Pids
        <4> QED
          BY <3>1, <4>1, <4>2, <4>3 DEF Told
      <3> QED
        BY <3>2, <3>3
    <2> QED
      BY <1>1, <2>2, <2>3, <2>4 DEF Next, Harness
  <1>2. ExecInv /\ [Next]_vars => [OnlyOwn /\ ChainStops]_vars
    BY <1>1
  <1>3. Spec => [][Next]_vars
    BY DEF Spec
  <1> QED
    BY <1>2, <1>3, InvHolds, PTL DEF OwnProcessesOnly

=============================================================================
