--------------------------- MODULE CaseProcesses ---------------------------
(***************************************************************************)
(* The processes of one parity case: parity/processes.py and the part of   *)
(* parity/run.py (Context) that starts, waits for and kills a candidate.   *)
(*                                                                         *)
(* A process lifetime (a PID with its start time) is an element of Lives;  *)
(* PIDs are reused, for processes and for groups, of which the code only   *)
(* ever has the number.  A snapshot is not atomic: the PIDs are listed,    *)
(* then each process is read, and meanwhile processes fork and exit.  Two  *)
(* threads take snapshots, the main one and the monitor.                   *)
(***************************************************************************)
EXTENDS Integers, FiniteSets

CONSTANTS
    Lives,          \* process lifetimes
    Pids,           \* process ids, reused
    Foreign,        \* lifetimes that have nothing to do with the case
    Escapes,        \* whether a process may clear its environment and leave the case tree
    PidFds,         \* whether there are pidfds (Linux) or not (macOS)
    MaxInvocations  \* bound: candidates the case starts

Main == "main"
Monitor == "monitor"
Threads == {Main, Monitor}
Nobody == "nobody"
Init1 == "init"       \* the process that adopts orphans
Harness == "harness"  \* the parent of a candidate

ASSUME CaseProcessesAssumption ==
    /\ Foreign \subseteq Lives /\ {Nobody, Init1, Harness} \cap Lives = {} /\ Nobody \notin Pids
    /\ Escapes \in BOOLEAN /\ PidFds \in BOOLEAN
    /\ MaxInvocations \in Nat

VARIABLES
    proc,      \* per lifetime: [st, pid, parent, group, inside, pipe]; group is the group's founder
    snap,      \* per thread: what it is reading, [todo, table]
    owned,     \* CaseProcesses.owned
    leaks,     \* CaseProcesses.leaks
    monitor,   \* "off", "idle", "sampling", "ended", "failed"
    pc,        \* the main thread
    cand,      \* the candidate of the current invocation
    run,       \* the invocation: [count, timedOut, noted, error, result]
    close,     \* CaseProcesses.close: [error, verdict]
    pending,   \* cleanup's survivors
    \* history
    young,     \* forked since the main thread last listed the processes
    unnoted,   \* forked since the listing that looked for leaks
    struck,    \* signalled by cleanup, or with the candidate's group while there was one
    silent     \* outlived the candidate or the case, is signalled, is no leak and older than the listing

guard == <<owned, leaks>>
hist == <<young, unnoted, struck, silent>>
caseVars == <<proc, snap, owned, leaks, monitor, pc, cand, run, close, pending, young, unnoted, struck, silent>>

IsRunning(l) == proc[l].st = "running"
Exists(l) == proc[l].st \in {"running", "zombie"}
Unborn(l) == proc[l].st = "unborn"
AtPid(pid) == {l \in Lives : Exists(l) /\ proc[l].pid = pid}

(* getpgid: the number of a group is the PID that its founder had, and it  *)
(* is nobody's PID while the group has a process.                          *)
Pgid(l) == proc[proc[l].group].pid
FreePid(pid) == \A l \in Lives : Exists(l) => pid \notin {proc[l].pid, Pgid(l)}

Absent == [st |-> "unborn", pid |-> Nobody, parent |-> Nobody, group |-> Nobody,
           inside |-> FALSE, pipe |-> FALSE]
NoSnapshot == [todo |-> {}, table |-> {}]

-----------------------------------------------------------------------------
(* What the operating system and the processes do.                         *)

(* A process ends: its children are adopted, a zombie stays for a parent   *)
(* that has not waited for it.                                             *)
Ended(ps, dying) ==
    [l \in Lives |->
        IF l \in dying
        THEN [ps[l] EXCEPT !.st = IF ps[l].parent = Init1 \/ ps[l].parent \in dying THEN "gone" ELSE "zombie",
                           !.pipe = FALSE]
        ELSE IF ps[l].parent \in dying
        THEN [ps[l] EXCEPT !.parent = Init1, !.st = IF @ = "zombie" THEN "gone" ELSE @]
        ELSE ps[l]]

(* A child inherits the environment and the working directory, that is     *)
(* inside; it may leave the process group, close the pipes, and escape.    *)
Fork(p, q) ==
    /\ IsRunning(p) /\ Unborn(q)
    /\ (p \in Foreign) <=> (q \in Foreign)
    /\ \E pid \in Pids, detach, keeps, stays \in BOOLEAN :
         /\ FreePid(pid) /\ (stays \/ Escapes)
         /\ proc' = [proc EXCEPT ![q] =
                [st |-> "running", pid |-> pid, parent |-> p,
                 group |-> IF detach THEN q ELSE proc[p].group,
                 inside |-> stays /\ proc[p].inside, pipe |-> keeps /\ proc[p].pipe]]
    /\ young' = young \cup {q} /\ unnoted' = unnoted \cup {q}
    /\ UNCHANGED <<snap, guard, monitor, pc, cand, run, close, pending, struck, silent>>

(* Something else on the machine starts.                                   *)
ForeignStarts(q) ==
    /\ Unborn(q) /\ q \in Foreign
    /\ \E pid \in Pids :
         /\ FreePid(pid)
         /\ proc' = [proc EXCEPT ![q] = [Absent EXCEPT !.st = "running", !.pid = pid, !.parent = Init1, !.group = q]]
    /\ UNCHANGED <<snap, guard, monitor, pc, cand, run, close, pending, hist>>

Exit(p) ==
    /\ IsRunning(p)
    /\ proc' = Ended(proc, {p})
    /\ UNCHANGED <<snap, guard, monitor, pc, cand, run, close, pending, hist>>

Waited(p) ==
    /\ proc[p].st = "zombie" /\ proc[p].parent # Harness
    /\ proc' = [proc EXCEPT ![p].st = "gone"]
    /\ UNCHANGED <<snap, guard, monitor, pc, cand, run, close, pending, hist>>

-----------------------------------------------------------------------------
(* Discovery.                                                              *)

(* snapshot(): the PIDs are listed first ...                               *)
Listed == {proc[l].pid : l \in {x \in Lives : Exists(x)}}

(* ... and then read one by one; process_info is None for one that is gone. *)
ReadProcess(t) ==
    \E pid \in snap[t].todo :
        /\ snap' = [snap EXCEPT ![t] =
               [todo |-> @.todo \ {pid},
                table |-> @.table \cup {[life |-> l, pid |-> pid, zombie |-> ~IsRunning(l), inside |-> proc[l].inside,
                                         ppid |-> IF proc[l].parent \in Lives THEN proc[proc[l].parent].pid ELSE Nobody]
                                        : l \in AtPid(pid)}]]
        /\ UNCHANGED <<proc, guard, monitor, pc, cand, run, close, pending, hist>>

(* discover: what lives and is inside the case tree, and then all whose    *)
(* parent in the table is owned, until nothing changes.                    *)
Alive(table) == {r \in table : ~r.zombie}

Claimed(table, known) ==
    LET direct == known \cup {r.life : r \in {x \in Alive(table) : x.inside}}
        Closed(mine) == \A r \in Alive(table), q \in table : q.pid = r.ppid /\ q.life \in mine => r.life \in mine
    IN {l \in Lives : \A mine \in SUBSET Lives : direct \subseteq mine /\ Closed(mine) => l \in mine}

Found(table, mine) == {r \in Alive(table) : r.life \in mine}

Ready(t) == snap[t].todo = {}

Begin(t) == snap' = [snap EXCEPT ![t] = [todo |-> Listed, table |-> {}]]
End(t) == snap' = [snap EXCEPT ![t] = NoSnapshot]

-----------------------------------------------------------------------------
(* The monitor thread.                                                     *)

MonitorLists ==
    /\ monitor = "idle" /\ pc \notin {"stopping", "closed"}
    /\ monitor' = "sampling"
    /\ Begin(Monitor)
    /\ UNCHANGED <<proc, guard, pc, cand, run, close, pending, hist>>

MonitorDiscovers ==
    /\ monitor = "sampling" /\ Ready(Monitor)
    /\ owned' = Claimed(snap[Monitor].table, owned)
    /\ monitor' = "idle"
    /\ End(Monitor)
    /\ UNCHANGED <<proc, leaks, pc, cand, run, close, pending, hist>>

MonitorFails ==
    /\ monitor = "sampling"
    /\ monitor' = "failed"
    /\ End(Monitor)
    /\ UNCHANGED <<proc, guard, pc, cand, run, close, pending, hist>>

-----------------------------------------------------------------------------
(* Context.invoke.                                                         *)

(* Popen with a session of its own, then register: the candidate, which    *)
(* nobody has waited for yet, is owned, and the monitor starts.            *)
StartCandidate(q) ==
    /\ pc = "case" /\ run.count < MaxInvocations
    /\ Unborn(q) /\ q \notin Foreign
    /\ \E pid \in Pids :
         /\ FreePid(pid)
         /\ proc' = [proc EXCEPT ![q] = [st |-> "running", pid |-> pid, parent |-> Harness, group |-> q,
                                         inside |-> TRUE, pipe |-> TRUE]]
    /\ owned' = owned \cup {q}
    /\ monitor' = IF monitor = "off" THEN "idle" ELSE monitor
    /\ cand' = q
    /\ run' = [count |-> run.count + 1, timedOut |-> FALSE, noted |-> FALSE, error |-> FALSE, result |-> "none"]
    /\ pc' = "waiting"
    /\ young' = young \cup {q} /\ unnoted' = unnoted \cup {q}
    /\ UNCHANGED <<snap, leaks, close, pending, struck, silent>>

(* process.wait(timeout) returns, or gives up.                             *)
WaitReturns ==
    /\ pc = "waiting" /\ proc[cand].st = "zombie"
    /\ proc' = [proc EXCEPT ![cand].st = "gone"]
    /\ pc' = "polling"
    /\ UNCHANGED <<snap, guard, monitor, cand, run, close, pending, hist>>

WaitTimesOut ==
    /\ pc = "waiting" /\ IsRunning(cand)
    /\ run' = [run EXCEPT !.timedOut = TRUE]
    /\ pc' = "polling"
    /\ UNCHANGED <<proc, snap, guard, monitor, cand, close, pending, hist>>

(* _terminate: if poll() is not None, look for what is left of the group.  *)
Poll ==
    /\ pc = "polling"
    /\ IF IsRunning(cand)
       THEN /\ pc' = "terminate"
            /\ UNCHANGED <<proc, snap, run, young, unnoted>>
       ELSE /\ proc' = [proc EXCEPT ![cand].st = "gone"]
            /\ run' = [run EXCEPT !.noted = TRUE]
            /\ Begin(Main)
            /\ young' = {} /\ unnoted' = {}
            /\ pc' = "groupleaks"
    /\ UNCHANGED <<guard, monitor, cand, close, pending, struck, silent>>

(* process.pid, which stays what it was when the candidate is gone.        *)
Number == proc[cand].pid

\* faulty: the group is looked through and nothing is kept
ForgetGroupLeaks ==
    /\ pc = "groupleaks" /\ Ready(Main)
    /\ owned' = Claimed(snap[Main].table, owned)
    /\ End(Main)
    /\ pc' = "terminate"
    /\ UNCHANGED <<proc, leaks, monitor, cand, run, close, pending, hist>>

(* note_leaks(group): of what it found, what getpgid says is in the group. *)
NoteGroupLeaks ==
    /\ pc = "groupleaks" /\ Ready(Main)
    /\ owned' = Claimed(snap[Main].table, owned)
    /\ leaks' = leaks \cup {r.life : r \in {x \in Found(snap[Main].table, owned') :
                                \E l \in AtPid(x.pid) : Pgid(l) = Number}}
    /\ End(Main)
    /\ pc' = "terminate"
    /\ UNCHANGED <<proc, monitor, cand, run, close, pending, hist>>

(* killpg: whatever runs in the group that has the number now.             *)
Group(n) == {l \in Lives : IsRunning(l) /\ Pgid(l) = n}
HasGroup == \E l \in Lives : Exists(l) /\ proc[l].group = cand

Strikes(hit, theirs, outlived) ==
    /\ struck' = struck \cup (IF theirs THEN hit ELSE {})
    /\ silent' = silent \cup (IF outlived THEN hit \ (leaks \cup unnoted \cup Foreign) ELSE {})

(* killpg(SIGTERM): nobody has to die of it.                               *)
TermGroup ==
    /\ pc = "terminate"
    /\ Strikes(Group(Number), HasGroup, run.noted)
    /\ pc' = "terminating"
    /\ UNCHANGED <<proc, snap, guard, monitor, cand, run, close, pending, young, unnoted>>

(* The candidate has a second: it is waited for, or it still runs.         *)
WaitAgain ==
    /\ pc = "terminating"
    /\ proc' = IF IsRunning(cand) THEN proc ELSE [proc EXCEPT ![cand].st = "gone"]
    /\ pc' = "killing"
    /\ UNCHANGED <<snap, guard, monitor, cand, run, close, pending, hist>>

(* killpg(SIGKILL), and the candidate is waited for.                       *)
KillGroup ==
    /\ pc = "killing"
    /\ LET dead == Ended(proc, Group(Number))
       IN proc' = [dead EXCEPT ![cand].st = "gone"]
    /\ Strikes(Group(Number), HasGroup, run.noted)
    /\ pc' = "joining"
    /\ UNCHANGED <<snap, guard, monitor, cand, run, close, pending, young, unnoted>>

(* The threads beside it signal the group by its number too, and fail the  *)
(* invocation, each once and here as often as they like: a reader that has *)
(* read more than is kept ...                                              *)
Invoking == {"waiting", "polling", "groupleaks", "terminate", "terminating", "killing", "joining"}

Overflows ==
    /\ pc \in Invoking
    /\ proc' = Ended(proc, Group(Number))
    /\ Strikes(Group(Number), HasGroup, FALSE)
    /\ run' = [run EXCEPT !.error = TRUE]
    /\ UNCHANGED <<snap, guard, monitor, pc, cand, close, pending, young, unnoted>>

(* ... and a controller that raises, with SIGTERM.                         *)
ControllerRaises ==
    /\ pc \in Invoking
    /\ Strikes(Group(Number), HasGroup, FALSE)
    /\ run' = [run EXCEPT !.error = TRUE]
    /\ UNCHANGED <<proc, snap, guard, monitor, pc, cand, close, pending, young, unnoted>>

(* The readers are joined for two seconds: a pipe that is still held fails *)
(* the invocation, as do what a helper met, an output that cannot be       *)
(* written or collected and a controller that does not finish.  Only then  *)
(* comes the timeout.                                                      *)
PipeHeld == \E l \in Lives : IsRunning(l) /\ proc[l].pipe

InvocationReturns ==
    /\ pc = "joining"
    /\ \E other \in BOOLEAN :
          run' = [run EXCEPT !.error = FALSE,
                             !.result = IF run.error \/ PipeHeld \/ other THEN "failed"
                                        ELSE IF run.timedOut THEN "timed out" ELSE "completed"]
    /\ proc' = [l \in Lives |-> [proc[l] EXCEPT !.pipe = FALSE]]
    /\ pc' = "case"
    /\ UNCHANGED <<snap, guard, monitor, cand, close, pending, hist>>

-----------------------------------------------------------------------------
(* CaseProcesses.close.                                                    *)

StopMonitor ==
    /\ pc = "case"
    /\ pc' = "stopping"
    /\ UNCHANGED <<proc, snap, guard, monitor, cand, run, close, pending, hist>>

(* The thread is joined, and note_leaks lists.                             *)
MonitorJoined ==
    /\ pc = "stopping" /\ monitor # "sampling"
    /\ monitor' = IF monitor = "failed" THEN "failed" ELSE "ended"
    /\ Begin(Main)
    /\ young' = {} /\ unnoted' = {}
    /\ pc' = "noting"
    /\ UNCHANGED <<proc, guard, cand, run, close, pending, struck, silent>>

(* A thread that is still reading after six seconds: close gives up at     *)
(* once, nothing is noted or cleaned up.                                   *)
MonitorStuck ==
    /\ pc = "stopping" /\ monitor = "sampling"
    /\ close' = [error |-> TRUE, verdict |-> "failed"]
    /\ pc' = "closed"
    /\ UNCHANGED <<proc, snap, guard, monitor, cand, run, pending, hist>>

NoteLeaks ==
    /\ pc = "noting" /\ Ready(Main)
    /\ owned' = Claimed(snap[Main].table, owned)
    /\ leaks' = leaks \cup {r.life : r \in Found(snap[Main].table, owned')}
    /\ Begin(Main)
    /\ young' = {}
    /\ pc' = "finding"
    /\ UNCHANGED <<proc, monitor, cand, run, close, pending, unnoted, struck, silent>>

(* A snapshot that fails: cleanup is tried all the same, then it is raised. *)
NoteLeaksFails ==
    /\ pc = "noting"
    /\ close' = [close EXCEPT !.error = TRUE]
    /\ Begin(Main)
    /\ young' = {}
    /\ pc' = "finding"
    /\ UNCHANGED <<proc, guard, monitor, cand, run, pending, unnoted, struck, silent>>

(* cleanup: discover.  When nothing is pending it is done.                 *)
FindSurvivors ==
    /\ pc = "finding" /\ Ready(Main)
    /\ owned' = Claimed(snap[Main].table, owned)
    /\ pending' = Found(snap[Main].table, owned')
    /\ End(Main)
    /\ pc' = IF pending' = {} THEN "judge" ELSE "signal"
    /\ UNCHANGED <<proc, leaks, monitor, cand, run, close, hist>>

(* _signal, for each pending process: the PID must still be of the same    *)
(* lifetime and no zombie ...                                              *)
SignalledByPid(r) == {l \in AtPid(r.pid) : IsRunning(l)}

Signalled(r) == {l \in AtPid(r.pid) : l = r.life /\ IsRunning(l)}

Verify ==
    /\ pc = "signal"
    /\ pending' = {r \in pending : Signalled(r) # {}}
    /\ pc' = "verified"
    /\ UNCHANGED <<proc, snap, guard, monitor, cand, run, close, hist>>

(* ... then a pidfd is opened and the lifetime read again before it is     *)
(* used, while without pidfds the PID is signalled, whoever has it now.    *)
(* SIGTERM the first time, then SIGKILL.                                   *)
Reached(r) == IF PidFds THEN Signalled(r) ELSE SignalledByPid(r)

SignalSurvivors ==
    /\ pc = "verified"
    /\ LET hit == UNION {Reached(r) : r \in pending}
       IN /\ proc' = Ended(proc, hit)
          /\ Strikes(hit, TRUE, TRUE)
    /\ pc' = "again"
    /\ UNCHANGED <<snap, guard, monitor, cand, run, close, pending, young, unnoted>>

FindAgain ==
    /\ pc = "again"
    /\ Begin(Main)
    /\ young' = {}
    /\ pc' = "finding"
    /\ UNCHANGED <<proc, guard, monitor, cand, run, close, pending, unnoted, struck, silent>>

(* Two seconds are over with something pending.                            *)
CleanupFails ==
    /\ pc = "again"
    /\ close' = [error |-> TRUE, verdict |-> "failed"]
    /\ pc' = "closed"
    /\ UNCHANGED <<proc, snap, guard, monitor, cand, run, pending, hist>>

(* An error is raised; else checked is set, and leaks are an AssertionError. *)
(* The result's leak_check is "clean" when checked and there is no leak.   *)
Judge ==
    /\ pc = "judge"
    /\ close' = [close EXCEPT !.verdict =
           IF close.error \/ monitor = "failed" \/ leaks # {} THEN "failed" ELSE "clean"]
    /\ pc' = "closed"
    /\ UNCHANGED <<proc, snap, guard, monitor, cand, run, pending, hist>>

-----------------------------------------------------------------------------
CaseInit ==
    /\ proc = [l \in Lives |-> Absent]
    /\ snap = [t \in Threads |-> NoSnapshot]
    /\ owned = {} /\ leaks = {}
    /\ monitor = "off"
    /\ pc = "case"
    /\ cand = Nobody
    /\ run = [count |-> 0, timedOut |-> FALSE, noted |-> FALSE, error |-> FALSE, result |-> "none"]
    /\ close = [error |-> FALSE, verdict |-> "none"]
    /\ pending = {}
    /\ young = {} /\ unnoted = {} /\ struck = {} /\ silent = {}

Environment ==
    \/ \E p, q \in Lives : Fork(p, q)
    \/ \E q \in Lives : ForeignStarts(q)
    \/ \E p \in Lives : Exit(p) \/ Waited(p)

MonitorThread == MonitorLists \/ MonitorDiscovers \/ MonitorFails \/ (monitor = "sampling" /\ ReadProcess(Monitor))

Invocation ==
    \/ \E q \in Lives : StartCandidate(q)
    \/ WaitReturns \/ WaitTimesOut \/ Poll \/ NoteGroupLeaks \/ TermGroup \/ WaitAgain \/ KillGroup
    \/ InvocationReturns

HelperThreads == Overflows \/ ControllerRaises

ClosesGuard ==
    \/ StopMonitor \/ MonitorJoined \/ MonitorStuck \/ NoteLeaks \/ NoteLeaksFails
    \/ FindSurvivors \/ Verify \/ SignalSurvivors \/ FindAgain \/ CleanupFails \/ Judge

MainThread == Invocation \/ ClosesGuard \/ ReadProcess(Main)

CaseNext == Environment \/ MonitorThread \/ HelperThreads \/ MainThread

(* The two threads run; nobody makes a process exit, and a candidate that  *)
(* does not is timed out.                                                  *)
MonitorGoesOn == MonitorDiscovers \/ (monitor = "sampling" /\ ReadProcess(Monitor))

Fairness == WF_caseVars(MainThread) /\ WF_caseVars(MonitorGoesOn)

CaseSpec == CaseInit /\ [][CaseNext]_caseVars /\ Fairness

-----------------------------------------------------------------------------
Places == Invoking \cup {"case", "stopping", "noting", "finding", "signal", "verified", "again", "judge", "closed"}
Reading == [life : Lives, pid : Pids, zombie : BOOLEAN, inside : BOOLEAN, ppid : Pids \cup {Nobody}]

Process == [st : {"unborn", "running", "zombie", "gone"}, pid : Pids \cup {Nobody},
            parent : Lives \cup {Nobody, Init1, Harness}, group : Lives \cup {Nobody},
            inside : BOOLEAN, pipe : BOOLEAN]

CaseTypeOK ==
    /\ proc \in [Lives -> Process]
    /\ snap \in [Threads -> [todo : SUBSET Pids, table : SUBSET Reading]]
    /\ owned \subseteq Lives /\ leaks \subseteq Lives
    /\ monitor \in {"off", "idle", "sampling", "ended", "failed"}
    /\ pc \in Places
    /\ cand \in Lives \cup {Nobody}
    /\ run \in [count : 0..MaxInvocations, timedOut : BOOLEAN, noted : BOOLEAN, error : BOOLEAN,
                result : {"none", "completed", "timed out", "failed"}]
    /\ close \in [error : BOOLEAN, verdict : {"none", "clean", "failed"}]
    /\ pending \subseteq Reading
    /\ young \subseteq Lives /\ unnoted \subseteq Lives
    /\ struck \subseteq Lives /\ silent \subseteq Lives

(* PIDs are reused while signals are on their way.  Where there are pidfds *)
(* cleanup signals what is not the case's own only if it was claimed       *)
(* before; and a signal to the candidate's group, by its number, hits the  *)
(* case's own alone as long as the candidate was not waited for or a       *)
(* process of its group exists.  (Nothing is said of a signal that is sent *)
(* by the number when the group is no more: it may hit anybody.)           *)
SignalsOnlyClaimed == PidFds => struck \cap Foreign \subseteq owned

(* discover claims nothing of "other cases".                               *)
ClaimsNoOther == owned \cap Foreign = {}

(* What outlives the candidate or the case and is signalled by _terminate  *)
(* or cleanup has been reported as a leak, unless it was forked after the  *)
(* listing that looked for leaks had begun, that listing failed, or it     *)
(* could hide.                                                             *)
KilledIsReported == Escapes \/ close.error \/ silent = {}

(* When the guard has closed without an error, no process inside the case  *)
(* tree runs, but those forked after the last listing had begun.           *)
SurvivorsAreYoung ==
    (pc = "closed" /\ ~close.error) =>
        \A l \in Lives \ Foreign : (IsRunning(l) /\ proc[l].inside) => l \in young

(* An invocation that completes has read its output to the end: nothing of *)
(* the candidate's group runs or will write to the pipes.                  *)
CompletedIsWhole ==
    (pc = "case" /\ run.result = "completed") =>
        \A l \in Lives : IsRunning(l) => proc[l].group # cand

(* What outlives its candidate or the case is ended and reported, and what *)
(* completes was read whole (Context.invoke, CaseProcesses.close).         *)
CaseIsWatched == CaseTypeOK /\ KilledIsReported /\ SurvivorsAreYoung /\ CompletedIsWhole

=============================================================================
