------------------------------- MODULE Lanes -------------------------------
(***************************************************************************)
(* The evidence of the parity suite, parity/run.py: what a case leaves     *)
(* behind is collected within a budget, observed and, when it replays,     *)
(* frozen; frozen cases make a lane, and a lane may be repacked, extended  *)
(* by new cases or revised by a newer observer, each time into a new lane. *)
(* Runs and jobs can be killed at any step, the observer and the list of   *)
(* cases are edited, files of a published lane are damaged.  All files of  *)
(* one kind are one artifact, digests are the bytes themselves, and a      *)
(* platform has one reference.                                             *)
(***************************************************************************)
EXTENDS Naturals, FiniteSets

CONSTANTS
    Cases, Lanes, Jobs,
    Raws,        \* what a run may leave behind
    OverBudget,  \* those that exceed RAW_FILE_LIMIT or RAW_CASE_LIMIT
    Observers,   \* versions of the observer
    Normal,      \* [Observers -> [Raws -> Norms]]: what they make of it
    Norms,
    Compressed,  \* data that is stored as gzip
    MaxEdits,    \* bound: changes of the observer and of the cases
    MaxDamage,   \* bound: damaged files
    Prefix, Junk, None

ASSUME LanesAssumption ==
    /\ OverBudget \subseteq Raws
    /\ Normal \in [Observers -> [Raws \cup {Prefix} -> Norms]]
    /\ Compressed \subseteq Raws \cup Norms
    /\ {MaxEdits, MaxDamage} \subseteq Nat
    /\ {Prefix, Junk, None} \cap (Raws \cup Norms) = {} /\ None \notin Lanes

VARIABLES
    observer, declared,
    capture,   \* [Cases -> None or [raw, stage, norm]]: the artifact directories
    lane,      \* the lanes that exist: [inventory, cases]
    job,       \* [Jobs -> None or a job]
    truth,     \* history: of each, the [raw, norm] of its cases as published
    origin,    \* history: of each, [source, revised]
    edits, damage

laneVars == <<observer, declared, capture, lane, job, truth, origin, edits, damage>>

Metadata == {"absent", "v1", "v2"}
Put(f, x, y) == [z \in DOMAIN f \cup {x} |-> IF z = x THEN y ELSE f[z]]
Implemented(inventory) == {c \in Cases : inventory[c] # "absent"}

-----------------------------------------------------------------------------
(* One frozen case: files on the disk, by kind and codec, and the          *)
(* descriptor of the documents in metadata.json; the documents describe    *)
(* the other two kinds in the last row of the ledger.                      *)

Codec(data, gzip) == IF gzip /\ data \in Compressed THEN "gzip" ELSE "identity"

(* freeze_evidence and the body of freeze_case; gzip is FALSE only for     *)
(* lanes older than the compression.                                       *)
Frozen(raw, norm, gzip) ==
    LET rc == Codec(raw, gzip)
        nc == Codec(norm, gzip)
        docs == [replay |-> raw, ledger |-> norm,
                 raw |-> [codec |-> rc, hash |-> raw], normalized |-> [codec |-> nc, hash |-> norm]]
    IN [disk  |-> [p \in {<<"raw", rc>>, <<"normalized", nc>>, <<"documents", "identity">>} |->
                     IF p[1] = "raw" THEN raw ELSE IF p[1] = "normalized" THEN norm ELSE docs],
        index |-> [codec |-> "identity", hash |-> docs]]

Stored(f, kind) == {path \in DOMAIN f.disk : path[1] = kind}

(* load_evidence with evidence_files: what is declared is there with its   *)
(* bytes, and nothing else is.                                             *)
Loadable(f, kind, desc) ==
    /\ Stored(f, kind) = {<<kind, desc.codec>>}
    /\ f.disk[<<kind, desc.codec>>] = desc.hash

(* read_metadata and read_frozen_case.                                     *)
Readable(f) ==
    /\ Loadable(f, "documents", f.index)
    /\ LET docs == f.disk[<<"documents", f.index.codec>>] IN
       /\ docs # Junk
       /\ Loadable(f, "raw", docs.raw)
       /\ Loadable(f, "normalized", docs.normalized)

Evidence(f) ==
    LET docs == f.disk[<<"documents", f.index.codec>>] IN
    [raw |-> f.disk[<<"raw", docs.raw.codec>>],
     norm |-> f.disk[<<"normalized", docs.normalized.codec>>]]

(* replay_case: the present observer, run on raw bytes.                    *)
Observation(raw) == Normal[observer][raw]

(* validate_replay: it gives the same normalized bytes, policies and       *)
(* ledger again.                                                           *)
Replays(raw, norm) == Observation(raw) = norm

(* read_lane_inventory: the directories are the implemented cases.         *)
WholeLane(ln) == DOMAIN ln.cases = Implemented(ln.inventory)

-----------------------------------------------------------------------------
(* Running a case (the part of _run_case that handles its evidence).       *)

StartCase(c, raw) ==
    /\ capture[c] = None
    /\ capture' = [capture EXCEPT ![c] = [raw |-> raw, stage |-> "ran", norm |-> None]]
    /\ UNCHANGED <<observer, declared, lane, job, truth, origin, edits, damage>>

\* faulty: what does not fit is cut off, and that is all
CollectBounded(c) ==
    /\ capture[c] # None /\ capture[c].stage = "ran"
    /\ capture' = [capture EXCEPT ![c].stage = "collected",
                                  ![c].raw = IF @ \in OverBudget THEN Prefix ELSE @]
    /\ UNCHANGED <<observer, declared, lane, job, truth, origin, edits, damage>>
(* Context.collect: files beyond the budget are truncated first.           *)
Collect(c) ==
    /\ capture[c] # None /\ capture[c].stage = "ran"
    /\ capture' = [capture EXCEPT
          ![c].stage = IF capture[c].raw \in OverBudget THEN "truncated" ELSE "collected",
          ![c].raw = IF @ \in OverBudget THEN Prefix ELSE @]
    /\ UNCHANGED <<observer, declared, lane, job, truth, origin, edits, damage>>

(* ... then raw-overflow.json says so, and the case fails.                 *)
Overflow(c) ==
    /\ capture[c] # None /\ capture[c].stage = "truncated"
    /\ capture' = [capture EXCEPT ![c].stage = "failed"]
    /\ UNCHANGED <<observer, declared, lane, job, truth, origin, edits, damage>>

(* observe.finish, account_raw, validate_replay, and the documents.  A     *)
(* case that fails for another reason leaves failure.txt.                  *)
Observe(c) ==
    /\ capture[c] # None /\ capture[c].stage = "collected"
    /\ capture' = [capture EXCEPT ![c].stage = "passed", ![c].norm = Observation(capture[c].raw)]
    /\ UNCHANGED <<observer, declared, lane, job, truth, origin, edits, damage>>

FailCase(c) ==
    /\ capture[c] # None /\ capture[c].stage \in {"ran", "collected"}
    /\ capture' = [capture EXCEPT ![c].stage = "failed"]
    /\ UNCHANGED <<observer, declared, lane, job, truth, origin, edits, damage>>

(* A directory for artifacts must be empty: the next run uses another.     *)
Discard(c) ==
    /\ capture[c] # None
    /\ \A j \in Jobs : job[j] = None
    /\ capture' = [capture EXCEPT ![c] = None]
    /\ UNCHANGED <<observer, declared, lane, job, truth, origin, edits, damage>>

Passed(c) == capture[c] # None /\ capture[c].stage = "passed"

(* account_raw: failure.txt and raw-overflow.json are no evidence.         *)
Accounted(c) == capture[c].stage # "failed"

(* load_capture of a retained directory, or the result in memory; then     *)
(* freeze_case, which replays what is in the directory.                    *)
Freezable(c) == Passed(c) /\ Accounted(c) /\ Replays(capture[c].raw, capture[c].norm)

-----------------------------------------------------------------------------
(* Jobs that make a lane.  They build it in a temporary directory next to  *)
(* the destination, case by case, and rename that.                         *)

Job(op, source, dest, inventory, todo, revised) ==
    [op |-> op, source |-> source, dest |-> dest, inventory |-> inventory,
     todo |-> todo, revised |-> revised, built |-> [c \in {} |-> None]]

Begin(j, jb) ==
    /\ job[j] = None
    /\ job' = [job EXCEPT ![j] = jb]
    /\ UNCHANGED <<observer, declared, capture, lane, truth, origin, edits, damage>>

(* freeze_lane: every result that passed.                                  *)
FreezeLane(j, dest) ==
    /\ \A c \in Implemented(declared) : capture[c] # None /\ capture[c].stage \in {"passed", "failed"}
    /\ Begin(j, Job("freeze", None, dest, declared,
                    {<<"freeze", c>> : c \in {x \in Implemented(declared) : Passed(x)}}, {}))

Repacks(source) == {<<"repack", c>> : c \in Implemented(lane[source].inventory)}

(* Common checks: a whole source lane, a destination that does not exist.  *)
Source(source, dest) == source \in DOMAIN lane /\ WholeLane(lane[source]) /\ dest \notin DOMAIN lane

RepackLane(j, source, dest) ==
    /\ Source(source, dest)
    /\ Begin(j, Job("repack", source, dest, lane[source].inventory, Repacks(source), {}))

(* extend_capture: nothing old may differ, everything new must have passed. *)
ExtendCapture(j, source, dest) ==
    /\ Source(source, dest)
    /\ LET old == lane[source].inventory
           additions == Implemented(declared) \ Implemented(old)
       IN /\ additions # {}
          /\ \A c \in Implemented(old) : declared[c] = old[c]
          /\ \A c \in additions : Passed(c)
          /\ Begin(j, Job("extend", source, dest, declared,
                          Repacks(source) \cup {<<"freeze", c>> : c \in additions}, {}))

(* revise_normalization of some cases of the current inventory.            *)
ReviseNormalization(j, source, dest, ids) ==
    /\ Source(source, dest) /\ lane[source].inventory = declared
    /\ ids # {} /\ ids \subseteq Implemented(declared)
    /\ Begin(j, Job("revise", source, dest, declared,
                    Repacks(source) \cup {<<"revise", c>> : c \in ids}, ids))

Works(j, t, built) ==
    /\ job' = [job EXCEPT ![j].todo = @ \ {t}, ![j].built = built]
    /\ UNCHANGED <<observer, declared, capture, lane, truth, origin, edits, damage>>

Fail(j) ==
    /\ job' = [job EXCEPT ![j] = None]
    /\ UNCHANGED <<observer, declared, capture, lane, truth, origin, edits, damage>>

(* repack_lane for one case: read, stored anew, read back.                 *)
RepackCase(j, c) ==
    /\ job[j] # None /\ <<"repack", c>> \in job[j].todo
    /\ LET f == lane[job[j].source].cases[c] IN
       IF Readable(f)
       THEN Works(j, <<"repack", c>>, Put(job[j].built, c, Frozen(Evidence(f).raw, Evidence(f).norm, TRUE)))
       ELSE Fail(j)

(* freeze_case of a captured case.                                         *)
FreezeCase(j, c) ==
    /\ job[j] # None /\ <<"freeze", c>> \in job[j].todo
    /\ \A t \in job[j].todo : t[1] = "freeze"
    /\ IF Freezable(c)
       THEN Works(j, <<"freeze", c>>, Put(job[j].built, c, Frozen(capture[c].raw, capture[c].norm, TRUE)))
       ELSE Fail(j)

(* revise_normalization for one case: the raw bytes of the source, the     *)
(* present observer; the kept artifacts and the accounting must not differ *)
(* (here: the observer still makes something of it).                       *)
ReviseCase(j, c) ==
    /\ job[j] # None /\ <<"revise", c>> \in job[j].todo
    /\ \A t \in job[j].todo : t[1] = "revise"
    /\ LET f == lane[job[j].source].cases[c] IN
       IF Readable(f)
       THEN Works(j, <<"revise", c>>,
                  Put(job[j].built, c, Frozen(Evidence(f).raw, Observation(Evidence(f).raw), TRUE)))
       ELSE Fail(j)

(* What a rename leaves under the destination.                             *)
Published(j) ==
    LET d == job[j].dest IN
    /\ lane' = Put(lane, d, [inventory |-> job[j].inventory, cases |-> job[j].built])
    /\ truth' = Put(truth, d, [c \in DOMAIN job[j].built |-> Evidence(job[j].built[c])])
    /\ origin' = Put(origin, d, [source |-> job[j].source, revised |-> job[j].revised])
    /\ job' = [job EXCEPT ![j] = None]
    /\ UNCHANGED <<observer, declared, capture, edits, damage>>

\* faulty: an existing destination is replaced
PublishOver(j) == job[j] # None /\ job[j].todo = {} /\ Published(j)

(* The rename; a lane that appeared meanwhile wins.  (verify_inventory     *)
(* compares what was built with the declarations that the job began with.) *)
Publish(j) ==
    /\ job[j] # None /\ job[j].todo = {}
    /\ IF job[j].dest \in DOMAIN lane THEN Fail(j) ELSE Published(j)

Kill(j) == job[j] # None /\ Fail(j)

-----------------------------------------------------------------------------
(* Outside: people edit the observer and the cases; files are damaged.     *)

NewObserver(o) ==
    /\ edits < MaxEdits /\ edits' = edits + 1
    /\ observer # o /\ observer' = o
    /\ UNCHANGED <<declared, capture, lane, job, truth, origin, damage>>

Declare(c, m) ==
    /\ edits < MaxEdits /\ edits' = edits + 1
    /\ declared[c] # m /\ declared' = [declared EXCEPT ![c] = m]
    /\ UNCHANGED <<observer, capture, lane, job, truth, origin, damage>>

Damaged(f) ==
    LET extra == ({"raw", "normalized", "documents"} \X {"identity", "gzip"}) \ DOMAIN f.disk IN
    {[f EXCEPT !.disk = [p \in DOMAIN f.disk \ {x} |-> f.disk[p]]] : x \in DOMAIN f.disk}
      \cup {[f EXCEPT !.disk[x] = Junk] : x \in DOMAIN f.disk}
      \cup {[f EXCEPT !.disk = Put(@, x, Junk)] : x \in extra}

Damage(l, c) ==
    /\ damage < MaxDamage /\ damage' = damage + 1
    /\ l \in DOMAIN lane /\ c \in DOMAIN lane[l].cases
    /\ \E f \in Damaged(lane[l].cases[c]) : lane' = [lane EXCEPT ![l].cases[c] = f]
    /\ UNCHANGED <<observer, declared, capture, job, truth, origin, edits>>

-----------------------------------------------------------------------------
(* One lane exists, frozen before the compression and by any observer.     *)
LanesInit ==
    /\ observer \in Observers
    /\ \E old \in Cases, l \in Lanes, o \in Observers, raw \in Raws \ OverBudget :
          LET norm == Normal[o][raw] IN
          /\ declared = [c \in Cases |-> IF c = old THEN "v1" ELSE "absent"]
          /\ lane = [x \in {l} |-> [inventory |-> declared, cases |-> [c \in {old} |-> Frozen(raw, norm, FALSE)]]]
          /\ truth = [x \in {l} |-> [c \in {old} |-> [raw |-> raw, norm |-> norm]]]
          /\ origin = [x \in {l} |-> [source |-> None, revised |-> {}]]
    /\ capture = [c \in Cases |-> None] /\ job = [j \in Jobs |-> None]
    /\ edits = 0 /\ damage = 0

LanesNext ==
    \/ \E c \in Cases : (\E raw \in Raws : StartCase(c, raw)) \/ Collect(c) \/ Overflow(c)
                          \/ Observe(c) \/ FailCase(c) \/ Discard(c)
    \/ \E j \in Jobs :
          \/ \E d \in Lanes : FreezeLane(j, d)
          \/ \E s, d \in Lanes : \/ RepackLane(j, s, d) \/ ExtendCapture(j, s, d)
                                 \/ \E ids \in SUBSET Cases : ReviseNormalization(j, s, d, ids)
          \/ \E c \in Cases : RepackCase(j, c) \/ FreezeCase(j, c) \/ ReviseCase(j, c)
          \/ Publish(j) \/ Kill(j)
    \/ \E o \in Observers : NewObserver(o)
    \/ \E c \in Cases, m \in Metadata : Declare(c, m)
    \/ \E l \in Lanes, c \in Cases : Damage(l, c)

LanesSpec == LanesInit /\ [][LanesNext]_laneVars

-----------------------------------------------------------------------------
(* The variables have the values that directories, lanes and jobs have.    *)
LanesTypeOK ==
    /\ observer \in Observers /\ declared \in [Cases -> Metadata]
    /\ \A c \in Cases : capture[c] # None =>
          /\ capture[c].raw \in Raws \cup {Prefix} /\ capture[c].norm \in Norms \cup {None}
          /\ (capture[c].norm # None) <=> (capture[c].stage = "passed")
    /\ DOMAIN truth = DOMAIN lane /\ DOMAIN origin = DOMAIN lane /\ DOMAIN lane \subseteq Lanes
    /\ \A l \in DOMAIN lane : DOMAIN lane[l].cases \subseteq Implemented(lane[l].inventory)
    /\ \A j \in DOMAIN job : job[j] # None =>
          /\ job[j].dest \in Lanes /\ job[j].source \in DOMAIN lane \cup {None}
          /\ DOMAIN job[j].built \subseteq Implemented(job[j].inventory)

(* What can be read of a lane is what was frozen: damage is noticed.       *)
ReadsWhatWasFrozen ==
    \A l \in DOMAIN lane : \A c \in DOMAIN lane[l].cases :
       Readable(lane[l].cases[c]) => Evidence(lane[l].cases[c]) = truth[l][c]

(* A truncated capture never becomes evidence, however often its run or    *)
(* the job that freezes it is killed and repeated.                         *)
NoPrefixIsFrozen ==
    \A l \in DOMAIN truth : \A c \in DOMAIN truth[l] : truth[l][c].raw # Prefix

(* A lane made from another keeps every result of it; a revision renews    *)
(* the normalized bytes of the named cases and nothing else.               *)
OldEvidenceKept ==
    \A l \in DOMAIN truth : origin[l].source # None =>
       LET old == truth[origin[l].source] IN
       \A c \in DOMAIN old :
          /\ c \in DOMAIN truth[l]
          /\ truth[l][c].raw = old[c].raw
          /\ c \notin origin[l].revised => truth[l][c].norm = old[c].norm

(* A truncated capture is never frozen, what is derived keeps what it was  *)
(* derived from, and a damaged file is never read as evidence.             *)
EvidenceIsKept == LanesTypeOK /\ ReadsWhatWasFrozen /\ NoPrefixIsFrozen /\ OldEvidenceKept

(* A published lane is never replaced by another one, nor taken away.      *)
PublishedStays ==
    [][\A l \in DOMAIN truth : l \in DOMAIN truth' /\ truth'[l] = truth[l]]_laneVars

=============================================================================
