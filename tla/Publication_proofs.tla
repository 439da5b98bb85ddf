--------------------------- MODULE Publication_proofs ---------------------------
(***************************************************************************)
(* Proofs about what is published by a rename.  SessionStore: the lock      *)
(* keeps a session to one process, and the directory implements             *)
(* CheckpointStore.  Lanes: what is published stays, is never read for       *)
(* anything else, and holds all the evidence it was made from.              *)
(***************************************************************************)
EXTENDS SessionStore, Lanes, TLAPS

\* The process with the flock is the one that has the session open.
Locked == \A p \in Process : pc[p] # "closed" <=> holder = p

\* What is renamed in place was synced before, so that every file the directory
\* may name holds the same checkpoint on the disk and in the cache.
Staged ==
    /\ named \in entries
    /\ \A f \in entries : f.durable = f.cache /\ f.cache # Torn
    /\ \A p \in Process :
          /\ pc[p] \in {"sync", "rename"} => temp[p].cache \in own[p] \cap Checkpoint
          /\ pc[p] = "rename" => temp[p].durable = temp[p].cache

\* Before the directory is made there is no checkpoint and no user of it.
Unmade ==
    ~created => /\ named.cache = Absent /\ \A f \in entries : f.cache = Absent
                /\ \A p \in Process : pc[p] = "closed"

IInv == TypeOK /\ Locked /\ Staged /\ Unmade /\ OwnCheckpoint

LEMMA InitHolds == Init => IInv
  <1> SUFFICES ASSUME Init PROVE IInv
    OBVIOUS
  <1>0. Missing \in File
    BY DEF File, Content, Missing
  <1>1. TypeOK
    BY <1>0 DEF Init, TypeOK
  <1>2. Locked /\ Unmade /\ OwnCheckpoint
    BY SessionStoreAssumption DEF Init, Locked, Unmade, OwnCheckpoint, Missing, Saving
  <1>3. Staged
    BY SessionStoreAssumption DEF Init, Staged, Missing
  <1> QED
    BY <1>1, <1>2, <1>3 DEF IInv

\* Opening: the first process creates the session, a later one loads it.
LEMMA OpenSteps ==
    ASSUME IInv, NEW p \in Process, Create(p) \/ Open(p) \/ Load(p)
    PROVE  IInv'
  <1> USE SessionStoreAssumption DEF At, Goto, Saving
  <1>1. /\ named' = named /\ entries' = entries /\ temp' = temp
        /\ own' = own \/ own' = [own EXCEPT ![p] = {named.cache}]
        /\ created' \in BOOLEAN /\ (created => created')
        /\ \/ pc' = [pc EXCEPT ![p] = "opened"] /\ holder = NoProcess /\ holder' = p
           \/ /\ pc' = [pc EXCEPT ![p] = "idle"] /\ named.cache \in own'[p]
              /\ \/ holder = NoProcess /\ holder' = p
                 \/ pc[p] = "opened" /\ holder' = holder
        /\ created'
    <2>1. CASE Create(p)
      BY <2>1 DEF Create, Flock, directory, IInv, TypeOK, Unmade
    <2>2. CASE Open(p)
      BY <2>2 DEF Open, Flock, directory, IInv, TypeOK
    <2>3. CASE Load(p)
      BY <2>3 DEF Load, directory, IInv, TypeOK, Unmade
    <2> QED
      BY <2>1, <2>2, <2>3
  <1>2. TypeOK'
    BY <1>1 DEF IInv, TypeOK, File
  <1>3. Locked' /\ Unmade'
    BY <1>1 DEF IInv, TypeOK, Locked, Unmade
  <1>4. Staged'
    BY <1>1 DEF IInv, TypeOK, Staged, Locked
  <1>5. OwnCheckpoint'
    BY <1>1 DEF IInv, TypeOK, OwnCheckpoint, Locked
  <1> QED
    BY <1>2, <1>3, <1>4, <1>5 DEF IInv

\* A process ends: its lock is free, the directory is as it was.
LEMMA CloseSteps ==
    ASSUME IInv, NEW p \in Process, Close(p) \/ Crash(p)
    PROVE  IInv'
  <1> USE SessionStoreAssumption DEF At, Goto, Saving
  <1>1. /\ named' = named /\ entries' = entries /\ temp' = temp /\ created' = created
        /\ own' = [own EXCEPT ![p] = {}] /\ pc' = [pc EXCEPT ![p] = "closed"]
        /\ holder' = NoProcess /\ pc[p] # "closed"
    BY DEF Close, Crash, directory
  <1>2. TypeOK'
    BY <1>1 DEF IInv, TypeOK, File
  <1>3. Locked' /\ Unmade'
    BY <1>1 DEF IInv, TypeOK, Locked, Unmade
  <1>4. Staged'
    BY <1>1 DEF IInv, TypeOK, Staged
  <1>5. OwnCheckpoint'
    BY <1>1 DEF IInv, TypeOK, OwnCheckpoint
  <1> QED
    BY <1>2, <1>3, <1>4, <1>5 DEF IInv

\* Staging changes neither the directory nor the lock.
LEMMA StagingSteps ==
    ASSUME IInv, NEW p \in Process,
           CreateTemp(p) \/ Write(p) \/ Sync(p) \/ SaveFails(p)
    PROVE  IInv' /\ UNCHANGED directory
  <1> USE SessionStoreAssumption DEF At, Goto, Saving
  <1>1. /\ named' = named /\ entries' = entries /\ created' = created /\ holder' = holder
        /\ pc[p] \in {"idle"} \cup Saving
        /\ \E label \in {"idle"} \cup Saving : pc' = [pc EXCEPT ![p] = label]
        /\ UNCHANGED directory
    BY DEF CreateTemp, Write, Sync, SaveFails, directory
  <1>2. \E f \in File : temp' = temp \/ temp' = [temp EXCEPT ![p] = f]
    BY DEF CreateTemp, Write, Sync, SaveFails, IInv, TypeOK, File, Content, Synced
  <1>3. \E more \in SUBSET Content : own' = [own EXCEPT ![p] = own[p] \cup more]
    BY DEF CreateTemp, Write, Sync, SaveFails, IInv, TypeOK, Content
  <1>4. TypeOK'
    <2>1. temp' \in [Process -> File]
      BY <1>2 DEF IInv, TypeOK
    <2>2. own' \in [Process -> SUBSET Content]
      BY <1>3 DEF IInv, TypeOK
    <2>3. pc' \in [Process -> {"closed", "opened", "idle"} \cup Saving]
      BY <1>1 DEF IInv, TypeOK
    <2> QED
      BY <1>1, <2>1, <2>2, <2>3 DEF IInv, TypeOK
  <1>5. Locked' /\ Unmade'
    BY <1>1 DEF IInv, TypeOK, Locked, Unmade
  <1>6. OwnCheckpoint'
    BY <1>1, <1>3 DEF IInv, TypeOK, OwnCheckpoint
  <1>7. Staged'
    <2>1. pc'[p] \in {"sync", "rename"} => temp'[p].cache \in own'[p] \cap Checkpoint
      BY DEF CreateTemp, Write, Sync, SaveFails, IInv, TypeOK, File, Staged, Synced
    <2>2. pc'[p] = "rename" => temp'[p].durable = temp'[p].cache
      BY DEF CreateTemp, Write, Sync, SaveFails, IInv, TypeOK, File, Synced
    <2>3. \A q \in Process \ {p} : pc'[q] = pc[q] /\ temp'[q] = temp[q] /\ own'[q] = own[q]
      BY <1>1, <1>2, <1>3 DEF IInv, TypeOK
    <2> QED
      BY <1>1, <2>1, <2>2, <2>3 DEF IInv, Staged
  <1> QED
    BY <1>1, <1>4, <1>5, <1>6, <1>7 DEF IInv

\* Only the holder of the lock replaces the checkpoint, by a synced file.
LEMMA ReplaceSteps ==
    ASSUME IInv, NEW p \in Process, Rename(p) \/ SyncDirectory(p)
    PROVE  IInv'
  <1> USE SessionStoreAssumption DEF At, Goto, Saving
  <1>1. /\ created' = created /\ holder' = holder /\ temp' = temp /\ own' = own
        /\ pc[p] \in {"rename", "dirsync"}
        /\ pc' = [pc EXCEPT ![p] = "dirsync"] \/ pc' = [pc EXCEPT ![p] = "idle"]
        /\ \/ pc[p] = "rename" /\ named' = temp[p] /\ entries' = entries \cup {temp[p]}
           \/ pc[p] = "dirsync" /\ named' = named /\ entries' = {named}
    BY DEF Rename, SyncDirectory
  <1>2. TypeOK'
    BY <1>1 DEF IInv, TypeOK
  <1>3. Locked' /\ Unmade'
    BY <1>1 DEF IInv, TypeOK, Locked, Unmade
  <1>4. Staged'
    BY <1>1 DEF IInv, TypeOK, Staged
  <1>5. OwnCheckpoint'
    <2>1. named'.cache \in own'[p]
      BY <1>1 DEF IInv, Staged, OwnCheckpoint
    <2>2. \A q \in Process \ {p} : pc'[q] = "closed"
      BY <1>1 DEF IInv, TypeOK, Locked
    <2> QED
      BY <2>1, <2>2 DEF OwnCheckpoint
  <1> QED
    BY <1>2, <1>3, <1>4, <1>5 DEF IInv

LEMMA PowerLossStep ==
    ASSUME IInv, PowerLoss
    PROVE  /\ IInv'
           /\ \E f \in entries : named'.cache = f.durable /\ entries' = {named'}
                                 /\ named'.durable = f.durable
  <1> USE SessionStoreAssumption DEF Saving
  <1>1. PICK f \in entries : /\ named' = [cache |-> f.durable, durable |-> f.durable]
                             /\ entries' = {named'}
    BY DEF PowerLoss
  <1>2. /\ holder' = NoProcess /\ pc' = [p \in Process |-> "closed"]
        /\ own' = [p \in Process |-> {}] /\ created' = created /\ temp' = temp
    BY DEF PowerLoss
  <1>3. TypeOK'
    BY <1>1, <1>2 DEF IInv, TypeOK, File
  <1>4. Locked' /\ OwnCheckpoint'
    BY <1>2 DEF Locked, OwnCheckpoint
  <1>5. Staged'
    BY <1>1, <1>2 DEF IInv, Staged
  <1>6. Unmade'
    BY <1>1, <1>2 DEF IInv, Staged, Unmade
  <1> QED
    BY <1>1, <1>3, <1>4, <1>5, <1>6 DEF IInv

LEMMA NextPreserves == IInv /\ [Next]_vars => IInv'
  <1> SUFFICES ASSUME IInv, [Next]_vars PROVE IInv'
    OBVIOUS
  <1>1. ASSUME NEW p \in Process, Step(p) PROVE IInv'
    BY <1>1, OpenSteps, CloseSteps, StagingSteps, ReplaceSteps DEF Step
  <1>2. CASE UNCHANGED vars
    BY <1>2 DEF vars, directory, IInv, TypeOK, Locked, Staged, Unmade, OwnCheckpoint
  <1> QED
    BY <1>1, <1>2, PowerLossStep DEF Next

(***************************************************************************)
(* Theorems.                                                               *)
(***************************************************************************)

LEMMA Inductive == Spec => []IInv
  BY InitHolds, NextPreserves, PTL DEF Spec

\* Two processes on one session never replace each other's checkpoint.
THEOREM NoLostUpdate == Spec => []OwnCheckpoint
  <1>1. IInv => OwnCheckpoint
    BY DEF IInv
  <1> QED
    BY <1>1, Inductive, PTL

\* A step of the session directory is a step of the abstract store or none.
LEMMA StepImplementsStore ==
    ASSUME IInv, [Next]_vars
    PROVE  [Abstract!Next]_(Abstract!vars)
  <1> USE DEF Abstract!vars
  <1>1. ASSUME NEW p \in Process, Rename(p)
        PROVE  Abstract!Next
    <2>1. pc[p] = "rename" /\ named' = temp[p] /\ entries' = entries \cup {temp[p]}
      BY <1>1 DEF Rename, At
    <2>2. temp[p].durable = temp[p].cache /\ temp[p].cache \in Checkpoint
      BY <2>1 DEF IInv, Staged
    <2>3. {f.durable : f \in entries'} = {f.durable : f \in entries} \cup {named'.cache}
      BY <2>1, <2>2
    <2>4. Abstract!Save(named'.cache, "unsynced")
      BY <2>3 DEF Abstract!Save
    <2> QED
      BY <2>1, <2>2, <2>4 DEF Abstract!Next, Abstract!Outcome
  <1>2. ASSUME NEW p \in Process, SyncDirectory(p)
        PROVE  Abstract!Next
    <2>1. pc[p] = "dirsync" /\ named' = named /\ entries' = {named}
      BY <1>2 DEF SyncDirectory, At
    <2>2. named.durable = named.cache /\ named.cache # Torn /\ named.cache \in Content
      BY DEF IInv, Staged, TypeOK, File
    <2>3. {f.durable : f \in entries'} = {named'.cache}
      BY <2>1, <2>2
    <2>4. Abstract!Save(named'.cache, "saved")
      BY <2>3 DEF Abstract!Save
    <2> QED
      BY <2>1, <2>2, <2>4 DEF Abstract!Next, Abstract!Outcome, Content
  <1>3. CASE PowerLoss
    <2>1. PICK f \in entries : /\ named'.cache = f.durable /\ entries' = {named'}
                               /\ named'.durable = f.durable
      BY <1>3, PowerLossStep
    <2>2. {g.durable : g \in entries'} = {f.durable}
      BY <2>1
    <2> QED
      BY <2>1, <2>2 DEF Abstract!Next, Abstract!PowerLoss
  <1>4. ASSUME NEW p \in Process, Step(p), ~Rename(p), ~SyncDirectory(p)
        PROVE  UNCHANGED directory
    BY <1>4, StagingSteps DEF Step, Create, Open, Load, Close, Crash
  <1>5. CASE UNCHANGED directory
    BY <1>5 DEF directory
  <1> QED
    BY <1>1, <1>2, <1>3, <1>4, <1>5 DEF Next, Step, vars

\* The session directory implements the abstract store: a reader finds a whole
\* checkpoint at any moment, and after a power loss one that was renamed in
\* place, the last one if its save returned nil.
THEOREM DirectoryImplementsStore == Spec => ImplementsStore
  <1>1. Init => Abstract!Init
    BY DEF Init, Abstract!Init, Missing
  <1>2. IInv /\ [Next]_vars => [Abstract!Next]_(Abstract!vars)
    BY StepImplementsStore
  <1> QED
    BY <1>1, <1>2, Inductive, PTL DEF Spec, ImplementsStore, Abstract!Spec

(***************************************************************************)
(* Lanes: what has been frozen, and where it is on its way.                *)
(***************************************************************************)
IsArtifacts(r) == r = [raw |-> r.raw, stage |-> r.stage, norm |-> r.norm]

\* What a run left behind: normalized once it passed, and never a prefix then.
CaptureOK(r) ==
    /\ IsArtifacts(r)
    /\ r.raw \in Raws \cup {Prefix} /\ r.norm \in Norms \cup {None}
    /\ r.norm # None <=> r.stage = "passed"
    /\ r.raw = Prefix => r.stage \in {"truncated", "failed"}

CapturesOK ==
    /\ capture = [c \in Cases |-> capture[c]]
    /\ \A c \in Cases : capture[c] # None => CaptureOK(capture[c])

\* The index of a stored case is the one it was frozen with: damage is done to
\* other files.
Traced(f, e) ==
    /\ e = [raw |-> e.raw, norm |-> e.norm] /\ e.raw # Prefix
    /\ f = [disk |-> f.disk, index |-> f.index]
    /\ \E gzip \in BOOLEAN : f.index = Frozen(e.raw, e.norm, gzip).index

LaneOK(ln, was) ==
    /\ ln = [inventory |-> ln.inventory, cases |-> [c \in DOMAIN was |-> ln.cases[c]]]
    /\ DOMAIN was \subseteq Implemented(ln.inventory)
    /\ \A c \in DOMAIN was : Traced(ln.cases[c], was[c])

LanesOK ==
    /\ DOMAIN truth = DOMAIN lane /\ DOMAIN origin = DOMAIN lane /\ DOMAIN lane \subseteq Lanes
    /\ lane = [l \in DOMAIN lane |-> lane[l]]
    /\ \A l \in DOMAIN lane : LaneOK(lane[l], truth[l])
    /\ \A l \in DOMAIN lane : origin[l].source # None => origin[l].source \in DOMAIN lane

\* What a job has built of the case c, whose evidence was e in its source.
Keeps(jb, c, e) ==
    /\ c \in DOMAIN jb.built
    /\ Evidence(jb.built[c]).raw = e.raw
    /\ c \notin jb.revised => Evidence(jb.built[c]).norm = e.norm

\* A job with a source: every case of it is still to be repacked or is built,
\* and nothing but what it names is revised.
Derives(jb) ==
    /\ jb.source \in DOMAIN lane
    /\ WholeLane(lane[jb.source])
    /\ \A c \in DOMAIN truth[jb.source] :
          /\ <<"freeze", c>> \notin jb.todo
          /\ <<"repack", c>> \in jb.todo \/ Keeps(jb, c, truth[jb.source][c])
    /\ \A c \in Cases : <<"repack", c>> \in jb.todo \/ <<"revise", c>> \in jb.todo =>
          c \in DOMAIN truth[jb.source]
    /\ \A c \in Cases : <<"revise", c>> \in jb.todo => c \in jb.revised

\* A case as freeze_case leaves it.
Sound(f) == f = Frozen(Evidence(f).raw, Evidence(f).norm, TRUE) /\ Evidence(f).raw # Prefix

JobOK(jb) ==
    /\ jb = [op |-> jb.op, source |-> jb.source, dest |-> jb.dest, inventory |-> jb.inventory,
             todo |-> jb.todo, revised |-> jb.revised, built |-> [c \in DOMAIN jb.built |-> jb.built[c]]]
    /\ jb.dest \in Lanes
    /\ jb.todo \subseteq {"repack", "freeze", "revise"} \X Implemented(jb.inventory)
    /\ DOMAIN jb.built \subseteq Implemented(jb.inventory)
    /\ \A c \in DOMAIN jb.built : Sound(jb.built[c])
    /\ jb.source # None => Derives(jb)
    /\ jb.source = None => \A t \in jb.todo : t[1] = "freeze"

JobsOK ==
    /\ job = [j \in Jobs |-> job[j]]
    /\ \A j \in Jobs : \A jb : jb = job[j] /\ jb # None => JobOK(jb)

LanesInv ==
    /\ observer \in Observers /\ declared \in [Cases -> Metadata]
    /\ CapturesOK /\ LanesOK /\ JobsOK /\ OldEvidenceKept

LEMMA FrozenEvidence ==
    ASSUME NEW raw, NEW norm, NEW gzip \in BOOLEAN
    PROVE  /\ Evidence(Frozen(raw, norm, gzip)) = [raw |-> raw, norm |-> norm]
           /\ Frozen(raw, norm, gzip) =
                [disk |-> Frozen(raw, norm, gzip).disk, index |-> Frozen(raw, norm, gzip).index]
  <1> DEFINE rc == Codec(raw, gzip)
             nc == Codec(norm, gzip)
             docs == [replay |-> raw, ledger |-> norm,
                      raw |-> [codec |-> rc, hash |-> raw], normalized |-> [codec |-> nc, hash |-> norm]]
             S == {<<"raw", rc>>, <<"normalized", nc>>, <<"documents", "identity">>}
             disk == [p \in S |-> IF p[1] = "raw" THEN raw ELSE IF p[1] = "normalized" THEN norm ELSE docs]
             f == [disk |-> disk, index |-> [codec |-> "identity", hash |-> docs]]
  <1>1. Frozen(raw, norm, gzip) = f
    BY DEF Frozen
  <1> HIDE DEF rc, nc
  <1>2. disk[<<"documents", "identity">>] = docs
    <2> HIDE DEF docs
    <2> QED
      OBVIOUS
  <1>3. disk[<<"raw", rc>>] = raw /\ disk[<<"normalized", nc>>] = norm
    <2> HIDE DEF docs
    <2> QED
      OBVIOUS
  <1>4. docs.raw.codec = rc /\ docs.normalized.codec = nc
    OBVIOUS
  <1>5. f.disk = disk /\ f.index = [codec |-> "identity", hash |-> docs] /\ f.index.codec = "identity"
    <2> HIDE DEF disk, docs
    <2> QED
      OBVIOUS
  <1> HIDE DEF disk, docs, f
  <1>6. Evidence(f) = [raw |-> raw, norm |-> norm]
    BY <1>2, <1>3, <1>4, <1>5 DEF Evidence
  <1>7. f = [disk |-> f.disk, index |-> f.index]
    BY DEF f
  <1> QED
    BY <1>1, <1>6, <1>7

\* Whatever became of the files, what passes for the case is what was frozen.
LEMMA TracedRead ==
    ASSUME NEW f, NEW e, Traced(f, e), Readable(f)
    PROVE  Evidence(f) = e
  <1>1. PICK gzip \in BOOLEAN : f.index = Frozen(e.raw, e.norm, gzip).index
    BY DEF Traced
  <1> DEFINE rc == Codec(e.raw, gzip)
             nc == Codec(e.norm, gzip)
             docs == [replay |-> e.raw, ledger |-> e.norm,
                      raw |-> [codec |-> rc, hash |-> e.raw], normalized |-> [codec |-> nc, hash |-> e.norm]]
  <1>2. f.index = [codec |-> "identity", hash |-> docs]
    BY <1>1 DEF Frozen
  <1> HIDE DEF rc, nc
  <1>3. /\ docs.raw.codec = rc /\ docs.normalized.codec = nc
        /\ docs.raw.hash = e.raw /\ docs.normalized.hash = e.norm
    OBVIOUS
  <1>4. f.index.codec = "identity" /\ f.index.hash = docs
    <2> HIDE DEF docs
    <2> QED
      BY <1>2
  <1> HIDE DEF docs
  <1>5. f.disk[<<"documents", "identity">>] = docs
    BY <1>4 DEF Readable, Loadable
  <1>6. f.disk[<<"raw", rc>>] = e.raw /\ f.disk[<<"normalized", nc>>] = e.norm
    BY <1>3, <1>4, <1>5 DEF Readable, Loadable
  <1>7. Evidence(f) = [raw |-> e.raw, norm |-> e.norm]
    BY <1>3, <1>4, <1>5, <1>6 DEF Evidence
  <1> QED
    BY <1>7 DEF Traced

LEMMA FrozenIsSound ==
    ASSUME NEW raw, NEW norm, raw # Prefix
    PROVE  Sound(Frozen(raw, norm, TRUE))
  <1>1. Evidence(Frozen(raw, norm, TRUE)) = [raw |-> raw, norm |-> norm]
    BY FrozenEvidence
  <1>2. [raw |-> raw, norm |-> norm].raw = raw /\ [raw |-> raw, norm |-> norm].norm = norm
    OBVIOUS
  <1>3. Evidence(Frozen(raw, norm, TRUE)).raw = raw /\ Evidence(Frozen(raw, norm, TRUE)).norm = norm
    BY <1>1, <1>2
  <1>4. PICK f : f = Frozen(raw, norm, TRUE)
    OBVIOUS
  <1>5. f = Frozen(Evidence(f).raw, Evidence(f).norm, TRUE) /\ Evidence(f).raw # Prefix
    BY <1>3, <1>4
  <1> QED
    BY <1>4, <1>5 DEF Sound

LEMMA SoundIsTraced ==
    ASSUME NEW f, Sound(f)
    PROVE  Traced(f, Evidence(f))
  <1>1. PICK raw, norm : raw = Evidence(f).raw /\ norm = Evidence(f).norm
    OBVIOUS
  <1>2. f = Frozen(raw, norm, TRUE) /\ raw # Prefix
    BY <1>1 DEF Sound
  <1>3. Evidence(f) = [raw |-> raw, norm |-> norm] /\ f = [disk |-> f.disk, index |-> f.index]
    BY <1>2, FrozenEvidence
  <1>4. [raw |-> raw, norm |-> norm].raw = raw /\ [raw |-> raw, norm |-> norm].norm = norm
    OBVIOUS
  <1> QED
    BY <1>1, <1>2, <1>3, <1>4 DEF Traced

(***************************************************************************)
(* Jobs.                                                                   *)
(***************************************************************************)

\* A job keeps what it has as long as its source stays.
LEMMA JobKept ==
    ASSUME NEW jb, JobOK(jb), DOMAIN lane \subseteq DOMAIN lane',
           \A l \in DOMAIN lane : truth'[l] = truth[l] /\ (WholeLane(lane[l]) => WholeLane(lane'[l]))
    PROVE  JobOK(jb)'
  <1>1. jb.source # None => Derives(jb)'
    BY DEF JobOK, Derives, Keeps
  <1> QED
    BY <1>1 DEF JobOK

LEMMA OtherJobsKept ==
    ASSUME JobsOK, NEW j \in Jobs, NEW v, job' = [job EXCEPT ![j] = v],
           DOMAIN lane \subseteq DOMAIN lane',
           \A l \in DOMAIN lane : truth'[l] = truth[l] /\ (WholeLane(lane[l]) => WholeLane(lane'[l])),
           v # None => JobOK(v)'
    PROVE  JobsOK'
  <1>1. job' = [k \in Jobs |-> job'[k]] /\ job'[j] = v /\ \A k \in Jobs \ {j} : job'[k] = job[k]
    BY DEF JobsOK
  <1>2. ASSUME NEW k \in Jobs, NEW jb, jb = job'[k], jb # None
        PROVE  JobOK(jb)'
    <2>1. CASE k = j
      BY <1>1, <1>2, <2>1
    <2>2. CASE k # j
      <3>1. JobOK(jb)
        BY <1>1, <1>2, <2>2 DEF JobsOK
      <3> QED
        BY <3>1, JobKept
    <2> QED
      BY <2>1, <2>2
  <1> QED
    BY <1>1, <1>2 DEF JobsOK

LEMMA AllJobsKept ==
    ASSUME JobsOK, job' = job,
           DOMAIN lane \subseteq DOMAIN lane',
           \A l \in DOMAIN lane : truth'[l] = truth[l] /\ (WholeLane(lane[l]) => WholeLane(lane'[l]))
    PROVE  JobsOK'
  <1>1. ASSUME NEW k \in Jobs, NEW jb, jb = job[k], jb # None
        PROVE  JobOK(jb)'
    <2>1. JobOK(jb)
      BY <1>1 DEF JobsOK
    <2> QED
      BY <2>1, JobKept
  <1> QED
    BY <1>1 DEF JobsOK

(***************************************************************************)
(* Steps of the suite.                                                     *)
(***************************************************************************)
LEMMA CaptureChanges ==
    ASSUME CapturesOK, NEW c \in Cases, NEW v, capture' = [capture EXCEPT ![c] = v],
           v # None => CaptureOK(v)
    PROVE  CapturesOK'
  BY DEF CapturesOK

LEMMA CapturesOnly ==
    ASSUME LanesInv, CapturesOK', UNCHANGED <<observer, declared, lane, job, truth, origin>>
    PROVE  LanesInv'
  <1>1. LanesOK' /\ OldEvidenceKept'
    BY DEF LanesInv, LanesOK, OldEvidenceKept
  <1>2. JobsOK'
    BY AllJobsKept DEF LanesInv
  <1> QED
    BY <1>1, <1>2 DEF LanesInv

\* What a case leaves behind, collected, observed or failed.
LEMMA CaseKeeps ==
    ASSUME LanesInv, NEW c \in Cases,
           \/ \E raw \in Raws : StartCase(c, raw)
           \/ Collect(c) \/ Overflow(c) \/ Observe(c) \/ FailCase(c) \/ Discard(c)
    PROVE  LanesInv'
  <1>0. CapturesOK /\ None \notin Norms /\ Prefix \notin Raws
    BY LanesAssumption DEF LanesInv
  <1> SUFFICES CapturesOK'
    <2>1. UNCHANGED <<observer, declared, lane, job, truth, origin>>
      BY DEF StartCase, Collect, Overflow, Observe, FailCase, Discard
    <2> QED
      BY <2>1, CapturesOnly
  <1>1. CASE \E raw \in Raws : StartCase(c, raw)
    <2>1. PICK raw \in Raws : StartCase(c, raw)
      BY <1>1
    <2>2. PICK v : v = [raw |-> raw, stage |-> "ran", norm |-> None]
      OBVIOUS
    <2>3. v.raw = raw /\ v.stage = "ran" /\ v.norm = None
      BY <2>2
    <2>4. CaptureOK(v)
      BY <1>0, <2>2, <2>3 DEF CaptureOK, IsArtifacts
    <2> QED
      BY <1>0, <2>1, <2>2, <2>4, CaptureChanges DEF StartCase
  <1>2. CASE Discard(c)
    BY <1>0, <1>2, CaptureChanges DEF Discard
  <1>3. CASE Collect(c) \/ Overflow(c) \/ Observe(c) \/ FailCase(c)
    <2>1. PICK r : r = capture[c]
      OBVIOUS
    <2>2. CaptureOK(r) /\ capture[c] # None
      BY <1>0, <1>3, <2>1 DEF CapturesOK, Collect, Overflow, Observe, FailCase
    <2>3. r = [raw |-> r.raw, stage |-> r.stage, norm |-> r.norm]
      BY <2>2 DEF CaptureOK, IsArtifacts
    <2>4. PICK raw, stage, norm :
             /\ capture' = [capture EXCEPT ![c] = [raw |-> raw, stage |-> stage, norm |-> norm]]
             /\ raw \in Raws \cup {Prefix} /\ norm \in Norms \cup {None}
             /\ norm # None <=> stage = "passed"
             /\ raw = Prefix => stage \in {"truncated", "failed"}
      <3>1. CASE Collect(c)
        <4> DEFINE stage == IF r.raw \in OverBudget THEN "truncated" ELSE "collected"
                   raw == IF r.raw \in OverBudget THEN Prefix ELSE r.raw
        <4>1. r.stage = "ran" /\ r.norm = None /\ r.raw \in Raws
          BY <2>1, <2>2, <3>1 DEF Collect, CaptureOK
        <4>2. [[r EXCEPT !.stage = stage] EXCEPT !.raw = raw] = [raw |-> raw, stage |-> stage, norm |-> r.norm]
          <5> HIDE DEF stage, raw
          <5>1. [r EXCEPT !.stage = stage] = [raw |-> r.raw, stage |-> stage, norm |-> r.norm]
            BY <2>3
          <5>2. PICK x : x = [r EXCEPT !.stage = stage]
            OBVIOUS
          <5>3. x = [raw |-> x.raw, stage |-> x.stage, norm |-> x.norm] /\ x.raw = r.raw
                /\ x.stage = stage /\ x.norm = r.norm
            BY <5>1, <5>2
          <5>4. [x EXCEPT !.raw = raw] = [raw |-> raw, stage |-> stage, norm |-> r.norm]
            BY <5>3
          <5> QED
            BY <5>2, <5>4
        <4>3. capture' = [capture EXCEPT ![c] = [raw |-> raw, stage |-> stage, norm |-> r.norm]]
          BY <1>0, <2>1, <2>3, <3>1, <4>2 DEF Collect, CapturesOK
        <4>4. raw \in Raws \cup {Prefix} /\ r.norm \in Norms \cup {None}
              /\ (r.norm # None <=> stage = "passed")
              /\ (raw = Prefix => stage \in {"truncated", "failed"})
          BY <1>0, <2>2, <4>1 DEF CaptureOK
        <4> QED
          BY <4>3, <4>4
      <3>2. CASE Overflow(c)
        <4>1. r.stage = "truncated"
          BY <2>1, <2>2, <3>2 DEF Overflow
        <4>2. [r EXCEPT !.stage = "failed"] = [raw |-> r.raw, stage |-> "failed", norm |-> r.norm]
          BY <2>3
        <4>3. capture' = [capture EXCEPT ![c] = [raw |-> r.raw, stage |-> "failed", norm |-> r.norm]]
          BY <1>0, <2>1, <3>2, <4>2 DEF Overflow, CapturesOK
        <4> QED
          BY <2>2, <4>1, <4>3 DEF CaptureOK
      <3>3. CASE Observe(c)
        <4> DEFINE norm == Observation(r.raw)
        <4>1. r.stage = "collected" /\ r.raw \in Raws
          BY <2>1, <2>2, <3>3 DEF Observe, CaptureOK
        <4>2. norm \in Norms
          BY <4>1, LanesAssumption DEF Observation, LanesInv
        <4> HIDE DEF norm
        <4>3. [[r EXCEPT !.stage = "passed"] EXCEPT !.norm = norm]
                = [raw |-> r.raw, stage |-> "passed", norm |-> norm]
          <5>1. [r EXCEPT !.stage = "passed"] = [raw |-> r.raw, stage |-> "passed", norm |-> r.norm]
            BY <2>3
          <5>2. PICK x : x = [r EXCEPT !.stage = "passed"]
            OBVIOUS
          <5>3. x = [raw |-> x.raw, stage |-> x.stage, norm |-> x.norm] /\ x.raw = r.raw
                /\ x.stage = "passed" /\ x.norm = r.norm
            BY <5>1, <5>2
          <5>4. [x EXCEPT !.norm = norm] = [raw |-> r.raw, stage |-> "passed", norm |-> norm]
            BY <5>3
          <5> QED
            BY <5>2, <5>4
        <4>4. capture' = [capture EXCEPT ![c] = [raw |-> r.raw, stage |-> "passed", norm |-> norm]]
          BY <1>0, <2>1, <2>3, <3>3, <4>3 DEF Observe, CapturesOK, norm
        <4>5. r.raw \in Raws \cup {Prefix} /\ norm \in Norms \cup {None} /\ norm # None /\ r.raw # Prefix
          BY <1>0, <4>1, <4>2
        <4> QED
          BY <4>4, <4>5
      <3>4. CASE FailCase(c)
        <4>1. r.stage \in {"ran", "collected"}
          BY <2>1, <2>2, <3>4 DEF FailCase
        <4>2. [r EXCEPT !.stage = "failed"] = [raw |-> r.raw, stage |-> "failed", norm |-> r.norm]
          BY <2>3
        <4>3. capture' = [capture EXCEPT ![c] = [raw |-> r.raw, stage |-> "failed", norm |-> r.norm]]
          BY <1>0, <2>1, <3>4, <4>2 DEF FailCase, CapturesOK
        <4> QED
          BY <2>2, <4>1, <4>3 DEF CaptureOK
      <3> QED
        BY <1>3, <3>1, <3>2, <3>3, <3>4
    <2>5. PICK v : v = [raw |-> raw, stage |-> stage, norm |-> norm]
      OBVIOUS
    <2>6. v.raw = raw /\ v.stage = stage /\ v.norm = norm
      BY <2>5
    <2>7. CaptureOK(v)
      BY <2>4, <2>5, <2>6 DEF CaptureOK, IsArtifacts
    <2> QED
      BY <1>0, <2>4, <2>5, <2>7, CaptureChanges
  <1> QED
    BY <1>1, <1>2, <1>3

LEMMA JobOnly ==
    ASSUME LanesInv, NEW j \in Jobs, NEW v, job' = [job EXCEPT ![j] = v], v # None => JobOK(v),
           UNCHANGED <<observer, declared, capture, lane, truth, origin>>
    PROVE  LanesInv'
  <1>1. LanesOK' /\ OldEvidenceKept' /\ CapturesOK'
    BY DEF LanesInv, LanesOK, OldEvidenceKept, CapturesOK
  <1>2. v # None => JobOK(v)'
    BY JobKept
  <1>3. JobsOK'
    BY <1>2, OtherJobsKept DEF LanesInv
  <1> QED
    BY <1>1, <1>3 DEF LanesInv

LEMMA FailKeeps ==
    ASSUME LanesInv, NEW j \in Jobs, Fail(j)
    PROVE  LanesInv'
  BY JobOnly DEF Fail

LEMMA NewJob ==
    ASSUME LanesInv, NEW j \in Jobs, NEW op, NEW source, NEW dest \in Lanes, NEW inventory, NEW todo,
           NEW revised, Begin(j, Job(op, source, dest, inventory, todo, revised)),
           todo \subseteq {"repack", "freeze", "revise"} \X Implemented(inventory),
           source = None => \A t \in todo : t[1] = "freeze",
           source # None =>
              /\ source \in DOMAIN lane /\ WholeLane(lane[source])
              /\ \A c \in DOMAIN truth[source] : <<"freeze", c>> \notin todo /\ <<"repack", c>> \in todo
              /\ \A c \in Cases : <<"repack", c>> \in todo \/ <<"revise", c>> \in todo =>
                    c \in DOMAIN truth[source]
              /\ \A c \in Cases : <<"revise", c>> \in todo => c \in revised
    PROVE  LanesInv'
  <1>1. PICK v : v = Job(op, source, dest, inventory, todo, revised)
    OBVIOUS
  <1> DEFINE none == [c \in {} |-> None]
  <1>2. none = [c \in DOMAIN none |-> none[c]] /\ DOMAIN none = {}
    OBVIOUS
  <1>3. v = [op |-> op, source |-> source, dest |-> dest, inventory |-> inventory,
             todo |-> todo, revised |-> revised, built |-> none]
    BY <1>1 DEF Job
  <1> HIDE DEF none
  <1>4. /\ v.op = op /\ v.source = source /\ v.dest = dest /\ v.inventory = inventory
        /\ v.todo = todo /\ v.revised = revised /\ v.built = none
    BY <1>3
  <1>5. v = [op |-> v.op, source |-> v.source, dest |-> v.dest, inventory |-> v.inventory,
             todo |-> v.todo, revised |-> v.revised, built |-> [c \in DOMAIN v.built |-> v.built[c]]]
    BY <1>2, <1>3, <1>4
  <1>6. v.source # None => Derives(v)
    BY <1>4 DEF Derives
  <1>7. JobOK(v)
    BY <1>2, <1>4, <1>5, <1>6 DEF JobOK
  <1> QED
    BY <1>1, <1>7, JobOnly DEF Begin

LEMMA ImplementedCases ==
    ASSUME NEW inventory
    PROVE  Implemented(inventory) \subseteq Cases
  BY DEF Implemented

\* The cases of a whole lane are those of its evidence.
LEMMA WholeSource ==
    ASSUME LanesInv, NEW s, NEW d, Source(s, d)
    PROVE  /\ s \in DOMAIN lane /\ s # None /\ WholeLane(lane[s])
           /\ DOMAIN truth[s] = Implemented(lane[s].inventory)
  <1>1. s \in DOMAIN lane /\ WholeLane(lane[s])
    BY DEF Source
  <1>2. s # None /\ LaneOK(lane[s], truth[s])
    BY <1>1, LanesAssumption DEF LanesInv, LanesOK
  <1>3. DOMAIN lane[s].cases = DOMAIN truth[s]
    <2>1. PICK ln, was, cs : ln = lane[s] /\ was = truth[s] /\ cs = [c \in DOMAIN was |-> ln.cases[c]]
      OBVIOUS
    <2>2. ln = [inventory |-> ln.inventory, cases |-> cs]
      BY <1>2, <2>1 DEF LaneOK
    <2>3. ln.cases = cs
      BY <2>2
    <2>4. DOMAIN cs = DOMAIN was
      BY <2>1
    <2> QED
      BY <2>1, <2>3, <2>4
  <1> QED
    BY <1>1, <1>2, <1>3 DEF WholeLane

LEMMA BeginsKeep ==
    ASSUME LanesInv, NEW j \in Jobs,
           \/ \E d \in Lanes : FreezeLane(j, d)
           \/ \E s, d \in Lanes : \/ RepackLane(j, s, d) \/ ExtendCapture(j, s, d)
                                  \/ \E ids \in SUBSET Cases : ReviseNormalization(j, s, d, ids)
    PROVE  LanesInv'
  <1>1. ASSUME NEW d \in Lanes, FreezeLane(j, d)
        PROVE  LanesInv'
    <2>1. PICK todo : /\ todo = {<<"freeze", c>> : c \in {x \in Implemented(declared) : Passed(x)}}
                      /\ Begin(j, Job("freeze", None, d, declared, todo, {}))
      BY <1>1 DEF FreezeLane
    <2>2. todo \subseteq {"repack", "freeze", "revise"} \X Implemented(declared)
      BY <2>1
    <2>3. \A t \in todo : t[1] = "freeze"
      BY <2>1
    <2>4. PICK inv : inv = declared
      OBVIOUS
    <2> QED
      BY <2>1, <2>2, <2>3, <2>4, NewJob
  <1>2. ASSUME NEW s \in Lanes, NEW d \in Lanes, RepackLane(j, s, d)
        PROVE  LanesInv'
    <2>0. /\ s \in DOMAIN lane /\ s # None /\ WholeLane(lane[s])
          /\ DOMAIN truth[s] = Implemented(lane[s].inventory)
      BY <1>2, WholeSource DEF RepackLane
    <2>1. PICK todo, inv : /\ todo = {<<"repack", c>> : c \in Implemented(inv)} /\ inv = lane[s].inventory
                           /\ Begin(j, Job("repack", s, d, inv, todo, {}))
      BY <1>2 DEF RepackLane, Repacks
    <2>2. todo \subseteq {"repack", "freeze", "revise"} \X Implemented(inv)
      BY <2>1
    <2>3. /\ \A c \in DOMAIN truth[s] : <<"freeze", c>> \notin todo /\ <<"repack", c>> \in todo
          /\ \A c \in Cases : <<"repack", c>> \in todo \/ <<"revise", c>> \in todo => c \in DOMAIN truth[s]
          /\ \A c \in Cases : <<"revise", c>> \in todo => c \in {}
      BY <2>0, <2>1
    <2> QED
      BY <2>0, <2>1, <2>2, <2>3, NewJob
  <1>3. ASSUME NEW s \in Lanes, NEW d \in Lanes, ExtendCapture(j, s, d)
        PROVE  LanesInv'
    <2>0. /\ s \in DOMAIN lane /\ s # None /\ WholeLane(lane[s])
          /\ DOMAIN truth[s] = Implemented(lane[s].inventory)
      BY <1>3, WholeSource DEF ExtendCapture
    <2>1. PICK todo, old, inv, additions :
             /\ old = Implemented(lane[s].inventory) /\ inv = declared
             /\ additions = Implemented(inv) \ old
             /\ todo = {<<"repack", c>> : c \in old} \cup {<<"freeze", c>> : c \in additions}
             /\ \A c \in old : inv[c] = lane[s].inventory[c]
             /\ Begin(j, Job("extend", s, d, inv, todo, {}))
      BY <1>3 DEF ExtendCapture, Repacks
    <2>2. old \subseteq Implemented(inv)
      BY <2>1 DEF Implemented
    <2>3. todo \subseteq {"repack", "freeze", "revise"} \X Implemented(inv)
      BY <2>1, <2>2
    <2>4. /\ \A c \in DOMAIN truth[s] : <<"freeze", c>> \notin todo /\ <<"repack", c>> \in todo
          /\ \A c \in Cases : <<"repack", c>> \in todo \/ <<"revise", c>> \in todo => c \in DOMAIN truth[s]
          /\ \A c \in Cases : <<"revise", c>> \in todo => c \in {}
      BY <2>0, <2>1
    <2> QED
      BY <2>0, <2>1, <2>3, <2>4, NewJob
  <1>4. ASSUME NEW s \in Lanes, NEW d \in Lanes, NEW ids \in SUBSET Cases, ReviseNormalization(j, s, d, ids)
        PROVE  LanesInv'
    <2>0. /\ s \in DOMAIN lane /\ s # None /\ WholeLane(lane[s])
          /\ DOMAIN truth[s] = Implemented(lane[s].inventory)
      BY <1>4, WholeSource DEF ReviseNormalization
    <2>1. PICK todo, inv :
             /\ inv = lane[s].inventory /\ inv = declared /\ ids \subseteq Implemented(inv)
             /\ todo = {<<"repack", c>> : c \in Implemented(inv)} \cup {<<"revise", c>> : c \in ids}
             /\ Begin(j, Job("revise", s, d, inv, todo, ids))
      BY <1>4 DEF ReviseNormalization, Repacks
    <2>3. todo \subseteq {"repack", "freeze", "revise"} \X Implemented(inv)
      BY <2>1
    <2>4. /\ \A c \in DOMAIN truth[s] : <<"freeze", c>> \notin todo /\ <<"repack", c>> \in todo
          /\ \A c \in Cases : <<"repack", c>> \in todo \/ <<"revise", c>> \in todo => c \in DOMAIN truth[s]
          /\ \A c \in Cases : <<"revise", c>> \in todo => c \in ids
      BY <2>0, <2>1
    <2> QED
      BY <2>0, <2>1, <2>3, <2>4, NewJob
  <1> QED
    BY <1>1, <1>2, <1>3, <1>4

\* A job builds the case c from what agrees with its source.
LEMMA WorksKeeps ==
    ASSUME LanesInv, NEW j \in Jobs, NEW jb, jb = job[j], jb # None,
           NEW kind, NEW c, <<kind, c>> \in jb.todo, NEW f, Sound(f),
           Works(j, <<kind, c>>, Put(jb.built, c, f)),
           (jb.source # None /\ c \in DOMAIN truth[jb.source]) =>
              /\ Evidence(f).raw = truth[jb.source][c].raw
              /\ c \notin jb.revised => Evidence(f).norm = truth[jb.source][c].norm
    PROVE  LanesInv'
  <1>1. JobOK(jb)
    BY DEF LanesInv, JobsOK
  <1>2. PICK b, t : b = Put(jb.built, c, f) /\ t = <<kind, c>>
    OBVIOUS
  <1>3. /\ DOMAIN b = DOMAIN jb.built \cup {c}
        /\ b = [z \in DOMAIN b |-> b[z]] /\ b[c] = f
        /\ \A z \in DOMAIN jb.built : z # c => b[z] = jb.built[z]
    <2>1. PICK g : g = jb.built
      OBVIOUS
    <2>2. b = Put(g, c, f)
      BY <1>2, <2>1
    <2>3. /\ DOMAIN b = DOMAIN g \cup {c} /\ b = [z \in DOMAIN b |-> b[z]] /\ b[c] = f
          /\ \A z \in DOMAIN g : z # c => b[z] = g[z]
      BY <2>2 DEF Put
    <2> QED
      BY <2>1, <2>3
  <1>4. PICK w : w = [jb EXCEPT !.todo = @ \ {t}]
    OBVIOUS
  <1>5. PICK v : v = [w EXCEPT !.built = b]
    OBVIOUS
  <1>6. PICK g : g = [z \in DOMAIN jb.built |-> jb.built[z]]
    OBVIOUS
  <1>7. jb = [op |-> jb.op, source |-> jb.source, dest |-> jb.dest, inventory |-> jb.inventory,
              todo |-> jb.todo, revised |-> jb.revised, built |-> g]
    BY <1>1, <1>6 DEF JobOK
  <1>8. w = [op |-> jb.op, source |-> jb.source, dest |-> jb.dest, inventory |-> jb.inventory,
             todo |-> jb.todo \ {t}, revised |-> jb.revised, built |-> g]
    BY <1>4, <1>7
  <1>9. v = [op |-> jb.op, source |-> jb.source, dest |-> jb.dest, inventory |-> jb.inventory,
             todo |-> jb.todo \ {t}, revised |-> jb.revised, built |-> b]
    BY <1>5, <1>8
  <1>10. /\ v.op = jb.op /\ v.source = jb.source /\ v.dest = jb.dest /\ v.inventory = jb.inventory
         /\ v.todo = jb.todo \ {t} /\ v.revised = jb.revised /\ v.built = b
    BY <1>9
  <1>11. v = [op |-> v.op, source |-> v.source, dest |-> v.dest, inventory |-> v.inventory,
              todo |-> v.todo, revised |-> v.revised, built |-> [z \in DOMAIN v.built |-> v.built[z]]]
    BY <1>3, <1>9, <1>10
  <1>12. /\ v.dest \in Lanes
         /\ v.todo \subseteq {"repack", "freeze", "revise"} \X Implemented(v.inventory)
         /\ v.source = None => \A u \in v.todo : u[1] = "freeze"
    BY <1>1, <1>10 DEF JobOK
  <1>13. DOMAIN v.built \subseteq Implemented(v.inventory)
    <2>1. c \in Implemented(jb.inventory)
      BY <1>1 DEF JobOK
    <2> QED
      BY <1>1, <1>3, <1>10, <2>1 DEF JobOK
  <1>14. \A z \in DOMAIN v.built : Sound(v.built[z])
    BY <1>1, <1>3, <1>10 DEF JobOK
  <1>15. ASSUME v.source # None
         PROVE  Derives(v)
    <2>1. Derives(jb)
      BY <1>1, <1>10, <1>15 DEF JobOK
    <2>2. PICK s, old : s = jb.source /\ old = truth[s]
      OBVIOUS
    <2>3. ASSUME NEW x \in DOMAIN old
          PROVE  <<"freeze", x>> \notin v.todo /\ (<<"repack", x>> \in v.todo \/ Keeps(v, x, old[x]))
      <3>1. <<"freeze", x>> \notin jb.todo /\ (<<"repack", x>> \in jb.todo \/ Keeps(jb, x, old[x]))
        BY <2>1, <2>2, <2>3 DEF Derives
      <3>2. CASE x = c
        BY <1>3, <1>10, <1>15, <2>2, <3>1, <3>2 DEF Keeps
      <3>3. CASE x # c
        <4>1. <<"repack", x>> # t
          BY <1>2, <3>3
        <4>2. Keeps(jb, x, old[x]) => Keeps(v, x, old[x])
          BY <1>3, <1>10, <3>3 DEF Keeps
        <4> QED
          BY <1>10, <3>1, <4>1, <4>2
      <3> QED
        BY <3>2, <3>3
    <2> QED
      BY <1>10, <2>1, <2>2, <2>3 DEF Derives
  <1>16. JobOK(v)
    BY <1>11, <1>12, <1>13, <1>14, <1>15 DEF JobOK
  <1>17. job' = [job EXCEPT ![j] = v]
    <2>1. job' = [job EXCEPT ![j].todo = @ \ {t}, ![j].built = b]
      BY <1>2 DEF Works
    <2>2. job = [k \in Jobs |-> job[k]]
      BY DEF LanesInv, JobsOK
    <2> QED
      BY <1>4, <1>5, <2>1, <2>2
  <1> QED
    BY <1>16, <1>17, JobOnly DEF Works

\* What a job reads of its source is what the source was published with.
LEMMA SourceRead ==
    ASSUME LanesInv, NEW j \in Jobs, NEW jb, jb = job[j], jb # None, NEW s, s = jb.source, NEW c,
           <<"repack", c>> \in jb.todo \/ <<"revise", c>> \in jb.todo,
           NEW f, f = lane[s].cases[c], Readable(f)
    PROVE  Evidence(f) = truth[s][c] /\ Evidence(f).raw # Prefix
  <1>1. JobOK(jb)
    BY DEF LanesInv, JobsOK
  <1>2. s # None
    BY <1>1 DEF JobOK
  <1>3. Derives(jb)
    BY <1>1, <1>2 DEF JobOK
  <1>4. c \in Cases
    BY <1>1, ImplementedCases DEF JobOK
  <1>5. s \in DOMAIN lane /\ c \in DOMAIN truth[s]
    BY <1>3, <1>4 DEF Derives
  <1>6. LaneOK(lane[s], truth[s])
    BY <1>5 DEF LanesInv, LanesOK
  <1>7. PICK e : e = truth[s][c]
    OBVIOUS
  <1>8. Traced(f, e)
    BY <1>5, <1>6, <1>7 DEF LaneOK
  <1> QED
    BY ZenonT(30), <1>7, <1>8, TracedRead DEF Traced

LEMMA WorkKeeps ==
    ASSUME LanesInv, NEW j \in Jobs, NEW c \in Cases, RepackCase(j, c) \/ FreezeCase(j, c) \/ ReviseCase(j, c)
    PROVE  LanesInv'
  <1>1. CASE Fail(j)
    BY <1>1, FailKeeps
  <1>2. PICK jb : jb = job[j]
    OBVIOUS
  <1>3. CASE RepackCase(j, c) /\ ~Fail(j)
    <2>1. PICK s, f : s = jb.source /\ f = lane[s].cases[c]
      OBVIOUS
    <2>2. PICK raw, norm : raw = Evidence(f).raw /\ norm = Evidence(f).norm
      OBVIOUS
    <2>3. /\ jb # None /\ <<"repack", c>> \in jb.todo /\ Readable(f)
          /\ Works(j, <<"repack", c>>, Put(jb.built, c, Frozen(raw, norm, TRUE)))
      BY <1>2, <1>3, <2>1, <2>2 DEF RepackCase
    <2>9. Evidence(f) = truth[s][c] /\ Evidence(f).raw # Prefix
      <3>1. <<"repack", c>> \in jb.todo \/ <<"revise", c>> \in jb.todo
        BY <2>3
      <3> QED
        BY <1>2, <2>1, <2>3, <3>1, SourceRead
    <2>4. Evidence(f) = truth[s][c] /\ raw # Prefix
      BY <2>2, <2>9
    <2>5. PICK g : g = Frozen(raw, norm, TRUE)
      OBVIOUS
    <2>6. Sound(g) /\ Evidence(g) = [raw |-> raw, norm |-> norm]
      BY <2>4, <2>5, FrozenIsSound, FrozenEvidence
    <2>7. Evidence(g).raw = truth[s][c].raw /\ Evidence(g).norm = truth[s][c].norm
      BY <2>2, <2>4, <2>6
    <2> QED
      BY <1>2, <2>1, <2>3, <2>5, <2>6, <2>7, WorksKeeps
  <1>4. CASE FreezeCase(j, c) /\ ~Fail(j)
    <2>2. PICK raw, norm : raw = capture[c].raw /\ norm = capture[c].norm
      OBVIOUS
    <2>3. /\ jb # None /\ <<"freeze", c>> \in jb.todo /\ Freezable(c)
          /\ Works(j, <<"freeze", c>>, Put(jb.built, c, Frozen(raw, norm, TRUE)))
      BY <1>2, <1>4, <2>2 DEF FreezeCase
    <2>4. raw # Prefix
      <3>1. capture[c] # None /\ capture[c].stage = "passed"
        BY <2>3 DEF Freezable, Passed
      <3>2. CaptureOK(capture[c])
        BY <3>1 DEF LanesInv, CapturesOK
      <3> QED
        BY <2>2, <3>1, <3>2 DEF CaptureOK
    <2>5. PICK g : g = Frozen(raw, norm, TRUE)
      OBVIOUS
    <2>6. Sound(g)
      BY <2>4, <2>5, FrozenIsSound
    <2>7. jb.source # None => c \notin DOMAIN truth[jb.source]
      <3>1. JobOK(jb)
        BY <1>2, <2>3 DEF LanesInv, JobsOK
      <3> QED
        BY <2>3, <3>1 DEF JobOK, Derives
    <2> QED
      BY <1>2, <2>3, <2>5, <2>6, <2>7, WorksKeeps
  <1>5. CASE ReviseCase(j, c) /\ ~Fail(j)
    <2>1. PICK s, f : s = jb.source /\ f = lane[s].cases[c]
      OBVIOUS
    <2>2. PICK raw, norm : raw = Evidence(f).raw /\ norm = Observation(Evidence(f).raw)
      OBVIOUS
    <2>3. /\ jb # None /\ <<"revise", c>> \in jb.todo /\ Readable(f)
          /\ Works(j, <<"revise", c>>, Put(jb.built, c, Frozen(raw, norm, TRUE)))
      BY <1>2, <1>5, <2>1, <2>2 DEF ReviseCase
    <2>9. Evidence(f) = truth[s][c] /\ Evidence(f).raw # Prefix
      <3>1. <<"repack", c>> \in jb.todo \/ <<"revise", c>> \in jb.todo
        BY <2>3
      <3> QED
        BY <1>2, <2>1, <2>3, <3>1, SourceRead
    <2>4. Evidence(f) = truth[s][c] /\ raw # Prefix
      BY <2>2, <2>9
    <2>5. PICK g : g = Frozen(raw, norm, TRUE)
      OBVIOUS
    <2>6. Sound(g) /\ Evidence(g) = [raw |-> raw, norm |-> norm]
      BY <2>4, <2>5, FrozenIsSound, FrozenEvidence
    <2>7. Evidence(g).raw = truth[s][c].raw
      BY <2>2, <2>4, <2>6
    <2>8. s # None => c \in jb.revised
      <3>1. JobOK(jb)
        BY <1>2, <2>3 DEF LanesInv, JobsOK
      <3> QED
        BY <2>1, <2>3, <3>1 DEF JobOK, Derives
    <2> QED
      BY <1>2, <2>1, <2>3, <2>5, <2>6, <2>7, <2>8, WorksKeeps
  <1> QED
    BY <1>1, <1>3, <1>4, <1>5

LEMMA PublishKeeps ==
    ASSUME LanesInv, NEW j \in Jobs, Publish(j)
    PROVE  LanesInv' /\ \A l \in DOMAIN truth : l \in DOMAIN truth' /\ truth'[l] = truth[l]
  <1>1. CASE Fail(j)
    BY <1>1, FailKeeps DEF Fail
  <1>2. CASE ~Fail(j)
    <2>1. PICK jb, d : jb = job[j] /\ d = jb.dest
      OBVIOUS
    <2>2. jb # None /\ jb.todo = {} /\ d \notin DOMAIN lane /\ Published(j)
      BY <1>2, <2>1 DEF Publish
    <2>3. JobOK(jb)
      BY <2>1, <2>2 DEF LanesInv, JobsOK
    <2>4. PICK ln, was, from :
             /\ ln = [inventory |-> jb.inventory, cases |-> jb.built]
             /\ was = [c \in DOMAIN jb.built |-> Evidence(jb.built[c])]
             /\ from = [source |-> jb.source, revised |-> jb.revised]
             /\ lane' = Put(lane, d, ln) /\ truth' = Put(truth, d, was) /\ origin' = Put(origin, d, from)
      BY <2>1, <2>2 DEF Published
    <2>5. /\ job' = [job EXCEPT ![j] = None]
          /\ UNCHANGED <<observer, declared, capture>>
      BY <2>2 DEF Published
    <2>6. DOMAIN truth = DOMAIN lane /\ DOMAIN origin = DOMAIN lane /\ DOMAIN lane \subseteq Lanes
      BY DEF LanesInv, LanesOK
    <2>7. /\ DOMAIN lane' = DOMAIN lane \cup {d} /\ lane' = [l \in DOMAIN lane' |-> lane'[l]]
          /\ lane'[d] = ln /\ \A l \in DOMAIN lane : lane'[l] = lane[l]
      BY <2>2, <2>4 DEF Put
    <2>8. /\ DOMAIN truth' = DOMAIN lane \cup {d}
          /\ truth'[d] = was /\ \A l \in DOMAIN lane : truth'[l] = truth[l]
      BY <2>2, <2>4, <2>6 DEF Put
    <2>9. /\ DOMAIN origin' = DOMAIN lane \cup {d}
          /\ origin'[d] = from /\ \A l \in DOMAIN lane : origin'[l] = origin[l]
      BY <2>2, <2>4, <2>6 DEF Put
    <2>10. LaneOK(ln, was)
      <3>1. PICK built : built = jb.built
        OBVIOUS
      <3>2. ln.inventory = jb.inventory /\ ln.cases = built
        BY <2>4, <3>1
      <3>3. DOMAIN was = DOMAIN built /\ \A c \in DOMAIN built : was[c] = Evidence(built[c])
        BY <2>4, <3>1
      <3>4. built = [c \in DOMAIN built |-> built[c]]
        <4>1. PICK g : g = [c \in DOMAIN built |-> built[c]]
          OBVIOUS
        <4>2. jb = [op |-> jb.op, source |-> jb.source, dest |-> jb.dest, inventory |-> jb.inventory,
                    todo |-> jb.todo, revised |-> jb.revised, built |-> g]
          BY <2>3, <3>1, <4>1 DEF JobOK
        <4> QED
          BY <3>1, <4>1, <4>2
      <3>5. ln = [inventory |-> ln.inventory, cases |-> [c \in DOMAIN was |-> ln.cases[c]]]
        BY <2>4, <3>1, <3>2, <3>3, <3>4
      <3>6. \A c \in DOMAIN was : Traced(ln.cases[c], was[c])
        BY <2>3, <3>1, <3>2, <3>3, SoundIsTraced DEF JobOK
      <3>7. DOMAIN was \subseteq Implemented(ln.inventory)
        BY <2>3, <3>1, <3>2, <3>3 DEF JobOK
      <3> QED
        BY <3>5, <3>6, <3>7 DEF LaneOK
    <2>11. from.source = jb.source /\ from.revised = jb.revised
      BY <2>4
    <2>12. jb.source # None => Derives(jb)
      BY <2>3 DEF JobOK
    <2>13. LanesOK'
      <3>1. \A l \in DOMAIN lane' : LaneOK(lane'[l], truth'[l])
        BY <2>7, <2>8, <2>10 DEF LanesInv, LanesOK
      <3>2. \A l \in DOMAIN lane' : origin'[l].source # None => origin'[l].source \in DOMAIN lane'
        BY <2>7, <2>9, <2>11, <2>12 DEF LanesInv, LanesOK, Derives
      <3>3. d \in Lanes
        BY <2>1, <2>3 DEF JobOK
      <3> QED
        BY <2>6, <2>7, <2>8, <2>9, <3>1, <3>2, <3>3 DEF LanesOK
    <2>14. OldEvidenceKept'
      <3> SUFFICES ASSUME NEW l \in DOMAIN truth', origin'[l].source # None,
                          NEW s, s = origin'[l].source, NEW c \in DOMAIN truth'[s]
                   PROVE  /\ c \in DOMAIN truth'[l]
                          /\ truth'[l][c].raw = truth'[s][c].raw
                          /\ c \notin origin'[l].revised => truth'[l][c].norm = truth'[s][c].norm
        BY DEF OldEvidenceKept
      <3>1. CASE l = d
        <4>1. s = jb.source /\ Derives(jb)
          BY <2>9, <2>11, <2>12, <3>1
        <4>2. s \in DOMAIN lane /\ truth'[s] = truth[s]
          BY <2>8, <4>1 DEF Derives
        <4>3. Keeps(jb, c, truth[s][c])
          BY <2>2, <4>1, <4>2 DEF Derives
        <4>4. c \in DOMAIN was /\ was[c] = Evidence(jb.built[c])
          BY <2>4, <4>3 DEF Keeps
        <4> QED
          BY <2>8, <2>9, <2>11, <3>1, <4>2, <4>3, <4>4 DEF Keeps
      <3>2. CASE l # d
        <4>1. l \in DOMAIN lane /\ origin'[l] = origin[l] /\ truth'[l] = truth[l]
          BY <2>8, <2>9, <3>2
        <4>2. s \in DOMAIN lane /\ truth'[s] = truth[s]
          BY <2>8, <4>1 DEF LanesInv, LanesOK
        <4> QED
          BY <2>6, <4>1, <4>2 DEF LanesInv, OldEvidenceKept
      <3> QED
        BY <3>1, <3>2
    <2>15. JobsOK'
      <3>1. DOMAIN lane \subseteq DOMAIN lane'
            /\ \A l \in DOMAIN lane : truth'[l] = truth[l] /\ (WholeLane(lane[l]) => WholeLane(lane'[l]))
        BY <2>7, <2>8
      <3> QED
        BY <2>5, <3>1, OtherJobsKept DEF LanesInv
    <2>16. CapturesOK'
      BY <2>5 DEF LanesInv, CapturesOK
    <2> QED
      BY <2>5, <2>6, <2>8, <2>13, <2>14, <2>15, <2>16 DEF LanesInv
  <1> QED
    BY <1>1, <1>2

LEMMA DamageKeeps ==
    ASSUME LanesInv, NEW l \in Lanes, NEW c \in Cases, Damage(l, c)
    PROVE  LanesInv'
  <1>1. l \in DOMAIN lane /\ c \in DOMAIN lane[l].cases
    BY DEF Damage
  <1>2. PICK ln, was : ln = lane[l] /\ was = truth[l]
    OBVIOUS
  <1>3. LaneOK(ln, was)
    BY <1>1, <1>2 DEF LanesInv, LanesOK
  <1>4. PICK cases : cases = [x \in DOMAIN was |-> ln.cases[x]]
    OBVIOUS
  <1>5. ln = [inventory |-> ln.inventory, cases |-> cases] /\ ln.cases = cases /\ DOMAIN cases = DOMAIN was
    BY <1>3, <1>4 DEF LaneOK
  <1>6. PICK f : f \in Damaged(cases[c]) /\ lane' = [lane EXCEPT ![l].cases[c] = f]
    BY <1>2, <1>5 DEF Damage
  <1>7. PICK old : old = cases[c]
    OBVIOUS
  <1>8. Traced(old, was[c]) /\ c \in DOMAIN was
    BY <1>1, <1>2, <1>3, <1>5, <1>7 DEF LaneOK
  <1>9. f = [disk |-> f.disk, index |-> f.index] /\ f.index = old.index
    <2>1. \E disk : f = [old EXCEPT !.disk = disk]
      <3> DEFINE spare == ({"raw", "normalized", "documents"} \X {"identity", "gzip"}) \ DOMAIN old.disk
                 A == {[old EXCEPT !.disk = [p \in DOMAIN old.disk \ {x} |-> old.disk[p]]] : x \in DOMAIN old.disk}
                 B == {[old EXCEPT !.disk[x] = Junk] : x \in DOMAIN old.disk}
                 C == {[old EXCEPT !.disk = Put(@, x, Junk)] : x \in spare}
      <3>1. f \in A \/ f \in B \/ f \in C
        <4>1. Damaged(old) = A \cup B \cup C
          BY DEF Damaged
        <4> HIDE DEF A, B, C
        <4> QED
          BY <1>6, <1>7, <4>1
      <3>2. CASE f \in A
        BY <3>2
      <3>3. CASE f \in B
        BY <3>3
      <3>4. CASE f \in C
        BY <3>4
      <3> QED
        BY <3>1, <3>2, <3>3, <3>4
    <2>2. PICK disk : f = [old EXCEPT !.disk = disk]
      BY <2>1
    <2>3. old = [disk |-> old.disk, index |-> old.index]
      BY <1>8 DEF Traced
    <2>4. f = [disk |-> disk, index |-> old.index]
      BY <2>2, <2>3
    <2> QED
      BY <2>4
  <1>10. Traced(f, was[c])
    BY <1>8, <1>9 DEF Traced
  <1>11. PICK cases2 : cases2 = [cases EXCEPT ![c] = f]
    OBVIOUS
  <1>12. PICK ln2 : ln2 = [ln EXCEPT !.cases = cases2]
    OBVIOUS
  <1>13. ln2 = [inventory |-> ln.inventory, cases |-> cases2]
    BY <1>5, <1>12
  <1>14. ln2.inventory = ln.inventory /\ ln2.cases = cases2
    BY <1>13
  <1>15. DOMAIN cases2 = DOMAIN was /\ cases2 = [x \in DOMAIN was |-> cases2[x]]
    BY <1>4, <1>11
  <1>16. cases2[c] = f /\ \A x \in DOMAIN was : x # c => cases2[x] = cases[x]
    BY <1>4, <1>8, <1>11
  <1>17. LaneOK(ln2, was)
    <2>1. ln2 = [inventory |-> ln2.inventory, cases |-> [x \in DOMAIN was |-> ln2.cases[x]]]
      BY <1>13, <1>14, <1>15
    <2>2. \A x \in DOMAIN was : Traced(ln2.cases[x], was[x])
      BY <1>3, <1>5, <1>10, <1>14, <1>16 DEF LaneOK
    <2> QED
      BY <1>3, <1>14, <2>1, <2>2 DEF LaneOK
  <1>18. /\ lane' = [lane EXCEPT ![l] = ln2]
    <2>1. [ln EXCEPT !.cases[c] = f] = ln2
      BY <1>5, <1>11, <1>12
    <2> QED
      BY <1>2, <1>6, <2>1 DEF LanesInv, LanesOK
  <1>19. DOMAIN lane' = DOMAIN lane /\ lane' = [x \in DOMAIN lane' |-> lane'[x]]
         /\ lane'[l] = ln2 /\ \A x \in DOMAIN lane : x # l => lane'[x] = lane[x]
    BY <1>1, <1>18 DEF LanesInv, LanesOK
  <1>20. UNCHANGED <<observer, declared, capture, job, truth, origin>>
    BY DEF Damage
  <1>21. LanesOK'
    <2>1. \A x \in DOMAIN lane' : LaneOK(lane'[x], truth'[x])
      BY <1>2, <1>17, <1>19, <1>20 DEF LanesInv, LanesOK
    <2> QED
      BY <1>19, <1>20, <2>1 DEF LanesInv, LanesOK
  <1>22. JobsOK'
    <2>1. \A x \in DOMAIN lane : WholeLane(lane[x]) => WholeLane(lane'[x])
      BY <1>2, <1>5, <1>14, <1>15, <1>19 DEF WholeLane
    <2> QED
      BY <1>19, <1>20, <2>1, AllJobsKept DEF LanesInv
  <1> QED
    BY <1>20, <1>21, <1>22 DEF LanesInv, CapturesOK, OldEvidenceKept

LEMMA LanesInitially == LanesInit => LanesInv
  <1> SUFFICES ASSUME LanesInit PROVE LanesInv
    OBVIOUS
  <1>0. PICK old \in Cases, l \in Lanes, o \in Observers, raw \in Raws \ OverBudget :
          /\ declared = [c \in Cases |-> IF c = old THEN "v1" ELSE "absent"]
          /\ lane = [x \in {l} |-> [inventory |-> declared,
                                    cases |-> [c \in {old} |-> Frozen(raw, Normal[o][raw], FALSE)]]]
          /\ truth = [x \in {l} |-> [c \in {old} |-> [raw |-> raw, norm |-> Normal[o][raw]]]]
          /\ origin = [x \in {l} |-> [source |-> None, revised |-> {}]]
    BY Zenon DEF LanesInit
  <1>1. PICK norm :
          /\ norm = Normal[o][raw]
          /\ lane = [x \in {l} |-> [inventory |-> declared, cases |-> [c \in {old} |-> Frozen(raw, norm, FALSE)]]]
          /\ truth = [x \in {l} |-> [c \in {old} |-> [raw |-> raw, norm |-> norm]]]
    BY <1>0
  <1>2. capture = [c \in Cases |-> None] /\ job = [j \in Jobs |-> None] /\ observer \in Observers
    BY DEF LanesInit
  <1>3. CapturesOK /\ JobsOK
    BY <1>2 DEF CapturesOK, JobsOK
  <1>4. declared \in [Cases -> Metadata] /\ old \in Implemented(declared)
    BY <1>0 DEF Metadata, Implemented
  <1>5. PICK e, f, cases, was, inv :
          /\ e = [raw |-> raw, norm |-> norm] /\ f = Frozen(raw, norm, FALSE)
          /\ cases = [c \in {old} |-> f] /\ was = [c \in {old} |-> e] /\ inv = declared
    OBVIOUS
  <1>6. PICK ln : ln = [inventory |-> inv, cases |-> cases]
    OBVIOUS
  <1>7. lane = [x \in {l} |-> ln] /\ truth = [x \in {l} |-> was]
    BY <1>1, <1>5, <1>6
  <1>8. Traced(f, e)
    <2>1. e.raw = raw /\ e.norm = norm /\ raw # Prefix
      BY <1>5, LanesAssumption
    <2>2. f = [disk |-> f.disk, index |-> f.index]
      BY <1>5, FrozenEvidence
    <2> QED
      BY <1>5, <2>1, <2>2 DEF Traced
  <1>9. LaneOK(ln, was)
    <2>1. ln.inventory = inv /\ ln.cases = cases
      BY <1>6
    <2>2. DOMAIN was = {old} /\ was[old] = e /\ cases[old] = f
          /\ cases = [c \in DOMAIN was |-> cases[c]]
      BY <1>5
    <2>3. ln = [inventory |-> ln.inventory, cases |-> [c \in DOMAIN was |-> ln.cases[c]]]
      BY <1>6, <2>1, <2>2
    <2> QED
      BY <1>4, <1>5, <1>8, <2>1, <2>2, <2>3 DEF LaneOK
  <1>10. \A x \in DOMAIN origin : origin[x].source = None
    BY <1>0
  <1>11. DOMAIN origin = {l} /\ DOMAIN lane = {l} /\ DOMAIN truth = {l}
         /\ lane[l] = ln /\ truth[l] = was /\ lane = [x \in DOMAIN lane |-> lane[x]]
    BY <1>0, <1>7
  <1>12. LanesOK /\ OldEvidenceKept
    BY <1>9, <1>10, <1>11 DEF LanesOK, OldEvidenceKept
  <1> QED
    BY <1>2, <1>3, <1>4, <1>12 DEF LanesInv

LEMMA LanesStep == LanesInv /\ [LanesNext]_laneVars => LanesInv'
  <1> SUFFICES ASSUME LanesInv, [LanesNext]_laneVars PROVE LanesInv'
    OBVIOUS
  <1>1. ASSUME NEW c \in Cases,
               \/ \E raw \in Raws : StartCase(c, raw)
               \/ Collect(c) \/ Overflow(c) \/ Observe(c) \/ FailCase(c) \/ Discard(c)
        PROVE  LanesInv'
    BY <1>1, CaseKeeps
  <1>2. ASSUME NEW j \in Jobs,
               \/ \E d \in Lanes : FreezeLane(j, d)
               \/ \E s, d \in Lanes : \/ RepackLane(j, s, d) \/ ExtendCapture(j, s, d)
                                      \/ \E ids \in SUBSET Cases : ReviseNormalization(j, s, d, ids)
        PROVE  LanesInv'
    BY <1>2, BeginsKeep
  <1>3. ASSUME NEW j \in Jobs, NEW c \in Cases, RepackCase(j, c) \/ FreezeCase(j, c) \/ ReviseCase(j, c)
        PROVE  LanesInv'
    BY <1>3, WorkKeeps
  <1>4. ASSUME NEW j \in Jobs, Publish(j) \/ Kill(j)
        PROVE  LanesInv'
    BY <1>4, PublishKeeps, FailKeeps DEF Kill
  <1>5. ASSUME (\E o \in Observers : NewObserver(o)) \/ \E c \in Cases, m \in Metadata : Declare(c, m)
        PROVE  LanesInv'
    <2>1. UNCHANGED <<capture, lane, job, truth, origin>>
      BY <1>5 DEF NewObserver, Declare
    <2>2. observer' \in Observers /\ declared' \in [Cases -> Metadata]
      BY <1>5 DEF NewObserver, Declare, LanesInv
    <2>3. CapturesOK' /\ LanesOK' /\ OldEvidenceKept'
      BY <2>1 DEF LanesInv, CapturesOK, LanesOK, OldEvidenceKept
    <2>4. JobsOK'
      BY <2>1, AllJobsKept DEF LanesInv
    <2> QED
      BY <2>2, <2>3, <2>4 DEF LanesInv
  <1>6. ASSUME NEW l \in Lanes, NEW c \in Cases, Damage(l, c)
        PROVE  LanesInv'
    BY <1>6, DamageKeeps
  <1>7. CASE UNCHANGED laneVars
    <2>1. UNCHANGED <<observer, declared, capture, lane, job, truth, origin>>
      BY <1>7 DEF laneVars
    <2> QED
      BY <2>1, CapturesOnly DEF CapturesOK, LanesInv
  <1> QED
    BY <1>1, <1>2, <1>3, <1>4, <1>5, <1>6, <1>7 DEF LanesNext

LEMMA LanesInductive == LanesSpec => []LanesInv
  BY LanesInitially, LanesStep, PTL DEF LanesSpec

LEMMA LanesTypes == LanesInv => LanesTypeOK
  <1> SUFFICES ASSUME LanesInv PROVE LanesTypeOK
    OBVIOUS
  <1>1. ASSUME NEW c \in Cases, capture[c] # None
        PROVE  /\ capture[c].raw \in Raws \cup {Prefix} /\ capture[c].norm \in Norms \cup {None}
               /\ (capture[c].norm # None) <=> (capture[c].stage = "passed")
    BY <1>1 DEF LanesInv, CapturesOK, CaptureOK
  <1>2. ASSUME NEW l \in DOMAIN lane
        PROVE  DOMAIN lane[l].cases \subseteq Implemented(lane[l].inventory)
    <2>1. PICK ln, was, cs : ln = lane[l] /\ was = truth[l] /\ cs = [c \in DOMAIN was |-> ln.cases[c]]
      OBVIOUS
    <2>2. LaneOK(ln, was)
      BY <1>2, <2>1 DEF LanesInv, LanesOK
    <2>3. ln = [inventory |-> ln.inventory, cases |-> cs]
      BY <2>1, <2>2 DEF LaneOK
    <2>4. ln.cases = cs /\ DOMAIN cs = DOMAIN was
      BY <2>1, <2>3
    <2> QED
      BY <2>1, <2>2, <2>4 DEF LaneOK
  <1>3. ASSUME NEW j \in DOMAIN job, job[j] # None
        PROVE  /\ job[j].dest \in Lanes /\ job[j].source \in DOMAIN lane \cup {None}
               /\ DOMAIN job[j].built \subseteq Implemented(job[j].inventory)
    <2>1. JobOK(job[j])
      <3>1. j \in Jobs
        BY <1>3 DEF LanesInv, JobsOK
      <3> QED
        BY <1>3, <3>1 DEF LanesInv, JobsOK
    <2> QED
      BY <2>1 DEF JobOK, Derives
  <1> QED
    BY <1>1, <1>2, <1>3 DEF LanesTypeOK, LanesInv, LanesOK

LEMMA LanesRead == LanesInv => ReadsWhatWasFrozen /\ NoPrefixIsFrozen
  <1> SUFFICES ASSUME LanesInv, NEW l \in DOMAIN lane
               PROVE  /\ \A c \in DOMAIN lane[l].cases :
                            Readable(lane[l].cases[c]) => Evidence(lane[l].cases[c]) = truth[l][c]
                      /\ \A c \in DOMAIN truth[l] : truth[l][c].raw # Prefix
    BY DEF ReadsWhatWasFrozen, NoPrefixIsFrozen, LanesInv, LanesOK
  <1>1. PICK ln, was, cs : ln = lane[l] /\ was = truth[l] /\ cs = [c \in DOMAIN was |-> ln.cases[c]]
    OBVIOUS
  <1>2. LaneOK(ln, was)
    BY <1>1 DEF LanesInv, LanesOK
  <1>3. ln = [inventory |-> ln.inventory, cases |-> cs]
    BY <1>1, <1>2 DEF LaneOK
  <1>4. ln.cases = cs /\ DOMAIN cs = DOMAIN was
    BY <1>1, <1>3
  <1>5. \A c \in DOMAIN was : Traced(ln.cases[c], was[c])
    BY <1>2 DEF LaneOK
  <1>6. \A c \in DOMAIN was : Readable(ln.cases[c]) => Evidence(ln.cases[c]) = was[c]
    BY <1>5, TracedRead
  <1>7. \A c \in DOMAIN was : was[c].raw # Prefix
    BY <1>5 DEF Traced
  <1> QED
    BY <1>1, <1>4, <1>6, <1>7

\* A truncated capture never becomes evidence, a lane keeps what it was made
\* from, and what can be read of a damaged one is what was frozen.
THEOREM EvidenceIsAlwaysKept == LanesSpec => []EvidenceIsKept
  <1>1. LanesInv => EvidenceIsKept
    BY LanesTypes, LanesRead DEF EvidenceIsKept, LanesInv
  <1> QED
    BY <1>1, LanesInductive, PTL

\* No job replaces or takes away a lane that another one has published.
THEOREM PublishedIsNeverReplaced == LanesSpec => PublishedStays
  <1> DEFINE Stays == \A l \in DOMAIN truth : l \in DOMAIN truth' /\ truth'[l] = truth[l]
  <1>1. LanesInv /\ [LanesNext]_laneVars => [Stays]_laneVars
    <2> SUFFICES ASSUME LanesInv, LanesNext PROVE Stays
      OBVIOUS
    <2>1. ASSUME NEW j \in Jobs, Publish(j) PROVE Stays
      BY <2>1, PublishKeeps
    <2>2. CASE UNCHANGED truth
      BY <2>2
    <2>3. ASSUME NEW c \in Cases,
                 \/ \E raw \in Raws : StartCase(c, raw)
                 \/ Collect(c) \/ Overflow(c) \/ Observe(c) \/ FailCase(c) \/ Discard(c)
          PROVE  UNCHANGED truth
      BY <2>3 DEF StartCase, Collect, Overflow, Observe, FailCase, Discard
    <2>4. ASSUME NEW j \in Jobs,
                 \/ \E d \in Lanes : FreezeLane(j, d)
                 \/ \E s, d \in Lanes : \/ RepackLane(j, s, d) \/ ExtendCapture(j, s, d)
                                        \/ \E ids \in SUBSET Cases : ReviseNormalization(j, s, d, ids)
          PROVE  UNCHANGED truth
      BY <2>4 DEF FreezeLane, RepackLane, ExtendCapture, ReviseNormalization, Begin
    <2>5. ASSUME NEW j \in Jobs, NEW c \in Cases, RepackCase(j, c) \/ FreezeCase(j, c) \/ ReviseCase(j, c)
          PROVE  UNCHANGED truth
      BY <2>5 DEF RepackCase, FreezeCase, ReviseCase, Works, Fail
    <2>6. ASSUME NEW j \in Jobs, Kill(j)
          PROVE  UNCHANGED truth
      BY <2>6 DEF Kill, Fail
    <2>7. ASSUME \/ \E o \in Observers : NewObserver(o)
                 \/ \E c \in Cases, m \in Metadata : Declare(c, m)
                 \/ \E l \in Lanes, c \in Cases : Damage(l, c)
          PROVE  UNCHANGED truth
      BY <2>7 DEF NewObserver, Declare, Damage
    <2> HIDE DEF Stays
    <2> QED
      BY <2>1, <2>2, <2>3, <2>4, <2>5, <2>6, <2>7 DEF LanesNext
  <1> QED
    BY <1>1, LanesInductive, PTL DEF LanesSpec, PublishedStays
=============================================================================
