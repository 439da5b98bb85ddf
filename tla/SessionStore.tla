---------------------------- MODULE SessionStore ----------------------------
(***************************************************************************)
(* The directory of one session (session_store.go): the lock file that     *)
(* keeps two processes apart, and the temporary file, rename and directory *)
(* sync that replace checkpoint.json.                                      *)
(*                                                                         *)
(* A file has what a reader sees in the cache and what a power loss would  *)
(* leave of it.  named is the file that checkpoint.json names now, entries *)
(* every file that the directory on the disk may name.                     *)
(***************************************************************************)
CONSTANTS
    Process,
    NoProcess,
    Checkpoint,
    Absent,     \* no checkpoint.json
    Torn        \* contents that were not synced

ASSUME SessionStoreAssumption ==
    /\ NoProcess \notin Process
    /\ Absent \notin Checkpoint /\ Torn \notin Checkpoint /\ Absent # Torn

VARIABLES
    named, entries,
    created,        \* the session directory exists
    holder,         \* the process whose flock succeeded
    pc,
    temp,           \* the file each process is staging
    own             \* history variable: what each process loaded or tried to save

directory == <<named, entries>>
vars == <<directory, created, holder, pc, temp, own>>

Content == Checkpoint \cup {Absent, Torn}
File == [cache : Content, durable : Content]
Missing == [cache |-> Absent, durable |-> Absent]

Saving == {"write", "sync", "rename", "dirsync"}

TypeOK ==
    /\ named \in File /\ entries \subseteq File
    /\ created \in BOOLEAN
    /\ holder \in Process \cup {NoProcess}
    /\ pc \in [Process -> {"closed", "opened", "idle"} \cup Saving]
    /\ temp \in [Process -> File]
    /\ own \in [Process -> SUBSET Content]

Init ==
    /\ named = Missing /\ entries = {Missing}
    /\ created = FALSE
    /\ holder = NoProcess
    /\ pc = [p \in Process |-> "closed"]
    /\ temp = [p \in Process |-> Missing]
    /\ own = [p \in Process |-> {}]

At(p, label) == pc[p] = label
Goto(p, label) == pc' = [pc EXCEPT ![p] = label]

(***************************************************************************)
(* openSessionStore, load and close.                                       *)
(***************************************************************************)
FlockIgnored(p) == holder' = p
Flock(p) == holder = NoProcess /\ holder' = p

\* The process that makes the directory creates the session; no other knows its
\* name before.
Create(p) ==
    /\ At(p, "closed") /\ ~created
    /\ created' = TRUE
    /\ Flock(p)
    /\ own' = [own EXCEPT ![p] = {Absent}]
    /\ Goto(p, "idle")
    /\ UNCHANGED <<directory, temp>>

Open(p) ==
    /\ At(p, "closed") /\ created
    /\ Flock(p)
    /\ Goto(p, "opened")
    /\ UNCHANGED <<directory, created, temp, own>>

Load(p) ==
    /\ At(p, "opened") /\ named.cache \in Checkpoint
    /\ own' = [own EXCEPT ![p] = {named.cache}]
    /\ Goto(p, "idle")
    /\ UNCHANGED <<directory, created, holder, temp>>

\* The session is left, or its checkpoint could not be loaded.
Close(p) ==
    /\ At(p, "opened") \/ At(p, "idle")
    /\ holder' = NoProcess
    /\ own' = [own EXCEPT ![p] = {}]
    /\ Goto(p, "closed")
    /\ UNCHANGED <<directory, created, temp>>

(***************************************************************************)
(* save.                                                                   *)
(***************************************************************************)
CreateTemp(p) ==
    /\ At(p, "idle")
    /\ temp' = [temp EXCEPT ![p] = [cache |-> Torn, durable |-> Torn]]
    /\ Goto(p, "write")
    /\ UNCHANGED <<directory, created, holder, own>>

Write(p) ==
    /\ At(p, "write")
    /\ \E cp \in Checkpoint :
          /\ temp' = [temp EXCEPT ![p].cache = cp]
          /\ own' = [own EXCEPT ![p] = @ \cup {cp}]
    /\ Goto(p, "sync")
    /\ UNCHANGED <<directory, created, holder>>

SyncedNothing(f) == f
Synced(f) == [f EXCEPT !.durable = f.cache]

Sync(p) ==
    /\ At(p, "sync")
    /\ temp' = [temp EXCEPT ![p] = Synced(@)]
    /\ Goto(p, "rename")
    /\ UNCHANGED <<directory, created, holder, own>>

\* The reader sees the new checkpoint; the disk may name it or an older one.
Rename(p) ==
    /\ At(p, "rename")
    /\ named' = temp[p]
    /\ entries' = entries \cup {temp[p]}
    /\ Goto(p, "dirsync")
    /\ UNCHANGED <<created, holder, temp, own>>

SyncDirectory(p) ==
    /\ At(p, "dirsync")
    /\ entries' = {named}
    /\ Goto(p, "idle")
    /\ UNCHANGED <<named, created, holder, temp, own>>

\* A step of save fails: the deferred Remove takes the temporary file away,
\* unless the rename has.
SaveFails(p) ==
    /\ pc[p] \in Saving
    /\ Goto(p, "idle")
    /\ UNCHANGED <<directory, created, holder, temp, own>>

(***************************************************************************)
(* The end of a process releases its flock; a power loss ends them all and *)
(* leaves one of the files the directory may name.                         *)
(***************************************************************************)
Crash(p) ==
    /\ ~At(p, "closed")
    /\ holder' = NoProcess
    /\ own' = [own EXCEPT ![p] = {}]
    /\ Goto(p, "closed")
    /\ UNCHANGED <<directory, created, temp>>

PowerLoss ==
    /\ \E f \in entries :
          /\ named' = [cache |-> f.durable, durable |-> f.durable]
          /\ entries' = {named'}
    /\ holder' = NoProcess
    /\ pc' = [p \in Process |-> "closed"]
    /\ own' = [p \in Process |-> {}]
    /\ UNCHANGED <<created, temp>>

Step(p) ==
    \/ Create(p) \/ Open(p) \/ Load(p) \/ Close(p)
    \/ CreateTemp(p) \/ Write(p) \/ Sync(p) \/ Rename(p) \/ SyncDirectory(p)
    \/ SaveFails(p) \/ Crash(p)

Next == (\E p \in Process : Step(p)) \/ PowerLoss

Spec == Init /\ [][Next]_vars

(***************************************************************************)
(* Properties.                                                             *)
(***************************************************************************)

\* No lost update: what a process that has the session open would read is what
\* it loaded or what it tried to save itself; no other process replaces the
\* checkpoint under it.
OwnCheckpoint ==
    \A p \in Process : pc[p] \in {"idle"} \cup Saving => named.cache \in own[p]

\* To a session the directory is a CheckpointStore: the readable checkpoint and
\* the ones a power loss may leave, none of them torn.  The rename is a save
\* that is not yet synced, the directory sync saves the same checkpoint again.
Abstract == INSTANCE CheckpointStore WITH
               Checkpoint <- Checkpoint \cup {Absent},
               file       <- named.cache,
               survivors  <- {f.durable : f \in entries}

ImplementsStore == Abstract!Spec
=============================================================================
