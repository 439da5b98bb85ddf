--------------------------- MODULE ReferenceCache ---------------------------
(***************************************************************************)
(* The oracle of the parity suite: parity/golden.py with the publication   *)
(* lock of parity/capture_lock.py.  A capture runs the pinned reference    *)
(* and publishes a lane of goldens in a cache outside the repository, with *)
(* --update also the locks and samples in the suite, sealed by the digest  *)
(* in manifest.json.  A comparison accepts or refuses that cache.  Either  *)
(* may be killed at any point; the suite is a working tree that people     *)
(* check out and edit.  The other files are one lock and one set of        *)
(* samples; cli-acceptance.json, written on Darwin only, is left out.      *)
(***************************************************************************)
EXTENDS Naturals, FiniteSets, Sequences

CONSTANTS
    Captures, Comparisons,  \* processes
    Commits,                \* versions of the suite's own sources
    Oracles,                \* what the reference may turn out to do
    SampleOf,               \* the part of an oracle that the samples show
    LockOf,                 \* the oracle that is committed with each version
    EditsDuringCapture,     \* whether the suite may change while it is captured
    CutShort,               \* what is in a file whose copy was cut short
    Nothing

Files == Oracles \cup {CutShort}
Samples == {SampleOf[o] : o \in Oracles} \cup {CutShort}
Digests == Commits \X Files \X Samples
Suites == [code : Commits, lock : Files, samples : Samples, seal : Digests \cup {CutShort}]
Lanes == [content : Oracles, identity : Digests \cup {Nothing}, stamped : BOOLEAN]

ASSUME ReferenceCacheAssumption ==
    /\ Captures \cap Comparisons = {}
    /\ LockOf \in [Commits -> Oracles]
    /\ DOMAIN SampleOf = Oracles
    /\ EditsDuringCapture \in BOOLEAN
    /\ CutShort # Nothing /\ {CutShort, Nothing} \cap (Oracles \cup Commits) = {}
    /\ CutShort \notin Digests /\ Nothing \notin Lanes \cup Suites

Processes == Captures \cup Comparisons

VARIABLES
    suite,     \* [code, lock, samples, seal]
    cached,    \* the lane in the cache: Nothing or [content, identity, stamped]
    previous,  \* the lane that was moved away and is not replaced yet
    proc,      \* per process, see Idle
    begun      \* history: the suite that the last update found; Nothing if it has
               \* succeeded or was killed, or if somebody has edited the suite since

cacheVars == <<suite, cached, previous, proc, begun>>

(* suite_digest: everything but the digest's own field.                    *)
Digest(su) == <<su.code, su.lock, su.samples>>

Committed(v) ==
    [code |-> v, lock |-> LockOf[v], samples |-> SampleOf[LockOf[v]],
     seal |-> <<v, LockOf[v], SampleOf[LockOf[v]]>>]

Idle == [pc |-> "idle", update |-> FALSE, lock |-> Nothing, staging |-> Nothing,
         todo |-> <<>>, prepared |-> Nothing, saved |-> Nothing, old |-> Nothing]

Holds(p) == proc[p].pc # "idle"
Capturing == \E c \in Captures : Holds(c)

(* capture_lock: shared by comparisons, refused at once if it is taken.    *)
MayLock(p) ==
    IF p \in Captures THEN \A q \in Processes : ~Holds(q) ELSE ~Capturing

(* read_lock: the manifest's digest is that of the files.                  *)
Sealed(su) == su.seal # CutShort /\ su.seal = Digest(su)

Goto(p, pc) == proc' = [proc EXCEPT ![p].pc = pc]
Ends(p) == proc' = [proc EXCEPT ![p] = Idle]

-----------------------------------------------------------------------------
(* A capture: golden.main, _main, regenerate.                              *)

StartCapture(p, update) ==
    /\ proc[p].pc = "idle" /\ MayLock(p)
    /\ IF update THEN suite.seal # CutShort ELSE Sealed(suite)
    /\ proc' = [proc EXCEPT ![p] = [Idle EXCEPT !.pc = "build", !.update = update, !.lock = suite.lock]]
    /\ UNCHANGED <<suite, cached, previous, begun>>

(* build_reference: the binary has the pinned digest, or the capture ends. *)
Build(p) ==
    /\ proc[p].pc = "build"
    /\ Goto(p, "capturing") \/ Ends(p)
    /\ UNCHANGED <<suite, cached, previous, begun>>

(* Run every case and freeze its evidence into staging; or a case fails,   *)
(* and the evidence goes to a directory of its own.                        *)
CaptureLane(p) ==
    /\ proc[p].pc = "capturing"
    /\ \/ \E o \in Oracles :
            proc' = [proc EXCEPT ![p].staging = [content |-> o, identity |-> Nothing, stamped |-> FALSE],
                                 ![p].pc = IF proc[p].update THEN "prepare" ELSE "verify"]
       \/ Ends(p)
    /\ UNCHANGED <<suite, cached, previous, begun>>

(* update_oracle: a copy of the suite with new generated files and seal is *)
(* verified against staging, the originals are read, and then the files    *)
(* are copied one by one, the manifest last.                               *)
Prepared(su, o) ==
    LET new == [su EXCEPT !.lock = o, !.samples = SampleOf[o]]
    IN [new EXCEPT !.seal = Digest(new)]

Prepare(p) ==
    /\ proc[p].pc = "prepare"
    /\ proc' = [proc EXCEPT ![p].prepared = Prepared(suite, proc[p].staging.content),
                            ![p].saved = suite,
                            ![p].lock = proc[p].staging.content,
                            ![p].todo = <<"lock", "samples", "seal">>,
                            ![p].pc = "publish"]
    /\ begun' = suite
    /\ UNCHANGED <<suite, cached, previous>>

WriteFile(name, contents) == suite' = [suite EXCEPT ![name] = contents]

Publish(p) ==
    /\ proc[p].pc = "publish"
    /\ WriteFile(Head(proc[p].todo), proc[p].prepared[Head(proc[p].todo)])
    /\ proc' = [proc EXCEPT ![p].todo = Tail(@),
                            ![p].pc = IF Len(proc[p].todo) = 1 THEN "verify" ELSE "publish"]
    /\ begun' = IF Len(proc[p].todo) = 1 THEN Nothing ELSE begun
    /\ UNCHANGED <<cached, previous>>

(* A copy fails half way: all originals are written back.                  *)
\* faulty: the error is passed on at once
PublishStops(p) ==
    /\ proc[p].pc = "publish"
    /\ WriteFile(Head(proc[p].todo), CutShort)
    /\ Ends(p)
    /\ UNCHANGED <<cached, previous, begun>>
PublishFails(p) ==
    /\ proc[p].pc = "publish"
    /\ WriteFile(Head(proc[p].todo), CutShort)
    /\ proc' = [proc EXCEPT ![p].todo = <<"lock", "samples", "seal">>, ![p].pc = "restore"]
    /\ UNCHANGED <<cached, previous, begun>>

Restore(p) ==
    /\ proc[p].pc = "restore"
    /\ WriteFile(Head(proc[p].todo), proc[p].saved[Head(proc[p].todo)])
    /\ IF Len(proc[p].todo) = 1
       THEN Ends(p)
       ELSE proc' = [proc EXCEPT ![p].todo = Tail(@)]
    /\ UNCHANGED <<cached, previous, begun>>

(* Writing back may fail half way as well, and then that is what is left.  *)
RestoreFails(p) ==
    /\ proc[p].pc = "restore"
    /\ WriteFile(Head(proc[p].todo), CutShort)
    /\ Ends(p) /\ begun' = Nothing
    /\ UNCHANGED <<cached, previous>>

(* verify_cache of staging: every case replayed and compared with the lock *)
(* that was read or made, the samples with those that are in the suite.    *)
Verified(o, lock) == o = lock /\ SampleOf[o] = suite.samples

\* faulty: what was just captured needs no replay
VerifyNothing(p) ==
    /\ proc[p].pc = "verify"
    /\ Goto(p, "identify")
    /\ UNCHANGED <<suite, cached, previous, begun>>
Verify(p) ==
    /\ proc[p].pc = "verify"
    /\ IF Verified(proc[p].staging.content, proc[p].lock) THEN Goto(p, "identify") ELSE Ends(p)
    /\ UNCHANGED <<suite, cached, previous, begun>>

(* cache.json holds identity(suite), computed now; then the stamp.         *)
Identify(p) ==
    /\ proc[p].pc = "identify"
    /\ proc' = [proc EXCEPT ![p].staging.identity = Digest(suite), ![p].staging.stamped = TRUE, ![p].pc = "swap"]
    /\ UNCHANGED <<suite, cached, previous, begun>>

MoveOldAway(p) ==
    /\ proc[p].pc = "swap"
    /\ proc' = [proc EXCEPT ![p].old = cached, ![p].pc = "place"]
    /\ previous' = IF cached = Nothing THEN previous ELSE cached
    /\ cached' = Nothing
    /\ UNCHANGED <<suite, begun>>

Place(p) ==
    /\ proc[p].pc = "place"
    /\ cached' = proc[p].staging /\ previous' = Nothing
    /\ Ends(p)
    /\ UNCHANGED <<suite, begun>>

(* The rename fails: the old lane comes back.                              *)
PlaceFails(p) ==
    /\ proc[p].pc = "place"
    /\ cached' = proc[p].old
    /\ previous' = IF proc[p].old = Nothing THEN previous ELSE Nothing
    /\ Ends(p)
    /\ UNCHANGED <<suite, begun>>

-----------------------------------------------------------------------------
(* A comparison: run.main with ensure_cache(read_only).                    *)

StartComparison(p) ==
    /\ proc[p].pc = "idle" /\ MayLock(p)
    /\ Sealed(suite)
    /\ proc' = [proc EXCEPT ![p] = [Idle EXCEPT !.pc = "check", !.lock = suite.lock]]
    /\ UNCHANGED <<suite, cached, previous, begun>>

(* The cache must claim this suite's identity; a stamp that still fits     *)
(* stands for the replay, else every case is replayed against the lock.    *)
Acceptable(lock) ==
    /\ cached # Nothing
    /\ cached.identity = Digest(suite)
    /\ cached.stamped \/ Verified(cached.content, lock)

CheckCache(p) ==
    /\ proc[p].pc = "check"
    /\ IF Acceptable(proc[p].lock) THEN Goto(p, "compare") ELSE Ends(p)
    /\ UNCHANGED <<suite, cached, previous, begun>>

(* execute_case: load_golden and compare.                                  *)
Compare(p) ==
    /\ proc[p].pc = "compare" /\ cached # Nothing
    /\ Ends(p)
    /\ UNCHANGED <<suite, cached, previous, begun>>

-----------------------------------------------------------------------------
(* The environment.                                                        *)

MayEdit == \A p \in Processes : Holds(p) => (p \in Captures /\ EditsDuringCapture)

CheckoutSuite(v) ==
    /\ MayEdit
    /\ suite' = Committed(v)
    /\ begun' = Nothing
    /\ UNCHANGED <<cached, previous, proc>>

EditSources(v) ==
    /\ MayEdit
    /\ suite' = [suite EXCEPT !.code = v]
    /\ begun' = Nothing
    /\ UNCHANGED <<cached, previous, proc>>

(* A file of the cache is written, replaced or removed by somebody else,   *)
(* while nobody compares: the fingerprint no longer fits.                  *)
Tamper ==
    /\ cached # Nothing /\ \A p \in Processes : ~Holds(p)
    /\ \E o \in Oracles : cached' = [cached EXCEPT !.content = o, !.stamped = FALSE]
    /\ UNCHANGED <<suite, previous, proc, begun>>

(* The process is killed; a copy it was making may be cut short.           *)
KillProcess(p) ==
    /\ Holds(p)
    /\ IF proc[p].pc \in {"publish", "restore"}
       THEN UNCHANGED suite \/ WriteFile(Head(proc[p].todo), CutShort)
       ELSE UNCHANGED suite
    /\ Ends(p) /\ begun' = Nothing
    /\ UNCHANGED <<cached, previous>>

-----------------------------------------------------------------------------
CacheInit ==
    /\ \E v \in Commits : suite = Committed(v)
    /\ cached = Nothing /\ previous = Nothing
    /\ proc = [p \in Processes |-> Idle]
    /\ begun = Nothing

CaptureSteps(p) ==
    \/ \E update \in BOOLEAN : StartCapture(p, update)
    \/ Build(p) \/ CaptureLane(p) \/ Prepare(p) \/ Publish(p) \/ PublishFails(p) \/ Restore(p)
    \/ Verify(p) \/ Identify(p) \/ MoveOldAway(p) \/ Place(p) \/ PlaceFails(p)

ComparisonSteps(p) == StartComparison(p) \/ CheckCache(p) \/ Compare(p)

Environment ==
    \/ \E v \in Commits : CheckoutSuite(v) \/ EditSources(v)
    \/ Tamper
    \/ \E p \in Processes : KillProcess(p)

CacheNext ==
    \/ \E p \in Captures : CaptureSteps(p) \/ RestoreFails(p)
    \/ \E p \in Comparisons : ComparisonSteps(p)
    \/ Environment

CacheSpec == CacheInit /\ [][CacheNext]_cacheVars

-----------------------------------------------------------------------------
CacheTypeOK ==
    /\ suite \in Suites
    /\ cached \in Lanes \cup {Nothing} /\ previous \in Lanes \cup {Nothing}
    /\ \A p \in Processes :
         /\ proc[p].pc \in {"idle", "build", "capturing", "prepare", "publish", "restore", "verify", "identify",
                            "swap", "place", "check", "compare"}
         /\ proc[p].staging \in Lanes \cup {Nothing} /\ proc[p].old \in Lanes \cup {Nothing}
         /\ proc[p].prepared \in Suites \cup {Nothing} /\ proc[p].saved \in Suites \cup {Nothing}
         /\ proc[p].lock \in Files \cup {Nothing}
    /\ begun \in Suites \cup {Nothing}

(* Every comparison used the oracle that is sealed in the suite, whatever  *)
(* was killed, torn or written before.                                     *)
ComparesWithSealed ==
    \A r \in Comparisons : proc[r].pc = "compare" => Sealed(suite) /\ cached # Nothing /\ cached.content = suite.lock

(* An update that was cut short leaves a suite that no comparison takes:   *)
(* a seal that fits means that all files come from one oracle.             *)
NothingTornIsSealed == Sealed(suite) => suite.lock \in Oracles /\ suite.samples = SampleOf[suite.lock]

(* An update that fails, is not killed and can write the originals back    *)
(* leaves the suite as it was.                                             *)
Publishing == \E c \in Captures : proc[c].pc \in {"publish", "restore"}
FailedUpdateRestores == begun # Nothing /\ ~Publishing => suite = begun

(* What was captured is not lost: there is a lane, or the one before is    *)
(* kept, whatever fails while they are exchanged.                          *)
LaneKept == cached # Nothing \/ previous # Nothing => cached' # Nothing \/ previous' # Nothing

(* A finished capture can be used: what it leaves, a comparison accepts.   *)
CaptureIsUsable ==
    \A p \in Captures : Place(p) =>
        Sealed(suite') /\ cached'.identity = Digest(suite') /\ cached'.content = suite'.lock

(* While nobody edits the suite under a capture, a comparison uses the     *)
(* oracle that is sealed, no torn file is sealed, and an update that fails *)
(* leaves the suite as it was.                                             *)
ComparedIsSealed == CacheTypeOK /\ ComparesWithSealed /\ NothingTornIsSealed /\ FailedUpdateRestores

(* What was captured is never lost, and a finished capture can be compared *)
(* with.                                                                   *)
CapturesAreKept == [][LaneKept /\ CaptureIsUsable]_cacheVars

=============================================================================
