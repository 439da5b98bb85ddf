---------------------------- MODULE Evidence_proofs ----------------------------
(***************************************************************************)
(* Proofs about OracleLocks for every list of cases, every capture and any *)
(* number of edits: between two sealed oracles only reviewed changes come  *)
(* in; the sealed oracle is the one that comparisons take and that the     *)
(* samples show; and an update of something nobody changed is accepted.    *)
(* And about ReferenceCache for any processes, versions and oracles: what  *)
(* a comparison uses is what is sealed, and what was captured is kept;     *)
(* about ScreenGrid for any size of the screen; and about TerminalSession  *)
(* for any output, in any portions: a capture replays to what was seen.    *)
(***************************************************************************)
EXTENDS OracleLocks, ReferenceCache, ScreenGrid, TerminalSession, FiniteSetTheorems, SequenceTheorems,
        WellFoundedInduction, TLAPS

(***************************************************************************)
(* The inductive invariant.                                                *)
(***************************************************************************)

\* What the reference shows now for the declared cases: the same for every
\* capture, whichever durations come out as zero.
ReferenceLocks == [c \in Executable(declared) |-> CaseLock(Evidence(c, "new", {}))]

Covered(locks) ==
    \A c \in DOMAIN CoveredBy \ DOMAIN locks : CoveredBy[c] \subseteq DOMAIN locks

\* What the updates since the last seal may have made of the sealed locks.
Lawful(locks, p) ==
    /\ ReviewedChange(sealed.lock.cases, locks, p)
    /\ Covered(locks)
    /\ DOMAIN locks \subseteq Cases

\* What the re-pins ask of the list of cases.
Pending(ds, p) ==
    /\ p = "repin" => \A c \in MadePending : ds[c] = "pending"
    /\ p = "rust" => {c \in Cases : ds[c] = "pending"} = FrozenPending

SealedInv ==
    /\ tree = TreeDigest(sealed.lock.cases)
    /\ RemovedStayCovered
    /\ SamplesShowLock
    /\ Selected \subseteq DOMAIN sealed.lock.cases
    /\ DOMAIN sealed.lock.cases \subseteq Cases
    /\ sealed.lock.pin \in Pins
    /\ sealed.inventory.pin = sealed.lock.pin
    /\ sealed.samples \in [Cases -> Bytes \cup {Torn, None}]

\* The lock file is copied last, so an inventory of the first reference means
\* a lock of the first reference.
FilesInv ==
    /\ lock # Torn => Lawful(lock.cases, lock.pin)
    /\ lock = Torn \/ inventory = Torn \/ (inventory.pin = "first" => lock.pin = "first")

LaneInv ==
    lane # None =>
       /\ lane.declared = declared /\ lane.pin = pin /\ ~refused
       /\ \E zero \in Zeros :
             lane.evidence = [c \in Executable(declared) |-> Evidence(c, "new", zero)]

UpdateInv ==
    update # None =>
       /\ lane # None
       /\ update = [locks |-> update.locks, samples |-> update.samples, todo |-> update.todo]
       /\ update.locks = ReferenceLocks
       /\ Lawful(update.locks, pin)
       /\ Pending(declared, pin)
       /\ pin = "first" => lock.pin = "first"
       /\ Selected \subseteq Executable(declared)
       /\ \A c \in Selected : update.samples[c] = update.locks[c].bytes
       /\ "inventory" \notin update.todo => inventory = [declared |-> declared, pin |-> pin]
       /\ "lock" \notin update.todo => lock = Pack(update.locks, pin)
       /\ \A c \in Selected \ update.todo : samples[c] = update.locks[c].bytes

\* While nobody has changed anything since the seal, the files are the sealed
\* ones or torn, and the sealed ones are what the reference shows.
UneditedInv ==
    ~edited =>
       /\ sealed.lock = Pack(ReferenceLocks, pin)
       /\ sealed.inventory = [declared |-> declared, pin |-> pin]
       /\ Pending(declared, pin)
       /\ lock \in {sealed.lock, Torn}
       /\ inventory \in {sealed.inventory, Torn}
       /\ \A c \in Selected : samples[c] \in {sealed.samples[c], Torn}

IInv ==
    /\ TypeOK
    /\ SealedInv
    /\ FilesInv
    /\ LaneInv
    /\ UpdateInv
    /\ UneditedInv
    /\ RefusedMeansChanged


(***************************************************************************)
(* Ledgers.                                                                *)
(***************************************************************************)

\* The sites of a new capture do not depend on the durations.
NewSites(c) ==
    {"path", "top"} \cup Timed(c)
      \cup (IF c \in ExecCases THEN {"cacheEcho", "traceEcho"} ELSE {})
      \cup (IF c \in SpinnerApproved THEN {"spinner"} ELSE {})

LEMMA SitesOfRows ==
    ASSUME NEW c, NEW zero
    PROVE  LedgerContract(Evidence(c, "new", zero)) = NewSites(c)
  <1> DEFINE line(s) == [site |-> s, identity |-> s \in zero]
             lines == Rows(c, "new", zero)
             sites(R) == {r.site : r \in R}
  <1>1. Evidence(c, "new", zero).rows = lines
    BY DEF Evidence
  <1>2. \A s : line(s).site = s
    OBVIOUS
  <1>3. lines = {line("path")} \cup {line(s) : s \in {"top"} \ zero} \cup {line(s) : s \in Timed(c)}
                 \cup (IF c \in ExecCases THEN {line("cacheEcho"), line("traceEcho")} ELSE {})
                 \cup (IF c \in SpinnerApproved THEN {line("spinner")} ELSE {})
    BY DEF Rows
  <1>4. \A x : x \in sites(lines) =>
               x \in {"path", "top"} \cup Timed(c)
                 \cup (IF c \in ExecCases THEN {"cacheEcho", "traceEcho"} ELSE {})
                 \cup (IF c \in SpinnerApproved THEN {"spinner"} ELSE {})
    <2> HIDE DEF lines
    <2> QED
      BY <1>2, <1>3
  <1>5. ASSUME NEW x \in NewSites(c), x # "top"
        PROVE  x \in sites(lines)
    <2>1. line(x) \in lines
      <3> HIDE DEF lines
      <3> QED
        BY <1>3, <1>5 DEF NewSites
    <2> QED
      BY <2>1, <1>2
  <1>6. LedgerContract(Evidence(c, "new", zero)) = sites(lines) \cup {"top"}
    BY <1>1 DEF LedgerContract
  <1> HIDE DEF lines, sites
  <1> QED
    BY <1>4, <1>5, <1>6 DEF NewSites

LEMMA LockOfCapture ==
    ASSUME NEW c, NEW zero
    PROVE  /\ CaseLock(Evidence(c, "new", zero)) = [bytes |-> program[c], ledger |-> NewSites(c)]
           /\ CaseLock(Evidence(c, "new", zero)) = CaseLock(Evidence(c, "new", {}))
  <1>1. \A z : Evidence(c, "new", z).bytes = program[c]
    BY DEF Evidence
  <1>2. \A z : LedgerContract(Evidence(c, "new", z)) = NewSites(c)
    BY SitesOfRows
  <1>3. \A z : CaseLock(Evidence(c, "new", z)) = [bytes |-> program[c], ledger |-> NewSites(c)]
    BY <1>1, <1>2 DEF CaseLock
  <1> QED
    BY <1>3

\* An identity row is at a timing site inside a tool result.
LEMMA IdentityRows ==
    ASSUME NEW c, NEW zero \in Zeros, NEW r \in Evidence(c, "new", zero).rows, r.identity
    PROVE  r.site \in Timed(c)
  <1> DEFINE line(s) == [site |-> s, identity |-> s \in zero]
  <1>1. zero \subseteq {"top", "exec", "shell1", "shell2", "shell3"}
    BY OracleLocksAssumption
  <1>2. r \in {line("path")} \cup {line(s) : s \in {"top"} \ zero} \cup {line(s) : s \in Timed(c)}
                 \cup (IF c \in ExecCases THEN {line("cacheEcho"), line("traceEcho")} ELSE {})
                 \cup (IF c \in SpinnerApproved THEN {line("spinner")} ELSE {})
    BY DEF Rows, Evidence
  <1>3. \A s : line(s).site = s /\ (line(s).identity <=> s \in zero)
    OBVIOUS
  <1>4. PICK s : r = line(s) /\ s \in {"path", "cacheEcho", "traceEcho", "spinner"} \cup ({"top"} \ zero) \cup Timed(c)
    BY <1>2
  <1> QED
    BY <1>1, <1>3, <1>4

\* The three migrations leave the bytes alone, and of the ledger everything but
\* the sites that were reviewed for the case.
LEMMA MigrationIsReviewed ==
    ASSUME NEW c, NEW zero \in Zeros, NEW prev,
           NEW ev, ev = Evidence(c, "new", zero),
           ReviewedMigration(c, prev, CaseLock(ev), ev)
    PROVE  /\ prev.bytes = CaseLock(ev).bytes
           /\ prev.ledger \ ReviewedSites(c) = CaseLock(ev).ledger \ ReviewedSites(c)
  <1> DEFINE new == CaseLock(ev)
  <1>1. new.ledger = LedgerContract(ev)
    BY DEF CaseLock
  <1>2. CASE c \in WireCases /\ ZeroExecTiming(prev, new, ev)
    <2> DEFINE zeros == {r \in ev.rows : r.identity}
               less == [ev EXCEPT !.rows = @ \ zeros]
    <2>1. prev.bytes = new.bytes /\ CaseLock(less) = prev
      BY <1>2 DEF ZeroExecTiming, LedgerOnly
    <2>2. less.rows = ev.rows \ zeros
      BY DEF Evidence
    <2>3. prev.ledger = {r.site : r \in ev.rows \ zeros} \cup {"top"}
      BY <2>1, <2>2 DEF CaseLock, LedgerContract
    <2>4. new.ledger = {r.site : r \in ev.rows} \cup {"top"}
      BY <1>1 DEF LedgerContract
    <2>5. \A r \in zeros : r.site \in Timed(c)
      BY IdentityRows
    <2> HIDE DEF new, zeros, less
    <2>6. prev.ledger \subseteq new.ledger
      BY <2>3, <2>4
    <2>7. \A x \in new.ledger : x \in prev.ledger \/ x \in Timed(c)
      BY <2>3, <2>4, <2>5
    <2> QED
      BY <2>1, <2>6, <2>7 DEF ReviewedSites, new
  <1>3. CASE c \in ShellCases /\ ShellTiming(prev, new, ev)
    <2> DEFINE sites == {"shell1", "shell2", "shell3"}
               masks == {m \in SUBSET sites : [new EXCEPT !.ledger = @ \ m] = prev}
    <2>1. prev.bytes = new.bytes /\ Cardinality(masks) = 1
      BY <1>3 DEF ShellTiming, LedgerOnly
    <2>2. masks # {}
      <3>1. Cardinality({}) = 0
        BY FS_EmptySet
      <3> HIDE DEF masks
      <3> QED
        BY <2>1, <3>1
    <2>3. PICK m \in SUBSET sites : [new EXCEPT !.ledger = @ \ m] = prev
      BY <2>2
    <2>4. prev.ledger = new.ledger \ m
      BY <2>3 DEF CaseLock
    <2>5. sites \subseteq Timed(c)
      BY <1>3 DEF Timed
    <2> QED
      BY <2>1, <2>3, <2>4, <2>5 DEF ReviewedSites
  <1>4. CASE c \in ExecCases /\ ExecLedger(prev, new, ev)
    <2>1. prev.bytes = new.bytes
      BY <1>4 DEF ExecLedger, LedgerOnly
    <2>2. (new.ledger \ {"cacheEcho", "traceEcho"}) \cup {"history"} = prev.ledger
      <3> DEFINE inverse(m) == (new.ledger \ (m \cap {"cacheEcho", "traceEcho"})) \cup (m \cap {"history"})
                 groups == {"cacheEcho", "traceEcho", "history"}
      <3>1. {m \in SUBSET groups : inverse(m) = prev.ledger} = {groups}
        BY <1>4 DEF ExecLedger
      <3>2. inverse(groups) = prev.ledger
        BY <3>1
      <3> QED
        BY <3>2
    <2>3. {"history", "cacheEcho", "traceEcho"} \subseteq ReviewedSites(c)
      BY <1>4 DEF ReviewedSites
    <2> QED
      BY <2>1, <2>2, <2>3
  <1> QED
    BY <1>2, <1>3, <1>4 DEF ReviewedMigration

(***************************************************************************)
(* From one oracle to the next.                                            *)
(***************************************************************************)

LEMMA ReviewedReflexive ==
    ASSUME NEW locks, NEW p
    PROVE  ReviewedChange(locks, locks, p)
  BY DEF ReviewedChange, Dropped, Rewritten

LEMMA ReviewedTwice ==
    ASSUME NEW s, NEW old, NEW new,
           ReviewedChange(s, old, "first"), ReviewedChange(old, new, "first")
    PROVE  ReviewedChange(s, new, "first")
  <1>1. DOMAIN s \subseteq DOMAIN old /\ DOMAIN old \subseteq DOMAIN new
    BY DEF ReviewedChange, Dropped
  <1>2. \A c \in DOMAIN s : s[c].bytes = old[c].bytes /\ old[c].bytes = new[c].bytes
    BY <1>1 DEF ReviewedChange, Rewritten
  <1>3. \A c \in DOMAIN s : s[c].ledger \ ReviewedSites(c) = new[c].ledger \ ReviewedSites(c)
    BY <1>1 DEF ReviewedChange
  <1>4. Dropped(s, new) = {} /\ Rewritten(s, new) = {}
    BY <1>1, <1>2 DEF Dropped, Rewritten
  <1> QED
    BY <1>3, <1>4 DEF ReviewedChange

\* A re-pin on top of updates of an earlier reference, or of its own: what was
\* added in between was approved.
LEMMA ReviewedThenRepinned ==
    ASSUME NEW s, NEW old, NEW new, NEW p, NEW q, q # "first",
           ReviewedChange(s, old, p), ReviewedChange(old, new, q),
           Added(old, new) \subseteq Approved
    PROVE  ReviewedChange(s, new, q)
  <1>1. /\ Dropped(s, old) \subseteq MadePending \cup DOMAIN CoveredBy
        /\ Rewritten(s, old) \subseteq Approved
    BY DEF ReviewedChange
  <1>2. /\ Dropped(old, new) \subseteq MadePending \cup DOMAIN CoveredBy
        /\ Rewritten(old, new) \subseteq Approved
    BY DEF ReviewedChange
  <1>3. Dropped(s, new) \subseteq MadePending \cup DOMAIN CoveredBy
    BY <1>1, <1>2 DEF Dropped
  <1>4. ASSUME NEW c \in Rewritten(s, new)
        PROVE  c \in Approved
    <2>1. CASE c \in DOMAIN old
      BY <1>1, <1>2, <2>1 DEF Rewritten
    <2>2. CASE c \notin DOMAIN old
      BY <2>2 DEF Rewritten, Added
    <2> QED
      BY <2>1, <2>2
  <1> QED
    BY <1>3, <1>4 DEF ReviewedChange

\* The three kinds of update.
LEMMA OrdinaryIsReviewed ==
    ASSUME NEW old, NEW new, NEW zero \in Zeros,
           \A c \in DOMAIN new : lane.evidence[c] = Evidence(c, "new", zero),
           \A c \in DOMAIN new : new[c] = CaseLock(lane.evidence[c]),
           OrdinaryUpdate(old, new)
    PROVE  ReviewedChange(old, new, "first") /\ DOMAIN old \subseteq DOMAIN new
  <1>1. DOMAIN old \subseteq DOMAIN new
    BY DEF OrdinaryUpdate
  <1>2. ASSUME NEW c \in DOMAIN old
        PROVE  /\ old[c].bytes = new[c].bytes
               /\ old[c].ledger \ ReviewedSites(c) = new[c].ledger \ ReviewedSites(c)
    <2>1. CASE old[c] = new[c]
      BY <2>1
    <2>2. CASE ReviewedMigration(c, old[c], new[c], lane.evidence[c])
      <3>1. ReviewedMigration(c, old[c], CaseLock(lane.evidence[c]), lane.evidence[c])
        BY <1>1, <2>2
      <3>2. lane.evidence[c] = Evidence(c, "new", zero)
        BY <1>1
      <3>3. /\ old[c].bytes = CaseLock(lane.evidence[c]).bytes
            /\ old[c].ledger \ ReviewedSites(c) = CaseLock(lane.evidence[c]).ledger \ ReviewedSites(c)
        BY <3>1, <3>2, MigrationIsReviewed
      <3> QED
        BY <1>1, <3>3
    <2> QED
      BY <2>1, <2>2 DEF OrdinaryUpdate
  <1>3. Dropped(old, new) = {} /\ Rewritten(old, new) = {}
    BY <1>1, <1>2 DEF Dropped, Rewritten
  <1> QED
    BY <1>1, <1>2, <1>3 DEF ReviewedChange

LEMMA RepinIsReviewed ==
    ASSUME NEW old, NEW new, NEW from, VerifyRepin(old, new, from)
    PROVE  ReviewedChange(old, new, "repin") /\ Added(old, new) \subseteq Approved
  BY DEF VerifyRepin, ReviewedChange, Changed, Added, Removed, Dropped, Rewritten

LEMMA RustRepinIsReviewed ==
    ASSUME NEW old, NEW new, NEW from, VerifyRustRepin(old, new, from)
    PROVE  ReviewedChange(old, new, "rust") /\ Added(old, new) \subseteq Approved
  <1>1. Dropped(old, new) \subseteq DOMAIN CoveredBy
    BY DEF VerifyRustRepin, CoveredRemovals, Removed, Dropped
  <1>2. ASSUME NEW c \in Rewritten(old, new)
        PROVE  c \in Approved
    <2>1. c \in Changed(old, new) /\ old[c].bytes # new[c].bytes
      BY DEF Rewritten, Changed
    <2>2. c \notin TimingApproved /\ c \notin SpinnerApproved
      BY <2>1 DEF VerifyRustRepin, RustTiming, SpinnerOnly
    <2> QED
      BY <2>1, <2>2 DEF VerifyRustRepin
  <1>3. Added(old, new) = {}
    BY DEF VerifyRustRepin
  <1> QED
    BY <1>1, <1>2, <1>3 DEF ReviewedChange

\* What covers a removed case is never removed itself.
LEMMA StillCovered ==
    ASSUME NEW old, NEW new, Covered(old),
           \/ DOMAIN old \subseteq DOMAIN new
           \/ Removed(old, new) \subseteq MadePending
           \/ CoveredRemovals(old, new)
    PROVE  Covered(new)
  <1> SUFFICES ASSUME NEW c \in DOMAIN CoveredBy \ DOMAIN new, NEW t \in CoveredBy[c]
               PROVE  t \in DOMAIN new
    BY DEF Covered
  <1>1. t \notin DOMAIN CoveredBy /\ t \notin FrozenPending /\ c \notin FrozenPending
    BY OracleLocksAssumption
  <1>2. MadePending \subseteq FrozenPending
    BY OracleLocksAssumption
  <1>3. CASE c \notin DOMAIN old
    <2>1. t \in DOMAIN old
      BY <1>3 DEF Covered
    <2> QED
      BY <1>1, <1>2, <2>1 DEF Removed, CoveredRemovals
  <1>4. CASE c \in DOMAIN old
    <2>1. c \in Removed(old, new)
      BY <1>4 DEF Removed
    <2> QED
      BY <1>1, <1>2, <2>1 DEF CoveredRemovals, Removed
  <1> QED
    BY <1>3, <1>4

\* The locks of a lane are what the reference shows.
LEMMA LaneShowsReference ==
    ASSUME LaneInv, lane # None
    PROVE  /\ NewCases = ReferenceLocks
           /\ \E zero \in Zeros : \A c \in Executable(declared) :
                 lane.evidence[c] = Evidence(c, "new", zero)
  <1>1. PICK zero \in Zeros :
           lane.evidence = [c \in Executable(declared) |-> Evidence(c, "new", zero)]
    BY DEF LaneInv
  <1>2. lane.declared = declared
    BY DEF LaneInv
  <1>3. \A c \in Executable(declared) : lane.evidence[c] = Evidence(c, "new", zero)
    BY <1>1
  <1>4. \A c \in Executable(declared) : CaseLock(lane.evidence[c]) = CaseLock(Evidence(c, "new", {}))
    BY <1>3, LockOfCapture
  <1>5. NewCases = ReferenceLocks
    BY <1>2, <1>4 DEF NewCases, ReferenceLocks
  <1> QED
    BY <1>3, <1>5

\* What update_lock accepts descends lawfully from the sealed oracle.
LEMMA AcceptedIsLawful ==
    ASSUME IInv, Comparable, MayUpdate
    PROVE  /\ Lawful(NewCases, pin)
           /\ Pending(declared, pin)
           /\ pin = "first" => lock.pin = "first"
  <1> DEFINE old == lock.cases
  <1>1. /\ lane # None /\ lock # Torn /\ inventory # Torn /\ update = None
        /\ lane.declared = declared /\ lane.pin = pin
    BY DEF Comparable
  <1>2. Accepted(old, NewCases)
    BY DEF MayUpdate
  <1>3. ReviewedChange(sealed.lock.cases, old, lock.pin) /\ Covered(old)
    BY <1>1 DEF IInv, FilesInv, Lawful
  <1>4. inventory.pin = "first" => lock.pin = "first"
    BY <1>1 DEF IInv, FilesInv
  <1>5. pin \in {"first", "repin", "rust"}
    BY OracleLocksAssumption DEF IInv, TypeOK
  <1>6. DOMAIN NewCases \subseteq Cases
    BY DEF NewCases, Executable
  <1>7. CASE pin = "repin"
    <2>1. VerifyRepin(old, NewCases, lock.pin)
      BY <1>2, <1>7 DEF Accepted
    <2>2. ReviewedChange(old, NewCases, "repin") /\ Added(old, NewCases) \subseteq Approved
      BY <2>1, RepinIsReviewed
    <2>3. ReviewedChange(sealed.lock.cases, NewCases, "repin")
      BY <1>3, <2>2, ReviewedThenRepinned
    <2>4. Covered(NewCases)
      BY <1>3, <2>1, StillCovered DEF VerifyRepin
    <2>5. Pending(declared, pin)
      BY <1>1, <1>7, <2>1 DEF VerifyRepin, Pending
    <2> QED
      BY <1>6, <1>7, <2>3, <2>4, <2>5 DEF Lawful
  <1>8. CASE pin = "rust"
    <2>1. VerifyRustRepin(old, NewCases, lock.pin)
      BY <1>2, <1>8 DEF Accepted
    <2>2. ReviewedChange(old, NewCases, "rust") /\ Added(old, NewCases) \subseteq Approved
      BY <2>1, RustRepinIsReviewed
    <2>3. ReviewedChange(sealed.lock.cases, NewCases, "rust")
      BY <1>3, <2>2, ReviewedThenRepinned
    <2>4. Covered(NewCases)
      BY <1>3, <2>1, StillCovered DEF VerifyRustRepin
    <2>5. {c \in Cases : lane.declared[c] = "pending"} = FrozenPending
      BY <2>1 DEF VerifyRustRepin
    <2>6. Pending(declared, pin)
      BY <1>1, <1>8, <2>5 DEF Pending
    <2> QED
      BY <1>6, <1>8, <2>3, <2>4, <2>6 DEF Lawful
  <1>9. CASE pin = "first"
    <2>1. OrdinaryUpdate(old, NewCases) /\ inventory.pin = "first"
      BY <1>2, <1>9 DEF Accepted, PreviousInventory
    <2>2. PICK zero \in Zeros : \A c \in Executable(declared) :
             lane.evidence[c] = Evidence(c, "new", zero)
      BY <1>1, LaneShowsReference DEF IInv
    <2>3. \A c \in DOMAIN NewCases : lane.evidence[c] = Evidence(c, "new", zero)
      BY <1>1, <2>2 DEF NewCases
    <2>4. \A c \in DOMAIN NewCases : NewCases[c] = CaseLock(lane.evidence[c])
      BY DEF NewCases
    <2>5. ReviewedChange(old, NewCases, "first") /\ DOMAIN old \subseteq DOMAIN NewCases
      BY <2>1, <2>3, <2>4, OrdinaryIsReviewed
    <2>6. lock.pin = "first"
      BY <1>4, <2>1
    <2>7. ReviewedChange(sealed.lock.cases, NewCases, "first")
      BY <1>3, <2>5, <2>6, ReviewedTwice
    <2>8. Covered(NewCases)
      BY <1>3, <2>5, StillCovered
    <2>9. Pending(declared, pin)
      BY <1>9 DEF Pending
    <2> QED
      BY <1>6, <1>9, <2>6, <2>7, <2>8, <2>9 DEF Lawful
  <1> QED
    BY <1>5, <1>7, <1>8, <1>9

\* If nobody has changed anything since the seal, and no sample is torn, the
\* update is accepted.
LEMMA UnchangedIsAccepted ==
    ASSUME IInv, Comparable, ~edited, \A c \in Selected : samples[c] # Torn
    PROVE  MayUpdate
  <1> DEFINE old == lock.cases
  <1>1. /\ lane # None /\ lock # Torn /\ inventory # Torn
        /\ lane.declared = declared
    BY DEF Comparable
  <1>2. /\ sealed.lock = Pack(ReferenceLocks, pin)
        /\ sealed.inventory = [declared |-> declared, pin |-> pin]
        /\ Pending(declared, pin)
        /\ lock = sealed.lock /\ inventory = sealed.inventory
        /\ \A c \in Selected : samples[c] = sealed.samples[c]
    BY <1>1 DEF IInv, UneditedInv
  <1>3. NewCases = ReferenceLocks
    BY <1>1, LaneShowsReference DEF IInv
  <1>4. lock.cases = NewCases /\ lock.pin = pin /\ inventory.pin = pin /\ inventory.declared = declared
    BY <1>2, <1>3 DEF Pack
  <1>5. Changed(old, NewCases) = {} /\ Added(old, NewCases) = {} /\ Removed(old, NewCases) = {}
    BY <1>4 DEF Changed, Added, Removed
  <1>6. pin \in {"first", "repin", "rust"}
    BY OracleLocksAssumption DEF IInv, TypeOK
  <1>7. PreviousInventory
    BY <1>4 DEF PreviousInventory
  <1>8. Accepted(old, NewCases)
    <2>1. CASE pin = "repin"
      <3>1. VerifyRepin(old, NewCases, lock.pin)
        BY <1>1, <1>2, <1>4, <1>5, <2>1 DEF VerifyRepin, Pending
      <3> QED
        BY <1>7, <2>1, <3>1 DEF Accepted
    <2>2. CASE pin = "rust"
      <3>1. CoveredRemovals(old, NewCases)
        BY <1>5 DEF CoveredRemovals
      <3>2. \A ds \in {inventory.declared, lane.declared} : {c \in Cases : ds[c] = "pending"} = FrozenPending
        BY <1>1, <1>2, <1>4, <2>2 DEF Pending
      <3>3. VerifyRustRepin(old, NewCases, lock.pin)
        BY <1>4, <1>5, <2>2, <3>1, <3>2 DEF VerifyRustRepin
      <3> QED
        BY <1>7, <2>2, <3>3 DEF Accepted
    <2>3. CASE pin = "first"
      <3>1. OrdinaryUpdate(old, NewCases)
        BY <1>4 DEF OrdinaryUpdate
      <3> QED
        BY <1>7, <2>3, <3>1 DEF Accepted
    <2> QED
      BY <1>6, <2>1, <2>2, <2>3
  <1>9. SamplesAllowed(old, NewCases)
    <2> SUFFICES ASSUME NEW c \in Selected
                 PROVE  c \in DOMAIN NewCases /\ samples[c] = NewCases[c].bytes
      BY DEF SamplesAllowed
    <2>1. sealed.lock.cases = NewCases
      BY <1>2, <1>4
    <2>2. c \in DOMAIN sealed.lock.cases /\ sealed.samples[c] = sealed.lock.cases[c].bytes
      BY DEF IInv, SealedInv, SamplesShowLock
    <2> QED
      BY <1>2, <2>1, <2>2
  <1> QED
    BY <1>8, <1>9 DEF MayUpdate

(***************************************************************************)
(* The invariant holds at first and through every step.                    *)
(***************************************************************************)

LEMMA InitInv ==
    ASSUME Init
    PROVE  IInv
  <1>1. PICK later \in Cases \cup {None} :
          declared = [c \in Cases |-> IF c \in FrozenPending \ MadePending THEN "pending"
                                     ELSE IF c = later /\ c \notin Selected THEN "absent"
                                     ELSE "implemented"]
    BY DEF Init
  <1>2. PICK b \in Bytes : program = [c \in Cases |-> b]
    BY DEF Init
  <1>3. PICK o \in {"old", "new"}, zero \in Zeros :
          LET locks == [c \in Executable(declared) |-> CaseLock(Evidence(c, o, zero))]
          IN /\ lock = Pack(locks, pin)
             /\ inventory = [declared |-> declared, pin |-> pin]
             /\ samples = [c \in Cases |-> IF c \in Selected THEN program[c] ELSE None]
             /\ tree = TreeDigest(locks)
             /\ archive = IF pin = "repin" THEN locks ELSE <<>>
    BY DEF Init
  <1> DEFINE locks == [c \in Executable(declared) |-> CaseLock(Evidence(c, o, zero))]
  <1>4. /\ lock = Pack(locks, pin) /\ tree = TreeDigest(locks)
        /\ inventory = [declared |-> declared, pin |-> pin]
        /\ samples = [c \in Cases |-> IF c \in Selected THEN program[c] ELSE None]
        /\ sealed = [lock |-> lock, inventory |-> inventory, samples |-> samples]
    BY <1>3 DEF Init
  <1>5. DOMAIN locks = Executable(declared) /\ \A c \in Executable(declared) : locks[c].bytes = program[c]
    BY DEF CaseLock, Evidence
  <1>6. Executable(declared) \subseteq Cases /\ Selected \subseteq Executable(declared)
    BY <1>1, OracleLocksAssumption DEF Executable
  <1> HIDE DEF locks
  <1>7. lock.cases = locks /\ lock.pin = pin /\ sealed.lock = lock /\ sealed.inventory = inventory
        /\ sealed.samples = samples /\ inventory.pin = pin
    BY <1>4 DEF Pack
  <1>8. Covered(locks)
    <2> SUFFICES ASSUME NEW c \in DOMAIN CoveredBy, c \notin Executable(declared), NEW t \in CoveredBy[c]
                 PROVE  t \in Executable(declared)
      BY <1>5 DEF Covered
    <2>1. c \in Cases /\ t \in Cases /\ c \notin FrozenPending /\ t \notin FrozenPending /\ t # c
      BY OracleLocksAssumption
    <2>2. c = later
      BY <1>1, <2>1 DEF Executable
    <2> QED
      BY <1>1, <2>1, <2>2 DEF Executable
  <1>9. TypeOK
    <2>1. program \in [Cases -> Bytes] /\ declared \in [Cases -> {"absent", "implemented", "pending"}]
      BY <1>1, <1>2
    <2>2. samples \in [Cases -> Bytes \cup {Torn, None}]
      BY <1>4, <2>1
    <2>3. edits \in 0..MaxEdits /\ pin \in Pins
      BY OracleLocksAssumption DEF Init
    <2>4. {refused, edited} \subseteq BOOLEAN
      BY DEF Init
    <2>5. lock # Torn => DOMAIN lock.cases \subseteq Cases /\ lock.pin \in Pins
      BY <1>5, <1>6, <1>7, <2>3
    <2>6. update = None
      BY DEF Init
    <2> QED
      BY <1>7, <2>1, <2>2, <2>3, <2>4, <2>5, <2>6 DEF TypeOK
  <1>10. SealedInv
    <2>1. SamplesShowLock
      BY <1>4, <1>5, <1>6, <1>7 DEF SamplesShowLock
    <2>2. sealed.samples \in [Cases -> Bytes \cup {Torn, None}] /\ pin \in Pins
      BY <1>7, <1>9 DEF TypeOK
    <2> QED
      BY <1>4, <1>5, <1>6, <1>7, <1>8, <2>1, <2>2 DEF SealedInv, RemovedStayCovered, Covered
  <1>11. FilesInv
    BY <1>5, <1>6, <1>7, <1>8, ReviewedReflexive DEF FilesInv, Lawful
  <1>12. LaneInv /\ UpdateInv /\ UneditedInv /\ RefusedMeansChanged
    BY DEF Init, LaneInv, UpdateInv, UneditedInv, RefusedMeansChanged
  <1> QED
    BY <1>9, <1>10, <1>11, <1>12 DEF IInv

\* What the reference shows depends on the program and the list of cases only.
LEMMA SameReference ==
    ASSUME program' = program, declared' = declared
    PROVE  /\ ReferenceLocks' = ReferenceLocks
           /\ \A c, zero : Evidence(c, "new", zero)' = Evidence(c, "new", zero)
  BY DEF ReferenceLocks, Executable, Evidence

LEMMA EditKeepsInv ==
    ASSUME IInv,
           \/ \E c \in Cases, b \in Bytes : ChangeProgram(c, b)
           \/ \E c \in Cases, d \in {"absent", "implemented", "pending"} : Declare(c, d)
           \/ \E p \in Pins : MovePin(p)
    PROVE  IInv'
  <1>1. Edit
    BY DEF ChangeProgram, Declare, MovePin
  <1>2. /\ update = None /\ lane = None /\ update' = None /\ lane' = None /\ edited' = TRUE
        /\ lock' = lock /\ inventory' = inventory /\ samples' = samples /\ sealed' = sealed
        /\ tree' = tree /\ refused' = refused /\ edits < MaxEdits /\ edits' = edits + 1
    BY <1>1 DEF Edit, files
  <1>3. program' \in [Cases -> Bytes] /\ declared' \in [Cases -> {"absent", "implemented", "pending"}]
        /\ pin' \in Pins
    BY DEF ChangeProgram, Declare, MovePin, IInv, TypeOK
  <1>4. TypeOK'
    <2>1. edits' \in 0..MaxEdits
      BY <1>2, OracleLocksAssumption DEF IInv, TypeOK
    <2> QED
      BY <1>2, <1>3, <2>1 DEF IInv, TypeOK
  <1>5. SealedInv'
    BY <1>2 DEF IInv, SealedInv, RemovedStayCovered, SamplesShowLock
  <1>6. FilesInv'
    BY <1>2 DEF IInv, FilesInv, Lawful
  <1>7. LaneInv' /\ UpdateInv' /\ UneditedInv' /\ RefusedMeansChanged'
    BY <1>2 DEF LaneInv, UpdateInv, UneditedInv, RefusedMeansChanged
  <1> QED
    BY <1>4, <1>5, <1>6, <1>7 DEF IInv

LEMMA CheckoutKeepsInv ==
    ASSUME IInv, Checkout
    PROVE  IInv'
  <1>1. /\ update' = None /\ lane' = None /\ edited' = edited /\ sealed' = sealed
        /\ lock' = sealed.lock /\ inventory' = sealed.inventory /\ samples' = sealed.samples
        /\ tree' = tree /\ refused' = FALSE /\ edits' = edits
        /\ program' = program /\ declared' = declared /\ pin' = pin
    BY DEF Checkout
  <1>2. SealedInv
    BY DEF IInv
  <1>3. SealedInv'
    BY <1>1, <1>2 DEF SealedInv, RemovedStayCovered, SamplesShowLock
  <1>4. TypeOK'
    BY <1>1, <1>2 DEF IInv, TypeOK, SealedInv
  <1>5. FilesInv'
    <2>1. ReviewedChange(sealed.lock.cases, sealed.lock.cases, sealed.lock.pin)
      BY ReviewedReflexive
    <2> QED
      BY <1>1, <1>2, <2>1 DEF SealedInv, FilesInv, Lawful, Covered, RemovedStayCovered
  <1>6. UneditedInv'
    BY <1>1, SameReference DEF IInv, UneditedInv
  <1>7. LaneInv' /\ UpdateInv' /\ RefusedMeansChanged'
    BY <1>1 DEF LaneInv, UpdateInv, RefusedMeansChanged
  <1> QED
    BY <1>3, <1>4, <1>5, <1>6, <1>7 DEF IInv

LEMMA CaptureKeepsInv ==
    ASSUME IInv, NEW zero \in Zeros, Capture(zero)
    PROVE  IInv'
  <1>1. /\ update' = None /\ edited' = edited /\ sealed' = sealed
        /\ lane' = [declared |-> declared, pin |-> pin,
                    evidence |-> [c \in Executable(declared) |-> Evidence(c, "new", zero)]]
        /\ lock' = lock /\ inventory' = inventory /\ samples' = samples
        /\ tree' = tree /\ refused' = FALSE /\ edits' = edits
        /\ program' = program /\ declared' = declared /\ pin' = pin
    BY DEF Capture, files
  <1>2. TypeOK' /\ SealedInv' /\ FilesInv'
    BY <1>1 DEF IInv, TypeOK, SealedInv, RemovedStayCovered, SamplesShowLock, FilesInv, Lawful
  <1>3. LaneInv'
    BY <1>1, SameReference DEF LaneInv, Executable, Evidence
  <1>4. UneditedInv'
    BY <1>1, SameReference DEF IInv, UneditedInv
  <1>5. UpdateInv' /\ RefusedMeansChanged'
    BY <1>1 DEF UpdateInv, RefusedMeansChanged
  <1> QED
    BY <1>2, <1>3, <1>4, <1>5 DEF IInv

LEMMA PrepareKeepsInv ==
    ASSUME IInv, PrepareUpdate
    PROVE  IInv'
  <1>1. /\ edited' = edited /\ sealed' = sealed /\ lane' = lane
        /\ lock' = lock /\ inventory' = inventory /\ samples' = samples
        /\ tree' = tree /\ refused' = FALSE /\ edits' = edits
        /\ program' = program /\ declared' = declared /\ pin' = pin
        /\ update' = [locks |-> NewCases, samples |-> RefreshSamples(NewCases),
                      todo |-> {"inventory", "lock"} \cup Selected]
    BY DEF PrepareUpdate, files
  <1>2. lane # None /\ NewCases = ReferenceLocks
    BY LaneShowsReference DEF PrepareUpdate, Comparable, IInv
  <1>3. /\ Lawful(NewCases, pin) /\ Pending(declared, pin) /\ (pin = "first" => lock.pin = "first")
    BY AcceptedIsLawful DEF PrepareUpdate
  <1>4. ReferenceLocks' = ReferenceLocks
    BY <1>1, SameReference
  <1>5. Selected \subseteq DOMAIN NewCases /\ DOMAIN NewCases = Executable(declared)
    BY <1>2 DEF PrepareUpdate, MayUpdate, SamplesAllowed, ReferenceLocks
  <1>6. \A c \in Selected : RefreshSamples(NewCases)[c] = NewCases[c].bytes
    BY OracleLocksAssumption DEF RefreshSamples
  <1>7. TypeOK' /\ SealedInv' /\ FilesInv'
    BY <1>1 DEF IInv, TypeOK, SealedInv, RemovedStayCovered, SamplesShowLock, FilesInv, Lawful
  <1>8. LaneInv'
    <2>1. \A zero : [c \in Executable(declared) |-> Evidence(c, "new", zero)]'
                      = [c \in Executable(declared) |-> Evidence(c, "new", zero)]
      BY <1>1 DEF Executable, Evidence
    <2> QED
      BY <1>1, <2>1 DEF IInv, LaneInv, Executable, Evidence
  <1>9. UneditedInv'
    BY <1>1, <1>4 DEF IInv, UneditedInv
  <1>10. UpdateInv'
    <2>1. /\ update'.locks = NewCases /\ update'.samples = RefreshSamples(NewCases)
          /\ update'.todo = {"inventory", "lock"} \cup Selected
      BY <1>1
    <2>2. Lawful(NewCases, pin)'
      BY <1>1, <1>2, <1>3, <1>4 DEF Lawful, NewCases
    <2> QED
      BY <1>1, <1>2, <1>3, <1>4, <1>5, <1>6, <2>1, <2>2 DEF UpdateInv, Executable, Lawful
  <1>11. RefusedMeansChanged'
    BY <1>1 DEF RefusedMeansChanged
  <1> QED
    BY <1>7, <1>8, <1>9, <1>10, <1>11 DEF IInv

LEMMA RefuseKeepsInv ==
    ASSUME IInv, RefuseUpdate
    PROVE  IInv'
  <1>1. /\ edited' = edited /\ sealed' = sealed /\ lane' = None /\ update' = None
        /\ lock' = lock /\ inventory' = inventory /\ samples' = samples
        /\ tree' = tree /\ refused' = TRUE /\ edits' = edits
        /\ program' = program /\ declared' = declared /\ pin' = pin
    BY DEF RefuseUpdate, Comparable, files
  <1>2. TypeOK' /\ SealedInv' /\ FilesInv'
    BY <1>1 DEF IInv, TypeOK, SealedInv, RemovedStayCovered, SamplesShowLock, FilesInv, Lawful
  <1>3. UneditedInv'
    BY <1>1, SameReference DEF IInv, UneditedInv
  <1>4. LaneInv' /\ UpdateInv'
    BY <1>1 DEF LaneInv, UpdateInv
  <1>5. edited \/ \E c \in Selected : samples[c] = Torn
    BY UnchangedIsAccepted DEF RefuseUpdate
  <1>6. RefusedMeansChanged'
    BY <1>1, <1>5 DEF RefusedMeansChanged
  <1> QED
    BY <1>2, <1>3, <1>4, <1>6 DEF IInv

\* What one copied file changes.
LEMMA OneFile ==
    ASSUME NEW f \in {"inventory", "lock"} \cup Cases, NEW inv, NEW smp, NEW lck,
           Write(f, inv, smp, lck)
    PROVE  /\ f = "inventory" => inventory' = inv /\ lock' = lock /\ samples' = samples
           /\ f = "lock" => inventory' = inventory /\ lock' = lck /\ samples' = samples
           /\ f \in Cases => inventory' = inventory /\ lock' = lock
                             /\ samples' = [samples EXCEPT ![f] = smp]
  <1>1. {"inventory", "lock"} \cap Cases = {}
    BY OracleLocksAssumption
  <1>2. CASE f = "inventory"
    BY <1>1, <1>2 DEF Write
  <1>3. CASE f = "lock"
    BY <1>1, <1>3 DEF Write
  <1>4. CASE f \in Cases
    BY <1>1, <1>4 DEF Write
  <1> QED
    BY <1>2, <1>3, <1>4

LEMMA CopyKeepsInv ==
    ASSUME IInv, NEW f \in {"inventory", "lock"} \cup Cases, CopyFile(f)
    PROVE  IInv'
  <1> DEFINE inv == [declared |-> declared, pin |-> pin]
             smp == IF f \in Cases THEN update.samples[f] ELSE None
             lck == Pack(update.locks, pin)
  <1>1. /\ edited' = edited /\ sealed' = sealed /\ lane' = lane
        /\ tree' = tree /\ refused' = refused /\ edits' = edits
        /\ program' = program /\ declared' = declared /\ pin' = pin
        /\ update' = [update EXCEPT !.todo = @ \ {f}]
    BY DEF CopyFile
  <1>2. /\ f = "inventory" => inventory' = inv /\ lock' = lock /\ samples' = samples
        /\ f = "lock" => inventory' = inventory /\ lock' = lck /\ samples' = samples
        /\ f \in Cases => inventory' = inventory /\ lock' = lock
                          /\ samples' = [samples EXCEPT ![f] = smp]
    BY OneFile DEF CopyFile
  <1>3. /\ update # None /\ f \in update.todo
        /\ f # "inventory" => "inventory" \notin update.todo
        /\ f = "lock" => update.todo = {"lock"}
    BY DEF CopyFile, Copyable
  <1>4. UpdateInv /\ lane # None /\ ~refused
    BY <1>3 DEF IInv, UpdateInv, LaneInv
  <1>5. /\ update'.locks = update.locks /\ update'.samples = update.samples
        /\ update'.todo = update.todo \ {f}
    BY <1>1, <1>4, <1>3 DEF UpdateInv
  <1>6. update.locks = ReferenceLocks /\ ReferenceLocks' = ReferenceLocks /\ Lawful(update.locks, pin)
        /\ (pin = "first" => lock.pin = "first")
    BY <1>1, <1>3, <1>4, SameReference DEF UpdateInv
  <1>7. f \in Cases => f \in Selected /\ smp = update.locks[f].bytes /\ smp = program[f]
                       /\ smp \in Bytes
    <2> SUFFICES ASSUME f \in Cases
                 PROVE  f \in Selected /\ smp = update.locks[f].bytes /\ smp = program[f]
                          /\ smp \in Bytes
      OBVIOUS
    <2>1. f \in Selected
      BY <1>3, OracleLocksAssumption DEF IInv, TypeOK
    <2>2. f \in Executable(declared) /\ smp = update.locks[f].bytes
      BY <1>3, <1>4, <2>1 DEF UpdateInv
    <2>3. update.locks[f].bytes = CaseLock(Evidence(f, "new", {})).bytes
      BY <1>6, <2>2 DEF ReferenceLocks
    <2>4. update.locks[f].bytes = program[f]
      BY <2>3, LockOfCapture
    <2> QED
      BY <2>1, <2>2, <2>4 DEF IInv, TypeOK
  <1>8. lck.cases = update.locks /\ lck.pin = pin /\ inv.pin = pin
    BY DEF Pack
  <1> HIDE DEF inv, smp, lck
  <1>9. TypeOK'
    <2>1. samples' \in [Cases -> Bytes \cup {Torn, None}]
      BY <1>2, <1>7 DEF IInv, TypeOK
    <2>2. lock' # Torn => DOMAIN lock'.cases \subseteq Cases /\ lock'.pin \in Pins
      BY <1>2, <1>6, <1>8 DEF IInv, TypeOK, Lawful
    <2>3. inventory' # Torn => inventory'.pin \in Pins
      BY <1>2, <1>8 DEF IInv, TypeOK
    <2>4. update'.todo \subseteq {"inventory", "lock"} \cup Selected
      BY <1>3, <1>5 DEF IInv, TypeOK
    <2>5. {refused', edited'} \subseteq BOOLEAN
      BY <1>1 DEF IInv, TypeOK
    <2> QED
      BY <1>1, <2>1, <2>2, <2>3, <2>4, <2>5 DEF IInv, TypeOK
  <1>10. SealedInv'
    BY <1>1 DEF IInv, SealedInv, RemovedStayCovered, SamplesShowLock
  <1>11. FilesInv'
    <2>1. lock' # Torn => Lawful(lock'.cases, lock'.pin)
      BY <1>2, <1>6, <1>8 DEF IInv, FilesInv
    <2>2. lock' = Torn \/ inventory' = Torn \/ (inventory'.pin = "first" => lock'.pin = "first")
      <3>1. CASE f = "inventory"
        BY <1>2, <1>6, <1>8, <3>1
      <3>2. CASE f = "lock"
        <4>1. inventory = inv
          BY <1>3, <1>4, <3>2 DEF UpdateInv, inv
        <4> QED
          BY <1>2, <1>8, <3>2, <4>1
      <3>3. CASE f \in Cases
        BY <1>2, <3>3 DEF IInv, FilesInv
      <3> QED
        BY <3>1, <3>2, <3>3
    <2> QED
      BY <1>1, <2>1, <2>2 DEF FilesInv, Lawful
  <1>12. LaneInv'
    <2>1. \A zero : [c \in Executable(declared) |-> Evidence(c, "new", zero)]'
                      = [c \in Executable(declared) |-> Evidence(c, "new", zero)]
      BY <1>1 DEF Executable, Evidence
    <2> QED
      BY <1>1, <2>1 DEF IInv, LaneInv, Executable, Evidence
  <1>13. UpdateInv'
    <2>1. "inventory" \notin update'.todo => inventory' = inv
      BY <1>2, <1>3, <1>4, <1>5, OracleLocksAssumption DEF UpdateInv, inv
    <2>2. "lock" \notin update'.todo => lock' = lck
      BY <1>2, <1>3, <1>4, <1>5, OracleLocksAssumption DEF UpdateInv, lck
    <2>3. ASSUME NEW c \in Selected, c \notin update'.todo
          PROVE  samples'[c] = update.locks[c].bytes
      <3>1. c \in Cases /\ c # "inventory" /\ c # "lock" /\ samples \in [Cases -> Bytes \cup {Torn, None}]
        BY OracleLocksAssumption DEF IInv, TypeOK
      <3>2. CASE c = f
        BY <1>2, <1>7, <3>1, <3>2
      <3>3. CASE c # f
        <4>1. samples[c] = update.locks[c].bytes
          BY <1>3, <1>4, <1>5, <2>3, <3>3 DEF UpdateInv
        <4> QED
          BY <1>2, <3>1, <3>3, <4>1
      <3> QED
        BY <3>2, <3>3
    <2>4. pin = "first" => lock'.pin = "first"
      BY <1>2, <1>6, <1>8
    <2>5. Lawful(update.locks, pin)'
      BY <1>1, <1>5, <1>6 DEF Lawful
    <2>6. /\ Pending(declared, pin) /\ Selected \subseteq Executable(declared)
          /\ \A c \in Selected : update.samples[c] = update.locks[c].bytes
          /\ update = [locks |-> update.locks, samples |-> update.samples, todo |-> update.todo]
      BY <1>3, <1>4 DEF UpdateInv
    <2>7. update' = [locks |-> update'.locks, samples |-> update'.samples, todo |-> update'.todo]
      BY <1>1, <1>5, <2>6
    <2>8. Pending(declared, pin)' /\ Executable(declared)' = Executable(declared) /\ inv' = inv
      BY <1>1, <2>6 DEF Pending, Executable, inv
    <2>9. lck = Pack(update'.locks, pin')
      BY <1>1, <1>5 DEF lck
    <2> QED
      BY <1>1, <1>4, <1>5, <1>6, <2>1, <2>2, <2>3, <2>4, <2>5, <2>6, <2>7, <2>8, <2>9 DEF UpdateInv, inv
  <1>14. UneditedInv'
    <2> SUFFICES ASSUME ~edited
                 PROVE  UneditedInv'
      BY <1>1 DEF UneditedInv
    <2>1. /\ sealed.lock = Pack(ReferenceLocks, pin)
          /\ sealed.inventory = [declared |-> declared, pin |-> pin]
          /\ Pending(declared, pin)
          /\ lock \in {sealed.lock, Torn} /\ inventory \in {sealed.inventory, Torn}
          /\ \A c \in Selected : samples[c] \in {sealed.samples[c], Torn}
      BY DEF IInv, UneditedInv
    <2>2. lck = sealed.lock /\ inv = sealed.inventory
      BY <1>6, <2>1 DEF lck, inv
    <2>3. f \in Cases => smp = sealed.samples[f]
      <3>1. ASSUME f \in Cases
            PROVE  smp = sealed.samples[f]
        <4>1. sealed.lock.cases = update.locks
          BY <1>8, <2>2
        <4> QED
          BY <1>7, <3>1, <4>1 DEF IInv, SealedInv, SamplesShowLock
      <3> QED
        BY <3>1
    <2>4. lock' \in {sealed.lock, Torn} /\ inventory' \in {sealed.inventory, Torn}
      BY <1>2, <2>1, <2>2
    <2>5. ASSUME NEW c \in Selected
          PROVE  samples'[c] \in {sealed.samples[c], Torn}
      <3>1. c \in Cases /\ samples \in [Cases -> Bytes \cup {Torn, None}]
        BY OracleLocksAssumption DEF IInv, TypeOK
      <3> QED
        BY <1>2, <2>1, <2>3, <3>1
    <2> QED
      BY <1>1, <1>6, <2>1, <2>4, <2>5 DEF UneditedInv
  <1>15. RefusedMeansChanged'
    BY <1>1, <1>4 DEF RefusedMeansChanged
  <1> QED
    BY <1>9, <1>10, <1>11, <1>12, <1>13, <1>14, <1>15 DEF IInv

LEMMA SealKeepsInv ==
    ASSUME IInv, Seal
    PROVE  IInv'
  <1>1. /\ edited' = FALSE /\ lane' = None /\ update' = None
        /\ lock' = lock /\ inventory' = inventory /\ samples' = samples
        /\ tree' = TreeDigest(update.locks) /\ refused' = refused /\ edits' = edits
        /\ program' = program /\ declared' = declared /\ pin' = pin
        /\ sealed' = [lock |-> lock, inventory |-> inventory, samples |-> samples]
        /\ update # None /\ update.todo = {}
    BY DEF Seal, files
  <1>2. /\ update.locks = ReferenceLocks /\ Lawful(update.locks, pin) /\ Pending(declared, pin)
        /\ Selected \subseteq Executable(declared)
        /\ inventory = [declared |-> declared, pin |-> pin]
        /\ lock = Pack(update.locks, pin)
        /\ \A c \in Selected : samples[c] = update.locks[c].bytes
        /\ ~refused
    BY <1>1 DEF IInv, UpdateInv, LaneInv
  <1>3. lock.cases = update.locks /\ lock.pin = pin /\ inventory.pin = pin
    BY <1>2 DEF Pack
  <1>4. sealed'.lock = lock /\ sealed'.inventory = inventory /\ sealed'.samples = samples
    BY <1>1
  <1>5. Covered(update.locks) /\ DOMAIN update.locks \subseteq Cases
    BY <1>2 DEF Lawful
  <1>6. TypeOK'
    BY <1>1 DEF IInv, TypeOK
  <1>7. SealedInv'
    <2>1. RemovedStayCovered' /\ SamplesShowLock'
      BY <1>2, <1>3, <1>4, <1>5 DEF RemovedStayCovered, SamplesShowLock, Covered
    <2>2. DOMAIN update.locks = Executable(declared)
      BY <1>2 DEF ReferenceLocks
    <2> QED
      BY <1>1, <1>2, <1>3, <1>4, <1>5, <2>1, <2>2 DEF SealedInv, IInv, TypeOK
  <1>8. FilesInv'
    <2>1. ReviewedChange(update.locks, update.locks, pin)
      BY ReviewedReflexive
    <2> QED
      BY <1>1, <1>3, <1>4, <1>5, <2>1 DEF FilesInv, Lawful
  <1>9. UneditedInv'
    BY <1>1, <1>2, <1>4, SameReference DEF UneditedInv, Pending
  <1>10. LaneInv' /\ UpdateInv' /\ RefusedMeansChanged'
    BY <1>1, <1>2 DEF LaneInv, UpdateInv, RefusedMeansChanged
  <1> QED
    BY <1>6, <1>7, <1>8, <1>9, <1>10 DEF IInv

LEMMA KillKeepsInv ==
    ASSUME IInv, Kill
    PROVE  IInv'
  <1>1. /\ edited' = edited /\ lane' = None /\ update' = None
        /\ tree' = tree /\ refused' = refused /\ edits' = edits
        /\ program' = program /\ declared' = declared /\ pin' = pin /\ sealed' = sealed
        /\ lane # None
    BY DEF Kill
  <1> DEFINE Damage == /\ lock' \in {lock, Torn} /\ inventory' \in {inventory, Torn}
                       /\ samples' \in [Cases -> Bytes \cup {Torn, None}]
                       /\ \A c \in Cases : samples'[c] \in {samples[c], Torn}
  <1>2. Damage
    <2>1. CASE UNCHANGED files
      BY <2>1 DEF files, IInv, TypeOK
    <2>2. ASSUME NEW f \in {"inventory", "lock"} \cup Cases, Copyable(f), Write(f, Torn, Torn, Torn)
          PROVE  Damage
      <3>1. samples \in [Cases -> Bytes \cup {Torn, None}]
        BY DEF IInv, TypeOK
      <3>2. /\ f = "inventory" => inventory' = Torn /\ lock' = lock /\ samples' = samples
            /\ f = "lock" => inventory' = inventory /\ lock' = Torn /\ samples' = samples
            /\ f \in Cases => inventory' = inventory /\ lock' = lock
                              /\ samples' = [samples EXCEPT ![f] = Torn]
        BY <2>2, OneFile
      <3> QED
        BY <3>1, <3>2
    <2> QED
      BY <2>1, <2>2 DEF Kill
  <1>3. TypeOK'
    BY <1>1, <1>2 DEF IInv, TypeOK
  <1>4. SealedInv'
    BY <1>1 DEF IInv, SealedInv, RemovedStayCovered, SamplesShowLock
  <1>5. FilesInv'
    BY <1>1, <1>2 DEF IInv, FilesInv, Lawful
  <1>6. UneditedInv'
    <2> SUFFICES ASSUME ~edited
                 PROVE  UneditedInv'
      BY <1>1 DEF UneditedInv
    <2>1. /\ sealed.lock = Pack(ReferenceLocks, pin)
          /\ sealed.inventory = [declared |-> declared, pin |-> pin]
          /\ Pending(declared, pin)
          /\ lock \in {sealed.lock, Torn} /\ inventory \in {sealed.inventory, Torn}
          /\ \A c \in Selected : samples[c] \in {sealed.samples[c], Torn}
      BY DEF IInv, UneditedInv
    <2>2. \A c \in Selected : samples'[c] \in {sealed.samples[c], Torn}
      BY <1>2, <2>1, OracleLocksAssumption
    <2>3. lock' \in {sealed.lock, Torn} /\ inventory' \in {sealed.inventory, Torn}
      BY <1>2, <2>1
    <2>4. ReferenceLocks' = ReferenceLocks
      BY <1>1, SameReference
    <2> QED
      BY <1>1, <2>1, <2>2, <2>3, <2>4 DEF UneditedInv, Pending
  <1>7. ~refused
    BY <1>1 DEF IInv, LaneInv
  <1>8. LaneInv' /\ UpdateInv' /\ RefusedMeansChanged'
    BY <1>1, <1>7 DEF LaneInv, UpdateInv, RefusedMeansChanged
  <1> QED
    BY <1>3, <1>4, <1>5, <1>6, <1>8 DEF IInv

LEMMA StepKeepsInv ==
    ASSUME IInv, [Next]_vars
    PROVE  IInv'
  <1>1. CASE Next
    BY <1>1, EditKeepsInv, CheckoutKeepsInv, CaptureKeepsInv, PrepareKeepsInv, RefuseKeepsInv,
       CopyKeepsInv, SealKeepsInv, KillKeepsInv DEF Next
  <1>2. CASE UNCHANGED vars
    <2>1. ReferenceLocks' = ReferenceLocks
      BY <1>2, SameReference DEF vars
    <2>2. \A zero : [c \in Executable(declared) |-> Evidence(c, "new", zero)]'
                      = [c \in Executable(declared) |-> Evidence(c, "new", zero)]
      BY <1>2 DEF vars, Executable, Evidence
    <2>3. TypeOK' /\ SealedInv' /\ FilesInv' /\ RefusedMeansChanged'
      BY <1>2 DEF vars, IInv, TypeOK, SealedInv, RemovedStayCovered, SamplesShowLock, FilesInv, Lawful,
         RefusedMeansChanged
    <2>4. LaneInv'
      BY <1>2, <2>2 DEF vars, IInv, LaneInv, Executable, Evidence
    <2>5. UpdateInv' /\ UneditedInv'
      BY <1>2, <2>1 DEF vars, IInv, UpdateInv, UneditedInv, Lawful, Pending, Executable
    <2> QED
      BY <2>3, <2>4, <2>5 DEF IInv
  <1> QED
    BY <1>1, <1>2

(***************************************************************************)
(* The theorems.                                                           *)
(***************************************************************************)

LEMMA InvHolds == Spec => []IInv
  BY InitInv, StepKeepsInv, PTL DEF Spec

\* A comparison that takes the lock takes bytes that were sealed: the digest in
\* the manifest is that of the sealed locks (read_lock).
LEMMA TakenIsSealed ==
    ASSUME IInv
    PROVE  LocksAreSealed
  <1>1. AcceptedWasSealed
    BY DEF IInv, SealedInv, AcceptedWasSealed, ReadLock
  <1> QED
    BY <1>1 DEF IInv, SealedInv, LocksAreSealed

\* Whatever is captured, edited, killed and checked out: an update is refused
\* only if somebody changed something, a comparison takes only what was sealed,
\* the samples show the sealed locks and a removed case stays covered
\* (update_lock, refresh_samples, verify_covered_removals, read_lock).
THEOREM LocksAreAlwaysSealed == Spec => []LocksAreSealed
  BY InvHolds, TakenIsSealed, PTL

\* From one sealed oracle to the next, through any number of killed updates in
\* between, no result is refreshed or dropped without review (update_lock, its
\* migrations, protect_previous_locks and the re-pins).
THEOREM NothingRefreshedUnreviewed == Spec => OnlyReviewedChanges
  <1>1. ASSUME IInv, [Next]_vars
        PROVE  [sealed' # sealed => ReviewedChange(sealed.lock.cases, sealed'.lock.cases, pin)]_vars
    <2> SUFFICES ASSUME Next, sealed' # sealed
                 PROVE  ReviewedChange(sealed.lock.cases, sealed'.lock.cases, pin)
      BY <1>1
    <2>1. Seal
      BY DEF Next, ChangeProgram, Declare, MovePin, Edit, Checkout, Capture, PrepareUpdate, RefuseUpdate,
         CopyFile, Kill
    <2>2. sealed'.lock = lock /\ update # None /\ update.todo = {}
      BY <2>1 DEF Seal
    <2>3. lock = Pack(update.locks, pin) /\ Lawful(update.locks, pin)
      BY <1>1, <2>2 DEF IInv, UpdateInv
    <2>4. sealed'.lock.cases = update.locks
      BY <2>2, <2>3 DEF Pack
    <2> QED
      BY <2>3, <2>4 DEF Lawful
  <1> QED
    BY <1>1, InvHolds, PTL DEF Spec, OnlyReviewedChanges

-----------------------------------------------------------------------------
(***************************************************************************)
(* The cache of the reference: what its processes know.  A capture holds   *)
(* the lock alone, so what it read or computed under it still holds at     *)
(* every later step: what it has saved, which files are written by now,    *)
(* that the suite is sealed, and what the staged lane claims.              *)
(***************************************************************************)
FileNames == {"lock", "samples", "seal"}
Rest == {<<"lock", "samples", "seal">>, <<"samples", "seal">>, <<"seal">>}
Steps == {"idle", "build", "capturing", "prepare", "publish", "restore", "verify", "identify",
          "swap", "place", "check", "compare"}
Procs == [pc : Steps, update : BOOLEAN, lock : Files \cup {Nothing}, staging : Lanes \cup {Nothing},
          todo : Rest \cup {<<>>}, prepared : Suites \cup {Nothing}, saved : Suites \cup {Nothing},
          old : Lanes \cup {Nothing}]

\* A seal is of one oracle, whatever has become of the files.
SealTrue(su) ==
    su.seal # CutShort => \E v \in Commits, o \in Oracles : su.seal = <<v, o, SampleOf[o]>>

\* A stamped lane claims the identity of the oracle that it holds.
StampTrue(l) ==
    l # Nothing /\ l.stamped => \E v \in Commits : l.identity = <<v, l.content, SampleOf[l.content]>>

\* The files that are written by now are those of to.
Left(list) == {list[i] : i \in DOMAIN list}
Written(su, list, to) ==
    list \in Rest /\ su.code = to.code /\ \A f \in FileNames \ Left(list) : su[f] = to[f]

\* What a capture knows at each of its steps.
CaptureKnows(x, su, c, found) ==
    /\ x.pc \notin {"check", "compare"}
    /\ x.pc \in {"build", "capturing"} => x.update \/ (Sealed(su) /\ x.lock = su.lock)
    /\ x.pc \in {"prepare", "publish", "verify", "identify", "swap", "place"} => x.staging # Nothing
    /\ x.pc \in {"publish", "restore"} =>
          x.saved # Nothing /\ SealTrue(x.saved) /\ found = x.saved
    /\ x.pc = "publish" =>
          /\ x.prepared = Prepared(x.saved, x.staging.content) /\ x.lock = x.staging.content
          /\ Written(su, x.todo, x.prepared)
    /\ x.pc = "restore" => Written(su, x.todo, x.saved)
    /\ x.pc \in {"verify", "identify", "swap", "place"} => Sealed(su)
    /\ x.pc = "verify" => x.lock = su.lock
    /\ x.pc \in {"identify", "swap", "place"} => x.staging.content = su.lock
    /\ x.pc \in {"swap", "place"} => x.staging.stamped /\ x.staging.identity = Digest(su)
    /\ x.pc = "place" => c = Nothing /\ StampTrue(x.old)

\* What a comparison knows.
ComparisonKnows(x, su, c) ==
    /\ x.pc \in {"idle", "check", "compare"}
    /\ x.pc = "check" => Sealed(su) /\ x.lock = su.lock
    /\ x.pc = "compare" => Sealed(su) /\ c # Nothing /\ c.content = su.lock

CacheTypes ==
    /\ suite \in Suites /\ cached \in Lanes \cup {Nothing} /\ previous \in Lanes \cup {Nothing}
    /\ proc \in [Processes -> Procs] /\ begun \in Suites \cup {Nothing}

Alone == \A c \in Captures, p \in Processes : Holds(c) /\ Holds(p) => p = c

CacheInv ==
    /\ CacheTypes /\ Alone
    /\ SealTrue(suite) /\ StampTrue(cached)
    /\ \A c \in Captures : CaptureKnows(proc[c], suite, cached, begun)
    /\ \A r \in Comparisons : ComparisonKnows(proc[r], suite, cached)
    /\ FailedUpdateRestores

(***************************************************************************)
(* The files of a suite, and the records of the processes.                 *)
(***************************************************************************)
LEMMA PreparedIs ==
    ASSUME NEW su \in Suites, NEW o \in Oracles, NEW p, p = Prepared(su, o)
    PROVE  /\ p \in Suites /\ p.code = su.code /\ p.lock = o /\ p.samples = SampleOf[o]
           /\ Sealed(p) /\ SealTrue(p)
  <1>1. PICK seal : seal = <<su.code, o, SampleOf[o]>>
    OBVIOUS
  <1>2. PICK new : new = [su EXCEPT !.lock = o, !.samples = SampleOf[o]]
    OBVIOUS
  <1>3. /\ new.code = su.code /\ new.lock = o /\ new.samples = SampleOf[o]
        /\ su = [code |-> su.code, lock |-> su.lock, samples |-> su.samples, seal |-> su.seal]
    BY <1>2 DEF Suites
  <1>4. p = [new EXCEPT !.seal = seal]
    BY <1>1, <1>2, <1>3 DEF Prepared, Digest
  <1>5. /\ p = [code |-> su.code, lock |-> o, samples |-> SampleOf[o], seal |-> seal]
    BY <1>2, <1>3, <1>4
  <1>6. seal \in Digests /\ o \in Files /\ SampleOf[o] \in Samples /\ su.code \in Commits
    BY <1>1 DEF Digests, Suites, Files, Samples
  <1>7. seal # CutShort
    BY <1>6, ReferenceCacheAssumption DEF ReferenceCacheAssumption
  <1>8. p \in Suites
    BY <1>5, <1>6 DEF Suites
  <1>9. SealTrue(p)
    BY <1>1, <1>5, <1>6 DEF SealTrue
  <1> QED
    BY <1>1, <1>5, <1>7, <1>8, <1>9 DEF Sealed, Digest

\* One file is written, whole or not.
FileIs(u, su, f, v) ==
    /\ u \in Suites /\ SealTrue(u) /\ u.code = su.code /\ u[f] = v
    /\ \A g \in FileNames \ {f} : u[g] = su[g]

LEMMA WriteIs ==
    ASSUME NEW su \in Suites, NEW to \in Suites, SealTrue(su), SealTrue(to), NEW f \in FileNames,
           NEW v, v = to[f] \/ v = CutShort, NEW u, u = [su EXCEPT ![f] = v]
    PROVE  FileIs(u, su, f, v)
  <1>1. /\ CutShort \in Files /\ CutShort \in Samples /\ CutShort \in Digests \cup {CutShort}
        /\ su = [code |-> su.code, lock |-> su.lock, samples |-> su.samples, seal |-> su.seal]
        /\ su.code \in Commits /\ su.lock \in Files /\ su.samples \in Samples
        /\ su.seal \in Digests \cup {CutShort}
        /\ to.lock \in Files /\ to.samples \in Samples /\ to.seal \in Digests \cup {CutShort}
    BY DEF Files, Samples, Suites
  <1>2. CASE f = "lock"
    <2>1. u = [code |-> su.code, lock |-> v, samples |-> su.samples, seal |-> su.seal]
      BY <1>1, <1>2
    <2>2. v \in Files
      BY <1>1, <1>2
    <2>3. u \in Suites
      BY <1>1, <2>1, <2>2 DEF Suites
    <2> QED
      BY <1>2, <2>1, <2>3 DEF SealTrue, FileNames, FileIs
  <1>3. CASE f = "samples"
    <2>1. u = [code |-> su.code, lock |-> su.lock, samples |-> v, seal |-> su.seal]
      BY <1>1, <1>3
    <2>2. v \in Samples
      BY <1>1, <1>3
    <2>3. u \in Suites
      BY <1>1, <2>1, <2>2 DEF Suites
    <2> QED
      BY <1>3, <2>1, <2>3 DEF SealTrue, FileNames, FileIs
  <1>4. CASE f = "seal"
    <2>1. u = [code |-> su.code, lock |-> su.lock, samples |-> su.samples, seal |-> v]
      BY <1>1, <1>4
    <2>2. v \in Digests \cup {CutShort}
      BY <1>1, <1>4
    <2>3. u \in Suites
      BY <1>1, <2>1, <2>2 DEF Suites
    <2> QED
      BY <1>4, <2>1, <2>3 DEF SealTrue, FileNames, FileIs
  <1> QED
    BY <1>2, <1>3, <1>4 DEF FileNames

LEMMA RestIs ==
    ASSUME NEW list \in Rest
    PROVE  /\ Head(list) \in FileNames /\ Tail(list) \in Rest \cup {<<>>}
           /\ (Len(list) = 1 <=> Left(list) = {Head(list)})
           /\ (Len(list) # 1 => Tail(list) \in Rest)
           /\ Left(list) \subseteq Left(Tail(list)) \cup {Head(list)}
           /\ <<"lock", "samples", "seal">> \in Rest
           /\ Left(<<"lock", "samples", "seal">>) = FileNames
  <1>1. Left(<<"lock", "samples", "seal">>) = FileNames
    BY DEF Left, FileNames
  <1>2. Left(<<"samples", "seal">>) = {"samples", "seal"}
    BY DEF Left
  <1>3. Left(<<"seal">>) = {"seal"}
    BY DEF Left
  <1>4. CASE list = <<"lock", "samples", "seal">>
    <2>1. Head(list) = "lock" /\ Tail(list) = <<"samples", "seal">> /\ Len(list) = 3
      BY <1>4
    <2> QED
      BY <1>1, <1>2, <1>4, <2>1 DEF Rest, FileNames
  <1>5. CASE list = <<"samples", "seal">>
    <2>1. Head(list) = "samples" /\ Tail(list) = <<"seal">> /\ Len(list) = 2
      BY <1>5
    <2> QED
      BY <1>1, <1>2, <1>3, <1>5, <2>1 DEF Rest, FileNames
  <1>6. CASE list = <<"seal">>
    <2>1. Head(list) = "seal" /\ Tail(list) = <<>> /\ Len(list) = 1
      BY <1>6
    <2> QED
      BY <1>1, <1>3, <1>6, <2>1 DEF Rest, FileNames
  <1> QED
    BY <1>4, <1>5, <1>6 DEF Rest

\* The next file is written as it is to be.
LEMMA WrittenMore ==
    ASSUME NEW su \in Suites, NEW to \in Suites, SealTrue(su), SealTrue(to), NEW list,
           Written(su, list, to), NEW f, f = Head(list), NEW u, u = [su EXCEPT ![f] = to[f]]
    PROVE  /\ u \in Suites /\ SealTrue(u)
           /\ (Len(list) = 1 => u = to)
           /\ (Len(list) # 1 => Written(u, Tail(list), to))
  <1>1. list \in Rest /\ su.code = to.code /\ \A g \in FileNames \ Left(list) : su[g] = to[g]
    BY DEF Written
  <1>2. f \in FileNames
    BY <1>1, RestIs
  <1>3. PICK v : v = to[f]
    OBVIOUS
  <1>4. u = [su EXCEPT ![f] = v]
    BY <1>3
  <1>5. FileIs(u, su, f, v)
    BY <1>2, <1>3, <1>4, WriteIs
  <1>6. u \in Suites /\ SealTrue(u)
    BY <1>5 DEF FileIs
  <1>7. u.code = su.code /\ u[f] = v
    BY <1>5 DEF FileIs
  <1>8. \A g \in FileNames \ {f} : u[g] = su[g]
    BY <1>5 DEF FileIs
  <1>9. ASSUME Len(list) # 1
        PROVE  Written(u, Tail(list), to)
    <2>1. Tail(list) \in Rest
      BY <1>1, <1>9, RestIs
    <2>2. Left(list) \subseteq Left(Tail(list)) \cup {f}
      BY <1>1, RestIs
    <2>3. ASSUME NEW g \in FileNames \ Left(Tail(list))
          PROVE  u[g] = to[g]
      BY <1>1, <1>3, <1>7, <1>8, <2>2, <2>3
    <2> QED
      BY <1>1, <1>7, <2>1, <2>3 DEF Written
  <1>10. ASSUME Len(list) = 1
         PROVE  u = to
    <2>1. Left(list) = {f}
      BY <1>1, <1>10, RestIs
    <2>2. \A g \in FileNames : u[g] = to[g]
      BY <1>1, <1>3, <1>7, <1>8, <2>1
    <2>3. u.lock = to.lock /\ u.samples = to.samples /\ u.seal = to.seal /\ u.code = to.code
      BY <1>1, <1>7, <2>2 DEF FileNames
    <2>4. /\ u = [code |-> u.code, lock |-> u.lock, samples |-> u.samples, seal |-> u.seal]
          /\ to = [code |-> to.code, lock |-> to.lock, samples |-> to.samples, seal |-> to.seal]
      BY <1>6 DEF Suites
    <2> QED
      BY <2>3, <2>4
  <1> QED
    BY <1>6, <1>9, <1>10

(***************************************************************************)
(* One process moves, and the others are as they were.                     *)
(***************************************************************************)
\* While a capture holds the lock or takes it, nobody else does anything.
LEMMA OthersRest ==
    ASSUME CacheInv, NEW c \in Captures, Holds(c) \/ MayLock(c)
    PROVE  \A p \in Processes \ {c} : proc[p].pc = "idle"
  BY DEF CacheInv, Alone, Holds, MayLock, Processes

\* While a comparison holds the lock or takes it, no capture does anything.
LEMMA CapturesRest ==
    ASSUME CacheInv, NEW r \in Comparisons, Holds(r) \/ MayLock(r)
    PROVE  \A c \in Captures : proc[c].pc = "idle"
  <1>1. r \notin Captures /\ r \in Processes
    BY ReferenceCacheAssumption DEF ReferenceCacheAssumption, Processes
  <1> QED
    BY <1>1 DEF CacheInv, Alone, Holds, MayLock, Capturing

\* An idle process knows nothing.
LEMMA IdleKnows ==
    ASSUME NEW x, x.pc = "idle", NEW su, NEW l, NEW found
    PROVE  CaptureKnows(x, su, l, found) /\ ComparisonKnows(x, su, l)
  BY DEF CaptureKnows, ComparisonKnows

LEMMA CaptureMoves ==
    ASSUME CacheInv, NEW c \in Captures, Holds(c) \/ MayLock(c),
           NEW x \in Procs, proc' = [proc EXCEPT ![c] = x],
           suite' \in Suites, cached' \in Lanes \cup {Nothing}, previous' \in Lanes \cup {Nothing},
           begun' \in Suites \cup {Nothing}, SealTrue(suite'), StampTrue(cached'),
           CaptureKnows(x, suite', cached', begun'),
           begun' # Nothing /\ x.pc \notin {"publish", "restore"} => suite' = begun'
    PROVE  CacheInv'
  <1>1. c \in Processes /\ proc \in [Processes -> Procs]
    BY DEF CacheInv, CacheTypes, Processes
  <1>2. proc'[c] = x /\ \A p \in Processes \ {c} : proc'[p] = proc[p]
    BY <1>1
  <1>3. \A p \in Processes \ {c} : proc'[p].pc = "idle"
    BY <1>2, OthersRest
  <1>4. CacheTypes'
    BY <1>1 DEF CacheTypes
  <1>5. Alone'
    BY <1>3 DEF Alone, Holds, Processes
  <1>6. ASSUME NEW d \in Captures
        PROVE  CaptureKnows(proc'[d], suite', cached', begun')
    BY <1>2, <1>3, IdleKnows DEF Processes
  <1>7. ASSUME NEW r \in Comparisons
        PROVE  ComparisonKnows(proc'[r], suite', cached')
    <2>1. r \in Processes \ {c}
      BY ReferenceCacheAssumption DEF ReferenceCacheAssumption, Processes
    <2> QED
      BY <1>3, <2>1, IdleKnows
  <1>8. FailedUpdateRestores'
    BY <1>2 DEF FailedUpdateRestores, Publishing
  <1> QED
    BY <1>4, <1>5, <1>6, <1>7, <1>8 DEF CacheInv

LEMMA ComparisonMoves ==
    ASSUME CacheInv, NEW r \in Comparisons, Holds(r) \/ MayLock(r),
           NEW x \in Procs, proc' = [proc EXCEPT ![r] = x],
           suite' = suite, cached' = cached, previous' = previous, begun' \in {begun, Nothing},
           ComparisonKnows(x, suite, cached)
    PROVE  CacheInv'
  <1>1. r \in Processes /\ proc \in [Processes -> Procs] /\ r \notin Captures
    BY ReferenceCacheAssumption DEF ReferenceCacheAssumption, CacheInv, CacheTypes, Processes
  <1>2. proc'[r] = x /\ \A p \in Processes \ {r} : proc'[p] = proc[p]
    BY <1>1
  <1>3. \A c \in Captures : proc'[c].pc = "idle" /\ proc[c].pc = "idle"
    BY <1>1, <1>2, CapturesRest DEF Processes
  <1>4. CacheTypes'
    BY <1>1 DEF CacheTypes, CacheInv
  <1>5. Alone'
    BY <1>3 DEF Alone, Holds
  <1>6. ASSUME NEW d \in Captures
        PROVE  CaptureKnows(proc'[d], suite', cached', begun')
    BY <1>3, IdleKnows
  <1>7. ASSUME NEW q \in Comparisons
        PROVE  ComparisonKnows(proc'[q], suite', cached')
    <2>1. CASE q = r
      BY <1>2, <2>1
    <2>2. CASE q # r
      BY <1>2, <2>2 DEF CacheInv, Processes
    <2> QED
      BY <2>1, <2>2
  <1>8. FailedUpdateRestores'
    BY <1>3 DEF FailedUpdateRestores, Publishing, CacheInv
  <1>9. SealTrue(suite)' /\ StampTrue(cached)'
    BY DEF CacheInv
  <1> QED
    BY <1>4, <1>5, <1>6, <1>7, <1>8, <1>9 DEF CacheInv

LEMMA NobodyMoves ==
    ASSUME CacheInv, \A p \in Processes : ~Holds(p), proc' = proc,
           suite' \in Suites, cached' \in Lanes \cup {Nothing}, previous' = previous,
           SealTrue(suite'), StampTrue(cached'),
           begun' = Nothing \/ (begun' = begun /\ suite' = suite)
    PROVE  CacheInv'
  <1>1. \A p \in Processes : proc'[p].pc = "idle" /\ proc[p].pc = "idle"
    BY DEF Holds
  <1>2. CacheTypes'
    BY DEF CacheTypes, CacheInv
  <1>3. Alone'
    BY DEF Alone, Holds, CacheInv
  <1>4. \A c \in Captures : CaptureKnows(proc'[c], suite', cached', begun')
    BY <1>1, IdleKnows DEF Processes
  <1>5. \A r \in Comparisons : ComparisonKnows(proc'[r], suite', cached')
    BY <1>1, IdleKnows DEF Processes
  <1>6. FailedUpdateRestores'
    BY <1>1 DEF FailedUpdateRestores, Publishing, CacheInv, Processes
  <1> QED
    BY <1>2, <1>3, <1>4, <1>5, <1>6 DEF CacheInv

\* What is written of a process, field by field.
LEMMA IdleIs == Idle \in Procs /\ Idle.pc = "idle"
  BY DEF Idle, Procs, Steps

(***************************************************************************)
(* A capture, step by step.                                                *)
(***************************************************************************)
\* A capture's record, and what it knows.
LEMMA CaptureIs ==
    ASSUME CacheInv, NEW c \in Captures
    PROVE  /\ c \in Processes /\ proc[c] \in Procs /\ proc \in [Processes -> Procs]
           /\ CaptureKnows(proc[c], suite, cached, begun)
  BY DEF CacheInv, CacheTypes, Processes

LEMMA StateIs ==
    ASSUME CacheInv
    PROVE  /\ suite \in Suites /\ cached \in Lanes \cup {Nothing} /\ previous \in Lanes \cup {Nothing}
           /\ begun \in Suites \cup {Nothing} /\ SealTrue(suite) /\ StampTrue(cached)
  BY DEF CacheInv, CacheTypes

\* While one capture holds the lock and publishes nothing, nothing is to be restored.
LEMMA NothingToRestore ==
    ASSUME CacheInv, NEW c \in Captures, Holds(c) \/ MayLock(c), begun # Nothing,
           proc[c].pc \notin {"publish", "restore"}
    PROVE  suite = begun
  <1>1. \A d \in Captures : proc[d].pc \notin {"publish", "restore"}
    BY OthersRest DEF Processes
  <1> QED
    BY <1>1 DEF CacheInv, FailedUpdateRestores, Publishing

LEMMA StartCaptureKeeps ==
    ASSUME CacheInv, NEW c \in Captures, NEW again \in BOOLEAN, StartCapture(c, again)
    PROVE  CacheInv'
  <1>0. PICK x : x = [Idle EXCEPT !.pc = "build", !.update = again, !.lock = suite.lock]
    OBVIOUS
  <1>1. /\ x.pc = "build" /\ x.update = again /\ x.lock = suite.lock
        /\ x = [pc |-> "build", update |-> again, lock |-> suite.lock, staging |-> Nothing,
                todo |-> <<>>, prepared |-> Nothing, saved |-> Nothing, old |-> Nothing]
    BY <1>0, Zenon DEF Idle
  <1>2. x \in Procs
    BY <1>1, StateIs DEF Procs, Steps, Suites
  <1>3. CaptureKnows(x, suite', cached', begun')
    BY <1>1 DEF CaptureKnows, StartCapture
  <1>4. begun' # Nothing => suite' = begun'
    BY NothingToRestore DEF StartCapture
  <1>5. proc' = [proc EXCEPT ![c] = x]
    BY <1>0 DEF StartCapture
  <1>6. MayLock(c)
    BY DEF StartCapture
  <1>7. suite' = suite /\ cached' = cached /\ previous' = previous /\ begun' = begun
    BY DEF StartCapture
  <1> QED
    BY <1>2, <1>3, <1>4, <1>5, <1>6, <1>7, CaptureMoves, StateIs

\* A capture that lets go knows nothing, whatever it did before.
LEMMA CaptureEnds ==
    ASSUME CacheInv, NEW c \in Captures, Holds(c), Ends(c),
           suite' \in Suites, cached' \in Lanes \cup {Nothing}, previous' \in Lanes \cup {Nothing},
           begun' \in Suites \cup {Nothing}, SealTrue(suite'), StampTrue(cached'),
           begun' # Nothing => suite' = begun'
    PROVE  CacheInv'
  <1>1. proc' = [proc EXCEPT ![c] = Idle]
    BY DEF Ends
  <1>2. CaptureKnows(Idle, suite', cached', begun')
    BY IdleIs, IdleKnows
  <1> QED
    BY <1>1, <1>2, IdleIs, CaptureMoves

\* A capture that ends and leaves everything as it is.
LEMMA CaptureStops ==
    ASSUME CacheInv, NEW c \in Captures, Holds(c), Ends(c), proc[c].pc \notin {"publish", "restore"},
           UNCHANGED <<suite, cached, previous, begun>>
    PROVE  CacheInv'
  BY StateIs, NothingToRestore, CaptureEnds

\* A capture goes on, and only its place changes.
LEMMA CaptureGoes ==
    ASSUME CacheInv, NEW c \in Captures, NEW step \in Steps, Goto(c, step)
    PROVE  \E x \in Procs :
              /\ proc' = [proc EXCEPT ![c] = x] /\ x.pc = step /\ x.update = proc[c].update
              /\ x.lock = proc[c].lock /\ x.staging = proc[c].staging
  <1>1. proc[c] \in Procs /\ c \in Processes /\ proc \in [Processes -> Procs]
    BY CaptureIs
  <1>2. PICK x : x = [proc[c] EXCEPT !.pc = step]
    OBVIOUS
  <1>3. /\ proc[c] = [pc |-> proc[c].pc, update |-> proc[c].update, lock |-> proc[c].lock,
                      staging |-> proc[c].staging, todo |-> proc[c].todo,
                      prepared |-> proc[c].prepared, saved |-> proc[c].saved, old |-> proc[c].old]
    BY <1>1 DEF Procs
  <1>4. x = [pc |-> step, update |-> proc[c].update, lock |-> proc[c].lock,
             staging |-> proc[c].staging, todo |-> proc[c].todo,
             prepared |-> proc[c].prepared, saved |-> proc[c].saved, old |-> proc[c].old]
    BY <1>2, <1>3
  <1>5. x \in Procs
    BY <1>1, <1>4 DEF Procs
  <1>6. proc' = [proc EXCEPT ![c] = x]
    BY <1>2 DEF Goto
  <1> QED
    BY <1>4, <1>5, <1>6

LEMMA BuildKeeps ==
    ASSUME CacheInv, NEW c \in Captures, Build(c)
    PROVE  CacheInv'
  <1>1. proc[c].pc = "build" /\ Holds(c) /\ UNCHANGED <<suite, cached, previous, begun>>
    BY DEF Build, Holds
  <1>2. CASE Ends(c)
    BY <1>1, <1>2, CaptureStops
  <1>3. CASE Goto(c, "capturing")
    <2>1. PICK x \in Procs :
              /\ proc' = [proc EXCEPT ![c] = x] /\ x.pc = "capturing" /\ x.update = proc[c].update
              /\ x.lock = proc[c].lock /\ x.staging = proc[c].staging
      BY <1>3, CaptureGoes DEF Steps
    <2>2. CaptureKnows(x, suite', cached', begun')
      BY <1>1, <2>1, CaptureIs DEF CaptureKnows
    <2>3. begun' # Nothing => suite' = begun'
      BY <1>1, NothingToRestore
    <2> QED
      BY <1>1, <2>1, <2>2, <2>3, CaptureMoves, StateIs
  <1> QED
    BY <1>2, <1>3 DEF Build

LEMMA CaptureLaneKeeps ==
    ASSUME CacheInv, NEW c \in Captures, CaptureLane(c)
    PROVE  CacheInv'
  <1>1. proc[c].pc = "capturing" /\ Holds(c) /\ UNCHANGED <<suite, cached, previous, begun>>
    BY DEF CaptureLane, Holds
  <1>2. CASE Ends(c)
    BY <1>1, <1>2, CaptureStops
  <1>3. CASE ~Ends(c)
    <2>1. PICK o \in Oracles :
            proc' = [proc EXCEPT ![c].staging = [content |-> o, identity |-> Nothing, stamped |-> FALSE],
                                 ![c].pc = IF proc[c].update THEN "prepare" ELSE "verify"]
      BY <1>3 DEF CaptureLane
    <2>2. PICK step : step = IF proc[c].update THEN "prepare" ELSE "verify"
      OBVIOUS
    <2>3. PICK staging : staging = [content |-> o, identity |-> Nothing, stamped |-> FALSE]
      OBVIOUS
    <2>4. proc[c] \in Procs /\ c \in Processes /\ proc \in [Processes -> Procs]
      BY CaptureIs
    <2>5. PICK x : x = [pc |-> step, update |-> proc[c].update, lock |-> proc[c].lock,
                        staging |-> staging, todo |-> proc[c].todo,
                        prepared |-> proc[c].prepared, saved |-> proc[c].saved, old |-> proc[c].old]
      OBVIOUS
    <2>6. proc[c] = [pc |-> proc[c].pc, update |-> proc[c].update, lock |-> proc[c].lock,
                     staging |-> proc[c].staging, todo |-> proc[c].todo,
                     prepared |-> proc[c].prepared, saved |-> proc[c].saved, old |-> proc[c].old]
      BY <2>4 DEF Procs
    <2>7. proc' = [proc EXCEPT ![c].staging = staging, ![c].pc = step]
      BY <2>1, <2>2, <2>3
    <2>8. proc' = [proc EXCEPT ![c] = x]
      <3>1. PICK mid : mid = [proc EXCEPT ![c].staging = staging]
        OBVIOUS
      <3>2. PICK y : y = [proc[c] EXCEPT !.staging = staging]
        OBVIOUS
      <3>3. y = [pc |-> proc[c].pc, update |-> proc[c].update, lock |-> proc[c].lock,
                 staging |-> staging, todo |-> proc[c].todo,
                 prepared |-> proc[c].prepared, saved |-> proc[c].saved, old |-> proc[c].old]
        BY <2>6, <3>2
      <3>4. mid = [proc EXCEPT ![c] = y]
        BY <3>1, <3>2
      <3>5. mid[c] = y
        BY <2>4, <3>4
      <3>6. x = [y EXCEPT !.pc = step]
        BY <2>5, <3>3
      <3>7. proc' = [mid EXCEPT ![c].pc = step]
        BY <2>7, <3>1
      <3>8. proc' = [mid EXCEPT ![c] = x]
        BY <3>5, <3>6, <3>7
      <3> QED
        BY <2>4, <3>4, <3>8
    <2>9. staging \in Lanes /\ step \in Steps
      BY <2>2, <2>3 DEF Lanes, Steps
    <2>10. x \in Procs
      BY <2>4, <2>5, <2>9 DEF Procs
    <2>11. staging # Nothing
      BY <2>9, ReferenceCacheAssumption DEF ReferenceCacheAssumption
    <2>12. CASE proc[c].update
      <3>1. x.pc = "prepare" /\ x.staging # Nothing
        BY <2>2, <2>5, <2>11, <2>12
      <3>2. CaptureKnows(x, suite', cached', begun')
        BY <3>1 DEF CaptureKnows
      <3>3. begun' # Nothing => suite' = begun'
        BY <1>1, NothingToRestore
      <3> QED
        BY <1>1, <2>8, <2>10, <3>2, <3>3, CaptureMoves, StateIs
    <2>13. CASE ~proc[c].update
      <3>1. x.pc = "verify" /\ x.staging # Nothing /\ x.lock = proc[c].lock
        BY <2>2, <2>5, <2>11, <2>13
      <3>2. Sealed(suite) /\ proc[c].lock = suite.lock
        BY <1>1, <2>13, CaptureIs DEF CaptureKnows
      <3>3. CaptureKnows(x, suite', cached', begun')
        BY <1>1, <3>1, <3>2 DEF CaptureKnows
      <3>4. begun' # Nothing => suite' = begun'
        BY <1>1, NothingToRestore
      <3> QED
        BY <1>1, <2>8, <2>10, <3>3, <3>4, CaptureMoves, StateIs
    <2> QED
      BY <2>12, <2>13
  <1> QED
    BY <1>2, <1>3

LEMMA PrepareKeeps ==
    ASSUME CacheInv, NEW c \in Captures, Prepare(c)
    PROVE  CacheInv'
  <1>1. /\ proc[c].pc = "prepare" /\ Holds(c) /\ proc[c].staging # Nothing
        /\ cached' = cached /\ previous' = previous /\ suite' = suite /\ begun' = suite
    BY CaptureIs DEF Prepare, Holds, CaptureKnows
  <1>2. /\ proc[c] \in Procs /\ c \in Processes /\ proc \in [Processes -> Procs]
        /\ suite \in Suites /\ SealTrue(suite)
    BY CaptureIs, StateIs
  <1>3. proc[c].staging \in Lanes /\ proc[c].staging.content \in Oracles
    BY <1>1, <1>2 DEF Procs, Lanes
  <1>4. PICK o \in Oracles : o = proc[c].staging.content
    BY <1>3
  <1>5. PICK new : new = Prepared(suite, o)
    OBVIOUS
  <1>6. PICK list : list = <<"lock", "samples", "seal">>
    OBVIOUS
  <1>7. PICK x : x = proc'[c]
    OBVIOUS
  <1>8. proc' = [proc EXCEPT ![c].prepared = new, ![c].saved = suite, ![c].lock = o,
                             ![c].todo = list, ![c].pc = "publish"]
    BY <1>4, <1>5, <1>6 DEF Prepare
  <1>9. proc' = [proc EXCEPT ![c] = x]
    BY <1>2, <1>7, <1>8
  <1>10. /\ x = [pc |-> "publish", update |-> proc[c].update, lock |-> o,
                 staging |-> proc[c].staging, todo |-> list,
                 prepared |-> new, saved |-> suite, old |-> proc[c].old]
    BY <1>2, <1>7, <1>8 DEF Procs
  <1>11. new \in Suites /\ new.code = suite.code
    BY <1>2, <1>5, PreparedIs
  <1>12. list \in Rest /\ Left(list) = FileNames
    BY <1>6, RestIs DEF Rest
  <1>13. x \in Procs
    BY <1>2, <1>4, <1>10, <1>11, <1>12 DEF Procs, Steps, Files
  <1>14. Written(suite, list, new)
    BY <1>11, <1>12 DEF Written
  <1>15. suite # Nothing
    BY <1>2, ReferenceCacheAssumption DEF ReferenceCacheAssumption
  <1>16. CaptureKnows(x, suite', cached', begun')
    BY <1>1, <1>2, <1>4, <1>5, <1>10, <1>14, <1>15 DEF CaptureKnows
  <1>17. begun' \in Suites \cup {Nothing} /\ x.pc = "publish"
    BY <1>1, <1>2, <1>10
  <1> QED
    BY <1>1, <1>9, <1>13, <1>16, <1>17, StateIs, CaptureMoves

\* What a capture that publishes or restores has at hand.
LEMMA PublishingIs ==
    ASSUME CacheInv, NEW c \in Captures, proc[c].pc \in {"publish", "restore"}
    PROVE  /\ proc[c].saved \in Suites /\ SealTrue(proc[c].saved) /\ begun = proc[c].saved
           /\ proc[c].todo \in Rest /\ Head(proc[c].todo) \in FileNames
           /\ proc[c].pc = "restore" => Written(suite, proc[c].todo, proc[c].saved)
           /\ proc[c].pc = "publish" =>
                 /\ proc[c].staging \in Lanes /\ proc[c].prepared \in Suites
                 /\ SealTrue(proc[c].prepared) /\ Sealed(proc[c].prepared)
                 /\ proc[c].prepared.lock = proc[c].staging.content
                 /\ proc[c].lock = proc[c].staging.content
                 /\ Written(suite, proc[c].todo, proc[c].prepared)
  <1>1. proc[c] \in Procs /\ CaptureKnows(proc[c], suite, cached, begun)
    BY CaptureIs
  <1>2. proc[c].saved \in Suites /\ SealTrue(proc[c].saved) /\ begun = proc[c].saved
    BY <1>1 DEF CaptureKnows, Procs
  <1>3. CASE proc[c].pc = "restore"
    <2>1. Written(suite, proc[c].todo, proc[c].saved)
      BY <1>1, <1>3 DEF CaptureKnows
    <2>2. proc[c].todo \in Rest
      BY <2>1 DEF Written
    <2> QED
      BY <1>2, <1>3, <2>1, <2>2, RestIs
  <1>4. CASE proc[c].pc = "publish"
    <2>1. /\ proc[c].prepared = Prepared(proc[c].saved, proc[c].staging.content)
          /\ proc[c].lock = proc[c].staging.content
          /\ Written(suite, proc[c].todo, proc[c].prepared) /\ proc[c].staging # Nothing
      BY <1>1, <1>4 DEF CaptureKnows
    <2>2. proc[c].todo \in Rest
      BY <2>1 DEF Written
    <2>3. proc[c].staging \in Lanes
      BY <1>1, <2>1 DEF Procs
    <2>4. proc[c].staging.content \in Oracles
      BY <2>3 DEF Lanes
    <2>5. PICK o \in Oracles : o = proc[c].staging.content
      BY <2>4
    <2>6. PICK p : p = proc[c].prepared
      OBVIOUS
    <2>7. p \in Suites /\ SealTrue(p) /\ Sealed(p) /\ p.lock = o
      BY <1>2, <2>1, <2>5, <2>6, PreparedIs
    <2> QED
      BY <1>2, <1>4, <2>1, <2>2, <2>3, <2>5, <2>6, <2>7, RestIs
  <1> QED
    BY <1>3, <1>4

LEMMA PublishKeeps ==
    ASSUME CacheInv, NEW c \in Captures, Publish(c)
    PROVE  CacheInv'
  <1>1. /\ proc[c].pc = "publish" /\ Holds(c) /\ cached' = cached /\ previous' = previous
    BY DEF Publish, Holds
  <1>2. /\ proc[c] \in Procs /\ c \in Processes /\ proc \in [Processes -> Procs]
        /\ suite \in Suites /\ SealTrue(suite) /\ begun \in Suites \cup {Nothing}
    BY CaptureIs, StateIs
  <1>3. /\ proc[c].saved \in Suites /\ SealTrue(proc[c].saved) /\ begun = proc[c].saved
        /\ proc[c].todo \in Rest /\ Head(proc[c].todo) \in FileNames
        /\ proc[c].staging \in Lanes /\ proc[c].prepared \in Suites
        /\ SealTrue(proc[c].prepared) /\ Sealed(proc[c].prepared)
        /\ proc[c].prepared.lock = proc[c].staging.content
        /\ proc[c].lock = proc[c].staging.content
        /\ Written(suite, proc[c].todo, proc[c].prepared)
    BY <1>1, PublishingIs
  <1>4. PICK list : list = proc[c].todo
    OBVIOUS
  <1>5. PICK new : new = proc[c].prepared
    OBVIOUS
  <1>6. PICK f : f = Head(list)
    OBVIOUS
  <1>7. suite' = [suite EXCEPT ![f] = new[f]]
    BY <1>4, <1>5, <1>6 DEF Publish, WriteFile
  <1>8. PICK u : u = suite'
    OBVIOUS
  <1>9. /\ u \in Suites /\ SealTrue(u)
        /\ (Len(list) = 1 => u = new)
        /\ (Len(list) # 1 => Written(u, Tail(list), new))
    <2>1. new \in Suites /\ SealTrue(new) /\ Written(suite, list, new)
      BY <1>3, <1>4, <1>5
    <2> QED
      BY ZenonT(30), <1>2, <1>6, <1>7, <1>8, <2>1, WrittenMore
  <1>10. PICK x : x = proc'[c]
    OBVIOUS
  <1>11. PICK step : step = IF Len(list) = 1 THEN "verify" ELSE "publish"
    OBVIOUS
  <1>12. PICK rest : rest = Tail(list)
    OBVIOUS
  <1>13. proc' = [proc EXCEPT ![c].todo = rest, ![c].pc = step]
    BY <1>2, <1>4, <1>11, <1>12 DEF Publish
  <1>14. proc' = [proc EXCEPT ![c] = x]
    BY <1>2, <1>10, <1>13
  <1>15. x = [pc |-> step, update |-> proc[c].update, lock |-> proc[c].lock,
              staging |-> proc[c].staging, todo |-> rest,
              prepared |-> proc[c].prepared, saved |-> proc[c].saved, old |-> proc[c].old]
    BY <1>2, <1>10, <1>13 DEF Procs
  <1>16. rest \in Rest \cup {<<>>}
    BY <1>3, <1>4, <1>12, RestIs
  <1>17. x \in Procs
    BY <1>2, <1>11, <1>15, <1>16 DEF Procs, Steps
  <1>18. proc[c].staging # Nothing /\ proc[c].saved # Nothing
    BY <1>3, ReferenceCacheAssumption DEF ReferenceCacheAssumption
  <1>19. begun' = IF Len(list) = 1 THEN Nothing ELSE begun
    BY <1>4 DEF Publish
  <1>20. CASE Len(list) = 1
    <2>1. x.pc = "verify" /\ begun' = Nothing /\ suite' = new
      BY <1>8, <1>9, <1>11, <1>15, <1>19, <1>20
    <2>2. Sealed(suite') /\ x.lock = suite'.lock /\ x.staging # Nothing
      BY <1>3, <1>5, <1>15, <1>18, <2>1
    <2>3. CaptureKnows(x, suite', cached', begun')
      BY <2>1, <2>2 DEF CaptureKnows
    <2> QED
      BY <1>1, <1>8, <1>9, <1>14, <1>17, <2>1, <2>3, StateIs, CaptureMoves
  <1>21. CASE Len(list) # 1
    <2>1. x.pc = "publish" /\ begun' = begun
      BY <1>11, <1>15, <1>19, <1>21
    <2>2. /\ x.staging = proc[c].staging /\ x.saved = proc[c].saved /\ x.prepared = new
          /\ x.lock = proc[c].lock /\ x.todo = rest
      BY <1>5, <1>15
    <2>3. Written(suite', x.todo, x.prepared)
      BY <1>8, <1>9, <1>12, <1>21, <2>2
    <2>4. CaptureKnows(proc[c], suite, cached, begun)
      BY CaptureIs
    <2>5. x.prepared = Prepared(x.saved, x.staging.content) /\ x.lock = x.staging.content
      BY <1>1, <1>5, <2>2, <2>4 DEF CaptureKnows
    <2>6. CaptureKnows(x, suite', cached', begun')
      BY <1>3, <1>18, <2>1, <2>2, <2>3, <2>5 DEF CaptureKnows
    <2> QED
      BY <1>1, <1>2, <1>8, <1>9, <1>14, <1>17, <2>1, <2>6, StateIs, CaptureMoves
  <1> QED
    BY <1>20, <1>21

LEMMA PublishFailsKeeps ==
    ASSUME CacheInv, NEW c \in Captures, PublishFails(c)
    PROVE  CacheInv'
  <1>1. /\ proc[c].pc = "publish" /\ Holds(c) /\ cached' = cached /\ previous' = previous
        /\ begun' = begun
    BY DEF PublishFails, Holds
  <1>2. /\ proc[c] \in Procs /\ c \in Processes /\ proc \in [Processes -> Procs]
        /\ suite \in Suites /\ SealTrue(suite) /\ begun \in Suites \cup {Nothing}
    BY CaptureIs, StateIs
  <1>3. /\ proc[c].saved \in Suites /\ SealTrue(proc[c].saved) /\ begun = proc[c].saved
        /\ Head(proc[c].todo) \in FileNames /\ proc[c].prepared \in Suites
        /\ SealTrue(proc[c].prepared) /\ Written(suite, proc[c].todo, proc[c].prepared)
    BY <1>1, PublishingIs
  <1>4. PICK f \in FileNames : f = Head(proc[c].todo)
    BY <1>3
  <1>5. suite' = [suite EXCEPT ![f] = CutShort]
    BY <1>4 DEF PublishFails, WriteFile
  <1>6. PICK u : u = suite'
    OBVIOUS
  <1>7. FileIs(u, suite, f, CutShort)
    BY <1>2, <1>3, <1>5, <1>6, WriteIs
  <1>8. u \in Suites /\ SealTrue(u) /\ u.code = suite.code
    BY <1>7 DEF FileIs
  <1>9. PICK list : list = <<"lock", "samples", "seal">>
    OBVIOUS
  <1>10. PICK x : x = proc'[c]
    OBVIOUS
  <1>11. proc' = [proc EXCEPT ![c].todo = list, ![c].pc = "restore"]
    BY <1>9 DEF PublishFails
  <1>12. proc' = [proc EXCEPT ![c] = x]
    BY <1>2, <1>10, <1>11
  <1>13. x = [pc |-> "restore", update |-> proc[c].update, lock |-> proc[c].lock,
              staging |-> proc[c].staging, todo |-> list,
              prepared |-> proc[c].prepared, saved |-> proc[c].saved, old |-> proc[c].old]
    BY <1>2, <1>10, <1>11 DEF Procs
  <1>14. list \in Rest /\ Left(list) = FileNames
    BY <1>9, RestIs DEF Rest
  <1>15. x \in Procs
    BY <1>2, <1>13, <1>14 DEF Procs, Steps
  <1>16. suite.code = proc[c].saved.code
    <2>1. CaptureKnows(proc[c], suite, cached, begun)
      BY CaptureIs
    <2>2. /\ proc[c].prepared = Prepared(proc[c].saved, proc[c].staging.content)
          /\ proc[c].staging # Nothing
      BY <1>1, <2>1 DEF CaptureKnows
    <2>3. proc[c].staging.content \in Oracles
      BY <1>2, <2>2 DEF Procs, Lanes
    <2>4. proc[c].prepared.code = proc[c].saved.code
      BY <1>3, <2>2, <2>3, PreparedIs
    <2> QED
      BY <1>3, <2>4 DEF Written
  <1>17. Written(u, list, proc[c].saved)
    BY <1>8, <1>14, <1>16 DEF Written
  <1>18. proc[c].saved # Nothing
    BY <1>3, ReferenceCacheAssumption DEF ReferenceCacheAssumption
  <1>19. CaptureKnows(x, suite', cached', begun')
    BY <1>1, <1>3, <1>6, <1>13, <1>17, <1>18 DEF CaptureKnows
  <1>20. x.pc = "restore"
    BY <1>13
  <1> QED
    BY <1>1, <1>2, <1>6, <1>8, <1>12, <1>15, <1>19, <1>20, StateIs, CaptureMoves

LEMMA RestoreKeeps ==
    ASSUME CacheInv, NEW c \in Captures, Restore(c)
    PROVE  CacheInv'
  <1>1. /\ proc[c].pc = "restore" /\ Holds(c) /\ cached' = cached /\ previous' = previous
        /\ begun' = begun
    BY DEF Restore, Holds
  <1>2. /\ proc[c] \in Procs /\ c \in Processes /\ proc \in [Processes -> Procs]
        /\ suite \in Suites /\ SealTrue(suite) /\ begun \in Suites \cup {Nothing}
    BY CaptureIs, StateIs
  <1>3. /\ proc[c].saved \in Suites /\ SealTrue(proc[c].saved) /\ begun = proc[c].saved
        /\ proc[c].todo \in Rest /\ Head(proc[c].todo) \in FileNames
        /\ Written(suite, proc[c].todo, proc[c].saved)
    BY <1>1, PublishingIs
  <1>4. PICK list : list = proc[c].todo
    OBVIOUS
  <1>5. PICK to : to = proc[c].saved
    OBVIOUS
  <1>6. PICK f : f = Head(list)
    OBVIOUS
  <1>7. suite' = [suite EXCEPT ![f] = to[f]]
    BY <1>4, <1>5, <1>6 DEF Restore, WriteFile
  <1>8. PICK u : u = suite'
    OBVIOUS
  <1>9. /\ u \in Suites /\ SealTrue(u)
        /\ (Len(list) = 1 => u = to)
        /\ (Len(list) # 1 => Written(u, Tail(list), to))
    BY ZenonT(30), <1>2, <1>3, <1>4, <1>5, <1>6, <1>7, <1>8, WrittenMore
  <1>10. CASE Len(list) = 1
    <2>1. Ends(c) /\ suite' = begun'
      BY <1>1, <1>3, <1>4, <1>5, <1>8, <1>9, <1>10 DEF Restore
    <2> QED
      BY <1>1, <1>2, <1>8, <1>9, <2>1, StateIs, CaptureEnds
  <1>11. CASE Len(list) # 1
    <2>1. PICK rest : rest = Tail(list)
      OBVIOUS
    <2>2. proc' = [proc EXCEPT ![c].todo = rest]
      BY <1>2, <1>4, <1>11, <2>1 DEF Restore
    <2>3. PICK x : x = proc'[c]
      OBVIOUS
    <2>4. proc' = [proc EXCEPT ![c] = x]
      BY <1>2, <2>2, <2>3
    <2>5. x = [pc |-> proc[c].pc, update |-> proc[c].update, lock |-> proc[c].lock,
               staging |-> proc[c].staging, todo |-> rest,
               prepared |-> proc[c].prepared, saved |-> proc[c].saved, old |-> proc[c].old]
      BY <1>2, <2>2, <2>3 DEF Procs
    <2>6. rest \in Rest \cup {<<>>}
      BY <1>3, <1>4, <2>1, RestIs
    <2>7. x \in Procs
      BY <1>2, <2>5, <2>6 DEF Procs
    <2>8. x.pc = "restore" /\ x.todo = rest /\ x.saved = proc[c].saved
      BY <1>1, <2>5
    <2>9. proc[c].saved # Nothing
      BY <1>3, ReferenceCacheAssumption DEF ReferenceCacheAssumption
    <2>10. Written(suite', rest, proc[c].saved)
      BY <1>5, <1>8, <1>9, <1>11, <2>1
    <2>11. CaptureKnows(x, suite', cached', begun')
      BY <1>1, <1>3, <2>8, <2>9, <2>10 DEF CaptureKnows
    <2> QED
      BY <1>1, <1>2, <1>8, <1>9, <2>4, <2>7, <2>8, <2>11, StateIs, CaptureMoves
  <1> QED
    BY <1>10, <1>11

LEMMA VerifyKeeps ==
    ASSUME CacheInv, NEW c \in Captures, Verify(c)
    PROVE  CacheInv'
  <1>1. /\ proc[c].pc = "verify" /\ Holds(c) /\ UNCHANGED <<suite, cached, previous, begun>>
    BY DEF Verify, Holds
  <1>2. /\ Sealed(suite) /\ proc[c].lock = suite.lock /\ proc[c].staging # Nothing
    BY <1>1, CaptureIs DEF CaptureKnows
  <1>3. CASE Ends(c)
    BY <1>1, <1>3, CaptureStops
  <1>4. CASE ~Ends(c)
    <2>1. Goto(c, "identify") /\ proc[c].staging.content = proc[c].lock
      BY <1>4 DEF Verify, Verified
    <2>2. PICK x \in Procs :
              /\ proc' = [proc EXCEPT ![c] = x] /\ x.pc = "identify" /\ x.update = proc[c].update
              /\ x.lock = proc[c].lock /\ x.staging = proc[c].staging
      BY <2>1, CaptureGoes DEF Steps
    <2>3. CaptureKnows(x, suite', cached', begun')
      BY <1>1, <1>2, <2>1, <2>2 DEF CaptureKnows
    <2>4. begun' # Nothing => suite' = begun'
      BY <1>1, NothingToRestore
    <2> QED
      BY <1>1, <2>2, <2>3, <2>4, CaptureMoves, StateIs
  <1> QED
    BY <1>3, <1>4

LEMMA IdentifyKeeps ==
    ASSUME CacheInv, NEW c \in Captures, Identify(c)
    PROVE  CacheInv'
  <1>1. /\ proc[c].pc = "identify" /\ Holds(c) /\ UNCHANGED <<suite, cached, previous, begun>>
    BY DEF Identify, Holds
  <1>2. /\ proc[c] \in Procs /\ c \in Processes /\ proc \in [Processes -> Procs] /\ suite \in Suites
    BY CaptureIs, StateIs
  <1>3. /\ Sealed(suite) /\ proc[c].staging.content = suite.lock /\ proc[c].staging # Nothing
    BY <1>1, CaptureIs DEF CaptureKnows
  <1>4. proc[c].staging \in Lanes
    BY <1>2, <1>3 DEF Procs
  <1>5. PICK d : d = Digest(suite)
    OBVIOUS
  <1>6. PICK ready : ready = [content |-> proc[c].staging.content, identity |-> d, stamped |-> TRUE]
    OBVIOUS
  <1>7. d \in Digests
    BY <1>2, <1>5 DEF Digest, Digests, Suites
  <1>8. ready \in Lanes
    BY <1>4, <1>6, <1>7 DEF Lanes
  <1>9. PICK x : x = proc'[c]
    OBVIOUS
  <1>10. PICK old : old = proc[c].staging
    OBVIOUS
  <1>11. old = [content |-> old.content, identity |-> old.identity, stamped |-> old.stamped]
    BY <1>4, <1>10 DEF Lanes
  <1>12. proc' = [proc EXCEPT ![c].staging.identity = d, ![c].staging.stamped = TRUE, ![c].pc = "swap"]
    BY <1>5 DEF Identify
  <1>13. proc' = [proc EXCEPT ![c].staging = ready, ![c].pc = "swap"]
    <2>1. proc' = [proc EXCEPT ![c].staging = [proc[c].staging EXCEPT !.identity = d, !.stamped = TRUE],
                               ![c].pc = "swap"]
      BY <1>2, <1>12
    <2>2. ready = [proc[c].staging EXCEPT !.identity = d, !.stamped = TRUE]
      <3>1. PICK yes : yes = TRUE
        OBVIOUS
      <3>2. PICK mid : mid = [old EXCEPT !.identity = d, !.stamped = yes]
        OBVIOUS
      <3>3. mid = [content |-> old.content, identity |-> d, stamped |-> yes]
        BY <1>11, <3>2
      <3>4. ready = [content |-> old.content, identity |-> d, stamped |-> yes]
        BY <1>6, <1>10, <3>1
      <3> QED
        BY <1>10, <3>1, <3>2, <3>3, <3>4
    <2> QED
      BY <2>1, <2>2
  <1>14. proc' = [proc EXCEPT ![c] = x]
    BY <1>2, <1>9, <1>13
  <1>15. x = [pc |-> "swap", update |-> proc[c].update, lock |-> proc[c].lock,
              staging |-> ready, todo |-> proc[c].todo,
              prepared |-> proc[c].prepared, saved |-> proc[c].saved, old |-> proc[c].old]
    BY <1>2, <1>9, <1>13 DEF Procs
  <1>16. x \in Procs
    BY <1>2, <1>8, <1>15 DEF Procs, Steps
  <1>17. ready # Nothing
    BY <1>8, ReferenceCacheAssumption DEF ReferenceCacheAssumption
  <1>18. x.pc = "swap" /\ x.staging = ready
    BY <1>15
  <1>19. ready.content = suite.lock /\ ready.identity = Digest(suite) /\ ready.stamped
    BY <1>3, <1>5, <1>6
  <1>20. CaptureKnows(x, suite', cached', begun')
    BY <1>1, <1>3, <1>17, <1>18, <1>19 DEF CaptureKnows
  <1>21. begun' # Nothing => suite' = begun'
    BY <1>1, NothingToRestore
  <1> QED
    BY <1>1, <1>14, <1>16, <1>20, <1>21, CaptureMoves, StateIs

LEMMA MoveOldAwayKeeps ==
    ASSUME CacheInv, NEW c \in Captures, MoveOldAway(c)
    PROVE  CacheInv'
  <1>1. /\ proc[c].pc = "swap" /\ Holds(c) /\ suite' = suite /\ begun' = begun /\ cached' = Nothing
        /\ previous' \in Lanes \cup {Nothing}
    BY StateIs DEF MoveOldAway, Holds
  <1>2. /\ proc[c] \in Procs /\ c \in Processes /\ proc \in [Processes -> Procs]
        /\ cached \in Lanes \cup {Nothing} /\ StampTrue(cached)
    BY CaptureIs, StateIs
  <1>3. /\ Sealed(suite) /\ proc[c].staging.content = suite.lock /\ proc[c].staging # Nothing
        /\ proc[c].staging.stamped /\ proc[c].staging.identity = Digest(suite)
    BY <1>1, CaptureIs DEF CaptureKnows
  <1>4. proc' = [proc EXCEPT ![c].old = cached, ![c].pc = "place"]
    BY DEF MoveOldAway
  <1>5. PICK x : x = proc'[c]
    OBVIOUS
  <1>6. proc' = [proc EXCEPT ![c] = x]
    BY <1>2, <1>4, <1>5
  <1>7. x = [pc |-> "place", update |-> proc[c].update, lock |-> proc[c].lock,
             staging |-> proc[c].staging, todo |-> proc[c].todo,
             prepared |-> proc[c].prepared, saved |-> proc[c].saved, old |-> cached]
    BY <1>2, <1>4, <1>5 DEF Procs
  <1>8. x \in Procs
    BY <1>2, <1>7 DEF Procs, Steps
  <1>9. x.pc = "place" /\ x.staging = proc[c].staging /\ x.old = cached
    BY <1>7
  <1>10. CaptureKnows(x, suite', cached', begun')
    BY <1>1, <1>2, <1>3, <1>9 DEF CaptureKnows
  <1>11. begun' # Nothing => suite' = begun'
    BY <1>1, NothingToRestore
  <1>12. StampTrue(cached')
    BY <1>1 DEF StampTrue
  <1> QED
    BY <1>1, <1>6, <1>8, <1>10, <1>11, <1>12, CaptureMoves, StateIs

\* What a capture that exchanges the lanes has at hand.
LEMMA ExchangeIs ==
    ASSUME CacheInv, NEW c \in Captures, proc[c].pc = "place"
    PROVE  /\ proc[c].staging \in Lanes /\ proc[c].staging # Nothing /\ StampTrue(proc[c].staging)
           /\ proc[c].old \in Lanes \cup {Nothing} /\ StampTrue(proc[c].old)
           /\ cached = Nothing /\ Sealed(suite) /\ proc[c].staging.content = suite.lock
           /\ proc[c].staging.identity = Digest(suite)
  <1>1. proc[c] \in Procs /\ CaptureKnows(proc[c], suite, cached, begun) /\ suite \in Suites /\ SealTrue(suite)
    BY CaptureIs, StateIs
  <1>2. /\ Sealed(suite) /\ proc[c].staging.content = suite.lock /\ proc[c].staging # Nothing
        /\ proc[c].staging.stamped /\ proc[c].staging.identity = Digest(suite)
        /\ cached = Nothing /\ StampTrue(proc[c].old)
    BY <1>1 DEF CaptureKnows
  <1>3. proc[c].staging \in Lanes /\ proc[c].old \in Lanes \cup {Nothing}
    BY <1>1, <1>2 DEF Procs
  <1>4. PICK v \in Commits, o \in Oracles : suite.seal = <<v, o, SampleOf[o]>>
    BY <1>1, <1>2 DEF Sealed, SealTrue
  <1>5. suite.lock = o /\ suite.samples = SampleOf[o] /\ suite.code = v
    BY <1>2, <1>4 DEF Sealed, Digest
  <1>6. proc[c].staging.identity = <<v, o, SampleOf[o]>> /\ proc[c].staging.content = o
    BY <1>2, <1>5 DEF Digest
  <1>7. StampTrue(proc[c].staging)
    BY <1>6 DEF StampTrue
  <1> QED
    BY <1>2, <1>3, <1>7

LEMMA PlaceKeeps ==
    ASSUME CacheInv, NEW c \in Captures, Place(c)
    PROVE  CacheInv'
  <1>1. /\ proc[c].pc = "place" /\ Holds(c) /\ suite' = suite /\ begun' = begun
        /\ cached' = proc[c].staging /\ previous' = Nothing /\ Ends(c)
    BY DEF Place, Holds
  <1>2. begun' # Nothing => suite' = begun'
    BY <1>1, NothingToRestore
  <1> QED
    BY <1>1, <1>2, ExchangeIs, StateIs, CaptureEnds

LEMMA PlaceFailsKeeps ==
    ASSUME CacheInv, NEW c \in Captures, PlaceFails(c)
    PROVE  CacheInv'
  <1>1. /\ proc[c].pc = "place" /\ Holds(c) /\ suite' = suite /\ begun' = begun
        /\ cached' = proc[c].old /\ previous' \in Lanes \cup {Nothing} /\ Ends(c)
    BY StateIs DEF PlaceFails, Holds
  <1>2. begun' # Nothing => suite' = begun'
    BY <1>1, NothingToRestore
  <1> QED
    BY <1>1, <1>2, ExchangeIs, StateIs, CaptureEnds

LEMMA CaptureStepsKeep ==
    ASSUME CacheInv, NEW c \in Captures, CaptureSteps(c)
    PROVE  CacheInv'
  BY StartCaptureKeeps, BuildKeeps, CaptureLaneKeeps, PrepareKeeps, PublishKeeps, PublishFailsKeeps,
     RestoreKeeps, VerifyKeeps, IdentifyKeeps, MoveOldAwayKeeps, PlaceKeeps, PlaceFailsKeeps
     DEF CaptureSteps

(***************************************************************************)
(* A comparison, step by step.                                             *)
(***************************************************************************)
LEMMA ComparisonIs ==
    ASSUME CacheInv, NEW r \in Comparisons
    PROVE  /\ r \in Processes /\ proc[r] \in Procs /\ proc \in [Processes -> Procs]
           /\ ComparisonKnows(proc[r], suite, cached)
  BY DEF CacheInv, CacheTypes, Processes

\* A comparison that lets go.
LEMMA ComparisonEnds ==
    ASSUME CacheInv, NEW r \in Comparisons, Holds(r), Ends(r), suite' = suite, cached' = cached,
           previous' = previous, begun' \in {begun, Nothing}
    PROVE  CacheInv'
  <1>1. proc' = [proc EXCEPT ![r] = Idle]
    BY DEF Ends
  <1>2. ComparisonKnows(Idle, suite, cached)
    BY IdleIs, IdleKnows
  <1> QED
    BY <1>1, <1>2, IdleIs, ComparisonMoves

LEMMA StartComparisonKeeps ==
    ASSUME CacheInv, NEW r \in Comparisons, StartComparison(r)
    PROVE  CacheInv'
  <1>1. PICK x : x = [Idle EXCEPT !.pc = "check", !.lock = suite.lock]
    OBVIOUS
  <1>2. /\ x.pc = "check" /\ x.lock = suite.lock
        /\ x = [pc |-> "check", update |-> FALSE, lock |-> suite.lock, staging |-> Nothing,
                todo |-> <<>>, prepared |-> Nothing, saved |-> Nothing, old |-> Nothing]
    BY <1>1, Zenon DEF Idle
  <1>3. x \in Procs
    BY <1>2, StateIs DEF Procs, Steps, Suites
  <1>4. Sealed(suite)
    BY DEF StartComparison
  <1>5. ComparisonKnows(x, suite, cached)
    BY <1>2, <1>4 DEF ComparisonKnows
  <1>6. proc' = [proc EXCEPT ![r] = x]
    BY <1>1 DEF StartComparison
  <1>7. MayLock(r)
    BY DEF StartComparison
  <1>8. suite' = suite /\ cached' = cached /\ previous' = previous /\ begun' = begun
    BY DEF StartComparison
  <1> QED
    BY <1>3, <1>5, <1>6, <1>7, <1>8, ComparisonMoves

\* What a comparison accepts is what is sealed: either it was replayed, or its
\* stamp still fits, and then the seal and the stamp are of one oracle.
LEMMA AcceptableIsSealed ==
    ASSUME CacheInv, Sealed(suite), Acceptable(suite.lock)
    PROVE  cached # Nothing /\ cached.content = suite.lock
  <1>1. cached # Nothing /\ cached.identity = Digest(suite)
    BY DEF Acceptable
  <1>2. CASE cached.stamped
    <2>1. PICK v \in Commits : cached.identity = <<v, cached.content, SampleOf[cached.content]>>
      BY <1>1, <1>2, StateIs DEF StampTrue
    <2> QED
      BY <1>1, <2>1 DEF Digest
  <1>3. CASE Verified(cached.content, suite.lock)
    BY <1>1, <1>3 DEF Verified
  <1> QED
    BY <1>2, <1>3 DEF Acceptable

LEMMA CheckCacheKeeps ==
    ASSUME CacheInv, NEW r \in Comparisons, CheckCache(r)
    PROVE  CacheInv'
  <1>1. /\ proc[r].pc = "check" /\ Holds(r) /\ UNCHANGED <<suite, cached, previous, begun>>
    BY DEF CheckCache, Holds
  <1>2. Sealed(suite) /\ proc[r].lock = suite.lock
    BY <1>1, ComparisonIs DEF ComparisonKnows
  <1>3. CASE Ends(r)
    BY <1>1, <1>3, ComparisonEnds
  <1>4. CASE ~Ends(r)
    <2>1. Goto(r, "compare") /\ Acceptable(suite.lock)
      BY <1>2, <1>4 DEF CheckCache
    <2>2. proc[r] \in Procs /\ r \in Processes /\ proc \in [Processes -> Procs]
      BY ComparisonIs
    <2>3. PICK x : x = proc'[r]
      OBVIOUS
    <2>4. proc' = [proc EXCEPT ![r] = x]
      BY <2>1, <2>2, <2>3 DEF Goto
    <2>5. x = [pc |-> "compare", update |-> proc[r].update, lock |-> proc[r].lock,
               staging |-> proc[r].staging, todo |-> proc[r].todo,
               prepared |-> proc[r].prepared, saved |-> proc[r].saved, old |-> proc[r].old]
      BY <2>1, <2>2, <2>3 DEF Goto, Procs
    <2>6. x \in Procs
      BY <2>2, <2>5 DEF Procs, Steps
    <2>7. cached # Nothing /\ cached.content = suite.lock
      BY <1>2, <2>1, AcceptableIsSealed
    <2>8. x.pc = "compare"
      BY <2>5
    <2>9. ComparisonKnows(x, suite, cached)
      BY <1>2, <2>7, <2>8 DEF ComparisonKnows
    <2> QED
      BY <1>1, <2>4, <2>6, <2>9, ComparisonMoves
  <1> QED
    BY <1>3, <1>4

LEMMA CompareKeeps ==
    ASSUME CacheInv, NEW r \in Comparisons, Compare(r)
    PROVE  CacheInv'
  BY ComparisonEnds DEF Compare, Holds

LEMMA ComparisonStepsKeep ==
    ASSUME CacheInv, NEW r \in Comparisons, ComparisonSteps(r)
    PROVE  CacheInv'
  BY StartComparisonKeeps, CheckCacheKeeps, CompareKeeps DEF ComparisonSteps

(***************************************************************************)
(* The environment.                                                        *)
(***************************************************************************)
\* The suite as it is committed.
LEMMA CommittedIs ==
    ASSUME NEW v \in Commits
    PROVE  Committed(v) \in Suites /\ SealTrue(Committed(v))
  <1>1. LockOf[v] \in Oracles
    BY ReferenceCacheAssumption DEF ReferenceCacheAssumption
  <1>2. PICK o \in Oracles : o = LockOf[v]
    BY <1>1
  <1>3. PICK seal : seal = <<v, o, SampleOf[o]>>
    OBVIOUS
  <1>4. Committed(v) = [code |-> v, lock |-> o, samples |-> SampleOf[o], seal |-> seal]
    BY <1>2, <1>3 DEF Committed
  <1>5. seal \in Digests /\ o \in Files /\ SampleOf[o] \in Samples
    BY <1>3 DEF Digests, Files, Samples
  <1> QED
    BY <1>3, <1>4, <1>5 DEF Suites, SealTrue

LEMMA CheckoutKeeps ==
    ASSUME CacheInv, ~EditsDuringCapture, NEW v \in Commits, CheckoutSuite(v)
    PROVE  CacheInv'
  <1>1. \A p \in Processes : ~Holds(p)
    BY DEF CheckoutSuite, MayEdit
  <1> QED
    BY <1>1, CommittedIs, StateIs, NobodyMoves DEF CheckoutSuite

LEMMA EditSourcesKeeps ==
    ASSUME CacheInv, ~EditsDuringCapture, NEW v \in Commits, EditSources(v)
    PROVE  CacheInv'
  <1>1. \A p \in Processes : ~Holds(p)
    BY DEF EditSources, MayEdit
  <1>2. suite \in Suites /\ SealTrue(suite)
    BY StateIs
  <1>3. suite = [code |-> suite.code, lock |-> suite.lock, samples |-> suite.samples, seal |-> suite.seal]
    BY <1>2 DEF Suites
  <1>4. suite' = [code |-> v, lock |-> suite.lock, samples |-> suite.samples, seal |-> suite.seal]
    BY <1>3 DEF EditSources
  <1>5. suite' \in Suites /\ SealTrue(suite')
    BY <1>2, <1>4 DEF Suites, SealTrue
  <1> QED
    BY <1>1, <1>5, StateIs, NobodyMoves DEF EditSources

LEMMA TamperKeeps ==
    ASSUME CacheInv, Tamper
    PROVE  CacheInv' /\ cached' # Nothing
  <1>1. cached # Nothing /\ cached \in Lanes
    BY StateIs DEF Tamper
  <1>2. PICK o \in Oracles : cached' = [cached EXCEPT !.content = o, !.stamped = FALSE]
    BY DEF Tamper
  <1>3. cached = [content |-> cached.content, identity |-> cached.identity, stamped |-> cached.stamped]
    BY <1>1 DEF Lanes
  <1>4. cached' = [content |-> o, identity |-> cached.identity, stamped |-> FALSE]
    BY <1>2, <1>3
  <1>5. cached' \in Lanes /\ StampTrue(cached')
    BY <1>1, <1>4 DEF Lanes, StampTrue
  <1>6. cached' # Nothing
    BY <1>5, ReferenceCacheAssumption DEF ReferenceCacheAssumption
  <1> QED
    BY <1>5, <1>6, StateIs, NobodyMoves DEF Tamper

LEMMA KillProcessKeeps ==
    ASSUME CacheInv, NEW p \in Processes, KillProcess(p)
    PROVE  CacheInv'
  <1>1. Holds(p) /\ Ends(p) /\ begun' = Nothing /\ cached' = cached /\ previous' = previous
    BY DEF KillProcess
  <1>2. CASE p \in Comparisons
    <2>1. proc[p].pc \notin {"publish", "restore"}
      BY <1>2, ComparisonIs DEF ComparisonKnows
    <2>2. suite' = suite
      BY <2>1 DEF KillProcess
    <2> QED
      BY <1>1, <1>2, <2>2, ComparisonEnds
  <1>3. CASE p \in Captures
    <2>1. suite' \in Suites /\ SealTrue(suite')
      <3>1. CASE suite' = suite
        BY <3>1, StateIs
      <3>2. CASE suite' # suite
        <4>1. proc[p].pc \in {"publish", "restore"} /\ suite' = [suite EXCEPT ![Head(proc[p].todo)] = CutShort]
          BY <3>2 DEF KillProcess, WriteFile
        <4>2. proc[p].saved \in Suites /\ SealTrue(proc[p].saved) /\ Head(proc[p].todo) \in FileNames
          BY <1>3, <4>1, PublishingIs
        <4>3. PICK f \in FileNames : f = Head(proc[p].todo)
          BY <4>2
        <4>4. PICK u : u = suite'
          OBVIOUS
        <4>5. u = [suite EXCEPT ![f] = CutShort]
          BY <4>1, <4>3, <4>4
        <4>6. suite \in Suites /\ SealTrue(suite)
          BY StateIs
        <4>7. FileIs(u, suite, f, CutShort)
          BY <4>2, <4>5, <4>6, WriteIs
        <4> QED
          BY <4>4, <4>7 DEF FileIs
      <3> QED
        BY <3>1, <3>2
    <2> QED
      BY <1>1, <1>3, <2>1, StateIs, CaptureEnds
  <1> QED
    BY <1>2, <1>3 DEF Processes

\* What a failed restore leaves is what a kill in its midst leaves.
LEMMA RestoreFailsKeeps ==
    ASSUME CacheInv, NEW p \in Captures, RestoreFails(p)
    PROVE  CacheInv'
  <1>1. KillProcess(p)
    BY DEF RestoreFails, KillProcess, Holds
  <1> QED
    BY <1>1, KillProcessKeeps DEF Processes

(***************************************************************************)
(* The theorems.                                                           *)
(***************************************************************************)
LEMMA CacheStarts ==
    CacheInit => CacheInv
  <1> SUFFICES ASSUME CacheInit
               PROVE  CacheInv
    OBVIOUS
  <1>1. PICK v \in Commits : suite = Committed(v)
    BY DEF CacheInit
  <1>2. \A p \in Processes : proc[p] = Idle
    BY DEF CacheInit
  <1>3. CacheTypes
    BY <1>1, CommittedIs, IdleIs DEF CacheInit, CacheTypes
  <1>4. Alone
    BY <1>2, IdleIs DEF Alone, Holds, Processes
  <1>5. SealTrue(suite) /\ StampTrue(cached)
    BY <1>1, CommittedIs DEF CacheInit, StampTrue
  <1>6. \A c \in Captures : CaptureKnows(proc[c], suite, cached, begun)
    BY <1>2, IdleIs, IdleKnows DEF Processes
  <1>7. \A r \in Comparisons : ComparisonKnows(proc[r], suite, cached)
    BY <1>2, IdleIs, IdleKnows DEF Processes
  <1>8. FailedUpdateRestores
    BY DEF CacheInit, FailedUpdateRestores
  <1> QED
    BY <1>3, <1>4, <1>5, <1>6, <1>7, <1>8 DEF CacheInv

LEMMA CacheNextKeeps ==
    ~EditsDuringCapture /\ CacheInv /\ [CacheNext]_cacheVars => CacheInv'
  <1> SUFFICES ASSUME ~EditsDuringCapture, CacheInv, [CacheNext]_cacheVars
               PROVE  CacheInv'
    OBVIOUS
  <1>1. CASE UNCHANGED cacheVars
    BY <1>1 DEF cacheVars, CacheInv, CacheTypes, Alone, Holds, FailedUpdateRestores, Publishing
  <1>2. ASSUME NEW p \in Captures, CaptureSteps(p) \/ RestoreFails(p)
        PROVE  CacheInv'
    BY <1>2, CaptureStepsKeep, RestoreFailsKeeps
  <1>3. ASSUME NEW p \in Comparisons, ComparisonSteps(p)
        PROVE  CacheInv'
    BY <1>3, ComparisonStepsKeep
  <1>4. CASE Environment
    BY <1>4, CheckoutKeeps, EditSourcesKeeps, TamperKeeps, KillProcessKeeps DEF Environment
  <1> QED
    BY <1>1, <1>2, <1>3, <1>4 DEF CacheNext

\* What the properties say of a state is part of the invariant.
LEMMA CacheIsSealed ==
    CacheInv => ComparedIsSealed
  <1> SUFFICES ASSUME CacheInv
               PROVE  ComparedIsSealed
    OBVIOUS
  <1>1. CacheTypeOK
    BY DEF CacheInv, CacheTypes, CacheTypeOK, Procs, Steps
  <1>2. ComparesWithSealed
    BY DEF CacheInv, ComparesWithSealed, ComparisonKnows
  <1>3. NothingTornIsSealed
    BY DEF CacheInv, NothingTornIsSealed, SealTrue, Sealed, Digest
  <1>4. FailedUpdateRestores
    BY DEF CacheInv
  <1> QED
    BY <1>1, <1>2, <1>3, <1>4 DEF ComparedIsSealed

\* No step loses the lane that was captured.
LEMMA LaneIsKept ==
    ASSUME CacheInv, [CacheNext]_cacheVars
    PROVE  LaneKept
  <1>1. CASE UNCHANGED <<cached, previous>>
    BY <1>1 DEF LaneKept
  <1>2. CASE Tamper
    BY <1>2, TamperKeeps DEF LaneKept
  <1>3. ASSUME NEW c \in Captures, MoveOldAway(c)
        PROVE  LaneKept
    BY <1>3 DEF MoveOldAway, LaneKept
  <1>4. ASSUME NEW c \in Captures, Place(c)
        PROVE  LaneKept
    BY <1>4, ExchangeIs DEF Place, LaneKept
  <1>5. ASSUME NEW c \in Captures, PlaceFails(c)
        PROVE  LaneKept
    BY <1>5, ExchangeIs DEF PlaceFails, LaneKept
  <1>6. ASSUME NEW c \in Captures, CaptureSteps(c)
        PROVE  LaneKept
    BY <1>1, <1>3, <1>4, <1>5, <1>6
       DEF CaptureSteps, StartCapture, Build, CaptureLane, Prepare, Publish, PublishFails, Restore,
           Verify, Identify
  <1>7. ASSUME NEW r \in Comparisons, ComparisonSteps(r)
        PROVE  LaneKept
    BY <1>1, <1>7 DEF ComparisonSteps, StartComparison, CheckCache, Compare
  <1>8. CASE Environment
    BY <1>1, <1>2, <1>8 DEF Environment, CheckoutSuite, EditSources, KillProcess
  <1>9. ASSUME NEW c \in Captures, RestoreFails(c)
        PROVE  LaneKept
    BY <1>1, <1>9 DEF RestoreFails
  <1> QED
    BY <1>1, <1>6, <1>7, <1>8, <1>9 DEF CacheNext, cacheVars

\* What a capture leaves when it finishes, a comparison accepts.
LEMMA CaptureCanBeUsed ==
    ASSUME CacheInv
    PROVE  CaptureIsUsable
  <1> SUFFICES ASSUME NEW p \in Captures, Place(p)
               PROVE  Sealed(suite') /\ cached'.identity = Digest(suite') /\ cached'.content = suite'.lock
    BY DEF CaptureIsUsable
  <1>1. proc[p].pc = "place" /\ suite' = suite /\ cached' = proc[p].staging
    BY DEF Place
  <1> QED
    BY <1>1, ExchangeIs

LEMMA CacheInvHolds ==
    ASSUME ~EditsDuringCapture
    PROVE  CacheSpec => []CacheInv
  <1>1. CacheInv /\ [CacheNext]_cacheVars => CacheInv'
    BY CacheNextKeeps
  <1> QED
    BY <1>1, CacheStarts, PTL DEF CacheSpec

(* While nobody edits the suite under a capture, every comparison uses the *)
(* oracle that is sealed, no torn file is sealed, and an update that fails *)
(* leaves the suite as it was, for all processes, versions and oracles.    *)
THEOREM ComparedIsAlwaysSealed ==
    ~EditsDuringCapture => (CacheSpec => []ComparedIsSealed)
  <1> SUFFICES ASSUME ~EditsDuringCapture
               PROVE  CacheSpec => []ComparedIsSealed
    OBVIOUS
  <1> QED
    BY CacheInvHolds, CacheIsSealed, PTL

(* Whatever fails while the lanes are exchanged, one of them is kept, and  *)
(* what a finished capture leaves, a comparison accepts.                   *)
THEOREM CapturesAreAlwaysKept ==
    ~EditsDuringCapture => (CacheSpec => CapturesAreKept)
  <1> SUFFICES ASSUME ~EditsDuringCapture
               PROVE  CacheSpec => CapturesAreKept
    OBVIOUS
  <1>1. CacheInv /\ [CacheNext]_cacheVars => [LaneKept /\ CaptureIsUsable]_cacheVars
    BY LaneIsKept, CaptureCanBeUsed
  <1> QED
    BY <1>1, CacheInvHolds, PTL DEF CacheSpec, CapturesAreKept

(***************************************************************************)
(* The screen: every line of the grid and of the scrollback is one whose   *)
(* wide glyphs are whole and whose slot is where it was printed.           *)
(***************************************************************************)

AnyCell == [width : 0 .. 2, slot : BOOLEAN, printed : BOOLEAN]

(* The lines of n cells: every wide glyph has both its halves, and the slot *)
(* is where it was printed.                                                *)
Lines(n) ==
    {line \in [0 .. n - 1 -> AnyCell] :
        WholeLine(line) /\ \A c \in 0 .. n - 1 : line[c].slot = line[c].printed}
AnyLine == UNION {Lines(n) : n \in 2 .. MaxCols}
Screens == [0 .. rows - 1 -> Lines(cols)]

Sized ==
    /\ rows \in 1 .. MaxRows /\ cols \in 2 .. MaxCols
    /\ row \in 0 .. rows - 1 /\ col \in 0 .. cols - 1
    /\ wrap \in BOOLEAN /\ (wrap => col = cols - 1)
    /\ top \in 0 .. bottom /\ bottom \in 0 .. rows - 1
    /\ slots \in {0, 1}

ScreenInv == Sized /\ grid \in Screens /\ scrollback \in Seq(AnyLine)

LEMMA CellsAre ==
    /\ Blank = [width |-> 1, slot |-> FALSE, printed |-> FALSE]
    /\ \A w \in 0 .. 2 : Cell(w) = [width |-> w, slot |-> FALSE, printed |-> FALSE] /\ Cell(w) \in AnyCell
    /\ Blank \in AnyCell
  BY DEF Blank, Cell, AnyCell

LEMMA BlankIs == Blank.width = 1 /\ Blank.slot = Blank.printed
  BY CellsAre

LEMMA LineIs ==
    ASSUME NEW n \in Nat, NEW line \in Lines(n), NEW c \in 0 .. n - 1
    PROVE  /\ line[c] \in AnyCell /\ line[c].width \in 0 .. 2 /\ line[c].slot = line[c].printed
           /\ line[c].width = 2 => c + 1 \in 0 .. n - 1 /\ line[c + 1].width = 0
           /\ line[c].width = 0 => c - 1 \in 0 .. n - 1 /\ line[c - 1].width = 2
  BY DEF Lines, WholeLine, AnyCell

LEMMA LineMade ==
    ASSUME NEW n \in Nat, NEW line \in [0 .. n - 1 -> AnyCell],
           \A c \in 0 .. n - 1 :
              /\ line[c].slot = line[c].printed
              /\ line[c].width = 2 => c + 1 \in 0 .. n - 1 /\ line[c + 1].width = 0
              /\ line[c].width = 0 => c - 1 \in 0 .. n - 1 /\ line[c - 1].width = 2
    PROVE  line \in Lines(n)
  BY DEF Lines, WholeLine

LEMMA BlankRowIs ==
    ASSUME NEW n \in Nat
    PROVE  BlankRow(n) \in Lines(n)
  <1>1. BlankRow(n) \in [0 .. n - 1 -> AnyCell]
    BY CellsAre DEF BlankRow
  <1>2. \A c \in 0 .. n - 1 : BlankRow(n)[c] = Blank
    BY DEF BlankRow
  <1>3. \A c \in 0 .. n - 1 : BlankRow(n)[c].width = 1 /\ BlankRow(n)[c].slot = BlankRow(n)[c].printed
    <2>1. Blank.width = 1 /\ Blank.slot = Blank.printed
      BY CellsAre
    <2> QED  BY <1>2, <2>1
  <1> HIDE DEF BlankRow
  <1> QED  BY <1>1, <1>3, LineMade

(* The sizes are numbers.                                                  *)
LEMMA SizesAre ==
    ASSUME Sized
    PROVE  /\ rows \in Nat /\ cols \in Nat /\ row \in Nat /\ col \in Nat /\ top \in Nat /\ bottom \in Nat
           /\ 1 <= rows /\ rows <= MaxRows /\ 2 <= cols /\ cols <= MaxCols /\ row < rows /\ col < cols
           /\ top <= bottom /\ bottom < rows /\ (wrap => col = cols - 1)
           /\ MaxRows \in Nat /\ MaxCols \in Nat /\ MaxSaved \in Nat /\ 1 <= MaxRows /\ 2 <= MaxCols
  BY ScreenGridAssumption DEF Sized

LEMMA Moves ==
    ASSUME Sized, NEW g \in Screens
    PROVE  MoveUp(g, top, bottom) \in Screens /\ MoveDown(g, top, bottom) \in Screens
  <1>1. DOMAIN g = 0 .. rows - 1 /\ BlankRow(cols) \in Lines(cols)
    BY SizesAre, BlankRowIs DEF Screens
  <1>2. \A r \in 0 .. rows - 1 :
           /\ r \in top .. bottom - 1 => r + 1 \in 0 .. rows - 1
           /\ r \in top + 1 .. bottom => r - 1 \in 0 .. rows - 1
    BY SizesAre
  <1> QED  BY <1>1, <1>2 DEF MoveUp, MoveDown, Screens

LEMMA SavedIs ==
    ASSUME NEW list \in Seq(AnyLine)
    PROVE  Saved(list) \in Seq(AnyLine)
  <1>1. Len(list) \in Nat /\ MaxSaved \in Nat
    BY ScreenGridAssumption
  <1>2. Greater(1, Len(list) - MaxSaved + 1) \in Nat \ {0}
    BY <1>1 DEF Greater
  <1>3. PICK first \in Nat \ {0} : first = Greater(1, Len(list) - MaxSaved + 1)
    BY <1>2
  <1>4. SubSeq(list, first, Len(list)) \in Seq(AnyLine)
    BY <1>1
  <1> QED  BY <1>3, <1>4 DEF Saved

LEMMA LineFeedIs ==
    ASSUME ScreenInv
    PROVE  /\ LineFeed.grid \in Screens /\ LineFeed.row \in 0 .. rows - 1
           /\ LineFeed.saved \in Seq(AnyLine)
  <1>0. Sized /\ grid \in Screens /\ scrollback \in Seq(AnyLine)
    BY DEF ScreenInv
  <1>1. CASE row = bottom
    <2>1. grid[top] \in AnyLine
      BY <1>0, SizesAre DEF Screens, AnyLine
    <2>2. Append(scrollback, grid[top]) \in Seq(AnyLine)
      BY <1>0, <2>1
    <2>3. Saved(Append(scrollback, grid[top])) \in Seq(AnyLine)
      BY <2>2, SavedIs
    <2>4. MoveUp(grid, top, bottom) \in Screens
      BY <1>0, Moves
    <2> QED  BY <1>0, <1>1, <2>3, <2>4, SizesAre DEF LineFeed
  <1>2. CASE row # bottom
    BY <1>0, <1>2, SizesAre DEF LineFeed, Lesser
  <1> QED  BY <1>1, <1>2

(* A cell is cleared with the other half of its glyph.                     *)
LEMMA ClearCellIs ==
    ASSUME Sized, NEW g \in Screens, NEW r \in 0 .. rows - 1, NEW c \in 0 .. cols - 1
    PROVE  /\ ClearCell(g, r, c) \in Screens
           /\ ClearCell(g, r, c)[r][c] = Blank
           /\ \A i \in 0 .. cols - 1 : g[r][i] = Blank => ClearCell(g, r, c)[r][i] = Blank
  <1> DEFINE line == g[r]
             other == IF line[c].width = 0 /\ c > 0 THEN {c - 1}
                      ELSE IF line[c].width = 2 /\ c + 1 < cols THEN {c + 1} ELSE {}
             cleared == [i \in DOMAIN line |-> IF i \in other \cup {c} THEN Blank ELSE line[i]]
  <1>1. line \in Lines(cols) /\ DOMAIN line = 0 .. cols - 1 /\ cols \in Nat
    BY SizesAre DEF Screens, Lines
  <1>2. cleared \in [0 .. cols - 1 -> AnyCell]
    BY <1>1, LineIs, CellsAre
  <1>3. \A i \in 0 .. cols - 1 : cleared[i] = IF i \in other \cup {c} THEN Blank ELSE line[i]
    BY <1>1
  <1>4. Blank.width = 1 /\ Blank.slot = Blank.printed
    BY CellsAre
  <1>5. ASSUME NEW i \in 0 .. cols - 1
        PROVE  /\ cleared[i].slot = cleared[i].printed
               /\ cleared[i].width = 2 => i + 1 \in 0 .. cols - 1 /\ cleared[i + 1].width = 0
               /\ cleared[i].width = 0 => i - 1 \in 0 .. cols - 1 /\ cleared[i - 1].width = 2
    <2>0. /\ line[c].width \in 0 .. 2
          /\ line[c].width = 2 => c + 1 \in 0 .. cols - 1 /\ line[c + 1].width = 0
          /\ line[c].width = 0 => c - 1 \in 0 .. cols - 1 /\ line[c - 1].width = 2
          /\ line[i].slot = line[i].printed
          /\ line[i].width = 2 => i + 1 \in 0 .. cols - 1 /\ line[i + 1].width = 0
          /\ line[i].width = 0 => i - 1 \in 0 .. cols - 1 /\ line[i - 1].width = 2
      BY <1>1, LineIs
    <2>1. CASE i \in other \cup {c}
      BY <2>1, <1>3, <1>4
    <2>2. CASE i \notin other \cup {c}
      <3>1. cleared[i] = line[i]
        BY <2>2, <1>3
      <3>2. line[i].width = 2 => i + 1 \notin other \cup {c}
        BY <2>0, <2>2, <1>1
      <3>3. line[i].width = 0 => i - 1 \notin other \cup {c}
        BY <2>0, <2>2, <1>1
      <3> QED  BY <2>0, <3>1, <3>2, <3>3, <1>3
    <2> QED  BY <2>1, <2>2
  <1>6. cleared \in Lines(cols)
    BY <1>1, <1>2, <1>5, LineMade
  <1>7. ClearCell(g, r, c) = [g EXCEPT ![r] = cleared]
    BY DEF ClearCell
  <1>8. cleared[c] = Blank /\ \A i \in 0 .. cols - 1 : line[i] = Blank => cleared[i] = Blank
    BY <1>3
  <1> HIDE DEF cleared, other
  <1> QED  BY <1>6, <1>7, <1>8 DEF Screens

(* A glyph is put onto cells that were cleared.                            *)
LEMMA GlyphShown ==
    ASSUME NEW n \in Nat, NEW line \in Lines(n), NEW at \in 0 .. n - 1, NEW width \in {1, 2},
           NEW slot \in BOOLEAN, line[at] = Blank,
           width = 2 => at + 1 \in 0 .. n - 1 /\ line[at + 1] = Blank /\ slot = FALSE
    PROVE  [i \in 0 .. n - 1 |-> IF i = at THEN [width |-> width, slot |-> slot, printed |-> slot]
                                 ELSE IF i = at + 1 /\ width = 2 THEN Cell(0) ELSE line[i]] \in Lines(n)
  <1> DEFINE shown == [i \in 0 .. n - 1 |-> IF i = at THEN [width |-> width, slot |-> slot, printed |-> slot]
                                            ELSE IF i = at + 1 /\ width = 2 THEN Cell(0) ELSE line[i]]
  <1>1. /\ Blank.width = 1
        /\ Cell(0) \in AnyCell /\ Cell(0).width = 0 /\ Cell(0).slot = Cell(0).printed
        /\ [width |-> width, slot |-> slot, printed |-> slot] \in AnyCell
    BY CellsAre DEF AnyCell
  <1>2. PICK zero \in AnyCell : zero = Cell(0)
    BY <1>1
  <1>3. PICK glyph \in AnyCell : glyph = [width |-> width, slot |-> slot, printed |-> slot]
    BY <1>1
  <1>4. glyph.width = width /\ glyph.slot = glyph.printed /\ zero.width = 0 /\ zero.slot = zero.printed
    BY <1>1, <1>2, <1>3
  <1>5. \A i \in 0 .. n - 1 : shown[i] = IF i = at THEN glyph ELSE IF i = at + 1 /\ width = 2 THEN zero ELSE line[i]
    BY <1>2, <1>3
  <1>6. \A i \in 0 .. n - 1 : line[i] \in AnyCell
    BY LineIs
  <1>7. shown \in [0 .. n - 1 -> AnyCell]
    BY <1>1, <1>6
  <1> HIDE DEF shown
  <1>8. ASSUME NEW i \in 0 .. n - 1
        PROVE  /\ shown[i].slot = shown[i].printed
               /\ shown[i].width = 2 => i + 1 \in 0 .. n - 1 /\ shown[i + 1].width = 0
               /\ shown[i].width = 0 => i - 1 \in 0 .. n - 1 /\ shown[i - 1].width = 2
    <2>1. CASE i = at
      <3>1. shown[i] = glyph
        BY <2>1, <1>5
      <3>2. width = 2 => shown[i + 1] = zero
        BY <2>1, <1>5
      <3> QED  BY <2>1, <3>1, <3>2, <1>4
    <2>2. CASE i = at + 1 /\ width = 2
      <3>1. shown[i] = zero /\ shown[i - 1] = glyph
        BY <2>2, <1>5
      <3> QED  BY <2>2, <3>1, <1>4
    <2>3. CASE i # at /\ ~(i = at + 1 /\ width = 2)
      <3>1. shown[i] = line[i]
        BY <2>3, <1>5
      <3>2. /\ line[i].slot = line[i].printed
            /\ line[i].width = 2 => i + 1 \in 0 .. n - 1 /\ line[i + 1].width = 0
            /\ line[i].width = 0 => i - 1 \in 0 .. n - 1 /\ line[i - 1].width = 2
        BY LineIs
      <3>3. line[i].width = 2 => i + 1 # at /\ ~(i + 1 = at + 1 /\ width = 2)
        BY <3>2, <2>3, <1>1
      <3>4. line[i].width = 0 => i - 1 # at /\ ~(i - 1 = at + 1 /\ width = 2)
        BY <3>2, <2>3, <1>1
      <3> QED  BY <3>1, <3>2, <3>3, <3>4, <1>5
    <2> QED  BY <2>1, <2>2, <2>3
  <1>9. shown \in Lines(n)
    BY <1>7, <1>8, LineMade
  <1> QED  BY <1>9 DEF shown

LEMMA PutKeeps ==
    ASSUME ScreenInv, NEW width \in {1, 2}, NEW slot \in BOOLEAN, Put(width, slot)
    PROVE  ScreenInv'
  <1>0. Sized /\ grid \in Screens /\ scrollback \in Seq(AnyLine)
    BY DEF ScreenInv
  <1> DEFINE wraps == wrap \/ col + width > cols
             at == IF wraps THEN 0 ELSE col
             fed == IF wraps THEN LineFeed ELSE [grid |-> grid, row |-> row, saved |-> scrollback]
             full == at + width >= cols
             column == IF full THEN cols - 1 ELSE at + width
             once == ClearCell(fed.grid, fed.row, at)
             clear == IF width = 2 THEN ClearCell(once, fed.row, at + 1) ELSE once
             glyph == [Cell(width) EXCEPT !.printed = slot]
             shown == [clear EXCEPT ![fed.row] = [i \in DOMAIN @ |->
                          IF i = at THEN glyph ELSE IF i = at + 1 /\ width = 2 THEN Cell(0) ELSE @[i]]]
  <1>1. /\ slot => width = 1
        /\ slots' \in {slots, 1}
        /\ row' = fed.row /\ col' = column /\ wrap' = full /\ scrollback' = fed.saved
        /\ grid' = IF slot THEN [shown EXCEPT ![fed.row][PrintedColumn(column, full)].slot = TRUE] ELSE shown
        /\ UNCHANGED <<rows, cols, top, bottom>>
    BY DEF Put, size, region
  <1>2. fed.grid \in Screens /\ fed.row \in 0 .. rows - 1 /\ fed.saved \in Seq(AnyLine)
    BY <1>0, LineFeedIs DEF Sized
  <1>3. /\ at \in 0 .. cols - 1 /\ at + width <= cols
        /\ column \in 0 .. cols - 1 /\ full \in BOOLEAN /\ (full => column = cols - 1)
        /\ width = 2 => at + 1 \in 0 .. cols - 1
        /\ (width = 1) => PrintedColumn(column, full) = at
    <2>1. /\ col \in Nat /\ cols \in Nat /\ 2 <= cols /\ col < cols /\ at \in {0, col}
          /\ at = col => col + width <= cols
      BY <1>0, SizesAre
    <2> HIDE DEF at, wraps
    <2>2. at \in 0 .. cols - 1 /\ at + width <= cols /\ (width = 2 => at + 1 \in 0 .. cols - 1)
      BY <2>1
    <2>3. column \in 0 .. cols - 1 /\ full \in BOOLEAN /\ (full => column = cols - 1)
      BY <2>1, <2>2
    <2>4. (width = 1) => PrintedColumn(column, full) = at
      BY <2>1, <2>2 DEF PrintedColumn
    <2> QED  BY <2>2, <2>3, <2>4
  <1>4. PICK gr \in Screens, r \in 0 .. rows - 1 : gr = fed.grid /\ r = fed.row
    BY <1>2
  <1>5. PICK x \in 0 .. cols - 1 : x = at
    BY <1>3
  <1> HIDE DEF fed, at, full, column, wraps
  <1>6. once \in Screens /\ once[r][x] = Blank
    BY <1>0, <1>4, <1>5, ClearCellIs
  <1>7. /\ clear \in Screens /\ clear[r][x] = Blank
        /\ width = 2 => x + 1 \in 0 .. cols - 1 /\ clear[r][x + 1] = Blank
    BY <1>0, <1>3, <1>4, <1>5, <1>6, ClearCellIs
  <1>8. PICK cl \in Screens : cl = clear
    BY <1>7
  <1>9. glyph = [width |-> width, slot |-> FALSE, printed |-> slot] /\ (slot => [glyph EXCEPT !.slot = TRUE] = [width |-> width, slot |-> slot, printed |-> slot])
    <2>1. PICK no, yes : no = FALSE /\ yes = TRUE
      OBVIOUS
    <2>2. Cell(width) = [width |-> width, slot |-> no, printed |-> no]
      BY <2>1 DEF Cell
    <2>3. PICK s : s = slot
      OBVIOUS
    <2>4. [Cell(width) EXCEPT !.printed = s] = [width |-> width, slot |-> no, printed |-> s]
      BY <2>2
    <2>5. [[width |-> width, slot |-> no, printed |-> s] EXCEPT !.slot = yes] = [width |-> width, slot |-> yes, printed |-> s]
      OBVIOUS
    <2>6. slot => slot = yes
      BY <2>1
    <2> QED  BY <2>1, <2>3, <2>4, <2>5, <2>6
  <1>10. cl[r] \in Lines(cols) /\ DOMAIN cl = 0 .. rows - 1 /\ DOMAIN cl[r] = 0 .. cols - 1
    BY <1>8 DEF Screens, Lines
  <1> DEFINE Line(g) == [i \in 0 .. cols - 1 |-> IF i = x THEN g ELSE IF i = x + 1 /\ width = 2 THEN Cell(0) ELSE cl[r][i]]
             final == [width |-> width, slot |-> slot, printed |-> slot]
  <1> HIDE DEF once, clear, glyph
  <1>11. shown = [cl EXCEPT ![r] = Line(glyph)]
    BY <1>4, <1>5, <1>8, <1>10
  <1>12. grid' = [cl EXCEPT ![r] = Line(final)]
    <2>1. CASE slot
      <3>1. grid' = [shown EXCEPT ![r][x].slot = TRUE]
        BY <1>1, <1>3, <1>4, <1>5, <2>1
      <3>2. shown[r] = Line(glyph) /\ DOMAIN shown = DOMAIN cl /\ \A k \in DOMAIN cl : k # r => shown[k] = cl[k]
        BY <1>11, <1>10
      <3>3. [Line(glyph) EXCEPT ![x].slot = TRUE] = Line(final)
        <4>1. DOMAIN Line(glyph) = 0 .. cols - 1 /\ Line(glyph)[x] = glyph
          OBVIOUS
        <4>2. [Line(glyph) EXCEPT ![x].slot = TRUE] = [Line(glyph) EXCEPT ![x] = [glyph EXCEPT !.slot = TRUE]]
          BY <4>1
        <4>3. [glyph EXCEPT !.slot = TRUE] = final
          BY <1>9, <2>1, Zenon
        <4>4. [Line(glyph) EXCEPT ![x] = final] = Line(final)
          OBVIOUS
        <4> QED  BY <4>2, <4>3, <4>4
      <3>4. grid' = [shown EXCEPT ![r] = [Line(glyph) EXCEPT ![x].slot = TRUE]]
        BY <3>1, <3>2
      <3> HIDE DEF Line, shown, final
      <3> QED  BY <1>11, <3>3, <3>4, <1>10
    <2>2. CASE ~slot
      <3>1. glyph = final
        BY <1>9, <2>2
      <3> QED  BY <1>1, <1>11, <2>2, <3>1
    <2> QED  BY <2>1, <2>2
  <1>13. Line(final) \in Lines(cols)
    <2>1. cl[r] \in Lines(cols) /\ cl[r][x] = Blank /\ cols \in Nat
      BY <1>0, <1>7, <1>8, <1>10, SizesAre
    <2>2. (width = 2) => (x + 1 \in 0 .. cols - 1 /\ cl[r][x + 1] = Blank /\ slot = FALSE)
      BY <1>1, <1>7, <1>8
    <2> QED  BY ZenonT(30), <2>1, <2>2, GlyphShown
  <1> HIDE DEF Line
  <1>14. grid' \in Screens
    BY <1>12, <1>13 DEF Screens
  <1>15. Sized'
    <2>1. /\ row' \in 0 .. rows - 1 /\ col' \in 0 .. cols - 1 /\ wrap' \in BOOLEAN /\ (wrap' => col' = cols - 1)
          /\ slots' \in {0, 1}
      BY <1>0, <1>1, <1>2, <1>3 DEF Sized
    <2> QED  BY <1>0, <1>1, <2>1 DEF Sized
  <1> QED  BY <1>1, <1>2, <1>14, <1>15 DEF ScreenInv, Screens, AnyLine

(* Where a combining character goes, there is a glyph or a blank.          *)
LEMMA MarkedIs ==
    ASSUME ScreenInv, MarkedColumn >= 0
    PROVE  MarkedColumn \in 0 .. cols - 1 /\ grid[row][MarkedColumn].width # 0
  <1>0. Sized /\ grid \in Screens
    BY DEF ScreenInv
  <1>1. /\ cols \in Nat /\ col \in Nat /\ col < cols /\ row \in 0 .. rows - 1
        /\ grid[row] \in Lines(cols)
    BY <1>0, SizesAre DEF Sized, Screens
  <1>2. PICK at \in Int : at = IF wrap THEN col ELSE col - 1
    BY <1>1
  <1>3. MarkedColumn = IF at < 0 THEN at ELSE IF grid[row][at].width = 0 THEN at - 1 ELSE at
    BY <1>2 DEF MarkedColumn
  <1>4. at \in 0 .. cols - 1
    BY <1>1, <1>2, <1>3
  <1>5. grid[row][at].width = 0 => at - 1 \in 0 .. cols - 1 /\ grid[row][at - 1].width = 2
    BY <1>1, <1>4, LineIs
  <1> QED  BY <1>3, <1>4, <1>5

LEMMA CombineKeeps ==
    ASSUME ScreenInv, Combine
    PROVE  ScreenInv'
  <1>0. Sized /\ grid \in Screens /\ scrollback \in Seq(AnyLine) /\ cols \in Nat /\ row \in 0 .. rows - 1
    BY SizesAre DEF ScreenInv, Sized
  <1>1. /\ UNCHANGED <<rows, cols, top, bottom, row, col, wrap, scrollback, slots>>
        /\ MarkedColumn >= 0
        /\ grid' = [grid EXCEPT ![row][MarkedColumn] = Cell(@.width)]
    BY DEF Combine, size, region, cursor
  <1>2. PICK c \in 0 .. cols - 1 : c = MarkedColumn
    BY <1>1, MarkedIs
  <1>3. PICK line \in Lines(cols) : line = grid[row]
    BY <1>0 DEF Screens
  <1> DEFINE marked == [line EXCEPT ![c] = Cell(line[c].width)]
  <1>4. grid' = [grid EXCEPT ![row] = marked]
    BY <1>1, <1>2, <1>3
  <1>5. marked \in Lines(cols)
    <2>1. /\ line \in [0 .. cols - 1 -> AnyCell]
          /\ line[c].width \in 0 .. 2
      BY <1>0, LineIs DEF Lines
    <2>2. PICK cell \in AnyCell : cell = Cell(line[c].width) /\ cell.width = line[c].width /\ cell.slot = cell.printed
      <3>1. PICK w \in 0 .. 2 : w = line[c].width
        BY <2>1
      <3>2. PICK no : no = FALSE
        OBVIOUS
      <3>3. Cell(w) = [width |-> w, slot |-> no, printed |-> no]
        BY <3>2 DEF Cell
      <3>4. Cell(w) \in AnyCell /\ Cell(w).width = w /\ Cell(w).slot = Cell(w).printed
        <4>1. Cell(w) \in AnyCell
          BY CellsAre
        <4> QED  BY <3>3, <4>1
      <3> QED  BY <3>1, <3>4
    <2>3. marked \in [0 .. cols - 1 -> AnyCell] /\ marked = [line EXCEPT ![c] = cell]
      BY <2>1, <2>2
    <2>4. \A i \in 0 .. cols - 1 : marked[i].width = line[i].width /\ marked[i].slot = marked[i].printed
      <3> TAKE i \in 0 .. cols - 1
      <3>1. line[i].slot = line[i].printed
        BY <1>0, LineIs
      <3>2. CASE i = c
        BY <2>1, <2>2, <2>3, <3>2
      <3>3. CASE i # c
        BY <2>1, <2>3, <3>1, <3>3
      <3> QED  BY <3>2, <3>3
    <2> HIDE DEF marked
    <2>5. ASSUME NEW i \in 0 .. cols - 1
          PROVE  /\ marked[i].slot = marked[i].printed
                 /\ marked[i].width = 2 => i + 1 \in 0 .. cols - 1 /\ marked[i + 1].width = 0
                 /\ marked[i].width = 0 => i - 1 \in 0 .. cols - 1 /\ marked[i - 1].width = 2
      <3>1. /\ line[i].width = 2 => i + 1 \in 0 .. cols - 1 /\ line[i + 1].width = 0
            /\ line[i].width = 0 => i - 1 \in 0 .. cols - 1 /\ line[i - 1].width = 2
        BY <1>0, LineIs
      <3> QED  BY <2>4, <3>1
    <2> QED  BY <1>0, <2>3, <2>5, LineMade
  <1> HIDE DEF marked
  <1>6. grid' \in Screens
    BY <1>0, <1>4, <1>5 DEF Screens
  <1> QED  BY <1>0, <1>1, <1>6 DEF ScreenInv, Sized, Screens

LEMMA LinesMoveKeeps ==
    ASSUME ScreenInv, LF \/ ReverseIndex
    PROVE  ScreenInv'
  <1>0. Sized /\ grid \in Screens /\ scrollback \in Seq(AnyLine)
    BY DEF ScreenInv
  <1>1. UNCHANGED <<rows, cols, top, bottom, col, slots>> /\ wrap' = FALSE
    BY DEF LF, ReverseIndex, size, region
  <1>2. row' \in 0 .. rows - 1 /\ grid' \in Screens /\ scrollback' \in Seq(AnyLine)
    <2>1. CASE LF
      BY <2>1, LineFeedIs DEF LF
    <2>2. CASE ReverseIndex
      <3>1. row' \in 0 .. rows - 1
        BY <1>0, <2>2, SizesAre DEF ReverseIndex
      <3> QED  BY <1>0, <2>2, <3>1, Moves DEF ReverseIndex
    <2> QED  BY <2>1, <2>2
  <1> QED  BY <1>0, <1>1, <1>2 DEF ScreenInv, Sized, Screens

LEMMA MoveKeeps ==
    ASSUME ScreenInv, Move
    PROVE  ScreenInv'
  <1>0. Sized /\ grid \in Screens /\ scrollback \in Seq(AnyLine)
    BY DEF ScreenInv
  <1>1. UNCHANGED <<rows, cols, top, bottom, grid, scrollback, slots>> /\ wrap' = FALSE
    BY DEF Move, size, region
  <1>2. row' \in 0 .. rows - 1 /\ col' \in 0 .. cols - 1
    <2>1. /\ rows \in Nat /\ cols \in Nat /\ row \in 0 .. rows - 1 /\ col \in 0 .. cols - 1
          /\ 1 <= rows /\ 2 <= cols /\ MaxRows \in Nat /\ MaxCols \in Nat
      BY <1>0, SizesAre
    <2>2. ASSUME NEW n \in Nat \ {0}
          PROVE  /\ {Greater(0, row - n), Lesser(rows - 1, row + n), Lesser(rows - 1, n - 1)} \subseteq 0 .. rows - 1
                 /\ {Greater(0, col - n), Lesser(cols - 1, col + n), Lesser(cols - 1, n - 1)} \subseteq 0 .. cols - 1
      BY <2>1 DEF Greater, Lesser
    <2>3. Lesser(cols - 1, (col \div 8 + 1) * 8) \in 0 .. cols - 1
      <3>1. PICK k \in Nat : k = (col \div 8 + 1) * 8
        BY <2>1
      <3>2. Lesser(cols - 1, k) \in 0 .. cols - 1
        BY <2>1 DEF Lesser
      <3> QED  BY <3>1, <3>2
    <2>4. 0 \in 0 .. cols - 1
      BY <2>1
    <2>5. 1 .. MaxRows + 1 \subseteq Nat \ {0} /\ 1 .. MaxCols + 1 \subseteq Nat \ {0}
      BY <2>1
    <2>6. Greater(0, col - 1) \in 0 .. cols - 1
      BY <2>2
    <2> QED  BY <2>1, <2>2, <2>3, <2>4, <2>5, <2>6 DEF Move
  <1> QED  BY <1>0, <1>1, <1>2 DEF ScreenInv, Sized, Screens

(* Whatever is erased, wide glyphs go as a whole.                          *)
LEMMA ClearAllIs ==
    ASSUME Sized, grid \in Screens, NEW cells
    PROVE  ClearAll(cells) \in Screens
  <1> DEFINE Gone(r, c) ==
                \/ <<r, c>> \in cells
                \/ grid[r][c].width = 0 /\ c > 0 /\ <<r, c - 1>> \in cells
                \/ grid[r][c].width = 2 /\ c + 1 < cols /\ <<r, c + 1>> \in cells
             Shown(r) == [c \in DOMAIN grid[r] |-> IF Gone(r, c) THEN Blank ELSE grid[r][c]]
  <1>1. ClearAll(cells) = [r \in DOMAIN grid |-> Shown(r)] /\ DOMAIN grid = 0 .. rows - 1
    BY Zenon DEF ClearAll, Screens
  <1>2. ASSUME NEW r \in 0 .. rows - 1
        PROVE  Shown(r) \in Lines(cols)
    <2>1. grid[r] \in Lines(cols) /\ DOMAIN grid[r] = 0 .. cols - 1 /\ cols \in Nat
      BY SizesAre DEF Screens, Lines
    <2>2. PICK line \in Lines(cols) : line = grid[r]
      BY <2>1
    <2>3. PICK gone : gone = {c \in 0 .. cols - 1 : Gone(r, c)}
      OBVIOUS
    <2>4. Shown(r) = [c \in 0 .. cols - 1 |-> IF c \in gone THEN Blank ELSE line[c]]
      BY <2>1, <2>2, <2>3
    <2>5. PICK rest : rest = Shown(r)
      OBVIOUS
    <2>6. \A c \in 0 .. cols - 1 : rest[c] = IF c \in gone THEN Blank ELSE line[c]
      BY <2>4, <2>5
    <2>7. rest \in [0 .. cols - 1 -> AnyCell]
      BY <2>1, <2>2, <2>4, <2>5, LineIs, CellsAre
    <2>8. ASSUME NEW c \in 0 .. cols - 1
          PROVE  /\ line[c].slot = line[c].printed
                 /\ line[c].width = 2 => c + 1 \in 0 .. cols - 1 /\ line[c + 1].width = 0
                 /\ line[c].width = 0 => c - 1 \in 0 .. cols - 1 /\ line[c - 1].width = 2
                 /\ (line[c].width = 2 /\ c + 1 \in gone) => c \in gone
                 /\ (line[c].width = 0 /\ c - 1 \in gone) => c \in gone
      <3>1. /\ line[c].slot = line[c].printed
            /\ line[c].width = 2 => c + 1 \in 0 .. cols - 1 /\ line[c + 1].width = 0
            /\ line[c].width = 0 => c - 1 \in 0 .. cols - 1 /\ line[c - 1].width = 2
        BY <2>1, LineIs
      <3>2. (line[c].width = 2 /\ c + 1 \in gone) => c \in gone
        <4> SUFFICES ASSUME line[c].width = 2, c + 1 \in gone PROVE Gone(r, c)
          BY <2>3
        <4>1. c + 1 \in 0 .. cols - 1 /\ grid[r][c + 1].width = 0 /\ grid[r][c].width = 2
          BY <2>2, <3>1
        <4>2. <<r, c + 1>> \in cells \/ <<r, c>> \in cells
          BY <2>3, <4>1
        <4>3. c + 1 < cols
          BY <2>1, <4>1
        <4> QED  BY <4>1, <4>2, <4>3
      <3>3. (line[c].width = 0 /\ c - 1 \in gone) => c \in gone
        <4> SUFFICES ASSUME line[c].width = 0, c - 1 \in gone PROVE Gone(r, c)
          BY <2>3
        <4>1. c - 1 \in 0 .. cols - 1 /\ grid[r][c - 1].width = 2 /\ grid[r][c].width = 0 /\ c > 0
          BY <2>1, <2>2, <3>1
        <4>2. <<r, c - 1>> \in cells \/ <<r, c>> \in cells
          BY <2>3, <4>1
        <4> QED  BY <4>1, <4>2
      <3> QED  BY <3>1, <3>2, <3>3
    <2>9. ASSUME NEW c \in 0 .. cols - 1
          PROVE  /\ rest[c].slot = rest[c].printed
                 /\ rest[c].width = 2 => c + 1 \in 0 .. cols - 1 /\ rest[c + 1].width = 0
                 /\ rest[c].width = 0 => c - 1 \in 0 .. cols - 1 /\ rest[c - 1].width = 2
      <3>1. CASE c \in gone
        <4>1. rest[c].width = 1 /\ rest[c].slot = rest[c].printed
          BY <2>6, <3>1, BlankIs
        <4> QED  BY <4>1
      <3>2. CASE c \notin gone
        <4>1. rest[c] = line[c]
          BY <2>6, <3>2
        <4>2. (line[c].width = 2) => rest[c + 1] = line[c + 1]
          BY <2>6, <2>8, <3>2
        <4>3. (line[c].width = 0) => rest[c - 1] = line[c - 1]
          BY <2>6, <2>8, <3>2
        <4> QED  BY <2>8, <4>1, <4>2, <4>3
      <3> QED  BY <3>1, <3>2
    <2>10. rest \in Lines(cols)
      BY <2>1, <2>7, <2>9, LineMade
    <2> QED  BY <2>5, <2>10
  <1> HIDE DEF Shown
  <1> QED  BY <1>1, <1>2 DEF Screens

LEMMA EraseKeeps ==
    ASSUME ScreenInv, (\E mode \in 0 .. 2, whole \in BOOLEAN : Erase(mode, whole)) \/ EraseScrollback
    PROVE  ScreenInv'
  <1>0. Sized /\ grid \in Screens /\ scrollback \in Seq(AnyLine)
    BY DEF ScreenInv
  <1>1. UNCHANGED <<rows, cols, top, bottom, row, col, slots>> /\ wrap' = FALSE
    BY DEF Erase, EraseScrollback, size, region
  <1>2. grid' \in Screens /\ scrollback' \in Seq(AnyLine)
    <2>1. CASE EraseScrollback
      <3>1. grid' = grid /\ scrollback' = << >>
        BY <2>1 DEF EraseScrollback
      <3> QED  BY <1>0, <1>1, <3>1 DEF Screens
    <2>2. ASSUME NEW mode \in 0 .. 2, NEW whole \in BOOLEAN, Erase(mode, whole)
          PROVE  grid' \in Screens /\ scrollback' \in Seq(AnyLine)
      <3>1. PICK cells : cells = Erased(mode, whole)
        OBVIOUS
      <3>2. grid' = ClearAll(cells) /\ scrollback' = scrollback
        BY <2>2, <3>1 DEF Erase
      <3>3. ClearAll(cells) \in Screens
        BY <1>0, ClearAllIs
      <3> QED  BY <1>0, <3>2, <3>3
    <2> QED  BY <2>1, <2>2
  <1> QED  BY <1>0, <1>1, <1>2 DEF ScreenInv, Sized, Screens

LEMMA RegionKeeps ==
    ASSUME ScreenInv, NEW first \in 1 .. MaxRows, NEW last \in 1 .. MaxRows, Region(first, last)
    PROVE  ScreenInv'
  <1>0. Sized /\ grid \in Screens /\ scrollback \in Seq(AnyLine)
    BY DEF ScreenInv
  <1>1. /\ UNCHANGED <<rows, cols, grid, scrollback, slots>> /\ wrap' = FALSE
        /\ first < last /\ last <= rows
        /\ top' = first - 1 /\ bottom' = last - 1 /\ row' = 0 /\ col' = 0
    BY DEF Region, size
  <1>2. /\ row' \in 0 .. rows - 1 /\ col' \in 0 .. cols - 1
        /\ top' \in 0 .. bottom' /\ bottom' \in 0 .. rows - 1
    BY <1>0, <1>1, SizesAre
  <1> QED  BY <1>0, <1>1, <1>2 DEF ScreenInv, Sized, Screens

(* A glyph cut in two is blanked.                                          *)
LEMMA CutRowIs ==
    ASSUME NEW m \in Nat, NEW n \in Nat, NEW line \in Lines(m)
    PROVE  CutRow(line, n) \in Lines(n)
  <1>1. DOMAIN line = 0 .. m - 1
    BY DEF Lines
  <1>2. PICK cut : cut = CutRow(line, n)
    OBVIOUS
  <1>3. \A c \in 0 .. n - 1 :
           cut[c] = IF c \notin 0 .. m - 1 \/ (c = n - 1 /\ line[c].width = 2) THEN Blank ELSE line[c]
    BY <1>1, <1>2 DEF CutRow
  <1>4. cut \in [0 .. n - 1 -> AnyCell]
    BY <1>1, <1>2, LineIs, CellsAre DEF CutRow
  <1>5. ASSUME NEW c \in 0 .. n - 1
        PROVE  /\ cut[c].slot = cut[c].printed
               /\ cut[c].width = 2 => c + 1 \in 0 .. n - 1 /\ cut[c + 1].width = 0
               /\ cut[c].width = 0 => c - 1 \in 0 .. n - 1 /\ cut[c - 1].width = 2
    <2>1. CASE c \notin 0 .. m - 1 \/ (c = n - 1 /\ line[c].width = 2)
      <3>1. cut[c].width = 1 /\ cut[c].slot = cut[c].printed
        BY <1>3, <2>1, BlankIs
      <3> QED  BY <3>1
    <2>2. CASE ~(c \notin 0 .. m - 1 \/ (c = n - 1 /\ line[c].width = 2))
      <3>1. cut[c] = line[c]
        BY <1>3, <2>2
      <3>2. /\ line[c].slot = line[c].printed
            /\ line[c].width = 2 => c + 1 \in 0 .. m - 1 /\ line[c + 1].width = 0
            /\ line[c].width = 0 => c - 1 \in 0 .. m - 1 /\ line[c - 1].width = 2
        BY <2>2, LineIs
      <3>3. (line[c].width = 2) => c + 1 \in 0 .. n - 1 /\ cut[c + 1] = line[c + 1]
        BY <1>3, <2>2, <3>2
      <3>4. (line[c].width = 0) => c - 1 \in 0 .. n - 1 /\ cut[c - 1] = line[c - 1]
        BY <1>3, <2>2, <3>2
      <3> QED  BY <3>1, <3>2, <3>3, <3>4
    <2> QED  BY <2>1, <2>2
  <1>6. cut \in Lines(n)
    BY <1>4, <1>5, LineMade
  <1> QED  BY <1>2, <1>6

LEMMA ResizeKeeps ==
    ASSUME ScreenInv, NEW height \in 1 .. MaxRows, NEW width \in 2 .. MaxCols, Resize(height, width)
    PROVE  ScreenInv'
  <1>0. Sized /\ grid \in Screens /\ scrollback \in Seq(AnyLine)
    BY DEF ScreenInv
  <1>1. PICK removed : removed = Greater(0, rows - height)
    OBVIOUS
  <1>2. /\ rows' = height /\ cols' = width
        /\ scrollback' = Saved(scrollback \o [i \in 1 .. removed |-> grid[i - 1]])
        /\ grid' = [r \in 0 .. height - 1 |->
                       IF r + removed < rows THEN CutRow(grid[r + removed], width) ELSE BlankRow(width)]
        /\ row' = Greater(0, Lesser(height - 1, row - removed)) /\ col' = Lesser(width - 1, col)
        /\ top' = 0 /\ bottom' = height - 1 /\ wrap' = FALSE /\ slots' = slots
    BY <1>1 DEF Resize
  <1>3. /\ rows \in Nat /\ cols \in Nat /\ height \in Nat \ {0} /\ width \in Nat /\ 2 <= width
        /\ row \in Nat /\ col \in Nat /\ row < rows /\ cols \in 2 .. MaxCols
    BY <1>0, SizesAre DEF Sized
  <1>4. removed \in Nat /\ removed <= rows
    BY <1>1, <1>3 DEF Greater
  <1>5. scrollback' \in Seq(AnyLine)
    <2>1. \A i \in 1 .. removed : grid[i - 1] \in AnyLine
      BY <1>0, <1>3, <1>4 DEF Screens, AnyLine
    <2>2. [i \in 1 .. removed |-> grid[i - 1]] \in Seq(AnyLine)
      BY <1>4, <2>1
    <2>3. scrollback \o [i \in 1 .. removed |-> grid[i - 1]] \in Seq(AnyLine)
      BY <1>0, <2>2
    <2> QED  BY <1>2, <2>3, SavedIs
  <1>6. grid' \in [0 .. height - 1 -> Lines(width)]
    <2>1. ASSUME NEW r \in 0 .. height - 1
          PROVE  (IF r + removed < rows THEN CutRow(grid[r + removed], width) ELSE BlankRow(width)) \in Lines(width)
      <3>1. CASE r + removed < rows
        <4>1. grid[r + removed] \in Lines(cols)
          BY <1>0, <1>3, <1>4, <3>1 DEF Screens
        <4> QED  BY <1>3, <3>1, <4>1, CutRowIs
      <3>2. CASE ~(r + removed < rows)
        BY <1>3, <3>2, BlankRowIs
      <3> QED  BY <3>1, <3>2
    <2> QED  BY <1>2, <2>1
  <1>7. /\ row' \in 0 .. height - 1 /\ col' \in 0 .. width - 1
        /\ top' \in 0 .. bottom' /\ bottom' \in 0 .. height - 1
    BY <1>2, <1>3, <1>4 DEF Greater, Lesser
  <1> QED  BY <1>0, <1>2, <1>5, <1>6, <1>7 DEF ScreenInv, Sized, Screens

LEMMA ScreenInitKeeps == ScreenInit => ScreenInv
  <1> SUFFICES ASSUME ScreenInit PROVE ScreenInv
    OBVIOUS
  <1>1. /\ rows \in 1 .. MaxRows /\ cols \in 2 .. MaxCols /\ grid = [r \in 0 .. rows - 1 |-> BlankRow(cols)]
        /\ row = 0 /\ col = 0 /\ wrap = FALSE /\ top = 0 /\ bottom = rows - 1 /\ scrollback = <<>> /\ slots = 0
    BY DEF ScreenInit
  <1>2. MaxRows \in Nat /\ MaxCols \in Nat
    BY ScreenGridAssumption
  <1>3. Sized
    <2>1. rows - 1 \in 0 .. rows - 1 /\ 0 \in 0 .. rows - 1 /\ 0 \in 0 .. cols - 1
      BY <1>1, <1>2
    <2>2. top \in 0 .. bottom /\ bottom \in 0 .. rows - 1 /\ row \in 0 .. rows - 1 /\ col \in 0 .. cols - 1
      BY <1>1, <1>2, <2>1
    <2>3. wrap \in BOOLEAN /\ ~wrap
      BY <1>1
    <2>4. slots \in {0, 1}
      BY <1>1
    <2> QED  BY <1>1, <2>2, <2>3, <2>4 DEF Sized
  <1>4. grid \in Screens
    BY <1>1, <1>2, BlankRowIs DEF Screens
  <1> QED  BY <1>1, <1>3, <1>4 DEF ScreenInv

LEMMA ScreenNextKeeps == ScreenInv /\ [ScreenNext]_screenVars => ScreenInv'
  <1> SUFFICES ASSUME ScreenInv, [ScreenNext]_screenVars PROVE ScreenInv'
    OBVIOUS
  <1>1. CASE UNCHANGED screenVars
    BY <1>1 DEF ScreenInv, Sized, Screens, screenVars
  <1> QED  BY <1>1, PutKeeps, CombineKeeps, LinesMoveKeeps, MoveKeeps, EraseKeeps, RegionKeeps, ResizeKeeps
           DEF ScreenNext

(* For every size of the screen: no half of a wide glyph is left whatever  *)
(* is printed over it, erased, scrolled or cut off, a combining character   *)
(* goes onto a glyph, and the projected slot follows the cell it was        *)
(* printed in (Terminal in vt.py, _Projection).                            *)
THEOREM ScreenIsAlwaysWhole == ScreenSpec => []ScreenIsWhole
  <1>1. ScreenInv => ScreenIsWhole
    <2> SUFFICES ASSUME ScreenInv PROVE ScreenIsWhole
      OBVIOUS
    <2>0. Sized /\ grid \in Screens /\ scrollback \in Seq(AnyLine)
      BY DEF ScreenInv
    <2>1. /\ DOMAIN grid = 0 .. rows - 1
          /\ \A r \in 0 .. rows - 1 : grid[r] \in Lines(cols) /\ DOMAIN grid[r] = 0 .. cols - 1 /\ WholeLine(grid[r])
      BY <2>0 DEF Screens, Lines
    <2>2. \A r \in 0 .. rows - 1, c \in 0 .. cols - 1 :
             grid[r][c].width \in 0 .. 2 /\ grid[r][c].slot = grid[r][c].printed
      BY <2>0, <2>1, SizesAre, LineIs
    <2>3. \A rc \in Cells : At(rc).width \in 0 .. 2 /\ At(rc).slot = At(rc).printed
      <3> TAKE rc \in Cells
      <3>1. PICK r \in DOMAIN grid : \E c \in DOMAIN grid[r] : rc = <<r, c>>
        BY DEF Cells
      <3>2. PICK c \in DOMAIN grid[r] : rc = <<r, c>>
        BY <3>1
      <3>3. r \in 0 .. rows - 1 /\ c \in 0 .. cols - 1 /\ At(rc) = grid[r][c]
        BY <2>1, <3>2 DEF At
      <3> QED  BY <2>2, <3>3
    <2>4. ScreenTypeOK /\ SlotFollowsCell
      BY <2>0, <2>1, <2>3 DEF ScreenTypeOK, SlotFollowsCell, Sized
    <2>5. WholeGlyphs
      <3>1. \A i \in DOMAIN scrollback : WholeLine(scrollback[i])
        <4> TAKE i \in DOMAIN scrollback
        <4>1. scrollback[i] \in AnyLine
          BY <2>0
        <4> QED  BY <4>1 DEF AnyLine, Lines
      <3> QED  BY <2>1, <3>1 DEF WholeGlyphs
    <2>6. MarksOnGlyphs
      BY MarkedIs DEF MarksOnGlyphs
    <2> QED  BY <2>4, <2>5, <2>6 DEF ScreenIsWhole
  <1> QED  BY <1>1, ScreenInitKeeps, ScreenNextKeeps, PTL DEF ScreenSpec

-----------------------------------------------------------------------------
(***************************************************************************)
(* The terminal of a case: TerminalSession.  What a fold over a sequence   *)
(* computes is followed step by step, by induction over the length.        *)
(***************************************************************************)

\* Numbers have a least one of every kind.
LEMMA Least ==
    ASSUME NEW T, T \subseteq Nat, T # {}
    PROVE  \E n \in T : \A m \in T : n <= m
  <1> DEFINE R == {p \in Nat \X Nat : p[1] < p[2]}
  <1>1. R = OpToRel(<, Nat)
    BY DEF OpToRel
  <1>2. IsWellFoundedOn(R, Nat)
    BY <1>1, NatLessThanWellFounded
  <1>3. PICK n \in T : \A m \in T : ~ (<<m, n>> \in R)
    <2> HIDE DEF R
    <2> QED BY <1>2, WFMin
  <1>4. ASSUME NEW m \in T, ~ (n <= m) PROVE FALSE
    <2>1. <<m, n>> \in Nat \X Nat /\ m < n
      BY <1>4
    <2>2. <<m, n>> \in R
      BY <2>1
    <2> QED BY <1>3, <2>2
  <1> QED BY <1>4

\* Induction up to n: what holds of 0 and goes on below n holds of n.
LEMMA Induction ==
    ASSUME NEW T, 0 \in T, NEW n \in Nat, \A k \in 0 .. n - 1 : k \in T => k + 1 \in T
    PROVE  \A k \in 0 .. n : k \in T
  <1> DEFINE Bad == {k \in 0 .. n : k \notin T}
  <1> SUFFICES ASSUME Bad # {} PROVE FALSE
    OBVIOUS
  <1>1. PICK k \in Bad : \A m \in Bad : k <= m
    <2>1. Bad \subseteq Nat
      OBVIOUS
    <2> HIDE DEF Bad
    <2> QED BY <2>1, Least
  <1>2. k # 0 /\ k - 1 \in 0 .. n - 1
    BY <1>1
  <1>3. k - 1 \in T
    BY <1>1, <1>2
  <1> QED BY <1>1, <1>2, <1>3

\* The results of a fold after each element, for a step that is a function.
IsTable(g, step, base, seq) ==
    /\ g[0] = base
    /\ \A i \in 1 .. Len(seq) : g[i] = step[<<g[i - 1], seq[i]>>]

LEMMA TableExists ==
    ASSUME NEW S, NEW V, NEW step \in [S \X V -> S], NEW base \in S, NEW seq \in Seq(V)
    PROVE  \E g \in [0 .. Len(seq) -> S] : IsTable(g, step, base, seq)
  <1> DEFINE Part(g, n) == g[0] = base /\ \A i \in 1 .. n : g[i] = step[<<g[i - 1], seq[i]>>]
             T == {n \in 0 .. Len(seq) : \E g \in [0 .. n -> S] : Part(g, n)}
  <1>0. Len(seq) \in Nat
    OBVIOUS
  <1>1. 0 \in T
    <2>1. PICK g : g = [i \in 0 .. 0 |-> base]
      OBVIOUS
    <2>2. g \in [0 .. 0 -> S] /\ g[0] = base /\ 1 .. 0 = {}
      BY <2>1
    <2>3. Part(g, 0)
      BY <2>2
    <2>4. 0 \in 0 .. Len(seq)
      BY <1>0
    <2> HIDE DEF Part
    <2> QED BY <2>2, <2>3, <2>4
  <1>2. ASSUME NEW k \in 0 .. Len(seq) - 1, k \in T
        PROVE  k + 1 \in T
    <2>1. PICK g \in [0 .. k -> S] : Part(g, k)
      BY <1>2
    <2>2. seq[k + 1] \in V /\ g[k] \in S /\ k \in Nat
      BY <1>0, <1>2
    <2>3. PICK last \in S : last = step[<<g[k], seq[k + 1]>>]
      BY <2>2
    <2> DEFINE h == [i \in 0 .. k + 1 |-> IF i = k + 1 THEN last ELSE g[i]]
    <2>4. h \in [0 .. k + 1 -> S]
      BY <2>2
    <2>5. h[k + 1] = last /\ \A i \in 0 .. k : h[i] = g[i]
      BY <2>2
    <2> HIDE DEF h
    <2>6. h[0] = base
      BY <2>1, <2>2, <2>5
    <2>7. ASSUME NEW i \in 1 .. k + 1 PROVE h[i] = step[<<h[i - 1], seq[i]>>]
      <3>1. CASE i = k + 1
        BY <2>2, <2>3, <2>5, <3>1
      <3>2. CASE i # k + 1
        BY <2>1, <2>2, <2>5, <3>2
      <3> QED BY <3>1, <3>2
    <2>8. Part(h, k + 1)
      BY <2>6, <2>7
    <2>9. k + 1 \in 0 .. Len(seq)
      BY <1>0
    <2> HIDE DEF Part
    <2> QED BY <2>4, <2>8, <2>9
  <1>3. Len(seq) \in T
    <2>1. Len(seq) \in 0 .. Len(seq)
      BY <1>0
    <2> HIDE DEF T
    <2> QED BY <1>0, <1>1, <1>2, <2>1, Induction
  <1> QED BY <1>3 DEF IsTable

\* Two tables of one fold agree.
Alike(g, h, n) ==
    g[0] = h[0] /\ \A i \in 1 .. n : g[i - 1] = h[i - 1] => g[i] = h[i]

LEMMA TablesAgree ==
    ASSUME NEW g, NEW h, NEW n \in Nat, Alike(g, h, n)
    PROVE  \A i \in 0 .. n : g[i] = h[i]
  <1> DEFINE T == {i \in 0 .. n : g[i] = h[i]}
  <1>1. 0 \in T
    BY DEF Alike
  <1>2. ASSUME NEW k \in 0 .. n - 1, k \in T PROVE k + 1 \in T
    <2>1. k + 1 \in 1 .. n /\ (k + 1) - 1 = k
      OBVIOUS
    <2> QED BY <1>2, <2>1 DEF Alike
  <1>3. \A i \in 0 .. n : i \in T
    <2> HIDE DEF T
    <2> QED BY <1>1, <1>2, Induction
  <1> QED BY <1>3

-----------------------------------------------------------------------------
(* What the terminal makes of its input.                                   *)

Drawn == Tokens \cup Sizes
Screened == [seen : Seq(Drawn), sync : BOOLEAN, partial : BOOLEAN, replies : Seq(Nat), error : BOOLEAN]

LEMMA ScreenedIs ==
    ASSUME NEW t \in Screened
    PROVE  /\ t.seen \in Seq(Drawn) /\ t.sync \in BOOLEAN /\ t.partial \in BOOLEAN
           /\ t.replies \in Seq(Nat) /\ t.error \in BOOLEAN
           /\ t = [seen |-> t.seen, sync |-> t.sync, partial |-> t.partial, replies |-> t.replies, error |-> t.error]
  BY DEF Screened

LEMMA ScreenedWith ==
    ASSUME NEW t \in Screened
    PROVE  /\ \A v \in Seq(Drawn) : [t EXCEPT !.seen = v] \in Screened
           /\ \A v \in BOOLEAN : [t EXCEPT !.sync = v] \in Screened
           /\ \A v \in BOOLEAN : [t EXCEPT !.partial = v] \in Screened
           /\ \A v \in BOOLEAN : [t EXCEPT !.error = v] \in Screened
           /\ \A v \in Seq(Nat) : [t EXCEPT !.replies = v] \in Screened
  BY DEF Screened

LEMMA RepliesStay ==
    ASSUME NEW t \in Screened, NEW v
    PROVE  /\ [t EXCEPT !.seen = v].replies = t.replies
           /\ [t EXCEPT !.sync = v].replies = t.replies
           /\ [t EXCEPT !.partial = v].replies = t.replies
           /\ [t EXCEPT !.error = v].replies = t.replies
           /\ [t EXCEPT !.replies = v].replies = v
  BY DEF Screened

LEMMA InterpretIs ==
    ASSUME NEW t \in Screened, NEW token \in Tokens
    PROVE  /\ Interpret(t, token) \in Screened
           /\ t.error => Interpret(t, token) = t
           /\ t.replies = <<>> =>
                \/ Interpret(t, token).replies = <<>>
                \/ \E n \in Nat : Interpret(t, token).replies = <<n>>
  <1>1. CASE t.error
    <2>1. Interpret(t, token) = t
      BY <1>1 DEF Interpret
    <2> QED BY <2>1
  <1>2. CASE ~t.error /\ token = "text"
    <2>1. Interpret(t, token) = [t EXCEPT !.seen = Append(t.seen, token)]
      BY <1>2 DEF Interpret
    <2>2. Append(t.seen, token) \in Seq(Drawn)
      BY ScreenedIs DEF Drawn
    <2>3. Interpret(t, token) \in Screened
      BY <2>1, <2>2, ScreenedWith
    <2>4. Interpret(t, token).replies = t.replies
      BY <2>1, RepliesStay
    <2> QED BY <1>2, <2>3, <2>4
  <1>3. CASE ~t.error /\ token = "begin"
    <2>1. Interpret(t, token) = [t EXCEPT !.sync = TRUE]
      BY <1>3 DEF Interpret
    <2>2. Interpret(t, token) \in Screened
      BY <2>1, ScreenedWith
    <2>4. Interpret(t, token).replies = t.replies
      BY <2>1, RepliesStay
    <2> QED BY <1>3, <2>2, <2>4
  <1>4. CASE ~t.error /\ token = "end"
    <2>1. Interpret(t, token) = [t EXCEPT !.sync = FALSE]
      BY <1>4 DEF Interpret
    <2>2. Interpret(t, token) \in Screened
      BY <2>1, ScreenedWith
    <2>4. Interpret(t, token).replies = t.replies
      BY <2>1, RepliesStay
    <2> QED BY <1>4, <2>2, <2>4
  <1>5. CASE ~t.error /\ (token = "ask" \/ (token = "k" /\ t.partial))
    <2>1. Interpret(t, token) = Query(t)
      BY <1>5 DEF Interpret
    <2>2. PICK n \in Nat : n = Len(t.seen)
      BY ScreenedIs
    <2>3. PICK more : more = Append(t.replies, n)
      OBVIOUS
    <2>4. PICK whole : whole = [t EXCEPT !.partial = FALSE]
      OBVIOUS
    <2>5. Query(t) = [whole EXCEPT !.replies = more]
      BY <2>2, <2>3, <2>4 DEF Query, Screened
    <2>6. whole \in Screened
      BY <2>4, ScreenedWith
    <2>9. more \in Seq(Nat)
      BY <2>2, <2>3, ScreenedIs
    <2>7. Query(t) \in Screened /\ Query(t).replies = more
      BY <2>5, <2>6, <2>9, ScreenedWith, RepliesStay
    <2>8. t.replies = <<>> => more = <<n>>
      BY <2>2, <2>3
    <2> QED BY <1>5, <2>1, <2>2, <2>7, <2>8
  <1>6. CASE ~t.error /\ token = "as"
    <2>1. Interpret(t, token) = [t EXCEPT !.partial = TRUE]
      BY <1>6 DEF Interpret
    <2>2. Interpret(t, token) \in Screened
      BY <2>1, ScreenedWith
    <2>4. Interpret(t, token).replies = t.replies
      BY <2>1, RepliesStay
    <2> QED BY <1>6, <2>2, <2>4
  <1>7. CASE ~t.error /\ (token = "bad" \/ (token = "k" /\ ~t.partial))
    <2>1. Interpret(t, token) = [t EXCEPT !.error = TRUE]
      BY <1>7 DEF Interpret
    <2>2. Interpret(t, token) \in Screened
      BY <2>1, ScreenedWith
    <2> QED BY <1>7, <2>1, <2>2, RepliesStay
  <1> QED BY <1>1, <1>2, <1>3, <1>4, <1>5, <1>6, <1>7 DEF Tokens

\* The results of Feed after each token.
IsFed(h, t, tokens) ==
    /\ h[0] = t
    /\ \A i \in 1 .. Len(tokens) : h[i] = Interpret(h[i - 1], tokens[i])

LEMMA FedExists ==
    ASSUME NEW t \in Screened, NEW tokens \in Seq(Tokens)
    PROVE  \E h \in [0 .. Len(tokens) -> Screened] : IsFed(h, t, tokens)
  <1> DEFINE step == [p \in Screened \X Tokens |-> Interpret(p[1], p[2])]
  <1>1. step \in [Screened \X Tokens -> Screened]
    BY InterpretIs
  <1>2. PICK h \in [0 .. Len(tokens) -> Screened] : IsTable(h, step, t, tokens)
    <2> HIDE DEF step
    <2> QED BY <1>1, TableExists
  <1>3. ASSUME NEW i \in 1 .. Len(tokens)
        PROVE  h[i] = Interpret(h[i - 1], tokens[i])
    <2>1. h[i - 1] \in Screened /\ tokens[i] \in Tokens
      OBVIOUS
    <2>2. h[i] = step[<<h[i - 1], tokens[i]>>]
      BY <1>2 DEF IsTable
    <2> QED BY <2>1, <2>2
  <1> QED BY <1>2, <1>3 DEF IsFed, IsTable

LEMMA FeedBy ==
    ASSUME NEW t, NEW V, NEW tokens \in Seq(V), NEW h, IsFed(h, t, tokens)
    PROVE  Feed(t, tokens) = h[Len(tokens)]
  <1> DEFINE n == Len(tokens)
             F == CHOOSE f : f = [i \in 0 .. n |-> IF i = 0 THEN t ELSE Interpret(f[i - 1], tokens[i])]
             own == [i \in 0 .. n |-> h[i]]
  <1>0. n \in Nat
    OBVIOUS
  <1>1. Feed(t, tokens) = F[n]
    BY DEF Feed
  <1>2. own = [i \in 0 .. n |-> IF i = 0 THEN t ELSE Interpret(own[i - 1], tokens[i])]
    <2>1. ASSUME NEW i \in 0 .. n PROVE h[i] = IF i = 0 THEN t ELSE Interpret(own[i - 1], tokens[i])
      <3>1. CASE i = 0
        BY <3>1 DEF IsFed
      <3>2. CASE i # 0
        <4>1. i \in 1 .. n /\ i - 1 \in 0 .. n
          BY <1>0, <3>2
        <4> QED BY <3>2, <4>1 DEF IsFed
      <3> QED BY <3>1, <3>2
    <2> QED BY <2>1, Zenon
  <1>3. F = [i \in 0 .. n |-> IF i = 0 THEN t ELSE Interpret(F[i - 1], tokens[i])]
    <2> HIDE DEF own, n
    <2> QED BY <1>2, Zenon
  <1> HIDE DEF F, own
  <1>4. F[0] = h[0] /\ \A i \in 1 .. n : F[i - 1] = h[i - 1] => F[i] = h[i]
    <2>1. F[0] = t
      BY <1>0, <1>3
    <2>2. ASSUME NEW i \in 1 .. n, F[i - 1] = h[i - 1] PROVE F[i] = h[i]
      <3>1. F[i] = Interpret(F[i - 1], tokens[i])
        BY <1>0, <1>3
      <3> QED BY <2>2, <3>1 DEF IsFed
    <2> QED BY <2>1, <2>2 DEF IsFed
  <1>5. n \in 0 .. n
    BY <1>0
  <1> HIDE DEF n
  <1>6. F[n] = h[n]
    <2>1. \A k \in 0 .. n : F[k] = h[k]
      <3>1. Alike(F, h, n)
        BY <1>4 DEF Alike
      <3> QED BY <1>0, <3>1, TablesAgree
    <2> QED BY <1>5, <2>1
  <1> QED BY <1>1, <1>6 DEF n

LEMMA FeedIs ==
    ASSUME NEW t \in Screened, NEW tokens \in Seq(Tokens)
    PROVE  Feed(t, tokens) \in Screened
  <1>1. PICK h \in [0 .. Len(tokens) -> Screened] : IsFed(h, t, tokens)
    BY FedExists
  <1>2. Feed(t, tokens) = h[Len(tokens)]
    BY <1>1, FeedBy
  <1>3. Len(tokens) \in 0 .. Len(tokens)
    OBVIOUS
  <1> QED BY <1>1, <1>2, <1>3

LEMMA FeedNone ==
    ASSUME NEW t
    PROVE  Feed(t, <<>>) = t
  <1>1. PICK h : h = [i \in 0 .. 0 |-> t]
    OBVIOUS
  <1>2. <<>> \in Seq(Tokens) /\ Len(<<>>) = 0 /\ 1 .. 0 = {} /\ h[0] = t
    BY <1>1
  <1>3. IsFed(h, t, <<>>)
    BY <1>2 DEF IsFed
  <1>4. Feed(t, <<>>) = h[Len(<<>>)]
    BY <1>2, <1>3, FeedBy
  <1> QED BY <1>2, <1>4

LEMMA FeedNext ==
    ASSUME NEW t \in Screened, NEW tokens \in Seq(Tokens), NEW x \in Tokens
    PROVE  Feed(t, Append(tokens, x)) = Interpret(Feed(t, tokens), x)
  <1>1. PICK more : more = Append(tokens, x)
    OBVIOUS
  <1>2. /\ more \in Seq(Tokens) /\ Len(more) = Len(tokens) + 1 /\ Len(tokens) \in Nat
        /\ more[Len(tokens) + 1] = x /\ \A i \in 1 .. Len(tokens) : more[i] = tokens[i]
    BY <1>1
  <1>3. PICK h \in [0 .. Len(more) -> Screened] : IsFed(h, t, more)
    BY <1>2, FedExists
  <1>4. IsFed(h, t, tokens)
    BY <1>2, <1>3 DEF IsFed
  <1>5. Feed(t, more) = h[Len(more)]
    BY <1>2, <1>3, FeedBy
  <1>6. Feed(t, tokens) = h[Len(tokens)]
    BY <1>4, FeedBy
  <1>7. h[Len(tokens) + 1] = Interpret(h[Len(tokens)], x)
    <2>1. Len(tokens) + 1 \in 1 .. Len(more) /\ (Len(tokens) + 1) - 1 = Len(tokens)
      BY <1>2
    <2> QED BY <1>2, <1>3, <2>1 DEF IsFed
  <1> QED BY <1>1, <1>2, <1>5, <1>6, <1>7

LEMMA FeedConcat ==
    ASSUME NEW t \in Screened, NEW a \in Seq(Tokens), NEW b \in Seq(Tokens)
    PROVE  Feed(Feed(t, a), b) = Feed(t, a \o b)
  <1>1. PICK ab : ab = a \o b
    OBVIOUS
  <1>2. PICK n : n = Len(a)
    OBVIOUS
  <1>3. PICK m : m = Len(b)
    OBVIOUS
  <1>4. /\ ab \in Seq(Tokens) /\ n \in Nat /\ m \in Nat /\ Len(ab) = n + m
        /\ \A i \in 1 .. n : ab[i] = a[i]
        /\ \A i \in 1 .. m : ab[n + i] = b[i]
    BY <1>1, <1>2, <1>3
  <1>5. PICK h \in [0 .. Len(ab) -> Screened] : IsFed(h, t, ab)
    BY <1>4, FedExists
  <1>6. IsFed(h, t, a)
    BY <1>2, <1>4, <1>5 DEF IsFed
  <1>7. Feed(t, a) = h[n]
    BY <1>2, <1>6, FeedBy
  <1>8. PICK g : g = [i \in 0 .. m |-> h[n + i]]
    OBVIOUS
  <1>9. g[0] = h[n]
    BY <1>4, <1>8
  <1>10. ASSUME NEW i \in 1 .. m PROVE g[i] = Interpret(g[i - 1], b[i])
    <2>1. n + i \in 1 .. Len(ab) /\ (n + i) - 1 = n + (i - 1) /\ i \in 0 .. m /\ i - 1 \in 0 .. m
      BY <1>4
    <2>2. h[n + i] = Interpret(h[(n + i) - 1], ab[n + i])
      BY <1>5, <2>1 DEF IsFed
    <2>3. h[n + i] = Interpret(h[n + (i - 1)], b[i])
      BY <1>4, <2>1, <2>2
    <2> QED BY <1>8, <2>1, <2>3
  <1>11. IsFed(g, h[n], b)
    BY <1>3, <1>9, <1>10 DEF IsFed
  <1>12. Feed(h[n], b) = g[m]
    BY <1>3, <1>11, FeedBy
  <1>13. g[m] = h[n + m]
    BY <1>4, <1>8
  <1>14. Feed(t, ab) = h[Len(ab)]
    BY <1>4, <1>5, FeedBy
  <1> QED BY <1>1, <1>4, <1>7, <1>12, <1>13, <1>14

\* The screen t, after what the bytes b have between the places m and n.
Between(t, b, m, n) == Feed(t, SubSeq(b, m + 1, n))

LEMMA BetweenIs ==
    ASSUME NEW t \in Screened, NEW b \in Seq(Tokens), NEW m \in 0 .. Len(b), NEW n \in m .. Len(b)
    PROVE  /\ Between(t, b, m, n) \in Screened
           /\ Between(t, b, m, m) = t
           /\ \A k \in m .. n : Between(Between(t, b, m, k), b, k, n) = Between(t, b, m, n)
           /\ \A x \in Tokens : /\ Between(t, Append(b, x), m, n) = Between(t, b, m, n)
                                /\ Between(t, Append(b, x), m, Len(b) + 1)
                                     = Interpret(Between(t, b, m, Len(b)), x)
  <1>0. Len(b) \in Nat
    OBVIOUS
  <1>1. \A k \in 0 .. Len(b), l \in 0 .. Len(b) : SubSeq(b, k + 1, l) \in Seq(Tokens)
    <2> TAKE k, l \in 0 .. Len(b)
    <2>1. \A i \in k + 1 .. l : b[i] \in Tokens
      BY <1>0
    <2>2. k + 1 \in Int /\ l \in Int
      BY <1>0
    <2> QED BY <2>1, <2>2, SubSeqProperties
  <1>2. Between(t, b, m, n) \in Screened
    <2>1. SubSeq(b, m + 1, n) \in Seq(Tokens)
      BY <1>0, <1>1
    <2> QED BY <2>1, FeedIs DEF Between
  <1>3. Between(t, b, m, m) = t
    <2>1. SubSeq(b, m + 1, m) = <<>>
      BY <1>0
    <2> QED BY <2>1, FeedNone DEF Between
  <1>4. ASSUME NEW k \in m .. n
        PROVE  Between(Between(t, b, m, k), b, k, n) = Between(t, b, m, n)
    <2>1. SubSeq(b, m + 1, k) \o SubSeq(b, k + 1, n) = SubSeq(b, m + 1, n)
      <3>1. m + 1 \in 1 .. Len(b) + 1 /\ k \in (m + 1) - 1 .. Len(b) /\ n \in k .. Len(b)
        BY <1>0
      <3> QED BY <3>1, ConcatAdjacentSubSeq
    <2>2. SubSeq(b, m + 1, k) \in Seq(Tokens) /\ SubSeq(b, k + 1, n) \in Seq(Tokens)
      BY <1>0, <1>1
    <2> QED BY ZenonT(30), <2>1, <2>2, FeedConcat DEF Between
  <1>5. ASSUME NEW x \in Tokens
        PROVE  /\ Between(t, Append(b, x), m, n) = Between(t, b, m, n)
               /\ Between(t, Append(b, x), m, Len(b) + 1) = Interpret(Between(t, b, m, Len(b)), x)
    <2>1. PICK bx : bx = Append(b, x)
      OBVIOUS
    <2>2. /\ bx \in Seq(Tokens) /\ Len(bx) = Len(b) + 1 /\ bx[Len(b) + 1] = x
          /\ \A i \in 1 .. Len(b) : bx[i] = b[i]
      BY <2>1
    <2>3. ASSUME NEW l \in m .. Len(b)
          PROVE  SubSeq(bx, m + 1, l) = SubSeq(b, m + 1, l)
      <3>1. /\ m + 1 \in Int /\ l \in Int
            /\ \A i \in m + 1 .. l : b[i] \in Tokens /\ bx[i] \in Tokens
        BY <1>0, <2>2
      <3>2. /\ SubSeq(b, m + 1, l) \in Seq(Tokens)
            /\ Len(SubSeq(b, m + 1, l)) = IF m + 1 <= l THEN l - (m + 1) + 1 ELSE 0
            /\ \A i \in 1 .. l - (m + 1) + 1 : SubSeq(b, m + 1, l)[i] = b[m + 1 + i - 1]
        BY <3>1, SubSeqProperties
      <3>3. /\ SubSeq(bx, m + 1, l) \in Seq(Tokens)
            /\ Len(SubSeq(bx, m + 1, l)) = IF m + 1 <= l THEN l - (m + 1) + 1 ELSE 0
            /\ \A i \in 1 .. l - (m + 1) + 1 : SubSeq(bx, m + 1, l)[i] = bx[m + 1 + i - 1]
        BY <3>1, SubSeqProperties
      <3>4. \A i \in 1 .. l - (m + 1) + 1 : bx[m + 1 + i - 1] = b[m + 1 + i - 1]
        <4> TAKE i \in 1 .. l - (m + 1) + 1
        <4>1. m + 1 + i - 1 \in 1 .. Len(b)
          BY <1>0
        <4> QED BY <2>2, <4>1
      <3>5. PICK u, v : u = SubSeq(b, m + 1, l) /\ v = SubSeq(bx, m + 1, l)
        OBVIOUS
      <3>6. /\ u \in Seq(Tokens) /\ v \in Seq(Tokens) /\ Len(u) = Len(v)
            /\ Len(u) = IF m + 1 <= l THEN l - (m + 1) + 1 ELSE 0
            /\ \A i \in 1 .. l - (m + 1) + 1 : u[i] = v[i]
        BY <3>2, <3>3, <3>4, <3>5
      <3>7. \A i \in 1 .. Len(u) : u[i] = v[i]
        BY <1>0, <3>6
      <3> QED BY <3>5, <3>6, <3>7, SeqEqual
    <2>4. SubSeq(bx, m + 1, Len(b) + 1) = Append(SubSeq(b, m + 1, Len(b)), x)
      <3>1. SubSeq(bx, m + 1, Len(b)) = SubSeq(b, m + 1, Len(b))
        BY <1>0, <2>3
      <3>2. m + 1 \in 1 .. Len(bx) /\ Len(b) + 1 \in m + 1 .. Len(bx)
        BY <1>0, <2>2
      <3>3. SubSeq(bx, m + 1, Len(b) + 1) = SubSeq(bx, m + 1, (Len(b) + 1) - 1) \o <<bx[Len(b) + 1]>>
        BY <1>0, <2>2, <3>2, SubSeqRecursiveSecond
      <3>4. (Len(b) + 1) - 1 = Len(b)
        BY <1>0
      <3>5. SubSeq(bx, m + 1, Len(b) + 1) = SubSeq(b, m + 1, Len(b)) \o <<x>>
        BY <2>2, <3>1, <3>3, <3>4
      <3>6. SubSeq(b, m + 1, Len(b)) \in Seq(Tokens)
        BY <1>0, <1>1
      <3> QED BY <3>5, <3>6, AppendIsConcat
    <2>5. SubSeq(b, m + 1, Len(b)) \in Seq(Tokens)
      BY <1>0, <1>1
    <2>6. Feed(t, Append(SubSeq(b, m + 1, Len(b)), x)) = Interpret(Feed(t, SubSeq(b, m + 1, Len(b))), x)
      BY <2>5, FeedNext
    <2> QED BY <2>1, <2>3, <2>4, <2>6 DEF Between
  <1> QED BY <1>2, <1>3, <1>4, <1>5

-----------------------------------------------------------------------------
(* A capture explains a screen: ts[k] is the screen after the first k      *)
(* entries of the journal, of which ns[k] are screenshots.                 *)

Words == Sizes \cup Labels \cup {"none"}
Entries == [kind : {"input", "resize", "reply", "snapshot"}, offset : Nat, what : Words, answer : Nat]
ShotsOf == [label : Words, offset : Nat, state : Screened]
Copies == [label : Words, offset : Nat, state : Screened, index : Nat]

OffsetOf(j, k) == IF k = 0 THEN 0 ELSE j[k].offset

\* An entry other than a screenshot turns the screen t into u.
Draws(t, u, e) ==
    /\ ~t.error /\ u \in Screened
    /\ e.kind = "resize" => u = [t EXCEPT !.seen = Append(@, e.what)]
    /\ e.kind \in {"input", "snapshot"} => u = t
    /\ e.kind = "reply" => t.replies # <<>> /\ Head(t.replies) = e.answer /\ u = [t EXCEPT !.replies = Tail(@)]

\* The n-th of the screenshots taken was of the screen t.
Shows(t, e, taken, n) ==
    /\ n \in 1 .. Len(taken) /\ ~Incomplete(t)
    /\ taken[n] = [label |-> e.what, offset |-> e.offset, state |-> t]

Entered(ts, ns, b, j, taken, k) ==
    /\ OffsetOf(j, k - 1) <= OffsetOf(j, k) /\ OffsetOf(j, k) <= Len(b)
    /\ Draws(Between(ts[k - 1], b, OffsetOf(j, k - 1), OffsetOf(j, k)), ts[k], j[k])
    /\ j[k].kind = "snapshot" => ns[k] = ns[k - 1] + 1 /\ Shows(ts[k], j[k], taken, ns[k])
    /\ j[k].kind # "snapshot" => ns[k] = ns[k - 1]

Explains(ts, ns, b, j, taken, t) ==
    /\ ts \in [0 .. Len(j) -> Screened] /\ ns \in [0 .. Len(j) -> Nat]
    /\ ts[0] = NewTerminal /\ ns[0] = 0 /\ ns[Len(j)] = Len(taken)
    /\ \A k \in 1 .. Len(j) : Entered(ts, ns, b, j, taken, k)
    /\ OffsetOf(j, Len(j)) <= Len(b)
    /\ Between(ts[Len(j)], b, OffsetOf(j, Len(j)), Len(b)) = t /\ ~t.error

\* The screen that is being copied is the one after c.index entries, at c.offset.
Copied(ts, b, j, taken, c) ==
    c # NoCopy =>
        /\ c.index \in 0 .. Len(j)
        /\ OffsetOf(j, c.index) <= c.offset /\ c.offset <= Len(b)
        /\ c.index < Len(j) => c.offset <= OffsetOf(j, c.index + 1)
        /\ \A k \in c.index + 1 .. Len(j) : j[k].kind # "snapshot"
        /\ Between(ts[c.index], b, OffsetOf(j, c.index), c.offset) = c.state
        /\ ~c.state.error /\ ~Incomplete(c.state)
        /\ \A i \in 1 .. Len(taken) : taken[i].label # c.label

Labelled(taken) == \A i, k \in 1 .. Len(taken) : taken[i].label = taken[k].label => i = k

Explained(b, j, taken, t, c) ==
    /\ Labelled(taken)
    /\ \E ts, ns : Explains(ts, ns, b, j, taken, t) /\ Copied(ts, b, j, taken, c)

LEMMA NewTerminalIs == NewTerminal \in Screened
  <1>1. <<>> \in Seq(Drawn) /\ <<>> \in Seq(Nat)
    OBVIOUS
  <1> QED BY <1>1 DEF NewTerminal, Screened

LEMMA OffsetIs ==
    ASSUME NEW j \in Seq(Entries), NEW k \in 0 .. Len(j)
    PROVE  OffsetOf(j, k) \in Nat /\ (k # 0 => OffsetOf(j, k) = j[k].offset /\ j[k] \in Entries)
  <1>1. CASE k = 0
    BY <1>1 DEF OffsetOf
  <1>2. CASE k # 0
    <2>1. j[k] \in Entries
      BY <1>2
    <2> QED BY <1>2, <2>1 DEF OffsetOf, Entries
  <1> QED BY <1>1, <1>2

\* One more token that the terminal understands.
LEMMA TokenExplained ==
    ASSUME NEW b \in Seq(Tokens), NEW j \in Seq(Entries), NEW taken \in Seq(ShotsOf), NEW t, NEW c \in Copies,
           Explained(b, j, taken, t, c), NEW x \in Tokens, ~Interpret(t, x).error
    PROVE  Explained(Append(b, x), j, taken, Interpret(t, x), c)
  <1>1. PICK ts, ns : Explains(ts, ns, b, j, taken, t) /\ Copied(ts, b, j, taken, c)
    BY DEF Explained
  <1>2. PICK bx : bx = Append(b, x)
    OBVIOUS
  <1>3. bx \in Seq(Tokens) /\ Len(bx) = Len(b) + 1 /\ Len(b) \in Nat /\ Len(j) \in Nat
    BY <1>2
  <1>4. \A k \in 0 .. Len(j) : OffsetOf(j, k) \in Nat /\ ts[k] \in Screened
    BY <1>1, OffsetIs DEF Explains
  <1>5. ASSUME NEW k \in 1 .. Len(j) PROVE Entered(ts, ns, bx, j, taken, k)
    <2>1. Entered(ts, ns, b, j, taken, k)
      BY <1>1 DEF Explains
    <2>2. PICK m, n : m = OffsetOf(j, k - 1) /\ n = OffsetOf(j, k)
      OBVIOUS
    <2>3. k - 1 \in 0 .. Len(j) /\ k \in 0 .. Len(j)
      BY <1>3
    <2>4. m \in 0 .. Len(b) /\ n \in m .. Len(b) /\ ts[k - 1] \in Screened
      <3>1. m \in Nat /\ n \in Nat /\ ts[k - 1] \in Screened
        BY <1>4, <2>2, <2>3
      <3>2. m <= n /\ n <= Len(b)
        BY <2>1, <2>2 DEF Entered
      <3> QED BY <1>3, <3>1, <3>2
    <2>5. Between(ts[k - 1], bx, m, n) = Between(ts[k - 1], b, m, n)
      BY <1>2, <2>4, BetweenIs
    <2>6. m <= n /\ n <= Len(bx)
      BY <1>3, <2>4
    <2> QED BY <2>1, <2>2, <2>5, <2>6 DEF Entered
  <1>6. PICK n : n = Len(j)
    OBVIOUS
  <1>7. PICK m : m = OffsetOf(j, n)
    OBVIOUS
  <1>8. /\ m \in 0 .. Len(b) /\ ts[n] \in Screened /\ Len(b) \in m .. Len(b)
        /\ Between(ts[n], b, m, Len(b)) = t /\ ~t.error
    BY <1>1, <1>3, <1>4, <1>6, <1>7 DEF Explains
  <1>9. Between(ts[n], bx, m, Len(b) + 1) = Interpret(t, x)
    BY <1>2, <1>8, BetweenIs
  <1>10. Explains(ts, ns, bx, j, taken, Interpret(t, x))
    <2>1. m <= Len(bx)
      BY <1>3, <1>8
    <2> QED BY <1>1, <1>3, <1>5, <1>6, <1>7, <1>9, <2>1 DEF Explains
  <1>11. Copied(ts, bx, j, taken, c)
    <2> SUFFICES ASSUME c # NoCopy PROVE Copied(ts, bx, j, taken, c)
      BY DEF Copied
    <2>1. PICK i, o : i = c.index /\ o = c.offset
      OBVIOUS
    <2>2. PICK l : l = OffsetOf(j, i)
      OBVIOUS
    <2>3. i \in 0 .. Len(j) /\ l <= o /\ o <= Len(b) /\ o \in Nat
      BY <1>1, <2>1, <2>2 DEF Copied, Copies
    <2>4. l \in 0 .. Len(b) /\ o \in l .. Len(b) /\ ts[i] \in Screened /\ o <= Len(bx)
      BY <1>3, <1>4, <2>2, <2>3
    <2>5. Between(ts[i], bx, l, o) = Between(ts[i], b, l, o)
      BY <1>2, <2>4, BetweenIs
    <2> QED BY <1>1, <2>1, <2>2, <2>4, <2>5 DEF Copied
  <1> QED BY <1>2, <1>10, <1>11 DEF Explained

\* One more entry of the journal, at the end of the output.
LEMMA EntryExplained ==
    ASSUME NEW b \in Seq(Tokens), NEW j \in Seq(Entries), NEW taken \in Seq(ShotsOf), NEW t, NEW c \in Copies,
           Explained(b, j, taken, t, c), NEW e \in Entries, e.offset = Len(b), e.kind # "snapshot",
           NEW u, Draws(t, u, e), ~u.error
    PROVE  Explained(b, Append(j, e), taken, u, c)
  <1>1. PICK ts, ns : Explains(ts, ns, b, j, taken, t) /\ Copied(ts, b, j, taken, c)
    BY DEF Explained
  <1>2. PICK je : je = Append(j, e)
    OBVIOUS
  <1>3. PICK n : n = Len(j)
    OBVIOUS
  <1>4. /\ n \in Nat /\ je \in Seq(Entries) /\ Len(je) = n + 1 /\ je[n + 1] = e
        /\ \A k \in 1 .. n : je[k] = j[k]
        /\ Len(b) \in Nat
    BY <1>2, <1>3
  <1>5. /\ \A k \in 0 .. n : OffsetOf(je, k) = OffsetOf(j, k) /\ OffsetOf(j, k) \in Nat
        /\ OffsetOf(je, n + 1) = Len(b)
    <2>1. \A k \in 0 .. n : OffsetOf(j, k) \in Nat
      BY <1>3, OffsetIs
    <2>2. \A k \in 0 .. n : OffsetOf(je, k) = OffsetOf(j, k)
      BY <1>4 DEF OffsetOf
    <2>3. OffsetOf(je, n + 1) = Len(b)
      BY <1>4 DEF OffsetOf
    <2> QED BY <2>1, <2>2, <2>3
  <1>6. PICK us, ms : us = [k \in 0 .. n + 1 |-> IF k = n + 1 THEN u ELSE ts[k]]
                      /\ ms = [k \in 0 .. n + 1 |-> IF k = n + 1 THEN ns[n] ELSE ns[k]]
    OBVIOUS
  <1>7. /\ \A k \in 0 .. n : us[k] = ts[k] /\ ms[k] = ns[k] /\ ts[k] \in Screened /\ ns[k] \in Nat
        /\ us[n + 1] = u /\ ms[n + 1] = ns[n]
    BY <1>1, <1>3, <1>4, <1>6 DEF Explains
  <1>8. us \in [0 .. n + 1 -> Screened] /\ ms \in [0 .. n + 1 -> Nat]
    <2>1. u \in Screened
      BY DEF Draws
    <2>2. \A k \in 0 .. n + 1 : k = n + 1 \/ k \in 0 .. n
      BY <1>4
    <2>4. ns[n] \in Nat
      BY <1>4, <1>7
    <2>3. \A k \in 0 .. n + 1 : us[k] \in Screened /\ ms[k] \in Nat
      BY <1>7, <2>1, <2>2, <2>4
    <2> QED BY <1>6, <2>3
  <1>9. ASSUME NEW k \in 1 .. n + 1 PROVE Entered(us, ms, b, je, taken, k)
    <2>1. CASE k # n + 1
      <3>1. k \in 1 .. n /\ k - 1 \in 0 .. n /\ k \in 0 .. n
        BY <1>4, <2>1
      <3>2. Entered(ts, ns, b, j, taken, k)
        BY <1>1, <1>3, <3>1 DEF Explains
      <3> QED BY <1>4, <1>5, <1>7, <3>1, <3>2 DEF Entered
    <2>2. CASE k = n + 1
      <3>1. k - 1 = n /\ n \in 0 .. n
        BY <1>4, <2>2
      <3>2. OffsetOf(j, n) <= Len(b) /\ Between(ts[n], b, OffsetOf(j, n), Len(b)) = t
        BY <1>1, <1>3 DEF Explains
      <3> QED BY <1>4, <1>5, <1>7, <2>2, <3>1, <3>2 DEF Entered
    <2> QED BY <2>1, <2>2
  <1>10. Between(us[n + 1], b, Len(b), Len(b)) = u
    <2>1. u \in Screened /\ Len(b) \in 0 .. Len(b) /\ Len(b) \in Len(b) .. Len(b)
      BY <1>4 DEF Draws
    <2> QED BY <1>7, <2>1, BetweenIs
  <1>11. us[0] = NewTerminal /\ ms[0] = 0 /\ ms[n + 1] = Len(taken)
    <2>1. 0 \in 0 .. n
      BY <1>4
    <2> QED BY <1>1, <1>3, <1>7, <2>1 DEF Explains
  <1>12. Explains(us, ms, b, je, taken, u)
    BY <1>4, <1>5, <1>8, <1>9, <1>10, <1>11 DEF Explains
  <1>13. Copied(us, b, je, taken, c)
    <2> SUFFICES ASSUME c # NoCopy PROVE Copied(us, b, je, taken, c)
      BY DEF Copied
    <2>1. PICK i, o : i = c.index /\ o = c.offset
      OBVIOUS
    <2>2. i \in 0 .. n /\ o <= Len(b) /\ (i < n => o <= OffsetOf(j, i + 1)) /\ OffsetOf(j, i) <= o /\ o \in Nat
      BY <1>1, <1>3, <2>1 DEF Copied, Copies
    <2>3. i \in 0 .. n + 1 /\ OffsetOf(je, i) <= o
      BY <1>4, <1>5, <2>2
    <2>4. o <= OffsetOf(je, i + 1)
      <3>1. CASE i < n
        <4>1. i + 1 \in 0 .. n
          BY <1>4, <2>2, <3>1
        <4> QED BY <1>5, <2>2, <3>1, <4>1
      <3>2. CASE ~(i < n)
        <4>1. i = n
          BY <1>4, <2>2, <3>2
        <4> QED BY <1>5, <2>2, <4>1
      <3> QED BY <3>1, <3>2
    <2>5. \A k \in i + 1 .. n + 1 : je[k].kind # "snapshot"
      <3> TAKE k \in i + 1 .. n + 1
      <3>1. CASE k = n + 1
        BY <1>4, <3>1
      <3>2. CASE k # n + 1
        <4>1. k \in i + 1 .. n /\ k \in 1 .. n
          BY <1>4, <2>2, <3>2
        <4>2. j[k].kind # "snapshot"
          BY <1>1, <1>3, <2>1, <4>1 DEF Copied
        <4> QED BY <1>4, <4>1, <4>2
      <3> QED BY <3>1, <3>2
    <2>6. Between(us[i], b, OffsetOf(je, i), o) = c.state /\ ~c.state.error /\ ~Incomplete(c.state)
      BY <1>1, <1>5, <1>7, <2>1, <2>2 DEF Copied
    <2>7. \A k \in 1 .. Len(taken) : taken[k].label # c.label
      BY <1>1 DEF Copied
    <2> QED BY <1>4, <2>1, <2>2, <2>3, <2>4, <2>5, <2>6, <2>7 DEF Copied
  <1> QED BY <1>2, <1>12, <1>13 DEF Explained

\* A screenshot is begun.
LEMMA CopyExplained ==
    ASSUME NEW b \in Seq(Tokens), NEW j \in Seq(Entries), NEW taken \in Seq(ShotsOf), NEW t \in Screened,
           Explained(b, j, taken, t, NoCopy), ~Incomplete(t), NEW label \in Words,
           \A i \in 1 .. Len(taken) : taken[i].label # label,
           NEW c, c = [label |-> label, offset |-> Len(b), state |-> t, index |-> Len(j)]
    PROVE  Explained(b, j, taken, t, c)
  <1>1. PICK ts, ns : Explains(ts, ns, b, j, taken, t)
    BY DEF Explained
  <1>2. c.label = label /\ c.offset = Len(b) /\ c.state = t /\ c.index = Len(j)
    OBVIOUS
  <1>3. Len(j) \in 0 .. Len(j) /\ ~(Len(j) < Len(j)) /\ Len(j) + 1 .. Len(j) = {} /\ Len(b) <= Len(b)
    OBVIOUS
  <1>4. Copied(ts, b, j, taken, c)
    BY <1>1, <1>2, <1>3 DEF Copied, Explains
  <1> QED BY <1>1, <1>4 DEF Explained

\* The sequence je is j with e between the first i entries and the others.
Inserted(S, j, i, e, je) ==
    /\ je \in Seq(S) /\ Len(je) = Len(j) + 1 /\ je[i + 1] = e
    /\ \A k \in 1 .. i : je[k] = j[k]
    /\ \A k \in i + 1 .. Len(j) : je[k + 1] = j[k]

LEMMA InsertIs ==
    ASSUME NEW S, NEW j \in Seq(S), NEW i \in 0 .. Len(j), NEW e \in S
    PROVE  Inserted(S, j, i, e, InsertAt(j, i + 1, e))
  <1>0. PICK je : je = InsertAt(j, i + 1, e)
    OBVIOUS
  <1>1. PICK n : n = Len(j)
    OBVIOUS
  <1>2. n \in Nat /\ i \in 0 .. n /\ \A k \in 1 .. n : j[k] \in S
    BY <1>1
  <1>3. PICK p : p = SubSeq(j, 1, i)
    OBVIOUS
  <1>4. p \in Seq(S) /\ Len(p) = i /\ \A k \in 1 .. i : p[k] = j[k]
    <2>1. 1 \in Int /\ i \in Int /\ \A k \in 1 .. i : j[k] \in S
      BY <1>2
    <2>2. /\ SubSeq(j, 1, i) \in Seq(S)
          /\ Len(SubSeq(j, 1, i)) = IF 1 <= i THEN i - 1 + 1 ELSE 0
          /\ \A k \in 1 .. i - 1 + 1 : SubSeq(j, 1, i)[k] = j[1 + k - 1]
      BY <2>1, SubSeqProperties
    <2>3. Len(p) = i
      BY <1>2, <1>3, <2>2
    <2>4. \A k \in 1 .. i : k \in 1 .. i - 1 + 1 /\ 1 + k - 1 = k
      BY <1>2
    <2> QED BY <1>3, <2>2, <2>3, <2>4
  <1>5. PICK q : q = SubSeq(j, i + 1, n)
    OBVIOUS
  <1>6. q \in Seq(S) /\ Len(q) = n - i /\ \A k \in 1 .. n - i : q[k] = j[i + k]
    <2>1. i + 1 \in Int /\ n \in Int /\ \A k \in i + 1 .. n : j[k] \in S
      BY <1>2
    <2>2. /\ SubSeq(j, i + 1, n) \in Seq(S)
          /\ Len(SubSeq(j, i + 1, n)) = IF i + 1 <= n THEN n - (i + 1) + 1 ELSE 0
          /\ \A k \in 1 .. n - (i + 1) + 1 : SubSeq(j, i + 1, n)[k] = j[i + 1 + k - 1]
      BY <2>1, SubSeqProperties
    <2>3. Len(q) = n - i
      BY <1>2, <1>5, <2>2
    <2>4. \A k \in 1 .. n - i : k \in 1 .. n - (i + 1) + 1 /\ i + 1 + k - 1 = i + k
      BY <1>2
    <2> QED BY <1>5, <2>2, <2>3, <2>4
  <1>7. PICK pe : pe = p \o <<e>>
    OBVIOUS
  <1>8. /\ pe \in Seq(S) /\ Len(pe) = i + 1 /\ pe[i + 1] = e
        /\ \A k \in 1 .. i : pe[k] = j[k]
    <2>1. pe = Append(p, e)
      BY <1>4, <1>7, AppendIsConcat
    <2> QED BY <1>2, <1>4, <2>1, AppendProperties
  <1>9. je = pe \o q
    <2>1. (i + 1) - 1 = i
      BY <1>2
    <2>2. je = SubSeq(j, 1, (i + 1) - 1) \o <<e>> \o SubSeq(j, i + 1, Len(j))
      BY <1>0 DEF InsertAt
    <2> QED BY <1>1, <1>3, <1>5, <1>7, <2>1, <2>2, Zenon
  <1>10. /\ je \in Seq(S) /\ Len(je) = Len(pe) + Len(q)
         /\ \A k \in 1 .. Len(je) : je[k] = IF k <= Len(pe) THEN pe[k] ELSE q[k - Len(pe)]
    <2>1. pe \o q \in Seq(S) /\ Len(pe \o q) = Len(pe) + Len(q)
      BY <1>6, <1>8, ConcatProperties
    <2>2. \A k \in 1 .. Len(pe) + Len(q) : (pe \o q)[k] = IF k <= Len(pe) THEN pe[k] ELSE q[k - Len(pe)]
      BY <1>6, <1>8, ConcatProperties
    <2> QED BY <1>9, <2>1, <2>2
  <1>11. Len(je) = n + 1
    <2>1. Len(pe) = i + 1 /\ Len(q) = n - i /\ Len(je) = Len(pe) + Len(q)
      BY <1>6, <1>8, <1>10
    <2> QED BY <1>2, <2>1
  <1>12. je[i + 1] = e
    BY <1>2, <1>8, <1>10, <1>11
  <1>13. ASSUME NEW k \in 1 .. i PROVE je[k] = j[k]
    <2>1. k \in 1 .. Len(je) /\ k <= Len(pe)
      BY <1>2, <1>8, <1>11
    <2> QED BY <1>8, <1>10, <2>1
  <1>14. ASSUME NEW k \in i + 1 .. n PROVE je[k + 1] = j[k]
    <2>1. k + 1 \in 1 .. Len(je) /\ ~(k + 1 <= Len(pe)) /\ (k + 1) - Len(pe) = k - i
      BY <1>2, <1>8, <1>11
    <2>2. k - i \in 1 .. n - i /\ i + (k - i) = k
      BY <1>2
    <2>3. je[k + 1] = q[(k + 1) - Len(pe)]
      BY <1>10, <2>1
    <2>4. q[k - i] = j[i + (k - i)]
      BY <1>6, <2>2
    <2> QED BY <2>1, <2>2, <2>3, <2>4
  <1> QED BY <1>0, <1>1, <1>10, <1>11, <1>12, <1>13, <1>14 DEF Inserted

\* After the copy was begun, no screenshot was entered.
LEMMA NoneSince ==
    ASSUME NEW n \in Nat, NEW ns, NEW i \in 0 .. n, \A k \in i + 1 .. n : ns[k] = ns[k - 1]
    PROVE  \A k \in i .. n : ns[k] = ns[n]
  <1> DEFINE T == {l \in 0 .. n - i : ns[i + l] = ns[i]}
  <1>1. 0 \in T
    OBVIOUS
  <1>2. ASSUME NEW l \in 0 .. (n - i) - 1, l \in T PROVE l + 1 \in T
    <2>1. i + (l + 1) \in i + 1 .. n /\ (i + (l + 1)) - 1 = i + l /\ l + 1 \in 0 .. n - i
      OBVIOUS
    <2> QED BY <1>2, <2>1
  <1>3. n - i \in Nat
    OBVIOUS
  <1>4. \A l \in 0 .. n - i : l \in T
    <2> HIDE DEF T
    <2> QED BY <1>1, <1>2, <1>3, Induction
  <1>5. ASSUME NEW k \in i .. n PROVE ns[k] = ns[i]
    <2>1. k - i \in 0 .. n - i /\ i + (k - i) = k
      OBVIOUS
    <2> QED BY <1>4, <2>1
  <1>6. n \in i .. n
    OBVIOUS
  <1> QED BY <1>5, <1>6

LEMMA TakenIs ==
    ASSUME NEW l, NEW o
    PROVE  [Event("snapshot", o) EXCEPT !.what = l] = [kind |-> "snapshot", offset |-> o, what |-> l, answer |-> 0]
  BY DEF Event

LEMMA TakenTyped ==
    ASSUME NEW l \in Words, NEW o \in Nat
    PROVE  [kind |-> "snapshot", offset |-> o, what |-> l, answer |-> 0] \in Entries
  BY DEF Entries

\* A screenshot is entered where it was begun.
LEMMA ShotExplained ==
    ASSUME NEW b \in Seq(Tokens), NEW j \in Seq(Entries), NEW taken \in Seq(ShotsOf), NEW t \in Screened,
           NEW c \in Copies, Explained(b, j, taken, t, c), c # NoCopy,
           NEW e, e = [Event("snapshot", c.offset) EXCEPT !.what = c.label],
           NEW shot, shot = [label |-> c.label, offset |-> c.offset, state |-> c.state]
    PROVE  Explained(b, InsertAt(j, c.index + 1, e), Append(taken, shot), t, NoCopy)
  <1>1. PICK ts, ns : Explains(ts, ns, b, j, taken, t) /\ Copied(ts, b, j, taken, c)
    BY DEF Explained
  <1>2. PICK i, o, w : i = c.index /\ o = c.offset /\ w = c.state
    OBVIOUS
  <1>3. PICK n, m : n = Len(j) /\ m = Len(taken)
    OBVIOUS
  <1>4. /\ i \in 0 .. n /\ o \in Nat /\ w \in Screened /\ n \in Nat /\ m \in Nat /\ Len(b) \in Nat
        /\ OffsetOf(j, i) <= o /\ o <= Len(b)
        /\ i < n => o <= OffsetOf(j, i + 1)
        /\ \A k \in i + 1 .. n : j[k].kind # "snapshot"
        /\ Between(ts[i], b, OffsetOf(j, i), o) = w
        /\ ~w.error /\ ~Incomplete(w)
        /\ \A k \in 1 .. m : taken[k].label # c.label
    BY <1>1, <1>2, <1>3 DEF Copied, Copies
  <1>5. /\ e = [kind |-> "snapshot", offset |-> o, what |-> c.label, answer |-> 0]
        /\ e \in Entries /\ e.kind = "snapshot" /\ e.offset = o /\ e.what = c.label
        /\ shot = [label |-> e.what, offset |-> e.offset, state |-> w]
        /\ shot \in ShotsOf /\ shot.label = c.label
    <2>1. c.label \in Words
      BY DEF Copies
    <2>2. e = [kind |-> "snapshot", offset |-> o, what |-> c.label, answer |-> 0]
      BY <1>2, TakenIs
    <2>3. e \in Entries
      BY <1>4, <2>1, <2>2, TakenTyped
    <2>4. e.kind = "snapshot" /\ e.offset = o /\ e.what = c.label
      BY <2>2
    <2>5. shot = [label |-> c.label, offset |-> o, state |-> w]
      BY <1>2
    <2>6. shot \in ShotsOf /\ shot.label = c.label
      BY <1>4, <2>1, <2>5 DEF ShotsOf
    <2> QED BY <2>2, <2>3, <2>4, <2>5, <2>6
  <1>6. PICK je : je = InsertAt(j, c.index + 1, e)
    OBVIOUS
  <1>7. /\ je \in Seq(Entries) /\ Len(je) = n + 1 /\ je[i + 1] = e
        /\ \A k \in 1 .. i : je[k] = j[k]
        /\ \A k \in i + 1 .. n : je[k + 1] = j[k]
    <2>1. i \in 0 .. Len(j) /\ e \in Entries /\ je = InsertAt(j, i + 1, e)
      BY <1>2, <1>3, <1>4, <1>5, <1>6
    <2>2. Inserted(Entries, j, i, e, InsertAt(j, i + 1, e))
      BY <2>1, InsertIs, Zenon
    <2>3. Inserted(Entries, j, i, e, je)
      BY <2>1, <2>2, Zenon
    <2> QED BY <1>3, <2>3 DEF Inserted
  <1>8. PICK more : more = Append(taken, shot)
    OBVIOUS
  <1>9. /\ more \in Seq(ShotsOf) /\ Len(more) = m + 1 /\ more[m + 1] = shot
        /\ \A k \in 1 .. m : more[k] = taken[k]
    BY <1>3, <1>5, <1>8
  <1>10. \A k \in 0 .. n : OffsetOf(j, k) \in Nat /\ ts[k] \in Screened /\ ns[k] \in Nat
    BY <1>1, <1>3, OffsetIs DEF Explains
  <1>11. /\ \A k \in 0 .. i : OffsetOf(je, k) = OffsetOf(j, k)
         /\ OffsetOf(je, i + 1) = o
         /\ \A k \in i + 1 .. n : OffsetOf(je, k + 1) = OffsetOf(j, k)
    <2>1. \A k \in 0 .. i : OffsetOf(je, k) = OffsetOf(j, k)
      BY <1>4, <1>7 DEF OffsetOf
    <2>2. OffsetOf(je, i + 1) = o
      BY <1>4, <1>5, <1>7 DEF OffsetOf
    <2>3. ASSUME NEW k \in i + 1 .. n PROVE OffsetOf(je, k + 1) = OffsetOf(j, k)
      <3>1. k # 0 /\ k + 1 # 0
        BY <1>4
      <3> QED BY <1>7, <3>1 DEF OffsetOf
    <2> QED BY <2>1, <2>2, <2>3
  <1>12. \A k \in 1 .. n : Entered(ts, ns, b, j, taken, k)
    BY <1>1, <1>3 DEF Explains
  <1>13. \A k \in i .. n : ns[k] = m
    <2>1. \A k \in i + 1 .. n : ns[k] = ns[k - 1]
      <3> TAKE k \in i + 1 .. n
      <3>1. k \in 1 .. n
        BY <1>4
      <3> QED BY <1>4, <1>12, <3>1 DEF Entered
    <2>2. \A k \in i .. n : ns[k] = ns[n]
      BY <1>4, <2>1, NoneSince
    <2> QED BY <1>1, <1>3, <2>2 DEF Explains
  <1>14. PICK us, ms :
            /\ us = [k \in 0 .. n + 1 |-> IF k <= i THEN ts[k] ELSE IF k = i + 1 THEN w ELSE ts[k - 1]]
            /\ ms = [k \in 0 .. n + 1 |-> IF k <= i THEN ns[k] ELSE m + 1]
    OBVIOUS
  <1>15. /\ \A k \in 0 .. i : us[k] = ts[k] /\ ms[k] = ns[k]
         /\ us[i + 1] = w /\ ms[i + 1] = m + 1
         /\ \A k \in i + 1 .. n : us[k + 1] = ts[k] /\ ms[k + 1] = m + 1
    <2>1. \A k \in 0 .. i : k \in 0 .. n + 1 /\ k <= i
      BY <1>4
    <2>2. i + 1 \in 0 .. n + 1 /\ ~(i + 1 <= i)
      BY <1>4
    <2>3. \A k \in i + 1 .. n : k + 1 \in 0 .. n + 1 /\ ~(k + 1 <= i) /\ k + 1 # i + 1 /\ (k + 1) - 1 = k
      BY <1>4
    <2> QED BY <1>14, <2>1, <2>2, <2>3
  <1>16. us \in [0 .. n + 1 -> Screened] /\ ms \in [0 .. n + 1 -> Nat]
    <2>1. ASSUME NEW k \in 0 .. n + 1 PROVE us[k] \in Screened /\ ms[k] \in Nat
      <3>1. CASE k <= i
        <4>1. k \in 0 .. i /\ k \in 0 .. n
          BY <1>4, <3>1
        <4> QED BY <1>10, <1>15, <4>1
      <3>2. CASE k = i + 1
        BY <1>4, <1>15, <3>2
      <3>3. CASE ~(k <= i) /\ k # i + 1
        <4>1. k - 1 \in i + 1 .. n /\ k - 1 \in 0 .. n /\ (k - 1) + 1 = k
          BY <1>4, <3>3
        <4>2. us[(k - 1) + 1] = ts[k - 1] /\ ms[(k - 1) + 1] = m + 1 /\ ts[k - 1] \in Screened
          BY <1>10, <1>15, <4>1
        <4>3. us[k] = ts[k - 1] /\ ms[k] = m + 1
          BY <4>1, <4>2
        <4> QED BY <1>4, <4>2, <4>3
      <3> QED BY <3>1, <3>2, <3>3
    <2> QED BY <1>14, <2>1
  <1>17. ASSUME NEW k \in 1 .. i PROVE Entered(us, ms, b, je, more, k)
    <2>1. k \in 1 .. n /\ k \in 0 .. i /\ k - 1 \in 0 .. i
      BY <1>4
    <2>2. Entered(ts, ns, b, j, taken, k)
      BY <1>12, <2>1
    <2>3. /\ us[k] = ts[k] /\ us[k - 1] = ts[k - 1] /\ ms[k] = ns[k] /\ ms[k - 1] = ns[k - 1] /\ je[k] = j[k]
          /\ OffsetOf(je, k) = OffsetOf(j, k) /\ OffsetOf(je, k - 1) = OffsetOf(j, k - 1)
      BY <1>7, <1>11, <1>15, <2>1
    <2>4. Shows(ts[k], j[k], taken, ns[k]) => Shows(ts[k], j[k], more, ns[k])
      BY <1>3, <1>4, <1>9 DEF Shows
    <2> QED BY <2>2, <2>3, <2>4 DEF Entered
  <1>18. Entered(us, ms, b, je, more, i + 1)
    <2>1. (i + 1) - 1 = i /\ i \in 0 .. i /\ i \in i .. n
      BY <1>4
    <2>2. us[i] = ts[i] /\ ms[i] = m /\ OffsetOf(je, i) = OffsetOf(j, i)
      BY <1>11, <1>13, <1>15, <2>1
    <2>3. Draws(w, w, e)
      BY <1>4, <1>5 DEF Draws
    <2>4. Shows(w, e, more, m + 1)
      BY <1>4, <1>5, <1>9 DEF Shows
    <2>5. OffsetOf(je, (i + 1) - 1) = OffsetOf(j, i) /\ us[(i + 1) - 1] = ts[i] /\ ms[(i + 1) - 1] = m
      BY <2>1, <2>2
    <2>6. OffsetOf(je, i + 1) = o /\ us[i + 1] = w /\ ms[i + 1] = m + 1 /\ je[i + 1] = e
      BY <1>7, <1>11, <1>15
    <2>7. /\ OffsetOf(je, (i + 1) - 1) <= OffsetOf(je, i + 1) /\ OffsetOf(je, i + 1) <= Len(b)
          /\ Draws(Between(us[(i + 1) - 1], b, OffsetOf(je, (i + 1) - 1), OffsetOf(je, i + 1)), us[i + 1], je[i + 1])
      BY <1>4, <2>3, <2>5, <2>6
    <2>8. ms[i + 1] = ms[(i + 1) - 1] + 1 /\ Shows(us[i + 1], je[i + 1], more, ms[i + 1])
      BY <2>4, <2>5, <2>6
    <2> QED BY <1>5, <2>6, <2>7, <2>8 DEF Entered
  <1>19. ASSUME NEW k \in i + 1 .. n PROVE Entered(us, ms, b, je, more, k + 1)
    <2>1. k \in 1 .. n /\ k \in 0 .. n /\ k - 1 \in 0 .. n /\ (k + 1) - 1 = k
      BY <1>4
    <2>2. Entered(ts, ns, b, j, taken, k) /\ j[k].kind # "snapshot"
      BY <1>4, <1>12, <2>1
    <2>3. us[k + 1] = ts[k] /\ ms[k + 1] = m + 1 /\ je[k + 1] = j[k] /\ OffsetOf(je, k + 1) = OffsetOf(j, k)
      BY <1>7, <1>11, <1>15
    <2>4. OffsetOf(j, k - 1) <= OffsetOf(j, k) /\ OffsetOf(j, k) <= Len(b) /\ OffsetOf(j, k) \in Nat /\ OffsetOf(j, k - 1) \in Nat
      BY <1>10, <2>1, <2>2 DEF Entered
    <2>5. /\ ms[k] = m + 1
          /\ OffsetOf(je, k) <= OffsetOf(j, k)
          /\ Between(us[k], b, OffsetOf(je, k), OffsetOf(j, k)) = Between(ts[k - 1], b, OffsetOf(j, k - 1), OffsetOf(j, k))
      <3>1. CASE k = i + 1
        <4>1. k - 1 = i /\ i < n /\ i \in 0 .. n
          BY <1>4, <3>1
        <4>2. us[k] = w /\ ms[k] = m + 1 /\ OffsetOf(je, k) = o /\ o <= OffsetOf(j, k)
          BY <1>4, <1>11, <1>15, <3>1, <4>1
        <4>3. PICK l, h : l = OffsetOf(j, i) /\ h = OffsetOf(j, k)
          OBVIOUS
        <4>4. l \in 0 .. Len(b) /\ h \in l .. Len(b) /\ o \in l .. h /\ ts[i] \in Screened
          BY <1>4, <1>10, <2>4, <4>1, <4>2, <4>3
        <4>5. Between(Between(ts[i], b, l, o), b, o, h) = Between(ts[i], b, l, h)
          BY <4>4, BetweenIs
        <4> QED BY <1>4, <4>1, <4>2, <4>3, <4>5
      <3>2. CASE k # i + 1
        <4>1. k - 1 \in i + 1 .. n /\ (k - 1) + 1 = k
          BY <1>4, <3>2
        <4>2. us[k] = ts[k - 1] /\ ms[k] = m + 1 /\ OffsetOf(je, k) = OffsetOf(j, k - 1)
          BY <1>11, <1>15, <4>1
        <4> QED BY <2>4, <4>2
      <3> QED BY <3>1, <3>2
    <2> QED BY <2>1, <2>2, <2>3, <2>4, <2>5 DEF Entered
  <1>20. ASSUME NEW k \in 1 .. n + 1 PROVE Entered(us, ms, b, je, more, k)
    <2>1. CASE k <= i
      <3>1. k \in 1 .. i
        BY <1>4, <2>1
      <3> QED BY <1>17, <3>1
    <2>2. CASE k = i + 1
      BY <1>18, <2>2
    <2>3. CASE ~(k <= i) /\ k # i + 1
      <3>1. k - 1 \in i + 1 .. n /\ (k - 1) + 1 = k
        BY <1>4, <2>3
      <3> QED BY <1>19, <3>1
    <2> QED BY <2>1, <2>2, <2>3
  <1>21. OffsetOf(je, n + 1) <= Len(b) /\ Between(us[n + 1], b, OffsetOf(je, n + 1), Len(b)) = t /\ ~t.error
    <2>0. OffsetOf(j, n) <= Len(b) /\ Between(ts[n], b, OffsetOf(j, n), Len(b)) = t /\ ~t.error
      BY <1>1, <1>3 DEF Explains
    <2>1. CASE i = n
      <3>1. PICK l : l = OffsetOf(j, n)
        OBVIOUS
      <3>2. PICK h, x : h = Len(b) /\ x = ts[n]
        OBVIOUS
      <3>3. Between(Between(ts[n], b, l, o), b, o, Len(b)) = Between(ts[n], b, l, Len(b))
        <4>1. l \in 0 .. Len(b) /\ h \in l .. Len(b) /\ o \in l .. h /\ x \in Screened
          BY <1>4, <1>10, <2>0, <2>1, <3>1, <3>2
        <4>2. Between(Between(x, b, l, o), b, o, h) = Between(x, b, l, h)
          BY <4>1, BetweenIs
        <4> QED BY <3>2, <4>2
      <3>4. us[n + 1] = w /\ OffsetOf(je, n + 1) = o
        BY <1>11, <1>15, <2>1
      <3> QED BY <1>4, <2>0, <2>1, <3>1, <3>3, <3>4
    <2>2. CASE i # n
      <3>1. n \in i + 1 .. n
        BY <1>4, <2>2
      <3>2. us[n + 1] = ts[n] /\ OffsetOf(je, n + 1) = OffsetOf(j, n)
        BY <1>11, <1>15, <3>1
      <3> QED BY <2>0, <3>2
    <2> QED BY <2>1, <2>2
  <1>22. us[0] = NewTerminal /\ ms[0] = 0 /\ ms[n + 1] = m + 1
    <2>1. 0 \in 0 .. i /\ n + 1 \in 0 .. n + 1 /\ ~(n + 1 <= i)
      BY <1>4
    <2> QED BY <1>1, <1>14, <1>15, <2>1 DEF Explains
  <1>23. Explains(us, ms, b, je, more, t)
    BY <1>7, <1>9, <1>16, <1>20, <1>21, <1>22 DEF Explains
  <1>24. Labelled(more)
    <2>0. Labelled(taken)
      BY DEF Explained
    <2> SUFFICES ASSUME NEW k \in 1 .. m + 1, NEW l \in 1 .. m + 1, more[k].label = more[l].label
                 PROVE  k = l
      BY <1>9 DEF Labelled
    <2>1. CASE k \in 1 .. m /\ l \in 1 .. m
      BY <1>3, <1>9, <2>0, <2>1 DEF Labelled
    <2>2. CASE k = m + 1 /\ l \in 1 .. m
      BY <1>4, <1>5, <1>9, <2>2
    <2>3. CASE l = m + 1 /\ k \in 1 .. m
      BY <1>4, <1>5, <1>9, <2>3
    <2> QED BY <1>4, <2>1, <2>2, <2>3
  <1>25. Copied(us, b, je, more, NoCopy)
    BY DEF Copied
  <1> QED BY <1>6, <1>8, <1>23, <1>24, <1>25 DEF Explained

-----------------------------------------------------------------------------
(* The replay follows the explanation.                                     *)

Beginning == [term |-> NewTerminal, fed |-> 0, ok |-> TRUE, observed |-> <<>>]

Outcome(r, b, taken) ==
    LET last == Feed(r.term, SubSeq(b, r.fed + 1, Len(b)))
        labels == [i \in DOMAIN taken |-> taken[i].label]
    IN  [term |-> last, ok |-> r.ok /\ ~last.error /\ IsInjective(labels) /\ r.observed = labels]

LEMMA ReplayBy ==
    ASSUME NEW b, NEW j \in Seq(Entries), NEW taken, NEW h, h[0] = Beginning,
           \A k \in 1 .. Len(j) : h[k] = ReplayEvent(h[k - 1], b, taken, j[k])
    PROVE  Replay(b, j, taken) = Outcome(h[Len(j)], b, taken)
  <1> DEFINE n == Len(j)
             F == CHOOSE f : f = [k \in 0 .. n |->
                                    IF k = 0 THEN [term |-> NewTerminal, fed |-> 0, ok |-> TRUE, observed |-> <<>>]
                                    ELSE ReplayEvent(f[k - 1], b, taken, j[k])]
             own == [k \in 0 .. n |-> h[k]]
  <1>0. n \in Nat
    OBVIOUS
  <1>1. Replay(b, j, taken) = Outcome(F[n], b, taken)
    BY DEF Replay, Outcome
  <1>2. own = [k \in 0 .. n |-> IF k = 0 THEN Beginning ELSE ReplayEvent(own[k - 1], b, taken, j[k])]
    <2>1. ASSUME NEW k \in 0 .. n
          PROVE  h[k] = IF k = 0 THEN Beginning ELSE ReplayEvent(own[k - 1], b, taken, j[k])
      <3>1. CASE k = 0
        BY <3>1
      <3>2. CASE k # 0
        <4>1. k \in 1 .. n /\ k - 1 \in 0 .. n
          BY <1>0, <3>2
        <4>2. own[k - 1] = h[k - 1]
          BY <4>1
        <4> QED BY <3>2, <4>1, <4>2
      <3> QED BY <3>1, <3>2
    <2> QED BY <2>1, Zenon
  <1>3. F = [k \in 0 .. n |-> IF k = 0 THEN Beginning ELSE ReplayEvent(F[k - 1], b, taken, j[k])]
    <2> HIDE DEF own, n
    <2> QED BY <1>2, Zenon DEF Beginning
  <1> HIDE DEF F, own
  <1>4. F[0] = h[0] /\ \A k \in 1 .. n : F[k - 1] = h[k - 1] => F[k] = h[k]
    <2>1. F[0] = Beginning
      <3>1. 0 \in 0 .. n
        BY <1>0
      <3> HIDE DEF n
      <3> QED BY <1>3, <3>1, Zenon
    <2>2. ASSUME NEW k \in 1 .. n, F[k - 1] = h[k - 1] PROVE F[k] = h[k]
      <3>1. k \in 0 .. n /\ k # 0
        BY <1>0
      <3>2. F[k] = ReplayEvent(F[k - 1], b, taken, j[k])
        <4> HIDE DEF n
        <4> QED BY <1>3, <3>1, Zenon
      <3> QED BY <2>2, <3>2
    <2> QED BY <2>1, <2>2
  <1>5. n \in 0 .. n
    BY <1>0
  <1> HIDE DEF n
  <1>6. \A k \in 0 .. n : F[k] = h[k]
    <2>1. Alike(F, h, n)
      BY <1>4 DEF Alike
    <2> QED BY <1>0, <2>1, TablesAgree
  <1> QED BY <1>1, <1>5, <1>6 DEF n

\* The labels of the first n screenshots.
LabelsOf(taken, n) == [i \in 1 .. n |-> taken[i].label]

\* Where the replay stands after k entries.
Stand(t, place, labels) == [term |-> t, fed |-> place, ok |-> TRUE, observed |-> labels]

Moved(r, u, p) == [r EXCEPT !.term = u, !.fed = p]

LEMMA StandGoes ==
    ASSUME NEW t, NEW place, NEW labels, NEW u, NEW p
    PROVE  Moved(Stand(t, place, labels), u, p) = Stand(u, p, labels)
  <1>0. PICK r, s : r = Stand(t, place, labels) /\ s = Moved(r, u, p)
    OBVIOUS
  <1>1. PICK yes : yes = TRUE
    OBVIOUS
  <1>2. r = [term |-> t, fed |-> place, ok |-> yes, observed |-> labels]
    BY <1>0, <1>1 DEF Stand
  <1>3. s = [x \in DOMAIN r |-> IF x = "term" THEN u ELSE IF x = "fed" THEN p ELSE r[x]]
    BY <1>0, <1>2 DEF Moved
  <1>4. s = [term |-> u, fed |-> p, ok |-> yes, observed |-> labels]
    <2>1. DOMAIN r = {"term", "fed", "ok", "observed"} /\ r["ok"] = yes /\ r["observed"] = labels
      BY <1>2
    <2>2. DOMAIN s = {"term", "fed", "ok", "observed"}
      BY <1>3, <2>1
    <2>3. s["term"] = u /\ s["fed"] = p /\ s["ok"] = yes /\ s["observed"] = labels
      BY <1>3, <2>1
    <2>4. s = [x \in DOMAIN s |-> s[x]]
      BY <1>3
    <2> QED BY <2>2, <2>3, <2>4
  <1> QED BY <1>0, <1>1, <1>4 DEF Stand

LEMMA StandDraws ==
    ASSUME NEW t, NEW place, NEW labels, NEW u
    PROVE  [Stand(t, place, labels) EXCEPT !.term = u] = Stand(u, place, labels)
  <1>1. PICK yes : yes = TRUE
    OBVIOUS
  <1>2. /\ Stand(t, place, labels) = [term |-> t, fed |-> place, ok |-> yes, observed |-> labels]
        /\ Stand(u, place, labels) = [term |-> u, fed |-> place, ok |-> yes, observed |-> labels]
    BY <1>1 DEF Stand
  <1>3. [[term |-> t, fed |-> place, ok |-> yes, observed |-> labels] EXCEPT !.term = u]
          = [term |-> u, fed |-> place, ok |-> yes, observed |-> labels]
    OBVIOUS
  <1> QED BY <1>2, <1>3, Zenon

LEMMA StandShows ==
    ASSUME NEW t, NEW place, NEW labels, NEW more
    PROVE  [Stand(t, place, labels) EXCEPT !.observed = more] = Stand(t, place, more)
  <1>1. PICK yes : yes = TRUE
    OBVIOUS
  <1>2. /\ Stand(t, place, labels) = [term |-> t, fed |-> place, ok |-> yes, observed |-> labels]
        /\ Stand(t, place, more) = [term |-> t, fed |-> place, ok |-> yes, observed |-> more]
    BY <1>1 DEF Stand
  <1>3. [[term |-> t, fed |-> place, ok |-> yes, observed |-> labels] EXCEPT !.observed = more]
          = [term |-> t, fed |-> place, ok |-> yes, observed |-> more]
    OBVIOUS
  <1> QED BY <1>2, <1>3, Zenon

LabelsAre(taken, n) ==
    /\ LabelsOf(taken, n) \in Seq(Words) /\ Len(LabelsOf(taken, n)) = n
    /\ \A i \in 1 .. n : LabelsOf(taken, n)[i] = taken[i].label

LEMMA LabelsTyped ==
    ASSUME NEW taken \in Seq(ShotsOf), NEW n \in 0 .. Len(taken)
    PROVE  LabelsAre(taken, n)
  <1>1. \A i \in 1 .. n : taken[i] \in ShotsOf
    OBVIOUS
  <1>2. \A i \in 1 .. n : taken[i].label \in Words
    BY <1>1 DEF ShotsOf
  <1>3. PICK l : l = LabelsOf(taken, n)
    OBVIOUS
  <1>4. n \in Nat
    OBVIOUS
  <1>5. l \in [1 .. n -> Words] /\ \A i \in 1 .. n : l[i] = taken[i].label
    BY <1>2, <1>3 DEF LabelsOf
  <1>6. l \in Seq(Words) /\ Len(l) = n
    BY <1>4, <1>5
  <1> QED BY <1>3, <1>5, <1>6 DEF LabelsAre

\* From the screen t at the place, after n screenshots, to u at e, after m.
Goes(t, place, n, u, m, b, taken, e) ==
    /\ place <= e.offset /\ e.offset <= Len(b)
    /\ Draws(Between(t, b, place, e.offset), u, e)
    /\ e.kind = "snapshot" => m = n + 1 /\ Shows(u, e, taken, m)
    /\ e.kind # "snapshot" => m = n

LEMMA EntryReplays ==
    ASSUME NEW b \in Seq(Tokens), NEW taken \in Seq(ShotsOf), Labelled(taken),
           NEW t \in Screened, NEW place \in Nat, NEW n \in Nat, n <= Len(taken),
           NEW e \in Entries, NEW u, NEW m, Goes(t, place, n, u, m, b, taken, e)
    PROVE  ReplayEvent(Stand(t, place, LabelsOf(taken, n)), b, taken, e)
             = Stand(u, e.offset, LabelsOf(taken, m))
  <1>0. /\ place <= e.offset /\ e.offset <= Len(b) /\ Draws(Between(t, b, place, e.offset), u, e)
        /\ e.kind = "snapshot" => m = n + 1 /\ Shows(u, e, taken, m)
        /\ e.kind # "snapshot" => m = n
    BY DEF Goes
  <1>1. PICK o : o = e.offset
    OBVIOUS
  <1>2. PICK v : v = Between(t, b, place, o)
    OBVIOUS
  <1>3. PICK r : r = Stand(t, place, LabelsOf(taken, n))
    OBVIOUS
  <1>4. r.term = t /\ r.fed = place /\ r.ok = TRUE /\ r.observed = LabelsOf(taken, n)
    BY <1>3 DEF Stand
  <1>5. o \in Nat /\ Len(b) \in Nat
    BY <1>1 DEF Entries
  <1>6. v \in Screened /\ Draws(v, u, e)
    <2>1. place \in 0 .. Len(b) /\ o \in place .. Len(b)
      BY <1>0, <1>1, <1>5
    <2> QED BY <1>0, <1>1, <1>2, <2>1, BetweenIs
  <1>7. Feed(r.term, SubSeq(b, r.fed + 1, o)) = v
    BY <1>2, <1>4 DEF Between
  <1>8. PICK s : s = Stand(v, o, LabelsOf(taken, n))
    OBVIOUS
  <1>9. [r EXCEPT !.term = v, !.fed = o] = s
    <2>1. Moved(r, v, o) = s
      BY <1>3, <1>8, StandGoes
    <2> QED BY <2>1 DEF Moved
  <1>10. ~(~r.ok \/ o < r.fed \/ o > Len(b) \/ v.error)
    BY <1>0, <1>1, <1>4, <1>5, <1>6 DEF Draws
  <1>11. CASE e.kind = "resize"
    <2>1. ReplayEvent(r, b, taken, e) = [s EXCEPT !.term.seen = Append(@, e.what)]
      BY <1>1, <1>7, <1>9, <1>10, <1>11 DEF ReplayEvent
    <2>2. u = [v EXCEPT !.seen = Append(@, e.what)] /\ m = n
      BY <1>0, <1>6, <1>11 DEF Draws
    <2>3. [s EXCEPT !.term.seen = Append(@, e.what)] = [s EXCEPT !.term = u]
      BY <1>8, <2>2 DEF Stand
    <2>4. [s EXCEPT !.term = u] = Stand(u, o, LabelsOf(taken, n))
      BY <1>8, StandDraws
    <2> QED BY <1>1, <1>3, <2>1, <2>2, <2>3, <2>4
  <1>12. CASE e.kind = "input"
    <2>1. ReplayEvent(r, b, taken, e) = s
      BY <1>1, <1>7, <1>9, <1>10, <1>12 DEF ReplayEvent
    <2>2. u = v /\ m = n
      BY <1>0, <1>6, <1>12 DEF Draws
    <2> QED BY <1>1, <1>3, <1>8, <2>1, <2>2
  <1>13. CASE e.kind = "reply"
    <2>1. v.replies # <<>> /\ Head(v.replies) = e.answer /\ u = [v EXCEPT !.replies = Tail(@)] /\ m = n
      BY <1>0, <1>6, <1>13 DEF Draws
    <2>2. ReplayEvent(r, b, taken, e) = [s EXCEPT !.term.replies = Tail(@)]
      BY <1>1, <1>7, <1>9, <1>10, <1>13, <2>1 DEF ReplayEvent
    <2>3. [s EXCEPT !.term.replies = Tail(@)] = [s EXCEPT !.term = u]
      BY <1>8, <2>1 DEF Stand
    <2>4. [s EXCEPT !.term = u] = Stand(u, o, LabelsOf(taken, n))
      BY <1>8, StandDraws
    <2> QED BY <1>1, <1>3, <2>1, <2>2, <2>3, <2>4
  <1>14. CASE e.kind = "snapshot"
    <2>1. u = v /\ m = n + 1 /\ m \in 1 .. Len(taken) /\ ~Incomplete(v)
      BY <1>0, <1>6, <1>14 DEF Draws, Shows
    <2>2. taken[m] = [label |-> e.what, offset |-> o, state |-> v]
      BY <1>0, <1>1, <1>14, <2>1 DEF Shows
    <2>3. taken[m].label = e.what /\ taken[m].offset = o /\ taken[m].state = v
      BY <2>2
    <2>4. taken[m] \in ToSet(taken)
      BY <2>1 DEF ToSet
    <2>5. ASSUME NEW x \in ToSet(taken), x.label = e.what PROVE x = taken[m]
      <3>1. PICK i \in 1 .. Len(taken) : x = taken[i]
        BY DEF ToSet
      <3>2. i = m
        BY <2>1, <2>3, <2>5, <3>1 DEF Labelled
      <3> QED BY <3>1, <3>2
    <2>6. (CHOOSE x \in ToSet(taken) : x.label = e.what) = taken[m]
      BY <2>3, <2>4, <2>5, Zenon
    <2>7. e.what \notin ToSet(r.observed)
      <3> SUFFICES ASSUME e.what \in ToSet(LabelsOf(taken, n)) PROVE FALSE
        BY <1>4
      <3>1. PICK i \in 1 .. n : taken[i].label = e.what
        BY DEF ToSet, LabelsOf
      <3>2. i \in 1 .. Len(taken) /\ i # m
        BY <2>1, <3>1
      <3> QED BY <2>1, <2>3, <3>1, <3>2 DEF Labelled
    <2>8. ReplayEvent(r, b, taken, e) = [s EXCEPT !.observed = Append(@, e.what)]
      <3>1. \E x \in ToSet(taken) : x.label = e.what
        BY <2>3, <2>4
      <3> HIDE DEF Incomplete
      <3> QED BY <1>1, <1>7, <1>9, <1>10, <1>14, <2>1, <2>3, <2>6, <2>7, <3>1, Zenon DEF ReplayEvent
    <2>9. [s EXCEPT !.observed = Append(@, e.what)] = Stand(v, o, Append(LabelsOf(taken, n), e.what))
      <3>1. s.observed = LabelsOf(taken, n)
        BY <1>8 DEF Stand
      <3>2. [s EXCEPT !.observed = Append(@, e.what)] = [s EXCEPT !.observed = Append(s.observed, e.what)]
        OBVIOUS
      <3>3. PICK more : more = Append(LabelsOf(taken, n), e.what)
        OBVIOUS
      <3>4. [s EXCEPT !.observed = more] = Stand(v, o, more)
        BY <1>8, StandShows
      <3> QED BY <3>1, <3>2, <3>3, <3>4
    <2>10. Append(LabelsOf(taken, n), e.what) = LabelsOf(taken, m)
      <3>1. PICK more, all : more = Append(LabelsOf(taken, n), e.what) /\ all = LabelsOf(taken, m)
        OBVIOUS
      <3>2. e.what \in Words
        BY DEF Entries
      <3>3. n \in 0 .. Len(taken) /\ m \in 0 .. Len(taken)
        BY <2>1
      <3>4. LabelsAre(taken, n) /\ LabelsAre(taken, m)
        BY <3>3, LabelsTyped
      <3>5. /\ more \in Seq(Words) /\ Len(more) = n + 1 /\ more[n + 1] = e.what
            /\ \A i \in 1 .. n : more[i] = taken[i].label
        <4>1. PICK first : first = LabelsOf(taken, n)
          OBVIOUS
        <4>2. first \in Seq(Words) /\ Len(first) = n /\ \A i \in 1 .. n : first[i] = taken[i].label
          BY <3>4, <4>1 DEF LabelsAre
        <4>3. more = Append(first, e.what)
          BY <3>1, <4>1
        <4> QED BY <3>2, <4>2, <4>3
      <3>6. all \in Seq(Words) /\ Len(all) = m /\ \A i \in 1 .. m : all[i] = taken[i].label
        BY <3>1, <3>4 DEF LabelsAre
      <3>7. \A i \in 1 .. Len(more) : more[i] = all[i]
        <4> TAKE i \in 1 .. Len(more)
        <4>1. i \in 1 .. n \/ i = n + 1
          BY <3>5
        <4>2. CASE i \in 1 .. n
          BY <2>1, <3>5, <3>6, <4>2
        <4>3. CASE i = n + 1
          BY <2>1, <2>3, <3>5, <3>6, <4>3
        <4> QED BY <4>1, <4>2, <4>3
      <3> QED BY SMTT(30), <2>1, <3>1, <3>5, <3>6, <3>7, SeqEqual
    <2> QED BY <1>1, <1>3, <2>1, <2>8, <2>9, <2>10
  <1> QED BY <1>11, <1>12, <1>13, <1>14 DEF Entries

LEMMA Rising ==
    ASSUME NEW n \in Nat, NEW ns \in [0 .. n -> Nat], \A k \in 1 .. n : ns[k - 1] <= ns[k]
    PROVE  \A k \in 0 .. n : ns[k] <= ns[n]
  <1> DEFINE T == {l \in 0 .. n : ns[n - l] <= ns[n]}
  <1>1. 0 \in T
    <2>1. n - 0 = n /\ n \in 0 .. n /\ ns[n] \in Nat
      OBVIOUS
    <2> QED BY <2>1
  <1>2. ASSUME NEW l \in 0 .. n - 1, l \in T PROVE l + 1 \in T
    <2>1. n - l \in 1 .. n /\ (n - l) - 1 = n - (l + 1) /\ l + 1 \in 0 .. n
      OBVIOUS
    <2>2. ns[n - (l + 1)] <= ns[n - l]
      BY <2>1
    <2>3. ns[n - l] <= ns[n]
      BY <1>2
    <2>4. ns[n - (l + 1)] \in Nat /\ ns[n - l] \in Nat /\ ns[n] \in Nat
      BY <2>1
    <2>5. ns[n - (l + 1)] <= ns[n]
      BY <2>2, <2>3, <2>4
    <2> QED BY <2>1, <2>5
  <1>3. \A l \in 0 .. n : l \in T
    <2> HIDE DEF T
    <2> QED BY <1>1, <1>2, Induction
  <1>4. ASSUME NEW k \in 0 .. n PROVE ns[k] <= ns[n]
    <2>1. n - k \in 0 .. n /\ n - (n - k) = k
      OBVIOUS
    <2> QED BY <1>3, <2>1
  <1> QED BY <1>4

\* What an explained capture replays to.
LEMMA ReplayIs ==
    ASSUME NEW b \in Seq(Tokens), NEW j \in Seq(Entries), NEW taken \in Seq(ShotsOf), Labelled(taken),
           NEW t, NEW ts, NEW ns, Explains(ts, ns, b, j, taken, t)
    PROVE  Replay(b, j, taken) = [term |-> t, ok |-> TRUE]
  <1>1. PICK n, m : n = Len(j) /\ m = Len(taken)
    OBVIOUS
  <1>2. /\ n \in Nat /\ m \in Nat /\ ts \in [0 .. n -> Screened] /\ ns \in [0 .. n -> Nat]
        /\ ts[0] = NewTerminal /\ ns[0] = 0 /\ ns[n] = m
        /\ OffsetOf(j, n) <= Len(b) /\ Between(ts[n], b, OffsetOf(j, n), Len(b)) = t /\ ~t.error
    BY <1>1 DEF Explains
  <1>3. \A k \in 1 .. n : Entered(ts, ns, b, j, taken, k)
    BY <1>1 DEF Explains
  <1>4. \A k \in 0 .. n : ns[k] <= m
    <2>1. ASSUME NEW k \in 1 .. n PROVE ns[k - 1] <= ns[k]
      <3>1. ns[k - 1] \in Nat /\ ns[k] \in Nat
        BY <1>2
      <3> QED BY <1>3, <3>1 DEF Entered
    <2> QED BY <1>2, <2>1, Rising
  <1>5. PICK h : h = [k \in 0 .. n |-> Stand(ts[k], OffsetOf(j, k), LabelsOf(taken, ns[k]))]
    OBVIOUS
  <1>6. h[0] = Beginning
    <2>1. h[0] = Stand(ts[0], OffsetOf(j, 0), LabelsOf(taken, ns[0]))
      BY <1>2, <1>5
    <2>2. OffsetOf(j, 0) = 0
      BY DEF OffsetOf
    <2>3. LabelsOf(taken, 0) = <<>>
      BY DEF LabelsOf
    <2> QED BY <1>2, <2>1, <2>2, <2>3 DEF Stand, Beginning
  <1>7. ASSUME NEW k \in 1 .. n PROVE h[k] = ReplayEvent(h[k - 1], b, taken, j[k])
    <2>1. k - 1 \in 0 .. n /\ k \in 0 .. n /\ k # 0
      BY <1>2
    <2>2. /\ h[k] = Stand(ts[k], OffsetOf(j, k), LabelsOf(taken, ns[k]))
          /\ h[k - 1] = Stand(ts[k - 1], OffsetOf(j, k - 1), LabelsOf(taken, ns[k - 1]))
      BY <1>5, <2>1
    <2>3. PICK e, place, l : e = j[k] /\ place = OffsetOf(j, k - 1) /\ l = ns[k - 1]
      OBVIOUS
    <2>4. e \in Entries /\ OffsetOf(j, k) = e.offset /\ place \in Nat
      BY <1>1, <2>1, <2>3, OffsetIs
    <2>5. l \in Nat /\ l <= Len(taken) /\ ts[k - 1] \in Screened
      BY <1>1, <1>2, <1>4, <2>1, <2>3
    <2>6. Entered(ts, ns, b, j, taken, k)
      BY <1>3
    <2>7. Goes(ts[k - 1], place, l, ts[k], ns[k], b, taken, e)
      BY <2>3, <2>4, <2>6 DEF Entered, Goes
    <2>8. ReplayEvent(Stand(ts[k - 1], place, LabelsOf(taken, l)), b, taken, e)
            = Stand(ts[k], e.offset, LabelsOf(taken, ns[k]))
      BY <2>4, <2>5, <2>7, EntryReplays
    <2> QED BY <2>2, <2>3, <2>4, <2>8
  <1>8. Replay(b, j, taken) = Outcome(h[n], b, taken)
    BY <1>1, <1>6, <1>7, ReplayBy
  <1>9. PICK r : r = h[n]
    OBVIOUS
  <1>10. r.term = ts[n] /\ r.fed = OffsetOf(j, n) /\ r.ok = TRUE /\ r.observed = LabelsOf(taken, m)
    <2>1. r = Stand(ts[n], OffsetOf(j, n), LabelsOf(taken, m))
      BY <1>2, <1>5, <1>9
    <2> QED BY <2>1 DEF Stand
  <1>11. Feed(r.term, SubSeq(b, r.fed + 1, Len(b))) = t
    BY <1>2, <1>10 DEF Between
  <1>12. PICK labels : labels = [i \in DOMAIN taken |-> taken[i].label]
    OBVIOUS
  <1>13. labels = LabelsOf(taken, m)
    BY <1>1, <1>12 DEF LabelsOf
  <1>14. IsInjective(labels)
    <2>1. DOMAIN labels = 1 .. Len(taken) /\ \A i \in 1 .. Len(taken) : labels[i] = taken[i].label
      BY <1>12
    <2>2. \A i, k \in 1 .. Len(taken) : labels[i] = labels[k] => i = k
      BY <2>1 DEF Labelled
    <2> QED BY <2>1, <2>2 DEF IsInjective
  <1>15. Outcome(r, b, taken) = [term |-> t, ok |-> r.ok /\ ~t.error /\ IsInjective(labels) /\ r.observed = labels]
    BY <1>11, <1>12 DEF Outcome
  <1>16. (r.ok /\ ~t.error /\ IsInjective(labels) /\ r.observed = labels) = TRUE
    BY <1>2, <1>10, <1>13, <1>14
  <1> QED BY <1>8, <1>9, <1>15, <1>16

-----------------------------------------------------------------------------
(* What the reader makes of the output, token by token.                    *)

Answers == [term : Screened, events : Seq(Entries), at : Nat, error : {"none", "feed", "write"}]

\* As long as nothing failed, what is recorded explains the screen, and every
\* query has been answered.
Fine(b, s, taken, c) ==
    /\ c.index <= Len(s.events)
    /\ s.error = "none" =>
          /\ Explained(b, s.events, taken, s.term, c)
          /\ s.term.replies = <<>> /\ s.at = Len(b)

LEMMA ReplyIs ==
    ASSUME NEW o, NEW n
    PROVE  [Event("reply", o) EXCEPT !.answer = n] = [kind |-> "reply", offset |-> o, what |-> "none", answer |-> n]
  BY DEF Event

LEMMA ReplyTyped ==
    ASSUME NEW o \in Nat, NEW n \in Nat
    PROVE  [kind |-> "reply", offset |-> o, what |-> "none", answer |-> n] \in Entries
  <1>1. "none" \in Words
    BY DEF Words
  <1>2. PICK no \in Words : no = "none"
    BY <1>1
  <1>3. [kind |-> "reply", offset |-> o, what |-> no, answer |-> n] \in Entries
    BY DEF Entries
  <1> QED BY <1>2, <1>3

LEMMA AnswerIs ==
    ASSUME NEW s \in Answers, NEW x \in Tokens, NEW w \in BOOLEAN
    PROVE  Answer(s, x, w) \in Answers
  <1>1. PICK t, at : t = Interpret(s.term, x) /\ at = s.at + 1
    OBVIOUS
  <1>2. t \in Screened /\ at \in Nat /\ s.events \in Seq(Entries)
    BY <1>1, InterpretIs DEF Answers
  <1>3. CASE s.error # "none"
    BY <1>3 DEF Answer
  <1>4. CASE s.error = "none" /\ t.error
    <2>1. Answer(s, x, w) = [s EXCEPT !.term = t, !.at = at, !.error = "feed"]
      BY <1>1, <1>4 DEF Answer
    <2> QED BY <1>2, <2>1 DEF Answers
  <1>5. CASE s.error = "none" /\ ~t.error /\ t.replies = <<>>
    <2>1. Answer(s, x, w) = [s EXCEPT !.term = t, !.at = at]
      BY <1>1, <1>5 DEF Answer
    <2> QED BY <1>2, <2>1 DEF Answers
  <1>6. CASE s.error = "none" /\ ~t.error /\ t.replies # <<>>
    <2>1. PICK u, e, f : /\ u = [t EXCEPT !.replies = Tail(@)]
                         /\ e = [Event("reply", at) EXCEPT !.answer = Head(t.replies)]
                         /\ f = IF w THEN "none" ELSE "write"
      OBVIOUS
    <2>2. Answer(s, x, w) = [term |-> u, at |-> at, events |-> Append(s.events, e), error |-> f]
      BY <1>1, <1>6, <2>1 DEF Answer
    <2>3. t.replies \in Seq(Nat) /\ Head(t.replies) \in Nat /\ Tail(t.replies) \in Seq(Nat)
      BY <1>2, <1>6, ScreenedIs
    <2>4. u \in Screened
      BY <1>2, <2>1, <2>3, ScreenedWith
    <2>5. e \in Entries
      <3>1. e = [kind |-> "reply", offset |-> at, what |-> "none", answer |-> Head(t.replies)]
        BY <2>1, ReplyIs
      <3> QED BY <1>2, <2>3, <3>1, ReplyTyped
    <2>6. Append(s.events, e) \in Seq(Entries)
      BY <1>2, <2>5
    <2> QED BY <1>2, <2>1, <2>2, <2>4, <2>6 DEF Answers
  <1> QED BY <1>3, <1>4, <1>5, <1>6

LEMMA AnswerFine ==
    ASSUME NEW b \in Seq(Tokens), NEW taken \in Seq(ShotsOf), NEW c \in Copies,
           NEW s \in Answers, Fine(b, s, taken, c), NEW x \in Tokens, NEW w \in BOOLEAN
    PROVE  Fine(Append(b, x), Answer(s, x, w), taken, c)
  <1>0. PICK r : r = Answer(s, x, w)
    OBVIOUS
  <1>1. PICK t, at : t = Interpret(s.term, x) /\ at = s.at + 1
    OBVIOUS
  <1>2. t \in Screened /\ at \in Nat /\ s.events \in Seq(Entries) /\ s.term \in Screened
    BY <1>1, InterpretIs DEF Answers
  <1>3. CASE s.error # "none"
    <2>1. r = s
      BY <1>0, <1>3 DEF Answer
    <2> QED BY <1>0, <1>3, <2>1 DEF Fine
  <1>4. CASE s.error = "none" /\ t.error
    <2>1. r = [s EXCEPT !.term = t, !.at = at, !.error = "feed"]
      BY <1>0, <1>1, <1>4 DEF Answer
    <2>2. r.error = "feed" /\ r.events = s.events
      BY <2>1 DEF Answers
    <2> QED BY <1>0, <2>2, Zenon DEF Fine
  <1>5. CASE s.error = "none" /\ ~t.error
    <2>0. PICK bx : bx = Append(b, x)
      OBVIOUS
    <2>1. Explained(b, s.events, taken, s.term, c) /\ s.term.replies = <<>> /\ at = Len(bx) /\ bx \in Seq(Tokens)
      BY <1>1, <1>5, <2>0 DEF Fine
    <2>2. Explained(bx, s.events, taken, t, c)
      BY <1>1, <1>2, <1>5, <2>0, <2>1, TokenExplained
    <2>3. t.replies = <<>> \/ \E n \in Nat : t.replies = <<n>>
      BY <1>1, <1>2, <2>1, InterpretIs
    <2>4. CASE t.replies = <<>>
      <3>1. r = [s EXCEPT !.term = t, !.at = at]
        BY <1>0, <1>1, <1>5, <2>4 DEF Answer
      <3>2. r.term = t /\ r.at = at /\ r.events = s.events
        BY <3>1 DEF Answers
      <3>3. Fine(bx, r, taken, c)
        BY <2>1, <2>2, <2>4, <3>2 DEF Fine
      <3> QED BY <1>0, <2>0, <3>3
    <2>5. CASE t.replies # <<>>
      <3>1. PICK n \in Nat : t.replies = <<n>>
        BY <2>3, <2>5
      <3>2. Head(t.replies) = n /\ Tail(t.replies) = <<>>
        BY <3>1
      <3>3. PICK u, e, f : /\ u = [t EXCEPT !.replies = Tail(@)]
                           /\ e = [Event("reply", at) EXCEPT !.answer = Head(t.replies)]
                           /\ f = IF w THEN "none" ELSE "write"
        OBVIOUS
      <3>4. r = [term |-> u, at |-> at, events |-> Append(s.events, e), error |-> f]
        BY <1>0, <1>1, <1>5, <2>5, <3>3 DEF Answer
      <3>5. e \in Entries /\ e.kind = "reply" /\ e.offset = at /\ e.answer = n
        <4>1. e = [kind |-> "reply", offset |-> at, what |-> "none", answer |-> n]
          BY <3>2, <3>3, ReplyIs
        <4>2. e \in Entries
          BY <1>2, <4>1, ReplyTyped
        <4> QED BY <4>1, <4>2
      <3>6. u \in Screened /\ u.replies = <<>>
        <4>1. <<>> \in Seq(Nat)
          OBVIOUS
        <4> QED BY ZenonT(30), <1>2, <3>2, <3>3, <4>1, ScreenedWith, RepliesStay
      <3>7. ~u.error
        BY <1>2, <1>5, <3>3 DEF Screened
      <3>8. Draws(t, u, e)
        BY <1>5, <2>5, <3>2, <3>3, <3>5, <3>6 DEF Draws
      <3>9. Explained(bx, Append(s.events, e), taken, u, c)
        BY <1>2, <2>1, <2>2, <3>5, <3>7, <3>8, EntryExplained
      <3>10. r.term = u /\ r.at = at /\ r.events = Append(s.events, e)
        BY <3>4
      <3>11. c.index <= Len(r.events)
        <4>1. PICK j, je : j = s.events /\ je = Append(s.events, e)
          OBVIOUS
        <4>2. j \in Seq(Entries) /\ Len(je) = Len(j) + 1
          BY <1>2, <3>5, <4>1
        <4>3. c.index <= Len(j) /\ c.index \in Nat
          BY <4>1 DEF Fine, Copies
        <4> QED BY <3>10, <4>1, <4>2, <4>3
      <3>12. Fine(bx, r, taken, c)
        BY <2>1, <3>6, <3>9, <3>10, <3>11, Zenon DEF Fine
      <3> QED BY <1>0, <2>0, <3>12
    <2> QED BY <2>4, <2>5
  <1> QED BY <1>3, <1>4, <1>5

\* The results of _feed_tty after each token.
IsAnswered(h, s, data, w) ==
    /\ h[0] = s
    /\ \A i \in 1 .. Len(data) : h[i] = Answer(h[i - 1], data[i], w)

LEMMA AnsweredExists ==
    ASSUME NEW s \in Answers, NEW data \in Seq(Tokens), NEW w \in BOOLEAN
    PROVE  \E h \in [0 .. Len(data) -> Answers] : IsAnswered(h, s, data, w)
  <1> DEFINE step == [p \in Answers \X Tokens |-> Answer(p[1], p[2], w)]
  <1>1. step \in [Answers \X Tokens -> Answers]
    BY AnswerIs
  <1>2. PICK h \in [0 .. Len(data) -> Answers] : IsTable(h, step, s, data)
    <2> HIDE DEF step
    <2> QED BY <1>1, TableExists
  <1>3. ASSUME NEW i \in 1 .. Len(data)
        PROVE  h[i] = Answer(h[i - 1], data[i], w)
    <2>1. h[i - 1] \in Answers /\ data[i] \in Tokens
      OBVIOUS
    <2>2. h[i] = step[<<h[i - 1], data[i]>>]
      BY <1>2 DEF IsTable
    <2> QED BY <2>1, <2>2
  <1> QED BY <1>2, <1>3 DEF IsAnswered, IsTable

LEMMA FeedTtyBy ==
    ASSUME NEW s, NEW w, NEW V, NEW data \in Seq(V), NEW h, IsAnswered(h, s, data, w)
    PROVE  FeedTty(s, data, w) = h[Len(data)]
  <1> DEFINE n == Len(data)
             F == CHOOSE f : f = [i \in 0 .. n |-> IF i = 0 THEN s ELSE Answer(f[i - 1], data[i], w)]
             own == [i \in 0 .. n |-> h[i]]
  <1>0. n \in Nat
    OBVIOUS
  <1>1. FeedTty(s, data, w) = F[n]
    BY DEF FeedTty
  <1>2. own = [i \in 0 .. n |-> IF i = 0 THEN s ELSE Answer(own[i - 1], data[i], w)]
    <2>1. ASSUME NEW i \in 0 .. n PROVE h[i] = IF i = 0 THEN s ELSE Answer(own[i - 1], data[i], w)
      <3>1. CASE i = 0
        BY <3>1 DEF IsAnswered
      <3>2. CASE i # 0
        <4>1. i \in 1 .. n /\ i - 1 \in 0 .. n
          BY <1>0, <3>2
        <4> QED BY <3>2, <4>1 DEF IsAnswered
      <3> QED BY <3>1, <3>2
    <2> QED BY <2>1, Zenon
  <1>3. F = [i \in 0 .. n |-> IF i = 0 THEN s ELSE Answer(F[i - 1], data[i], w)]
    <2> HIDE DEF own, n
    <2> QED BY <1>2, Zenon
  <1> HIDE DEF F, own
  <1>4. F[0] = h[0] /\ \A i \in 1 .. n : F[i - 1] = h[i - 1] => F[i] = h[i]
    <2>1. F[0] = s
      BY <1>0, <1>3
    <2>2. ASSUME NEW i \in 1 .. n, F[i - 1] = h[i - 1] PROVE F[i] = h[i]
      <3>1. F[i] = Answer(F[i - 1], data[i], w)
        BY <1>0, <1>3
      <3> QED BY <2>2, <3>1 DEF IsAnswered
    <2> QED BY <2>1, <2>2 DEF IsAnswered
  <1>5. n \in 0 .. n
    BY <1>0
  <1> HIDE DEF n
  <1>6. F[n] = h[n]
    <2>1. \A k \in 0 .. n : F[k] = h[k]
      <3>1. Alike(F, h, n)
        BY <1>4 DEF Alike
      <3> QED BY <1>0, <3>1, TablesAgree
    <2> QED BY <1>5, <2>1
  <1> QED BY <1>1, <1>6 DEF n

LEMMA FeedTtyFine ==
    ASSUME NEW b \in Seq(Tokens), NEW taken \in Seq(ShotsOf), NEW c \in Copies,
           NEW s \in Answers, Fine(b, s, taken, c), NEW data \in Seq(Tokens), NEW w \in BOOLEAN
    PROVE  FeedTty(s, data, w) \in Answers /\ Fine(b \o data, FeedTty(s, data, w), taken, c)
  <1>1. PICK h \in [0 .. Len(data) -> Answers] : IsAnswered(h, s, data, w)
    BY AnsweredExists
  <1>2. PICK n : n = Len(data)
    OBVIOUS
  <1>3. n \in Nat /\ n \in 0 .. n
    BY <1>2
  <1>4. FeedTty(s, data, w) = h[n]
    BY <1>1, <1>2, FeedTtyBy
  <1> DEFINE T == {i \in 0 .. n : Fine(b \o SubSeq(data, 1, i), h[i], taken, c)}
  <1>5. 0 \in T
    <2>1. SubSeq(data, 1, 0) = <<>>
      OBVIOUS
    <2>2. b \o <<>> = b
      OBVIOUS
    <2>3. h[0] = s /\ 0 \in 0 .. n
      BY <1>1, <1>3 DEF IsAnswered
    <2> QED BY <2>1, <2>2, <2>3
  <1>6. ASSUME NEW i \in 0 .. n - 1, i \in T PROVE i + 1 \in T
    <2>1. i + 1 \in 1 .. n /\ (i + 1) - 1 = i /\ i \in 0 .. n /\ i + 1 \in 0 .. n
      BY <1>3
    <2>2. PICK x, r : x = data[i + 1] /\ r = h[i]
      OBVIOUS
    <2>3. x \in Tokens /\ r \in Answers
      BY <1>2, <2>1, <2>2
    <2>4. h[i + 1] = Answer(r, x, w)
      BY <1>1, <1>2, <2>1, <2>2 DEF IsAnswered
    <2>5. PICK p : p = SubSeq(data, 1, i)
      OBVIOUS
    <2>6. p \in Seq(Tokens)
      <3>1. \A k \in 1 .. i : data[k] \in Tokens
        BY <1>2, <2>1
      <3>2. 1 \in Int /\ i \in Int
        BY <2>1
      <3> QED BY <2>5, <3>1, <3>2, SubSeqProperties
    <2>7. SubSeq(data, 1, i + 1) = p \o <<x>>
      <3>1. 1 \in 1 .. Len(data) /\ i + 1 \in 1 .. Len(data)
        BY <1>2, <2>1
      <3>2. SubSeq(data, 1, i + 1) = SubSeq(data, 1, (i + 1) - 1) \o <<data[i + 1]>>
        BY <3>1, SubSeqRecursiveSecond
      <3> QED BY <2>1, <2>2, <2>5, <3>2
    <2>8. b \o (p \o <<x>>) = Append(b \o p, x)
      <3>1. b \o p \in Seq(Tokens) /\ <<x>> \in Seq(Tokens)
        BY <2>3, <2>6
      <3>2. b \o (p \o <<x>>) = (b \o p) \o <<x>>
        BY <2>3, <2>6, <3>1, ConcatAssociative
      <3>3. (b \o p) \o <<x>> = Append(b \o p, x)
        BY <2>3, <3>1, AppendIsConcat
      <3> QED BY <3>2, <3>3
    <2>9. PICK bp : bp = b \o p
      OBVIOUS
    <2>10. bp \in Seq(Tokens) /\ Fine(bp, r, taken, c)
      BY <1>6, <2>2, <2>5, <2>6, <2>9
    <2>11. Fine(Append(bp, x), Answer(r, x, w), taken, c)
      BY <2>3, <2>10, AnswerFine
    <2> QED BY <2>1, <2>4, <2>7, <2>8, <2>9, <2>11
  <1>7. n \in T
    <2> HIDE DEF T
    <2> QED BY <1>3, <1>5, <1>6, Induction
  <1>8. SubSeq(data, 1, n) = data
    <2>1. \A k \in 1 .. n : data[k] \in Tokens
      BY <1>2
    <2>2. 1 \in Int /\ n \in Int
      BY <1>3
    <2>3. /\ SubSeq(data, 1, n) \in Seq(Tokens)
          /\ Len(SubSeq(data, 1, n)) = IF 1 <= n THEN n - 1 + 1 ELSE 0
          /\ \A k \in 1 .. n - 1 + 1 : SubSeq(data, 1, n)[k] = data[1 + k - 1]
      BY <2>1, <2>2, SubSeqProperties
    <2>4. PICK q : q = SubSeq(data, 1, n)
      OBVIOUS
    <2>5. q \in Seq(Tokens) /\ Len(q) = n /\ \A k \in 1 .. n : q[k] = data[k]
      <3>1. \A k \in 1 .. n : k \in 1 .. n - 1 + 1 /\ 1 + k - 1 = k
        BY <1>3
      <3>2. Len(q) = n
        BY <1>3, <2>3, <2>4
      <3> QED BY <2>3, <2>4, <3>1, <3>2
    <2> QED BY <1>2, <2>4, <2>5, SeqEqual
  <1> QED BY <1>1, <1>2, <1>3, <1>4, <1>7, <1>8

-----------------------------------------------------------------------------
(* The invariant of a session.                                             *)

SessionTypes ==
    /\ todo \in Seq(Tokens) /\ wrote \in Seq(Tokens) /\ queue \in Seq(Tokens) /\ raw \in Seq(Tokens)
    /\ child \in {"running", "exited", "reaped"} /\ helper \in {"none", "group", "escaped"}
    /\ term \in Screened /\ events \in Seq(Entries) /\ shots \in Seq(ShotsOf) /\ copy \in Copies
    /\ error \in {"none", "feed", "write", "budget", "terminate", "start"}
    /\ reader \in [pc : {"select", "apply", "done"}, open : SUBSET {"tty", "exit"}, got : Seq(Tokens)]
    /\ note \in BOOLEAN /\ stop \in BOOLEAN /\ failed \in BOOLEAN
    /\ pc \in {"start", "drive", "waiting", "complete", "cleanup", "join", "close", "done"}
    /\ record \in [tty : Seq(Tokens), events : Seq(Entries), shots : Seq(ShotsOf)]

\* What is recorded explains the screen, and every query has been answered.
JournalInv ==
    /\ copy.index <= Len(events)
    /\ error = "none" => Explained(raw, events, shots, term, copy) /\ term.replies = <<>>

\* Nothing that was written is lost on its way, and what ends has ended.
StreamInv ==
    /\ wrote = raw \o (reader.got \o queue)
    /\ reader.pc # "apply" => reader.got = <<>>
    /\ reader.pc = "apply" => reader.got # <<>>
    /\ Len(raw) <= RawLimit \/ error # "none"
    /\ "tty" \notin reader.open => queue = <<>> /\ ~SlaveOpen
    /\ "exit" \notin reader.open /\ error = "none" => child = "reaped" /\ helper # "group"
    /\ note => child = "reaped"
    /\ reader.pc = "done" /\ ~stop /\ error = "none" => reader.open = {}

\* How far the test's thread has come.
CourseInv ==
    /\ stop => failed /\ pc \in {"join", "close", "done"}
    /\ copy # NoCopy => pc \in {"drive", "done"}
    /\ pc \in {"complete", "cleanup", "join", "close", "done"} /\ ~failed => reader.pc = "done"
    /\ pc \in {"cleanup", "join", "close", "done"} /\ ~failed => error = "none" /\ ~term.partial
    /\ pc \in {"close", "done"} => reader.pc = "done"
    /\ pc = "done" => record = [tty |-> raw, events |-> events, shots |-> shots]

SessionInv == SessionTypes /\ JournalInv /\ StreamInv /\ CourseInv

LEMMA JournalStays ==
    ASSUME JournalInv, UNCHANGED <<capture, copy>>
    PROVE  JournalInv'
  BY DEF JournalInv, capture

\* A sequence that grows at its end grows the whole.
LEMMA GrowsAtEnd ==
    ASSUME NEW a \in Seq(Tokens), NEW g \in Seq(Tokens), NEW q \in Seq(Tokens), NEW x \in Tokens
    PROVE  a \o (g \o Append(q, x)) = Append(a \o (g \o q), x)
  <1>1. Append(q, x) = q \o <<x>> /\ <<x>> \in Seq(Tokens) /\ g \o q \in Seq(Tokens)
    BY AppendIsConcat
  <1>2. g \o (q \o <<x>>) = (g \o q) \o <<x>>
    BY <1>1, ConcatAssociative
  <1>3. a \o ((g \o q) \o <<x>>) = (a \o (g \o q)) \o <<x>>
    BY <1>1, ConcatAssociative
  <1>4. a \o (g \o q) \in Seq(Tokens)
    BY <1>1
  <1>5. (a \o (g \o q)) \o <<x>> = Append(a \o (g \o q), x)
    BY <1>4, AppendIsConcat
  <1> QED BY <1>1, <1>2, <1>3, <1>5

\* A sequence is its first n elements and the others.
LEMMA CutInTwo ==
    ASSUME NEW q \in Seq(Tokens), NEW n \in 1 .. Len(q)
    PROVE  /\ SubSeq(q, 1, n) \in Seq(Tokens) /\ SubSeq(q, 1, n) # <<>>
           /\ SubSeq(q, n + 1, Len(q)) \in Seq(Tokens)
           /\ SubSeq(q, 1, n) \o SubSeq(q, n + 1, Len(q)) = q
  <1>0. Len(q) \in Nat /\ \A k \in 1 .. Len(q) : q[k] \in Tokens
    OBVIOUS
  <1>1. SubSeq(q, 1, n) \in Seq(Tokens) /\ Len(SubSeq(q, 1, n)) = n
    <2>1. 1 \in Int /\ n \in Int /\ \A k \in 1 .. n : q[k] \in Tokens
      BY <1>0
    <2>2. /\ SubSeq(q, 1, n) \in Seq(Tokens)
          /\ Len(SubSeq(q, 1, n)) = IF 1 <= n THEN n - 1 + 1 ELSE 0
      BY <2>1, SubSeqProperties
    <2> QED BY <1>0, <2>2
  <1>2. SubSeq(q, n + 1, Len(q)) \in Seq(Tokens)
    <2>1. n + 1 \in Int /\ Len(q) \in Int /\ \A k \in n + 1 .. Len(q) : q[k] \in Tokens
      BY <1>0
    <2> QED BY <2>1, SubSeqProperties
  <1>3. SubSeq(q, 1, n) \o SubSeq(q, n + 1, Len(q)) = SubSeq(q, 1, Len(q))
    <2>1. 1 \in 1 .. Len(q) + 1 /\ n \in 1 - 1 .. Len(q) /\ Len(q) \in n .. Len(q)
      BY <1>0
    <2> QED BY <2>1, ConcatAdjacentSubSeq
  <1>4. SubSeq(q, 1, Len(q)) = q
    BY SubSeqFull
  <1>5. SubSeq(q, 1, n) # <<>>
    BY <1>0, <1>1
  <1> QED BY <1>1, <1>2, <1>3, <1>4, <1>5

LEMMA ExitKeeps ==
    ASSUME SessionInv, Exit
    PROVE  SessionInv'
  <1>1. SessionTypes'
    BY DEF SessionInv, SessionTypes, Exit, capture, candidate
  <1>2. JournalInv'
    BY JournalStays DEF SessionInv, Exit
  <1>3. StreamInv'
    BY DEF SessionInv, SessionTypes, StreamInv, SlaveOpen, Exit, capture, candidate
  <1>4. CourseInv'
    BY DEF SessionInv, SessionTypes, StreamInv, CourseInv, Exit, capture, candidate
  <1> QED BY <1>1, <1>2, <1>3, <1>4 DEF SessionInv

LEMMA HelperExitsKeeps ==
    ASSUME SessionInv, HelperExits
    PROVE  SessionInv'
  <1>1. SessionTypes'
    BY DEF SessionInv, SessionTypes, HelperExits, capture, candidate
  <1>2. JournalInv'
    BY JournalStays DEF SessionInv, HelperExits
  <1>3. StreamInv'
    BY DEF SessionInv, SessionTypes, StreamInv, SlaveOpen, HelperExits, capture, candidate
  <1>4. CourseInv'
    BY DEF SessionInv, SessionTypes, StreamInv, CourseInv, HelperExits, capture, candidate
  <1> QED BY <1>1, <1>2, <1>3, <1>4 DEF SessionInv

LEMMA WaiterKeeps ==
    ASSUME SessionInv, Waiter
    PROVE  SessionInv'
  <1>1. SessionTypes'
    BY DEF SessionInv, SessionTypes, Waiter, capture, candidate
  <1>2. JournalInv'
    BY JournalStays DEF SessionInv, Waiter
  <1>3. StreamInv'
    BY DEF SessionInv, SessionTypes, StreamInv, SlaveOpen, Waiter, capture, candidate
  <1>4. CourseInv'
    BY DEF SessionInv, SessionTypes, StreamInv, CourseInv, Waiter, capture, candidate
  <1> QED BY <1>1, <1>2, <1>3, <1>4 DEF SessionInv

LEMMA EndOfTtyKeeps ==
    ASSUME SessionInv, EndOfTty
    PROVE  SessionInv'
  <1>1. SessionTypes'
    BY ZenonT(30) DEF SessionInv, SessionTypes, EndOfTty, capture, candidate
  <1>2. JournalInv'
    BY JournalStays DEF SessionInv, EndOfTty
  <1>3. StreamInv'
    BY DEF SessionInv, SessionTypes, StreamInv, SlaveOpen, EndOfTty, capture, candidate
  <1>4. CourseInv'
    BY DEF SessionInv, SessionTypes, StreamInv, CourseInv, EndOfTty, capture, candidate
  <1> QED BY <1>1, <1>2, <1>3, <1>4 DEF SessionInv

LEMMA ReadExitKeeps ==
    ASSUME SessionInv, ReadExit
    PROVE  SessionInv'
  <1>1. SessionTypes'
    BY DEF SessionInv, SessionTypes, ReadExit, KillGroup, capture, candidate
  <1>2. JournalInv'
    BY JournalStays DEF SessionInv, ReadExit
  <1>3. StreamInv'
    BY DEF SessionInv, SessionTypes, StreamInv, SlaveOpen, ReadExit, KillGroup, capture, candidate
  <1>4. CourseInv'
    BY DEF SessionInv, SessionTypes, StreamInv, CourseInv, ReadExit, KillGroup, capture, candidate
  <1> QED BY <1>1, <1>2, <1>3, <1>4 DEF SessionInv

LEMMA ReadExitFailsKeeps ==
    ASSUME SessionInv, ReadExitFails
    PROVE  SessionInv'
  <1>1. /\ reader' = [reader EXCEPT !.pc = "done", !.open = @ \ {"exit"}]
        /\ reader.pc = "select" /\ "exit" \in reader.open /\ note
        /\ error' # "none" /\ error' \in {error, "terminate"}
        /\ child' \in {child, "exited"} /\ (child # "running" => child' = child) /\ helper' \in {helper, "none"}
        /\ UNCHANGED <<raw, events, shots, term, todo, wrote, note, queue, stop, pc, copy, failed, record>>
    BY DEF ReadExitFails, KillGroup
  <1>2. SessionTypes'
    <2>1. reader' \in [pc : {"select", "apply", "done"}, open : SUBSET {"tty", "exit"}, got : Seq(Tokens)]
      BY <1>1 DEF SessionInv, SessionTypes
    <2>2. /\ error' \in {"none", "feed", "write", "budget", "terminate", "start"}
          /\ child' \in {"running", "exited", "reaped"} /\ helper' \in {"none", "group", "escaped"}
      BY <1>1 DEF SessionInv, SessionTypes
    <2> QED
      BY <1>1, <2>1, <2>2 DEF SessionInv, SessionTypes
  <1>3. JournalInv'
    BY <1>1 DEF SessionInv, JournalInv
  <1>4. StreamInv'
    BY <1>1 DEF SessionInv, SessionTypes, StreamInv, SlaveOpen
  <1>5. CourseInv'
    BY <1>1 DEF SessionInv, SessionTypes, StreamInv, CourseInv
  <1> QED BY <1>2, <1>3, <1>4, <1>5 DEF SessionInv

LEMMA ReaderEndsKeeps ==
    ASSUME SessionInv, ReaderEnds
    PROVE  SessionInv'
  <1>1. SessionTypes'
    <2>1. reader' \in [pc : {"select", "apply", "done"}, open : SUBSET {"tty", "exit"}, got : Seq(Tokens)]
      BY DEF SessionInv, SessionTypes, ReaderEnds
    <2>2. UNCHANGED <<todo, wrote, child, helper, note, raw, events, shots, term, error, queue, stop, pc, copy,
                      failed, record>>
      BY DEF ReaderEnds, capture, candidate
    <2> QED BY <2>1, <2>2 DEF SessionInv, SessionTypes
  <1>2. JournalInv'
    BY JournalStays DEF SessionInv, ReaderEnds
  <1>3. StreamInv'
    BY DEF SessionInv, SessionTypes, StreamInv, SlaveOpen, ReaderEnds, capture, candidate
  <1>4. CourseInv'
    BY DEF SessionInv, SessionTypes, StreamInv, CourseInv, ReaderEnds, capture, candidate
  <1> QED BY <1>1, <1>2, <1>3, <1>4 DEF SessionInv

LEMMA WaitFailsKeeps ==
    ASSUME SessionInv, WaitFails
    PROVE  SessionInv'
  <1>1. SessionTypes'
    BY DEF SessionInv, SessionTypes, WaitFails, DriveFails, KillGroup, capture, candidate
  <1>2. JournalInv'
    BY JournalStays DEF SessionInv, WaitFails
  <1>3. StreamInv'
    BY DEF SessionInv, SessionTypes, StreamInv, SlaveOpen, WaitFails, DriveFails, KillGroup, capture, candidate
  <1>4. CourseInv'
    BY DEF SessionInv, SessionTypes, StreamInv, CourseInv, WaitFails, DriveFails, KillGroup, capture, candidate
  <1> QED BY <1>1, <1>2, <1>3, <1>4 DEF SessionInv

LEMMA SnapshotFailsKeeps ==
    ASSUME SessionInv, SnapshotFails
    PROVE  SessionInv'
  <1>1. SessionTypes'
    BY DEF SessionInv, SessionTypes, SnapshotFails, DriveFails, KillGroup, capture, candidate
  <1>2. JournalInv'
    BY JournalStays DEF SessionInv, SnapshotFails
  <1>3. StreamInv'
    BY DEF SessionInv, SessionTypes, StreamInv, SlaveOpen, SnapshotFails, DriveFails, KillGroup, capture, candidate
  <1>4. CourseInv'
    BY DEF SessionInv, SessionTypes, StreamInv, CourseInv, SnapshotFails, DriveFails, KillGroup, capture, candidate
  <1> QED BY <1>1, <1>2, <1>3, <1>4 DEF SessionInv

LEMMA FinishKeeps ==
    ASSUME SessionInv, Finish
    PROVE  SessionInv'
  <1>1. SessionTypes'
    BY DEF SessionInv, SessionTypes, Finish, capture, candidate
  <1>2. JournalInv'
    BY JournalStays DEF SessionInv, Finish
  <1>3. StreamInv'
    BY DEF SessionInv, SessionTypes, StreamInv, SlaveOpen, Finish, capture, candidate
  <1>4. CourseInv'
    BY DEF SessionInv, SessionTypes, StreamInv, CourseInv, Finish, capture, candidate
  <1> QED BY <1>1, <1>2, <1>3, <1>4 DEF SessionInv

LEMMA WaitedKeeps ==
    ASSUME SessionInv, Waited
    PROVE  SessionInv'
  <1>1. SessionTypes'
    BY ZenonT(30) DEF SessionInv, SessionTypes, Waited, capture, candidate
  <1>2. JournalInv'
    BY JournalStays DEF SessionInv, Waited
  <1>3. StreamInv'
    BY DEF SessionInv, SessionTypes, StreamInv, SlaveOpen, Waited, capture, candidate
  <1>4. CourseInv'
    BY DEF SessionInv, SessionTypes, StreamInv, CourseInv, Waited, capture, candidate
  <1> QED BY <1>1, <1>2, <1>3, <1>4 DEF SessionInv

LEMMA CompleteKeeps ==
    ASSUME SessionInv, Complete
    PROVE  SessionInv'
  <1>1. SessionTypes'
    BY DEF SessionInv, SessionTypes, Complete, capture, candidate
  <1>2. JournalInv'
    BY JournalStays DEF SessionInv, Complete
  <1>3. StreamInv'
    BY DEF SessionInv, SessionTypes, StreamInv, SlaveOpen, Complete, capture, candidate
  <1>4. CourseInv'
    BY DEF SessionInv, SessionTypes, StreamInv, CourseInv, Complete, capture, candidate
  <1> QED BY <1>1, <1>2, <1>3, <1>4 DEF SessionInv

LEMMA CleanupKeeps ==
    ASSUME SessionInv, Cleanup
    PROVE  SessionInv'
  <1>1. SessionTypes'
    BY DEF SessionInv, SessionTypes, Cleanup, KillGroup, capture, candidate
  <1>2. JournalInv'
    BY JournalStays DEF SessionInv, Cleanup
  <1>3. StreamInv'
    BY DEF SessionInv, SessionTypes, StreamInv, SlaveOpen, Cleanup, KillGroup, capture, candidate
  <1>4. CourseInv'
    BY DEF SessionInv, SessionTypes, StreamInv, CourseInv, Cleanup, KillGroup, capture, candidate
  <1> QED BY <1>1, <1>2, <1>3, <1>4 DEF SessionInv

LEMMA JoinKeeps ==
    ASSUME SessionInv, Join
    PROVE  SessionInv'
  <1>1. SessionTypes'
    BY DEF SessionInv, SessionTypes, Join, capture, candidate
  <1>2. JournalInv'
    BY JournalStays DEF SessionInv, Join
  <1>3. StreamInv'
    BY DEF SessionInv, SessionTypes, StreamInv, SlaveOpen, Join, capture, candidate
  <1>4. CourseInv'
    BY DEF SessionInv, SessionTypes, StreamInv, CourseInv, Join, capture, candidate
  <1> QED BY <1>1, <1>2, <1>3, <1>4 DEF SessionInv

LEMMA StopReaderKeeps ==
    ASSUME SessionInv, StopReader
    PROVE  SessionInv'
  <1>1. SessionTypes'
    BY DEF SessionInv, SessionTypes, StopReader, capture, candidate
  <1>2. JournalInv'
    BY JournalStays DEF SessionInv, StopReader
  <1>3. StreamInv'
    BY DEF SessionInv, SessionTypes, StreamInv, SlaveOpen, StopReader, capture, candidate
  <1>4. CourseInv'
    BY DEF SessionInv, SessionTypes, StreamInv, CourseInv, StopReader, capture, candidate
  <1> QED BY <1>1, <1>2, <1>3, <1>4 DEF SessionInv

LEMMA CloseKeeps ==
    ASSUME SessionInv, Close
    PROVE  SessionInv'
  <1>1. SessionTypes'
    BY DEF SessionInv, SessionTypes, Close, capture, candidate
  <1>2. JournalInv'
    BY JournalStays DEF SessionInv, Close
  <1>3. StreamInv'
    BY DEF SessionInv, SessionTypes, StreamInv, SlaveOpen, Close, capture, candidate
  <1>4. CourseInv'
    BY DEF SessionInv, SessionTypes, StreamInv, CourseInv, Close, capture, candidate
  <1> QED BY <1>1, <1>2, <1>3, <1>4 DEF SessionInv


LEMMA WriteOutputKeeps ==
    ASSUME SessionInv, WriteOutput
    PROVE  SessionInv'
  <1>0. PICK x : x = Head(todo)
    OBVIOUS
  <1>1. x \in Tokens /\ Tail(todo) \in Seq(Tokens)
    BY <1>0 DEF SessionInv, SessionTypes, WriteOutput
  <1>2. todo' = Tail(todo) /\ queue' = Append(queue, x) /\ wrote' = Append(wrote, x)
    BY <1>0 DEF WriteOutput
  <1>3. SessionTypes'
    <2>1. queue' \in Seq(Tokens) /\ wrote' \in Seq(Tokens) /\ todo' \in Seq(Tokens)
      BY <1>1, <1>2 DEF SessionInv, SessionTypes
    <2> QED BY <2>1 DEF SessionInv, SessionTypes, WriteOutput, capture
  <1>4. JournalInv'
    BY JournalStays DEF SessionInv, WriteOutput
  <1>5. wrote' = raw' \o (reader'.got \o queue')
    <2>1. raw \in Seq(Tokens) /\ reader.got \in Seq(Tokens) /\ queue \in Seq(Tokens)
      BY DEF SessionInv, SessionTypes
    <2>2. raw \o (reader.got \o Append(queue, x)) = Append(raw \o (reader.got \o queue), x)
      BY ZenonT(30), <1>1, <2>1, GrowsAtEnd
    <2>3. raw' = raw /\ reader' = reader
      BY DEF WriteOutput, capture
    <2> QED BY <1>2, <2>2, <2>3 DEF SessionInv, StreamInv
  <1>6. StreamInv'
    BY <1>5 DEF SessionInv, StreamInv, SlaveOpen, WriteOutput, capture
  <1>7. CourseInv'
    BY DEF SessionInv, CourseInv, WriteOutput, capture
  <1> QED BY <1>3, <1>4, <1>6, <1>7 DEF SessionInv

LEMMA ReadTtyKeeps ==
    ASSUME SessionInv, ReadTty
    PROVE  SessionInv'
  <1>1. PICK n \in 1 .. Len(queue) :
           /\ reader' = [reader EXCEPT !.pc = "apply", !.got = SubSeq(queue, 1, n)]
           /\ queue' = SubSeq(queue, n + 1, Len(queue))
    BY DEF ReadTty
  <1>2. PICK g : g = SubSeq(queue, 1, n)
    OBVIOUS
  <1>3. g \in Seq(Tokens) /\ g # <<>> /\ queue' \in Seq(Tokens) /\ g \o queue' = queue
    <2>1. queue \in Seq(Tokens)
      BY DEF SessionInv, SessionTypes
    <2> QED BY <1>1, <1>2, <2>1, CutInTwo
  <1>4. reader'.pc = "apply" /\ reader'.got = g /\ reader'.open = reader.open
    BY <1>1, <1>2 DEF SessionInv, SessionTypes
  <1>5. reader' \in [pc : {"select", "apply", "done"}, open : SUBSET {"tty", "exit"}, got : Seq(Tokens)]
    BY <1>1, <1>2, <1>3 DEF SessionInv, SessionTypes
  <1>6. SessionTypes'
    BY ZenonT(30), <1>3, <1>5 DEF SessionInv, SessionTypes, ReadTty, capture, candidate
  <1>7. JournalInv'
    BY JournalStays DEF SessionInv, ReadTty
  <1>8. wrote' = raw' \o (reader'.got \o queue')
    <2>1. reader.got = <<>> /\ <<>> \o queue = queue
      BY DEF SessionInv, SessionTypes, StreamInv, ReadTty
    <2>2. raw' = raw /\ wrote' = wrote
      BY DEF ReadTty, capture, candidate
    <2> QED BY <1>3, <1>4, <2>1, <2>2 DEF SessionInv, StreamInv
  <1>9. StreamInv'
    <2>1. "tty" \in reader'.open
      BY <1>4 DEF ReadTty
    <2> QED BY <1>3, <1>4, <1>8, <2>1 DEF SessionInv, StreamInv, ReadTty, capture, candidate
  <1>10. CourseInv'
    BY <1>4 DEF SessionInv, CourseInv, ReadTty, capture, candidate
  <1> QED BY <1>6, <1>7, <1>9, <1>10 DEF SessionInv

LEMMA ApplyKeeps ==
    ASSUME SessionInv, Apply
    PROVE  SessionInv'
  <1>1. /\ reader.pc = "apply" /\ raw' = raw \o reader.got
        /\ UNCHANGED <<todo, wrote, child, helper, note, shots, queue, stop, pc, copy, failed, record>>
    BY DEF Apply, candidate
  <1>2. /\ raw \in Seq(Tokens) /\ reader.got \in Seq(Tokens) /\ raw' \in Seq(Tokens) /\ queue \in Seq(Tokens)
        /\ shots \in Seq(ShotsOf) /\ copy \in Copies /\ term \in Screened /\ events \in Seq(Entries)
    BY <1>1 DEF SessionInv, SessionTypes
  <1>3. ~(pc \in {"close", "done"}) /\ (pc \in {"complete", "cleanup", "join"} => failed)
    BY <1>1 DEF SessionInv, CourseInv
  <1>4. wrote' = raw' \o (<<>> \o queue')
    <2>1. wrote = raw \o (reader.got \o queue)
      BY DEF SessionInv, StreamInv
    <2>2. raw \o (reader.got \o queue) = (raw \o reader.got) \o queue
      <3>1. PICK a, g, q : a = raw /\ g = reader.got /\ q = queue
        OBVIOUS
      <3>2. a \o (g \o q) = (a \o g) \o q
        <4>1. a \in Seq(Tokens) /\ g \in Seq(Tokens) /\ q \in Seq(Tokens)
          BY <1>2, <3>1
        <4> QED BY <4>1, ConcatAssociative
      <3> QED BY <3>1, <3>2
    <2>3. <<>> \o queue = queue
      BY <1>2
    <2> QED BY <1>1, <2>1, <2>2, <2>3
  <1>5. CASE OverBudget(raw')
    <2>1. /\ error' = IF error = "none" THEN "budget" ELSE error
          /\ reader' = [reader EXCEPT !.pc = "done", !.got = <<>>]
          /\ UNCHANGED <<term, events>>
      BY <1>5 DEF Apply
    <2>2. reader'.pc = "done" /\ reader'.got = <<>> /\ reader'.open = reader.open
      BY <2>1 DEF SessionInv, SessionTypes
    <2>3. reader' \in [pc : {"select", "apply", "done"}, open : SUBSET {"tty", "exit"}, got : Seq(Tokens)]
      <3>1. <<>> \in Seq(Tokens)
        OBVIOUS
      <3> QED BY <2>1, <3>1 DEF SessionInv, SessionTypes
    <2>4. error' # "none" /\ error' \in {"none", "feed", "write", "budget", "terminate", "start"}
      BY <2>1 DEF SessionInv, SessionTypes
    <2>5. SessionTypes'
      BY <1>1, <1>2, <2>1, <2>3, <2>4 DEF SessionInv, SessionTypes
    <2>6. JournalInv'
      BY <1>1, <2>1, <2>4 DEF SessionInv, JournalInv
    <2>7. StreamInv'
      BY <1>1, <1>4, <2>2, <2>4 DEF SessionInv, StreamInv, SlaveOpen
    <2>8. CourseInv'
      BY <1>1, <1>3, <2>1, <2>2, <2>4 DEF SessionInv, CourseInv
    <2> QED BY <2>5, <2>6, <2>7, <2>8 DEF SessionInv
  <1>6. CASE ~OverBudget(raw')
    <2>1. reader' = [reader EXCEPT !.pc = "select", !.got = <<>>]
      BY <1>6 DEF Apply
    <2>2. reader'.pc = "select" /\ reader'.got = <<>> /\ reader'.open = reader.open
      BY <2>1 DEF SessionInv, SessionTypes
    <2>3. reader' \in [pc : {"select", "apply", "done"}, open : SUBSET {"tty", "exit"}, got : Seq(Tokens)]
      <3>1. <<>> \in Seq(Tokens)
        OBVIOUS
      <3> QED BY <2>1, <3>1 DEF SessionInv, SessionTypes
    <2>4. Len(raw') <= RawLimit
      <3>1. Len(raw') \in Nat /\ RawLimit \in Nat
        BY <1>2, TerminalSessionAssumption
      <3> QED BY <1>6, <3>1 DEF OverBudget
    <2>5. /\ term' \in Screened /\ events' \in Seq(Entries)
          /\ error' \in {"none", "feed", "write", "budget", "terminate", "start"}
          /\ JournalInv'
      <3>1. CASE error # "none"
        <4>1. UNCHANGED <<term, events, error>>
          BY <1>6, <3>1 DEF Apply
        <4> QED BY <1>1, <1>2, <3>1, <4>1 DEF SessionInv, SessionTypes, JournalInv
      <3>2. CASE error = "none"
        <4>1. PICK s0 : s0 = [term |-> term, events |-> events, at |-> Len(raw), error |-> "none"]
          OBVIOUS
        <4>2. PICK w \in {TRUE, SlaveOpen} :
                 LET s == FeedTty(s0, reader.got, w)
                 IN  term' = s.term /\ events' = s.events /\ error' = s.error
          BY <1>6, <3>2, <4>1 DEF Apply
        <4>3. w \in BOOLEAN
          BY <4>2 DEF SlaveOpen
        <4>4. s0 \in Answers
          <5>1. Len(raw) \in Nat
            BY <1>2
          <5> QED BY <1>2, <4>1, <5>1 DEF Answers
        <4>5. Fine(raw, s0, shots, copy)
          BY <3>2, <4>1 DEF SessionInv, JournalInv, Fine
        <4>6. PICK s : s = FeedTty(s0, reader.got, w)
          OBVIOUS
        <4>7. s \in Answers /\ Fine(raw \o reader.got, s, shots, copy)
          BY <1>2, <4>3, <4>4, <4>5, <4>6, FeedTtyFine
        <4>8. term' = s.term /\ events' = s.events /\ error' = s.error
          BY <4>2, <4>6
        <4>9. JournalInv'
          BY <1>1, <4>7, <4>8 DEF JournalInv, Fine
        <4> QED BY <4>7, <4>8, <4>9 DEF Answers
      <3> QED BY <3>1, <3>2
    <2>6. SessionTypes'
      BY <1>1, <1>2, <2>3, <2>5 DEF SessionInv, SessionTypes
    <2>7. StreamInv'
      <3>1. error' = "none" => error = "none"
        BY <1>6 DEF Apply
      <3> QED BY <1>1, <1>4, <2>2, <2>4, <3>1 DEF SessionInv, StreamInv, SlaveOpen
    <2>8. CourseInv'
      BY <1>1, <1>3 DEF SessionInv, CourseInv
    <2> QED BY <2>5, <2>6, <2>7, <2>8 DEF SessionInv
  <1> QED BY <1>5, <1>6
LEMMA NoCopyIs == NoCopy \in Copies /\ NoCopy.index = 0 /\ NoCopy.label = "none"
  <1>1. NoCopy = [label |-> "none", offset |-> 0, state |-> NewTerminal, index |-> 0]
    BY DEF NoCopy
  <1>2. "none" \in Words
    BY DEF Words
  <1> QED BY <1>1, <1>2, NewTerminalIs DEF Copies

LEMMA EnterKeeps ==
    ASSUME SessionInv, NEW fails \in BOOLEAN, Enter(fails)
    PROVE  SessionInv'
  <1>1. /\ pc = "start" /\ pc' \in {"waiting", "drive"}
        /\ error' \in {error, "start"} /\ (error' = "none" => error = "none")
        /\ UNCHANGED <<todo, wrote, child, helper, note, raw, events, shots, term, queue, reader, stop, copy, failed, record>>
    BY DEF Enter, candidate
  <1>2. SessionTypes'
    BY <1>1 DEF SessionInv, SessionTypes
  <1>3. JournalInv'
    BY <1>1 DEF SessionInv, JournalInv
  <1>4. StreamInv'
    BY <1>1 DEF SessionInv, StreamInv, SlaveOpen
  <1>5. CourseInv'
    BY <1>1 DEF SessionInv, CourseInv
  <1> QED BY <1>2, <1>3, <1>4, <1>5 DEF SessionInv

\* The test's thread records one entry, with no screenshot under way.
LEMMA EntryKeeps ==
    ASSUME SessionInv, pc = "drive", copy = NoCopy, NEW e \in Entries, e.offset = Len(raw), e.kind # "snapshot",
           events' = Append(events, e),
           error = "none" => Draws(term, term', e) /\ ~term'.error, term' \in Screened,
           term'.replies = term.replies,
           Go \/ DriveFails,
           UNCHANGED <<raw, shots, error, todo, wrote, note, queue, reader, stop, copy, record>>
    PROVE  SessionInv'
  <1>1. /\ pc' \in {"drive", "waiting"} /\ failed' \in BOOLEAN /\ (failed => failed')
        /\ child' \in {child, "exited"} /\ (child = "reaped" => child' = "reaped") /\ (child' = "running" => child = "running")
        /\ helper' \in {helper, "none"}
    BY DEF SessionInv, SessionTypes, Go, DriveFails, KillGroup
  <1>2. raw \in Seq(Tokens) /\ shots \in Seq(ShotsOf) /\ events \in Seq(Entries)
    BY DEF SessionInv, SessionTypes
  <1>3. SessionTypes'
    <2>1. events' \in Seq(Entries)
      BY <1>2
    <2> QED BY <1>1, <2>1 DEF SessionInv, SessionTypes
  <1>4. JournalInv'
    <2>1. copy'.index <= Len(events')
      <3>1. Len(events') \in Nat
        BY <1>2
      <3> QED BY <3>1, NoCopyIs
    <2>2. ASSUME error' = "none"
          PROVE  Explained(raw', events', shots', term', copy') /\ term'.replies = <<>>
      <3>1. error = "none" /\ Explained(raw, events, shots, term, NoCopy) /\ term.replies = <<>>
        BY <2>2 DEF SessionInv, JournalInv
      <3>2. PICK u : u = term'
        OBVIOUS
      <3>3. Draws(term, u, e) /\ ~u.error
        BY <3>1, <3>2
      <3>4. NoCopy \in Copies
        BY NoCopyIs
      <3>5. Explained(raw, Append(events, e), shots, u, NoCopy)
        BY <1>2, <3>1, <3>3, <3>4, EntryExplained
      <3> QED BY <3>1, <3>2, <3>5
    <2> QED BY <2>1, <2>2 DEF JournalInv
  <1>5. StreamInv'
    BY <1>1 DEF SessionInv, StreamInv, SlaveOpen
  <1>6. CourseInv'
    BY <1>1 DEF SessionInv, CourseInv
  <1> QED BY <1>3, <1>4, <1>5, <1>6 DEF SessionInv

LEMMA SendKeeps ==
    ASSUME SessionInv, Send
    PROVE  SessionInv'
  <1>1. /\ pc = "drive" /\ copy = NoCopy
        /\ UNCHANGED <<raw, shots, term, error, todo, wrote, note, queue, reader, stop, copy, record>>
    BY DEF Send
  <1>2. CASE child = "running"
    <2>1. PICK e : e = Event("input", Len(raw))
      OBVIOUS
    <2>2. events' = Append(events, e) /\ Go
      BY <1>2, <2>1 DEF Send
    <2>3. e = [kind |-> "input", offset |-> Len(raw), what |-> "none", answer |-> 0]
      BY <2>1 DEF Event
    <2>4. e \in Entries /\ e.offset = Len(raw) /\ e.kind = "input"
      <3>1. "none" \in Words /\ Len(raw) \in Nat
        BY DEF Words, SessionInv, SessionTypes
      <3> QED BY <2>3, <3>1 DEF Entries
    <2>5. term' \in Screened /\ term' = term
      BY <1>1 DEF SessionInv, SessionTypes
    <2>6. error = "none" => Draws(term, term', e) /\ ~term'.error
      <3>1. error = "none" => ~term.error
        BY DEF SessionInv, JournalInv, Explained, Explains
      <3> QED BY <2>4, <2>5, <3>1 DEF Draws
    <2> QED BY <1>1, <2>2, <2>4, <2>5, <2>6, EntryKeeps
  <1>3. CASE child # "running"
    <2>1. UNCHANGED events /\ DriveFails
      BY <1>3 DEF Send
    <2>2. SessionTypes'
      BY <1>1, <2>1 DEF SessionInv, SessionTypes, DriveFails, KillGroup
    <2>3. JournalInv'
      BY <1>1, <2>1 DEF SessionInv, JournalInv
    <2>4. StreamInv'
      BY <1>1, <2>1 DEF SessionInv, SessionTypes, StreamInv, SlaveOpen, DriveFails, KillGroup
    <2>5. CourseInv'
      BY <1>1, <2>1 DEF SessionInv, CourseInv, DriveFails
    <2> QED BY <2>2, <2>3, <2>4, <2>5 DEF SessionInv
  <1> QED BY <1>2, <1>3

LEMMA ResizePtyKeeps ==
    ASSUME SessionInv, NEW new \in Sizes, ResizePty(new)
    PROVE  SessionInv'
  <1>1. /\ pc = "drive" /\ copy = NoCopy
        /\ term' = [term EXCEPT !.seen = Append(@, new)]
        /\ events' = Append(events, [Event("resize", Len(raw)) EXCEPT !.what = new])
        /\ Go \/ DriveFails
        /\ UNCHANGED <<raw, shots, error, todo, wrote, note, queue, reader, stop, copy, record>>
    BY DEF ResizePty
  <1>2. PICK e : e = [Event("resize", Len(raw)) EXCEPT !.what = new]
    OBVIOUS
  <1>3. e = [kind |-> "resize", offset |-> Len(raw), what |-> new, answer |-> 0]
    BY <1>2 DEF Event
  <1>4. e \in Entries /\ e.offset = Len(raw) /\ e.kind = "resize" /\ e.what = new
    <2>1. new \in Words /\ Len(raw) \in Nat
      BY DEF Words, SessionInv, SessionTypes
    <2> QED BY <1>3, <2>1 DEF Entries
  <1>5. term \in Screened
    BY DEF SessionInv, SessionTypes
  <1>6. term' \in Screened /\ term'.replies = term.replies
    <2>1. Append(term.seen, new) \in Seq(Drawn)
      BY <1>5, ScreenedIs DEF Drawn
    <2> QED BY <1>1, <1>5, <2>1, ScreenedWith, RepliesStay
  <1>7. error = "none" => Draws(term, term', e) /\ ~term'.error
    <2>1. error = "none" => ~term.error
      BY DEF SessionInv, JournalInv, Explained, Explains
    <2>2. term'.error = term.error
      BY <1>1, <1>5 DEF Screened
    <2> QED BY <1>1, <1>4, <1>6, <2>1, <2>2 DEF Draws
  <1> QED BY <1>1, <1>2, <1>4, <1>6, <1>7, EntryKeeps

LEMMA SnapshotBeginsKeeps ==
    ASSUME SessionInv, NEW label \in Labels, SnapshotBegins(label)
    PROVE  SessionInv'
  <1>1. /\ pc \in {"drive", "done"} /\ copy = NoCopy /\ ~Incomplete(term)
        /\ \A i \in 1 .. Len(shots) : shots[i].label # label
        /\ copy' = [label |-> label, offset |-> Len(raw), state |-> term, index |-> Len(events)]
        /\ UNCHANGED <<todo, wrote, child, helper, note, raw, events, shots, term, error, queue, reader, stop, pc,
                       failed, record>>
    BY DEF SnapshotBegins, candidate, capture, SessionInv, SessionTypes
  <1>2. /\ raw \in Seq(Tokens) /\ events \in Seq(Entries) /\ shots \in Seq(ShotsOf) /\ term \in Screened
        /\ Len(raw) \in Nat /\ Len(events) \in Nat /\ label \in Words
    BY DEF SessionInv, SessionTypes, Words
  <1>3. copy' \in Copies /\ copy'.index = Len(events)
    BY <1>1, <1>2 DEF Copies
  <1>4. SessionTypes'
    BY <1>1, <1>3 DEF SessionInv, SessionTypes
  <1>5. JournalInv'
    <2>1. ASSUME error = "none"
          PROVE  Explained(raw, events, shots, term, copy')
      <3>1. Explained(raw, events, shots, term, NoCopy)
        BY <1>1, <2>1 DEF SessionInv, JournalInv
      <3>2. PICK c : c = copy'
        OBVIOUS
      <3>3. c = [label |-> label, offset |-> Len(raw), state |-> term, index |-> Len(events)]
        BY <1>1, <3>2
      <3>4. Explained(raw, events, shots, term, c)
        BY <1>1, <1>2, <3>1, <3>3, CopyExplained
      <3> QED BY <3>2, <3>4
    <2> QED BY <1>1, <1>2, <1>3, <2>1 DEF SessionInv, JournalInv
  <1>6. StreamInv'
    BY <1>1 DEF SessionInv, StreamInv, SlaveOpen
  <1>7. CourseInv'
    BY <1>1 DEF SessionInv, CourseInv
  <1> QED BY <1>4, <1>5, <1>6, <1>7 DEF SessionInv

LEMMA SnapshotEndsKeeps ==
    ASSUME SessionInv, SnapshotEnds
    PROVE  SessionInv'
  <1>1. /\ copy # NoCopy /\ shots' = Append(shots, Shot) /\ events' = InsertAt(events, copy.index + 1, Taken)
        /\ copy' = NoCopy /\ record' = [record EXCEPT !.tty = raw, !.events = events', !.shots = shots']
        /\ UNCHANGED <<todo, wrote, child, helper, note, raw, term, error, queue, reader, stop, pc, failed>>
    BY DEF SnapshotEnds, Save, candidate
  <1>2. PICK c : c = copy
    OBVIOUS
  <1>3. /\ raw \in Seq(Tokens) /\ events \in Seq(Entries) /\ shots \in Seq(ShotsOf) /\ term \in Screened
        /\ c \in Copies /\ c.index <= Len(events)
    BY <1>2 DEF SessionInv, SessionTypes, JournalInv
  <1>4. PICK e, shot : e = Taken /\ shot = Shot
    OBVIOUS
  <1>5. /\ e = [Event("snapshot", c.offset) EXCEPT !.what = c.label]
        /\ shot = [label |-> c.label, offset |-> c.offset, state |-> c.state]
    BY <1>2, <1>4 DEF Taken, Shot
  <1>6. e \in Entries
    <2>1. e = [kind |-> "snapshot", offset |-> c.offset, what |-> c.label, answer |-> 0]
      BY <1>5, TakenIs
    <2>2. c.label \in Words /\ c.offset \in Nat
      BY <1>3 DEF Copies
    <2> QED BY <2>1, <2>2, TakenTyped
  <1>7. events' \in Seq(Entries) /\ Len(events') = Len(events) + 1
    <2>1. c.index \in 0 .. Len(events)
      BY <1>3 DEF Copies
    <2>2. Inserted(Entries, events, c.index, e, InsertAt(events, c.index + 1, e))
      BY <1>3, <1>6, <2>1, InsertIs, Zenon
    <2>3. Inserted(Entries, events, c.index, e, events')
      BY <1>1, <1>2, <1>4, <2>2
    <2> QED BY <2>3 DEF Inserted
  <1>8. shots' \in Seq(ShotsOf)
    <2>1. shot \in ShotsOf
      BY <1>3, <1>5 DEF Copies, ShotsOf
    <2> QED BY <1>1, <1>3, <1>4, <2>1
  <1>9. record' = [tty |-> raw, events |-> events', shots |-> shots']
    <2>1. PICK j, l : j = events' /\ l = shots'
      OBVIOUS
    <2>2. record' = [record EXCEPT !.tty = raw, !.events = j, !.shots = l]
      BY <1>1, <2>1
    <2>3. record \in [tty : Seq(Tokens), events : Seq(Entries), shots : Seq(ShotsOf)]
      BY DEF SessionInv, SessionTypes
    <2> QED BY <2>1, <2>2, <2>3
  <1>10. record' \in [tty : Seq(Tokens), events : Seq(Entries), shots : Seq(ShotsOf)]
    BY <1>3, <1>7, <1>8, <1>9
  <1>11. SessionTypes'
    BY <1>1, <1>7, <1>8, <1>10, NoCopyIs DEF SessionInv, SessionTypes
  <1>12. JournalInv'
    <2>1. copy'.index <= Len(events')
      <3>1. Len(events') \in Nat
        BY <1>7
      <3> QED BY <1>1, <3>1, NoCopyIs
    <2>2. ASSUME error = "none"
          PROVE  Explained(raw, events', shots', term, NoCopy) /\ term.replies = <<>>
      <3>1. Explained(raw, events, shots, term, c) /\ term.replies = <<>>
        BY <1>2, <2>2 DEF SessionInv, JournalInv
      <3>2. Explained(raw, InsertAt(events, c.index + 1, e), Append(shots, shot), term, NoCopy)
        BY <1>1, <1>2, <1>3, <1>5, <3>1, ShotExplained
      <3> QED BY <1>1, <1>2, <1>4, <3>1, <3>2
    <2> QED BY <1>1, <2>1, <2>2 DEF JournalInv
  <1>13. StreamInv'
    BY <1>1 DEF SessionInv, StreamInv, SlaveOpen
  <1>14. CourseInv'
    BY <1>1, <1>9 DEF SessionInv, CourseInv
  <1> QED BY <1>11, <1>12, <1>13, <1>14 DEF SessionInv

LEMMA SessionBegins ==
    ASSUME SessionInit
    PROVE  SessionInv
  <1>0. <<>> \in Seq(Tokens) /\ <<>> \in Seq(Entries) /\ <<>> \in Seq(ShotsOf) /\ Len(<<>>) = 0
    OBVIOUS
  <1>1. todo \in Seq(Tokens) /\ helper \in {"none", "group", "escaped"}
    BY TerminalSessionAssumption DEF SessionInit
  <1>2. reader \in [pc : {"select", "apply", "done"}, open : SUBSET {"tty", "exit"}, got : Seq(Tokens)]
    BY <1>0 DEF SessionInit
  <1>3. record \in [tty : Seq(Tokens), events : Seq(Entries), shots : Seq(ShotsOf)]
    BY <1>0 DEF SessionInit
  <1>4. SessionTypes
    BY <1>0, <1>1, <1>2, <1>3, NewTerminalIs, NoCopyIs DEF SessionInit, SessionTypes
  <1>5. Explained(<<>>, <<>>, <<>>, NewTerminal, NoCopy)
    <2>1. PICK ts, ns : ts = [k \in 0 .. 0 |-> NewTerminal] /\ ns = [k \in 0 .. 0 |-> 0]
      OBVIOUS
    <2>2. ts \in [0 .. 0 -> Screened] /\ ns \in [0 .. 0 -> Nat] /\ ts[0] = NewTerminal /\ ns[0] = 0
      BY <2>1, NewTerminalIs
    <2>3. OffsetOf(<<>>, 0) = 0 /\ 1 .. 0 = {}
      BY DEF OffsetOf
    <2>4. Between(NewTerminal, <<>>, 0, 0) = NewTerminal
      <3>1. <<>> \in Seq(Tokens) /\ 0 \in 0 .. Len(<<>>) /\ 0 \in 0 .. Len(<<>>)
        OBVIOUS
      <3> QED BY <3>1, NewTerminalIs, BetweenIs
    <2>5. ~NewTerminal.error
      BY DEF NewTerminal
    <2>6. Explains(ts, ns, <<>>, <<>>, <<>>, NewTerminal)
      BY <1>0, <2>2, <2>3, <2>4, <2>5 DEF Explains
    <2>7. Copied(ts, <<>>, <<>>, <<>>, NoCopy)
      BY DEF Copied
    <2>8. Labelled(<<>>)
      BY <2>3 DEF Labelled
    <2> QED BY <2>6, <2>7, <2>8 DEF Explained
  <1>6. JournalInv
    <2>1. NewTerminal.replies = <<>>
      BY DEF NewTerminal
    <2> QED BY <1>0, <1>5, <2>1, NoCopyIs DEF SessionInit, JournalInv
  <1>7. StreamInv
    <2>1. <<>> \o (<<>> \o <<>>) = <<>>
      OBVIOUS
    <2> QED BY <1>0, <2>1, TerminalSessionAssumption DEF SessionInit, StreamInv
  <1>8. CourseInv
    BY DEF SessionInit, CourseInv
  <1> QED BY <1>4, <1>6, <1>7, <1>8 DEF SessionInv

LEMMA SessionStep ==
    ASSUME SessionInv, [SessionNext]_sessionVars
    PROVE  SessionInv'
  <1>1. CASE Candidate
    BY <1>1, WriteOutputKeeps, ExitKeeps, HelperExitsKeeps DEF Candidate
  <1>2. CASE Waiter
    BY <1>2, WaiterKeeps
  <1>3. CASE Reader
    BY <1>3, ReadTtyKeeps, EndOfTtyKeeps, ReadExitKeeps, ReadExitFailsKeeps, ReaderEndsKeeps, ApplyKeeps DEF Reader
  <1>4. CASE Drive
    BY <1>4, EnterKeeps, SendKeeps, WaitFailsKeeps, SnapshotFailsKeeps, SnapshotBeginsKeeps, ResizePtyKeeps,
       FinishKeeps DEF Drive
  <1>5. CASE Finishing
    BY <1>5, SnapshotEndsKeeps, WaitedKeeps, CompleteKeeps, CleanupKeeps, JoinKeeps, StopReaderKeeps, CloseKeeps
       DEF Finishing
  <1>6. CASE UNCHANGED sessionVars
    BY <1>6 DEF sessionVars, SessionInv, SessionTypes, JournalInv, StreamInv, CourseInv, SlaveOpen
  <1> QED BY <1>1, <1>2, <1>3, <1>4, <1>5, <1>6 DEF SessionNext

LEMMA JournalFollows ==
    ASSUME SessionInv, error = "none"
    PROVE  Replay(raw, events, shots) = [term |-> term, ok |-> TRUE]
  <1>1. raw \in Seq(Tokens) /\ events \in Seq(Entries) /\ shots \in Seq(ShotsOf)
    BY DEF SessionInv, SessionTypes
  <1>2. Explained(raw, events, shots, term, copy)
    BY DEF SessionInv, JournalInv
  <1>3. PICK ts, ns : Explains(ts, ns, raw, events, shots, term)
    BY <1>2 DEF Explained
  <1>4. Labelled(shots)
    BY <1>2 DEF Explained
  <1> QED BY <1>1, <1>3, <1>4, ReplayIs

LEMMA CaptureFollows ==
    ASSUME SessionInv
    PROVE  CaptureReplays
  <1>1. SessionTypeOK
    <2>1. (reader.got # <<>>) = (reader.pc = "apply")
      BY DEF SessionInv, StreamInv
    <2> QED BY <2>1 DEF SessionInv, SessionTypes, StreamInv, CourseInv, SessionTypeOK
  <1>2. JournalReplays
    BY JournalFollows DEF JournalReplays
  <1>3. RecordIsFinal
    BY DEF SessionInv, CourseInv, RecordIsFinal
  <1>4. CleanFinishIsWhole
    <2> SUFFICES ASSUME pc = "done", ~failed
                 PROVE  /\ raw = wrote /\ queue = <<>> /\ child # "running" /\ helper # "group"
                        /\ LET r == Replay(record.tty, record.events, record.shots)
                           IN  Certified(r) \/ (r.ok /\ r.term.sync)
      BY DEF CleanFinishIsWhole
    <2>1. error = "none" /\ ~term.partial /\ reader.pc = "done" /\ ~stop
      BY DEF SessionInv, CourseInv
    <2>2. reader.open = {} /\ reader.got = <<>>
      BY <2>1 DEF SessionInv, StreamInv
    <2>3. queue = <<>> /\ child # "running" /\ helper # "group"
      BY <2>2 DEF SessionInv, StreamInv, SlaveOpen
    <2>4. raw = wrote
      <3>1. raw \in Seq(Tokens)
        BY DEF SessionInv, SessionTypes
      <3>2. raw \o (<<>> \o <<>>) = raw
        BY <3>1
      <3> QED BY <2>2, <2>3, <3>2 DEF SessionInv, StreamInv
    <2>5. record = [tty |-> raw, events |-> events, shots |-> shots]
      BY DEF SessionInv, CourseInv
    <2>6. record.tty = raw /\ record.events = events /\ record.shots = shots
      BY <2>5
    <2>7. PICK r : r = Replay(record.tty, record.events, record.shots)
      OBVIOUS
    <2>8. r = [term |-> term, ok |-> TRUE]
      BY <2>1, <2>6, <2>7, JournalFollows
    <2>9. r.ok /\ r.term = term
      BY <2>8
    <2>10. term.replies = <<>>
      BY <2>1 DEF SessionInv, JournalInv
    <2>11. Certified(r) \/ (r.ok /\ r.term.sync)
      BY <2>1, <2>9, <2>10 DEF Certified, Incomplete
    <2> QED BY <2>3, <2>4, <2>7, <2>11
  <1> QED BY <1>1, <1>2, <1>3, <1>4 DEF CaptureReplays

\* A capture always replays: at every moment the bytes and the journal give
\* the screens that were taken, in their order, and the screen there is; a
\* clean finish has all the output and no process, and nothing is added
\* (_pump, snapshot and _finish in parity/terminal.py, replay in
\* parity/observe_cli_terminal.py).
THEOREM CapturesReplay == SessionSpec => []CaptureReplays
  <1>1. SessionInit => SessionInv
    BY SessionBegins
  <1>2. SessionInv /\ [SessionNext]_sessionVars => SessionInv'
    BY SessionStep
  <1>3. SessionInv => CaptureReplays
    BY CaptureFollows
  <1> QED BY <1>1, <1>2, <1>3, PTL DEF SessionSpec

=============================================================================
