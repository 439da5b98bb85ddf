---------------------------- MODULE OracleLocks ----------------------------
(***************************************************************************)
(* The committed oracle of the parity suite on one platform:               *)
(* parity/locks.py with the samples of parity/samples.py.  A lane of       *)
(* captured evidence is turned into one lock per case, the locks are       *)
(* compared with the committed ones, and only a reviewed change is         *)
(* published: inventory, samples and lock one after the other, the         *)
(* manifest last, by the caller.  People change the program, the observer  *)
(* and the list of cases in between, and the update can be killed.         *)
(* policy.json, which never changes, and retired samples are left out.  A  *)
(* digest is modelled by what it digests; normalized bytes by one value    *)
(* per case and program.                                                   *)
(***************************************************************************)
EXTENDS Naturals, FiniteSets, TLC

CONSTANTS
    Cases,
    Bytes,          \* what a case may show, normalized
    WireCases,      \* W.. and T..: exec timing may be added to their ledgers
    ShellCases,     \* C17..: three shell timing sites
    ExecCases,      \* EXEC_LEDGER_CASES: echoes moved out of the history
    Selected,       \* the cases whose full bytes are samples
    Approved,       \* allowlists of the two re-pins: reviewed replacements,
    TimingApproved, \*   ledger-only replacements of the Rust re-pin,
    SpinnerApproved,\*   C42, one more terminal slot
    MadePending,    \*   cases the first re-pin turns into declarations
    CoveredBy,      \*   cases the Rust re-pin removes, with what covers them
    FrozenPending,  \* the declarations the Rust re-pin must leave alone
    Pins,           \* commits the manifest may name
    Zeros,          \* which durations may be measured as zero in one capture
    MaxEdits,       \* bound: edits by people
    Torn, None

(* The lists are literals in locks.py, samples.py and the fixtures they    *)
(* read: what the first re-pin makes pending is what the second finds      *)
(* frozen; what is removed is not pending, nor is what covers it, nor a    *)
(* sample.                                                                 *)
ASSUME OracleLocksAssumption ==
    /\ WireCases \cup ShellCases \cup ExecCases \cup Selected \cup FrozenPending
         \cup DOMAIN CoveredBy \cup UNION {CoveredBy[c] : c \in DOMAIN CoveredBy}
         \subseteq Cases
    /\ \A c \in DOMAIN CoveredBy : CoveredBy[c] \cap (DOMAIN CoveredBy \cup FrozenPending) = {}
    /\ MadePending \subseteq FrozenPending
    /\ FrozenPending \cap (DOMAIN CoveredBy \cup Selected) = {}
    /\ {"inventory", "lock"} \cap Cases = {}
    /\ Pins \subseteq {"first", "repin", "rust"}
    /\ \A zero \in Zeros : zero \subseteq {"top", "exec", "shell1", "shell2", "shell3"}
    /\ MaxEdits \in Nat

VARIABLES
    program,   \* [Cases -> Bytes]: what the reference shows for a case
    declared,  \* [Cases -> "absent" | "implemented" | "pending"]: the case list
    pin,       \* manifest: reference_commit
    tree,      \* manifest: normalized_tree_sha256
    lane,      \* None or the captured [declared, pin, evidence]
    archive,   \* the locks of the lane cached for the "repin" reference
    lock,      \* expected/<platform>.json: Torn or [cases, pin, tree]
    inventory, \* inventory.json: Torn or [declared, pin]
    samples,   \* [Cases -> bytes, Torn or None]
    update,    \* None or what update_lock has prepared and has yet to copy
    refused,   \* history: the last update was refused by a comparison
    edited,    \* history: somebody changed something since the last seal
    sealed,    \* the generated files when the manifest was last sealed, as committed
    edits

vars == <<program, declared, pin, tree, lane, archive, lock, inventory,
          samples, update, refused, edited, sealed, edits>>

-----------------------------------------------------------------------------
(* Evidence and locks.                                                     *)

Timed(c) == (IF c \in WireCases THEN {"exec"} ELSE {})
              \cup (IF c \in ShellCases THEN {"shell1", "shell2", "shell3"} ELSE {})

(* The rows of a replayed ledger.  A duration that was measured as zero    *)
(* leaves no row at a top-level trace slot; at the timing slots inside     *)
(* tool results it leaves none under the old observer and an identity row  *)
(* under the new one.                                                      *)
Rows(c, o, zero) ==
    LET row(s) == [site |-> s, identity |-> s \in zero] IN
    {row("path")}
      \cup {row(s) : s \in {"top"} \ zero}
      \cup {row(s) : s \in IF o = "old" THEN Timed(c) \ zero ELSE Timed(c)}
      \cup (IF c \in ExecCases
            THEN {row(s) : s \in IF o = "old" THEN {"history"} ELSE {"cacheEcho", "traceEcho"}}
            ELSE {})
      \cup (IF c \in SpinnerApproved /\ o = "new" THEN {row("spinner")} ELSE {})

Evidence(c, o, zero) == [bytes |-> program[c], rows |-> Rows(c, o, zero)]

(* ledger_contract with timing_sites: the sites of the rows, and every     *)
(* eligible top-level timing slot whether it left a row or not.            *)
LedgerContract(ev) == {r.site : r \in ev.rows} \cup {"top"}

CaseLock(ev) == [bytes |-> ev.bytes, ledger |-> LedgerContract(ev)]

TreeDigest(locks) == [c \in DOMAIN locks |-> locks[c].bytes]

Pack(locks, p) == [cases |-> locks, pin |-> p, tree |-> TreeDigest(locks)]

Executable(cs) == {c \in Cases : cs[c] = "implemented"}

NewCases == [c \in Executable(lane.declared) |-> CaseLock(lane.evidence[c])]

-----------------------------------------------------------------------------
(* Ordinary updates: what may change in the lock of an old case.           *)

LedgerOnly(prev, new) == prev # new /\ prev.bytes = new.bytes

(* approved_zero_exec_timing_updates: without the identity rows of exec    *)
(* durations the evidence is the old lock.                                 *)
ZeroExecTiming(prev, new, ev) ==
    LET zero == {r \in ev.rows : r.identity} IN
    /\ LedgerOnly(prev, new)
    /\ zero # {}
    /\ CaseLock([ev EXCEPT !.rows = @ \ zero]) = prev

(* approved_shell_timing_updates: exactly one way to leave out some of the *)
(* three sites gives the old lock.                                         *)
ShellTiming(prev, new, ev) ==
    LET sites == {"shell1", "shell2", "shell3"}
        masks == {m \in SUBSET sites : [new EXCEPT !.ledger = @ \ m] = prev}
    IN LedgerOnly(prev, new) /\ sites \subseteq LedgerContract(ev) /\ Cardinality(masks) = 1

(* approved_exec_ledger_updates: the echoes are there, the history sites   *)
(* are not, and only the complete relocation gives the old lock.           *)
ExecLedger(prev, new, ev) ==
    LET inverse(m) == (new.ledger \ (m \cap {"cacheEcho", "traceEcho"})) \cup (m \cap {"history"})
        groups == {"cacheEcho", "traceEcho", "history"}
    IN /\ LedgerOnly(prev, new)
       /\ {"cacheEcho", "traceEcho"} \subseteq new.ledger /\ "history" \notin new.ledger
       /\ {m \in SUBSET groups : inverse(m) = prev.ledger} = {groups}

ReviewedMigration(c, prev, new, ev) ==
    \/ c \in WireCases /\ ZeroExecTiming(prev, new, ev)
    \/ c \in ShellCases /\ ShellTiming(prev, new, ev)
    \/ c \in ExecCases /\ ExecLedger(prev, new, ev)

(* protect_wire_locks and protect_previous_locks after the migrations.     *)
OrdinaryUpdate(old, new) ==
    \A c \in DOMAIN old :
       /\ c \in DOMAIN new
       /\ old[c] = new[c] \/ ReviewedMigration(c, old[c], new[c], lane.evidence[c])

-----------------------------------------------------------------------------
(* Re-pins: the reference itself changes.                                  *)

Changed(old, new) == {c \in DOMAIN old \cap DOMAIN new : old[c] # new[c]}
Added(old, new) == DOMAIN new \ DOMAIN old
Removed(old, new) == DOMAIN old \ DOMAIN new

\* faulty: what the new reference shows differently is not compared with the list
RepinAnyChange(old, new, from) ==
    /\ from \in {"first", "repin"}
    /\ Removed(old, new) \subseteq MadePending
    /\ \A c \in MadePending : lane.declared[c] = "pending"
(* verify_repin and pending_repin_metadata.                                *)
VerifyRepin(old, new, from) ==
    /\ from \in {"first", "repin"}
    /\ Changed(old, new) \cup Added(old, new) \subseteq Approved \ MadePending
    /\ Removed(old, new) \subseteq MadePending
    /\ \A c \in MadePending : lane.declared[c] = "pending"

(* verify_rust_shell_timing, against the lane cached for the old pin.      *)
RustTiming(c, prev, new) ==
    /\ prev.bytes = new.bytes
    /\ c \in DOMAIN archive /\ archive[c] = prev
    /\ prev.ledger \ Timed(c) = new.ledger \ Timed(c)

(* verify_markdown_progress_ledger with its inverse.                       *)
SpinnerOnly(c, prev, new) ==
    /\ prev.bytes = new.bytes
    /\ c \in DOMAIN archive /\ archive[c] = prev
    /\ "spinner" \in new.ledger /\ new.ledger \ {"spinner"} = prev.ledger

(* verify_covered_removals.                                                *)
CoveredRemovals(old, new) ==
    /\ Removed(old, new) \subseteq DOMAIN CoveredBy
    /\ \A c \in Removed(old, new) : \A t \in CoveredBy[c] :
          t \in DOMAIN old /\ t \in DOMAIN new /\ old[t] = new[t]

(* verify_rust_repin, verify_rust_pending_inventory and                    *)
(* verify_covered_removal_inventory.                                       *)
VerifyRustRepin(old, new, from) ==
    /\ from \in {"repin", "rust"}
    /\ Added(old, new) = {}
    /\ Changed(old, new) \subseteq Approved \cup TimingApproved \cup SpinnerApproved
    /\ \A c \in Changed(old, new) :
          /\ c \in TimingApproved => RustTiming(c, old[c], new[c])
          /\ c \in SpinnerApproved => SpinnerOnly(c, old[c], new[c])
    /\ CoveredRemovals(old, new)
    /\ \A ds \in {inventory.declared, lane.declared} : {c \in Cases : ds[c] = "pending"} = FrozenPending
    /\ Removed(old, new) # {} =>
          \A c \in Cases : lane.declared[c] # inventory.declared[c] =>
             lane.declared[c] = "absent" /\ c \in Removed(old, new)

(* verify_shared_inventory and, for a re-pin, verify_previous_inventory:   *)
(* the published inventory is of this reference, or of the one before it.  *)
PreviousInventory ==
    \/ inventory.pin = pin
    \/ pin = "repin" /\ lock.pin \in {"first", "repin"}
    \/ pin = "rust" /\ lock.pin \in {"repin", "rust"}

Accepted(old, new) ==
    /\ PreviousInventory
    /\ CASE pin = "repin" -> VerifyRepin(old, new, lock.pin)
         [] pin = "rust"  -> VerifyRustRepin(old, new, lock.pin)
         [] OTHER         -> OrdinaryUpdate(old, new)

FullReplay(old, new) ==
    IF pin = "repin" THEN Changed(old, new) \cup Added(old, new)
    ELSE IF pin = "rust" THEN Changed(old, new) ELSE {}

(* refresh_samples: every selected case, from the lane.                    *)
RefreshSamples(new) ==
    [c \in Cases |-> IF c \in Selected THEN new[c].bytes ELSE samples[c]]

SamplesAllowed(old, new) ==
    \A c \in Selected :
       /\ c \in DOMAIN new
       /\ samples[c] \in {None, new[c].bytes} \/ c \in FullReplay(old, new)

-----------------------------------------------------------------------------
Init ==
    /\ \E b \in Bytes : program = [c \in Cases |-> b]
    /\ \E later \in Cases \cup {None} :   \* a case that is not written yet
          declared = [c \in Cases |-> IF c \in FrozenPending \ MadePending THEN "pending"
                                     ELSE IF c = later /\ c \notin Selected THEN "absent"
                                     ELSE "implemented"]
    /\ pin \in Pins \ {"rust"}
    /\ \E o \in {"old", "new"}, zero \in Zeros :
          LET locks == [c \in Executable(declared) |-> CaseLock(Evidence(c, o, zero))]
          IN /\ lock = Pack(locks, pin)
             /\ inventory = [declared |-> declared, pin |-> pin]
             /\ samples = [c \in Cases |-> IF c \in Selected THEN program[c] ELSE None]
             /\ tree = TreeDigest(locks)
             /\ archive = IF pin = "repin" THEN locks ELSE <<>>
    /\ sealed = [lock |-> lock, inventory |-> inventory, samples |-> samples]
    /\ lane = None /\ update = None /\ refused = FALSE
    /\ edited = TRUE   \* the observer is newer than the lock
    /\ edits = 0

files == <<lock, inventory, samples>>

(* People, when no update is under way (ReferenceCache has the others): a  *)
(* change of the program under test, of the case list or of the pin in the *)
(* manifest; or git takes the generated files back.                        *)
Edit ==
    /\ update = None /\ lane = None /\ edits < MaxEdits
    /\ edits' = edits + 1 /\ edited' = TRUE
    /\ UNCHANGED <<tree, lane, archive, files, update, refused, sealed>>

ChangeProgram(c, b) ==
    Edit /\ program[c] # b /\ program' = [program EXCEPT ![c] = b] /\ UNCHANGED <<declared, pin>>

Declare(c, d) ==
    Edit /\ declared[c] # d /\ declared' = [declared EXCEPT ![c] = d] /\ UNCHANGED <<program, pin>>

MovePin(p) == Edit /\ pin # p /\ pin' = p /\ UNCHANGED <<program, declared>>

Checkout ==
    /\ update = None /\ lane = None
    /\ <<lock, inventory, samples>> # <<sealed.lock, sealed.inventory, sealed.samples>>
    /\ lock' = sealed.lock /\ inventory' = sealed.inventory /\ samples' = sealed.samples
    /\ refused' = FALSE
    /\ UNCHANGED <<program, declared, pin, tree, lane, archive, update, edited, sealed, edits>>

(* The reference runs every declared case; durations may come out as zero. *)
Capture(zero) ==
    /\ update = None /\ lane = None
    /\ lane' = [declared |-> declared, pin |-> pin,
                evidence |-> [c \in Executable(declared) |-> Evidence(c, "new", zero)]]
    /\ refused' = FALSE
    /\ UNCHANGED <<program, declared, pin, tree, archive, files, update, edited, sealed, edits>>

(* update_lock up to the first file it writes.                             *)
Comparable ==
    /\ update = None /\ lane # None
    /\ lane.declared = declared /\ lane.pin = pin      \* verify_inventory
    /\ lock # Torn /\ inventory # Torn

MayUpdate == Accepted(lock.cases, NewCases) /\ SamplesAllowed(lock.cases, NewCases)

PrepareUpdate ==
    /\ Comparable /\ MayUpdate
    /\ update' = [locks |-> NewCases, samples |-> RefreshSamples(NewCases),
                  todo |-> {"inventory", "lock"} \cup Selected]
    /\ refused' = FALSE
    /\ UNCHANGED <<program, declared, pin, tree, lane, archive, files, edited, sealed, edits>>

RefuseUpdate ==
    /\ Comparable /\ ~MayUpdate
    /\ refused' = TRUE /\ lane' = None
    /\ UNCHANGED <<program, declared, pin, tree, archive, files, update, edited, sealed, edits>>

(* shutil.copyfile of one generated file; the inventory comes first, the   *)
(* lock last.                                                              *)
Copyable(f) ==
    /\ update # None /\ f \in update.todo
    /\ f # "inventory" => "inventory" \notin update.todo
    /\ f = "lock" => update.todo = {"lock"}

Write(f, inv, smp, lck) ==
    CASE f = "inventory" -> inventory' = inv /\ UNCHANGED <<samples, lock>>
      [] f = "lock"      -> lock' = lck /\ UNCHANGED <<samples, inventory>>
      [] OTHER           -> samples' = [samples EXCEPT ![f] = smp] /\ UNCHANGED <<inventory, lock>>

CopyFile(f) ==
    /\ Copyable(f)
    /\ Write(f, [declared |-> declared, pin |-> pin],
             IF f \in Cases THEN update.samples[f] ELSE None, Pack(update.locks, pin))
    /\ update' = [update EXCEPT !.todo = @ \ {f}]
    /\ UNCHANGED <<program, declared, pin, tree, lane, archive, refused, edited, sealed, edits>>

(* The caller writes the manifest when every file has been copied.         *)
Seal ==
    /\ update # None /\ update.todo = {}
    /\ tree' = TreeDigest(update.locks)
    /\ sealed' = [lock |-> lock, inventory |-> inventory, samples |-> samples]
    /\ archive' = IF pin = "repin" THEN update.locks ELSE archive
    /\ update' = None /\ lane' = None /\ edited' = FALSE
    /\ UNCHANGED <<program, declared, pin, files, refused, edits>>

(* The update is killed before it writes, between two files, or while it   *)
(* copies one, or stops because it cannot read a torn one.                 *)
Kill ==
    /\ lane # None
    /\ update' = None /\ lane' = None
    /\ \/ UNCHANGED files
       \/ \E f \in {"inventory", "lock"} \cup Cases : Copyable(f) /\ Write(f, Torn, Torn, Torn)
    /\ UNCHANGED <<program, declared, pin, tree, archive, refused, edited, sealed, edits>>

Next ==
    \/ \E c \in Cases, b \in Bytes : ChangeProgram(c, b)
    \/ \E c \in Cases, d \in {"absent", "implemented", "pending"} : Declare(c, d)
    \/ \E p \in Pins : MovePin(p)
    \/ Checkout
    \/ \E zero \in Zeros : Capture(zero)
    \/ PrepareUpdate \/ RefuseUpdate
    \/ \E f \in {"inventory", "lock"} \cup Cases : CopyFile(f)
    \/ Seal \/ Kill

Spec == Init /\ [][Next]_vars

-----------------------------------------------------------------------------
\* faulty: the digest in the manifest is not looked at
ReadLockUnsealed ==
    /\ {lock, inventory} \cap {Torn} = {}
    /\ Executable(inventory.declared) = DOMAIN lock.cases
    /\ lock.tree = TreeDigest(lock.cases)
    /\ lock.pin = pin /\ inventory.pin = pin /\ inventory.declared = declared
(* read_lock with unpack: when a comparison of a candidate takes the lock. *)
ReadLock ==
    /\ lock # Torn /\ inventory # Torn
    /\ Executable(inventory.declared) = DOMAIN lock.cases
    /\ lock.tree = TreeDigest(lock.cases)
    /\ lock.pin = pin /\ inventory.pin = pin /\ inventory.declared = declared
    /\ lock.tree = tree

-----------------------------------------------------------------------------
(* The variables have the values that the files and processes can have.    *)
TypeOK ==
    /\ program \in [Cases -> Bytes]
    /\ declared \in [Cases -> {"absent", "implemented", "pending"}]
    /\ pin \in Pins /\ edits \in 0..MaxEdits
    /\ {refused, edited} \subseteq BOOLEAN
    /\ lock # Torn => DOMAIN lock.cases \subseteq Cases /\ lock.pin \in Pins
    /\ inventory # Torn => inventory.pin \in Pins
    /\ samples \in [Cases -> Bytes \cup {Torn, None}]
    /\ update # None => update.todo \subseteq {"inventory", "lock"} \cup Selected

(* A case that was removed because others cover it stays covered: they are *)
(* in the sealed oracle after every later update too.                      *)
RemovedStayCovered ==
    \A c \in DOMAIN CoveredBy \ DOMAIN sealed.lock.cases :
       CoveredBy[c] \subseteq DOMAIN sealed.lock.cases

(* An update is refused only if something changed: another capture of the  *)
(* same reference, with other durations, gives the same locks.  (A sample  *)
(* that a killed update left torn is the exception; git has the old one.)  *)
RefusedMeansChanged == refused => edited \/ \E c \in Selected : samples[c] = Torn

(* The samples that reviewers read are the bytes of the sealed locks.      *)
SamplesShowLock ==
    \A c \in Selected : sealed.samples[c] = sealed.lock.cases[c].bytes

(* A comparison never takes an oracle whose bytes were not sealed: after a *)
(* killed update it takes the old bytes or refuses.                        *)
AcceptedWasSealed ==
    ReadLock => TreeDigest(lock.cases) = TreeDigest(sealed.lock.cases)

(* Locks are refused only when something changed, taken only as sealed,    *)
(* shown by the samples, and cover what was removed: update_lock with      *)
(* refresh_samples and verify_covered_removals, read_lock.                 *)
LocksAreSealed ==
    /\ TypeOK
    /\ RefusedMeansChanged
    /\ AcceptedWasSealed
    /\ RemovedStayCovered
    /\ SamplesShowLock

(* Area expansion never refreshes an existing result: from one sealed      *)
(* oracle to the next, under an ordinary pin, no case disappears, no       *)
(* normalized byte changes, and a ledger changes only in the sites that    *)
(* were reviewed for it; a re-pin changes bytes of approved cases only and *)
(* drops only the cases it lists.  Killed updates in between make no       *)
(* difference.                                                             *)
Dropped(old, new) == DOMAIN old \ DOMAIN new
Rewritten(old, new) == {c \in DOMAIN old \cap DOMAIN new : old[c].bytes # new[c].bytes}
ReviewedSites(c) == Timed(c) \cup (IF c \in ExecCases THEN {"history", "cacheEcho", "traceEcho"} ELSE {})

ReviewedChange(old, new, p) ==
    IF p = "first"
    THEN /\ Dropped(old, new) = {} /\ Rewritten(old, new) = {}
         /\ \A c \in DOMAIN old :
               old[c].ledger \ ReviewedSites(c) = new[c].ledger \ ReviewedSites(c)
    ELSE /\ Dropped(old, new) \subseteq MadePending \cup DOMAIN CoveredBy
         /\ Rewritten(old, new) \subseteq Approved

OnlyReviewedChanges ==
    [][sealed' # sealed => ReviewedChange(sealed.lock.cases, sealed'.lock.cases, pin)]_vars
=============================================================================
