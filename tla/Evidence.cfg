SPECIFICATION SceneSpec
CONSTANTS
  v1 = v1
  v2 = v2
  o1 = o1
  o2 = o2
  a = a
  b = b
  CutShort = CutShort
  Nothing = Nothing
  Captures = {k1}
  Comparisons = {r1, r2}
  Commits = {v1, v2}
  Oracles = {o1, o2}
  SampleOf <- OwnSample
  LockOf <- OwnLock
  EditsDuringCapture = FALSE
  gone = gone
  cover = cover
  shell = shell
  wire = wire
  exec = exec
  spinner = spinner
  Torn = Torn
  None = None
  Cases = {gone, cover, shell, wire, exec, spinner}
  Bytes = {1, 2}
  WireCases = {wire}
  ShellCases = {shell}
  ExecCases = {exec}
  Selected = {shell}
  Approved = {cover, exec}
  TimingApproved = {shell}
  SpinnerApproved = {spinner}
  MadePending = {wire}
  FrozenPending = {wire}
  CoveredBy <- CoveredByOne
  Pins = {"first", "repin", "rust"}
  Zeros <- SomeZeros
  MaxEdits = 3
  MaxRows = 3
  MaxCols = 3
  MaxSaved = 1
  Programs <- Written
  Helpers = {"none", "group", "escaped"}
  Sizes = {"small"}
  Labels = {"a", "b"}
  RawLimit = 4
  MaxResizes = 1
INVARIANTS ComparedIsSealed LocksAreSealed CaptureReplays ScreenIsWhole
PROPERTIES OnlyReviewedChanges CapturesAreKept
CHECK_DEADLOCK FALSE
