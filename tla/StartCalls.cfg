SPECIFICATION SceneSpec
CONSTANTS
  States <- BugStates
  Category <- BugCategory
  InitialState = "triage"
  Transitions <- BugTransitions
  ReverseTransitions <- BugReverse
  RequiredAt <- BugRequiredAt
  Field = {"close_reason", "severity", "root_cause", "fix_verification"}
  Archived = "archived"
  Nil = Nil
  NoOne = NoOne
  CloseReason = "close_reason"
  LeaseLength = 1
  ArchiveAge = {0}
  Issue = {i1, i2}
  Priority = {0}
  KeepRecent = {1}
  Session = {c1, c2}
  UpdateRequest <- BugMoves
  CreateRequest <- AllBugs
  Agent = {"alice", "bob"}
  RequestId = {"r1"}
  HeldWindow = 0
  MaxNow = 1
  MaxEvents = 10
  PickEvents = 6
  NamedEvents = 7
INVARIANTS PicksOnce
PROPERTY StartEndsWorking
CHECK_DEADLOCK FALSE
