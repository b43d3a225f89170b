SPECIFICATION SceneSpec
CONSTANTS
  States <- TaskStates
  Category <- TaskCategory
  InitialState = "open"
  Transitions <- TaskTransitions
  ReverseTransitions <- TaskReverse
  Field = {"close_reason", "context"}
  RequiredAt <- TaskRequiredAt
  Archived = "archived"
  Nil = Nil
  Issue = {i1}
  Agent = {alice, bob}
  NoOne = NoOne
  Priority = {0, 1}
  CloseReason = "close_reason"
  LeaseLength = 1
  RequestId = {}
  UpdateRequest <- AllUpdates
  CreateRequest <- AllCreates
  ArchiveAge = {0}
  KeepRecent = {0, 2}
  MaxNow = 1
  MaxEvents = 6
  HistoryEvents = 6
  ClaimEvents = 6
  AllEvents = 2
SYMMETRY AgentSymmetry
INVARIANTS TypeOK ColumnsAgree RowExplained UndoneOnce ShortcutsAudited
PROPERTIES CompactionKeepsUndo ArchivedUntilUndone ClaimsNotStolen FirstClosureStands
CHECK_DEADLOCK FALSE
