SPECIFICATION WaitingSpec
CONSTANTS
  States <- TaskStates
  Category <- TaskCategory
  InitialState = "open"
  Transitions <- TaskTransitions
  ReverseTransitions <- TaskReverse
  RequiredAt <- TaskRequiredAt
  Field = {"close_reason"}
  Archived = "archived"
  Nil = Nil
  NoOne = NoOne
  CloseReason = "close_reason"
  LeaseLength = 1
  ArchiveAge = {0}
  Issue = {i1, i2}
  Priority = {0}
  KeepRecent = {1}
  Session = {c1, c2}
  UpdateRequest <- NoMoves
  CreateRequest <- TriagedBugs
  Agent = {"alice", "bob"}
  RequestId = {}
  HeldWindow = 0
  MaxNow = 0
  MaxEvents = 9
  PickEvents = 0
  NamedEvents = 0
    toolA = toolA
    toolB = toolB
    command = command
    server = server
    shell = shell
    Nobody = Nobody
    Task <- MCTask
    Conn <- MCConn
    ConnOf <- MCConnOf
    Attempts = 2
    Calls <- MCCalls
PROPERTIES WritesAreAtomic CallsAnswered CallsReturn
CHECK_DEADLOCK FALSE
