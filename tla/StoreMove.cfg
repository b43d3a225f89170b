SPECIFICATION MoveAlone
CONSTANTS
    FeedIssues = {i, j}
    PageLimit = 1
    TombBase = 10
    MaxClock = 4
    MaxFeedIds = 3
    DBs = {a, b}
    Paths = {p}
    Prints = {x, y}
    NoPrint = none
    Annotations = {p}
    MaxBorn = 5
    Callers = {a, b}
    Whats = {v, w}
    MaxObs = 2
    MaxMade = 2
    Governed = {i}
    Locators = {l, m}
    Identity = s
    Closers = {c}
    MaxContent = 2
    MaxAttach = 3
    MaxTrail = 2
    Notes = {n}
    Concerns = {i, j, k}
    Lines = {x, y}
    MaxLines = 3
    Node <- FourStatuses
    RolesFor <- Roles
    EdgeSpace <- ForwardPairs
    MaxEdges = 4
    Layouts = {"vanilla", "relocated", "confless"}
    MaxCommits = 3
    MaxTokens = 3
    MaxInits = 4
INVARIANTS NothingLost
CHECK_DEADLOCK FALSE
