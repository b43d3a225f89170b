SPECIFICATION UpgradeAlone
CONSTANTS
    Subjects = {s1, s2}
    NoStatus = none
    Sessions = {s1, s2}
    Dashboards = {d1, d2, d3}
    Ports = {p1, p2}
    NoProcess = nobody
    NoPort = noport
    Callers = {s1, s2}
    Daemons = {d1, d2, d3}
    NoDaemon = nodaemon
    Threads = {s1, s2}
    Hooks = {s1, s2}
    Keys = {k}
    Paths = {p1, p2}
    Handles = {d1, d2, d3}
    None = nil
    Openers = {d1, d2, d3}
    FirstSeen = {0, 1, 14, 24, 25, 26}
    Contents = {0, 1}
INVARIANT DriftRemembered
CHECK_DEADLOCK FALSE
