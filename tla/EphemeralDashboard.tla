------------------------- MODULE EphemeralDashboard --------------------------
(***************************************************************************)
(* The dashboard of one project in ephemeral mode (hooks.py, ephemeral.py, *)
(* dashboard.main).  Sessions make sure that one runs: a probe without the *)
(* lock, then under ephemeral.lock a second probe that may clean up, the   *)
(* spawn, and the record in ephemeral.pid and ephemeral.port.  A dashboard *)
(* ends by itself, and on its way out removes both files without the lock  *)
(* and without asking whom they name.  A dashboard that a person starts by *)
(* hand is never recorded, but removes the files all the same.             *)
(***************************************************************************)
EXTENDS Naturals, FiniteSets, TLC

CONSTANTS
    Sessions,     \* the session hooks
    Dashboards,   \* the dashboard processes, each started once
    Ports,        \* the ports that find_available_port tries
    NoProcess,    \* nobody: a missing ephemeral.pid, an unheld lock
    NoPort        \* a missing ephemeral.port

ASSUME NobodyAssumption ==
    NoProcess \notin Sessions \cup Dashboards /\ NoPort \notin Ports

VARIABLES
    life,      \* what each dashboard process does
    serves,    \* the --port each was started with
    pidFile,   \* the process that ephemeral.pid names
    aged,      \* the startup grace of that record is over
    portFile,  \* the port that ephemeral.port names
    lock,      \* the session that holds ephemeral.lock
    at,        \* where each session is in _ensure_dashboard_ethereal_mode
    seen,      \* the record each session has read under the lock
    child,     \* the process each session has spawned
    excused    \* why a dashboard may run without a record

dashVars == <<life, serves, pidFile, aged, portFile, lock, at, seen, child, excused>>

NoRecord == [pid |-> NoProcess, port |-> NoPort]

Runs(d) == life[d] \in {"booting", "listening", "closing", "unlinked"}

\* verify_pid_ownership: the process lives, and its argv carries the recorded port.
Owned(d) == d # NoProcess /\ Runs(d)

IsListening(port) == \E d \in Dashboards : life[d] = "listening" /\ serves[d] = port

\* _is_port_free
Free(port) == ~IsListening(port)

DashboardInit ==
    /\ life = [d \in Dashboards |-> "none"]
    /\ serves = [d \in Dashboards |-> NoPort]
    /\ pidFile = NoProcess /\ aged = FALSE /\ portFile = NoPort
    /\ lock = NoProcess
    /\ at = [s \in Sessions |-> "idle"]
    /\ seen = [s \in Sessions |-> NoRecord]
    /\ child = [s \in Sessions |-> NoProcess]
    /\ excused = {}

\* The two unlinks of a session are done under the lock, next to each other.
RecordRemoved == pidFile' = NoProcess /\ portFile' = NoPort /\ aged' = FALSE

RecordKept == UNCHANGED <<pidFile, portFile, aged>>

\* finally: lock_fd.close(), wherever the hook returns.
Returns(s) ==
    /\ at' = [at EXCEPT ![s] = "idle"]
    /\ seen' = [seen EXCEPT ![s] = NoRecord]
    /\ child' = [child EXCEPT ![s] = NoProcess]
    /\ lock' = IF lock = s THEN NoProcess ELSE lock

Moves(s, to) == at' = [at EXCEPT ![s] = to]

(***************************************************************************)
(* What a probe makes of a record: it is absent, not ours, usable (the     *)
(* port accepts, or the grace runs), or an orphan.                         *)
(***************************************************************************)
Verdict(record) ==
    IF record.pid = NoProcess \/ record.port = NoPort THEN "absent"
    ELSE IF ~Owned(record.pid) THEN "foreign"
    ELSE IF IsListening(record.port) \/ ~aged THEN "usable"
    ELSE "orphan"

\* Mistake: the probe before the lock removes what it finds unusable.
ProbeAndClean(s) ==
    /\ at[s] = "idle"
    /\ \E d \in Dashboards : life[d] = "none"
    /\ IF Verdict([pid |-> pidFile, port |-> portFile]) = "usable"
       THEN UNCHANGED at /\ RecordKept
       ELSE Moves(s, "locking") /\ RecordRemoved
    /\ UNCHANGED <<life, serves, lock, seen, child, excused>>

\* The probe before the lock reads only.
Probe(s) ==
    /\ at[s] = "idle"
    /\ \E d \in Dashboards : life[d] = "none"
    /\ IF Verdict([pid |-> pidFile, port |-> portFile]) = "usable"
       THEN UNCHANGED at
       ELSE Moves(s, "locking")
    /\ RecordKept
    /\ UNCHANGED <<life, serves, lock, seen, child, excused>>

\* LOCK_NB: whoever finds the lock taken leaves the start to its holder.
\* Its holder cleans a stale PID file, and the PID file only.
Lock(s) ==
    /\ at[s] = "locking"
    /\ IF lock = NoProcess
       THEN /\ lock' = s
            /\ Moves(s, "probing")
            /\ pidFile' = IF Owned(pidFile) THEN pidFile ELSE NoProcess
            /\ UNCHANGED <<seen, child>>
       ELSE Returns(s) /\ UNCHANGED pidFile
    /\ UNCHANGED <<life, serves, aged, portFile, excused>>

\* The probe under the lock: it reads ...
Reread(s) ==
    /\ at[s] = "probing"
    /\ seen' = [seen EXCEPT ![s] = [pid |-> pidFile, port |-> portFile]]
    /\ Moves(s, "judging")
    /\ RecordKept
    /\ UNCHANGED <<life, serves, lock, child, excused>>

\* ... and acts on what it has read.
Judge(s) ==
    /\ at[s] = "judging"
    /\ LET verdict == Verdict(seen[s]) IN
       \/ verdict = "usable" /\ Returns(s) /\ RecordKept
       \/ verdict = "absent" /\ Moves(s, "spawning") /\ RecordKept
          /\ UNCHANGED <<lock, seen, child>>
       \/ verdict = "foreign" /\ Moves(s, "spawning") /\ RecordRemoved
          /\ UNCHANGED <<lock, seen, child>>
       \/ verdict = "orphan" /\ Moves(s, "terminating") /\ RecordKept
          /\ UNCHANGED <<lock, seen, child>>
    /\ UNCHANGED <<life, serves, excused>>

(***************************************************************************)
(* _terminate_orphan_dashboard: SIGTERM, up to two seconds for the process *)
(* to end, then SIGKILL.  A dashboard that has not reached uvicorn.run     *)
(* dies of the first signal; another starts to close.                      *)
(***************************************************************************)
Signal(s) ==
    /\ at[s] = "terminating"
    /\ life' = [life EXCEPT ![seen[s].pid] =
                   CASE @ = "booting" -> "gone" [] @ = "listening" -> "closing" [] OTHER -> @]
    /\ Moves(s, "reaping")
    /\ RecordKept
    /\ UNCHANGED <<serves, lock, seen, child, excused>>

Reap(s) ==
    /\ at[s] = "reaping"
    /\ life' = [life EXCEPT ![seen[s].pid] = "gone"]
    /\ RecordRemoved
    /\ Moves(s, "spawning")
    /\ UNCHANGED <<serves, lock, seen, child, excused>>

\* find_available_port and Popen; either may fail, and then nothing has started.
Spawn(s) ==
    /\ at[s] = "spawning"
    /\ \/ \E d \in Dashboards, port \in Ports :
            /\ life[d] = "none" /\ Free(port)
            /\ life' = [life EXCEPT ![d] = "booting"]
            /\ serves' = [serves EXCEPT ![d] = port]
            /\ child' = [child EXCEPT ![s] = d]
            /\ Moves(s, "recording")
            /\ UNCHANGED <<lock, seen>>
       \/ Returns(s) /\ UNCHANGED <<life, serves>>
    /\ RecordKept
    /\ UNCHANGED excused

WritePid(s) ==
    /\ at[s] = "recording"
    /\ pidFile' = child[s] /\ aged' = FALSE
    /\ Moves(s, "recorded")
    /\ UNCHANGED <<life, serves, portFile, lock, seen, child, excused>>

WritePort(s) ==
    /\ at[s] = "recorded"
    /\ portFile' = serves[child[s]]
    /\ Moves(s, "waiting")
    /\ UNCHANGED <<life, serves, pidFile, aged, lock, seen, child, excused>>

\* An OSError of either write: the detached child is terminated with its record.
WriteFails(s) ==
    /\ at[s] \in {"recording", "recorded"}
    /\ life' = [life EXCEPT ![child[s]] = "gone"]
    /\ RecordRemoved
    /\ Returns(s)
    /\ UNCHANGED <<serves, excused>>

\* Ten polls: the child has exited, or it listens, or the hook stops waiting.
Await(s) ==
    /\ at[s] = "waiting"
    /\ IF life[child[s]] = "gone" THEN RecordRemoved ELSE RecordKept
    /\ Returns(s)
    /\ UNCHANGED <<life, serves, excused>>

(***************************************************************************)
(* A dashboard process.  It may give up before it serves (a configuration  *)
(* error, a schema of the future, a locked database): no file is touched.  *)
(* From uvicorn.run on, every way out passes the finally clause.           *)
(***************************************************************************)
Serve(d) ==
    /\ life[d] = "booting"
    /\ life' = [life EXCEPT ![d] = IF Free(serves[d]) THEN "listening" ELSE "closing"]
    /\ UNCHANGED <<serves, pidFile, aged, portFile, lock, at, seen, child, excused>>

GiveUp(d) ==
    /\ life[d] = "booting"
    /\ life' = [life EXCEPT ![d] = "gone"]
    /\ UNCHANGED <<serves, pidFile, aged, portFile, lock, at, seen, child, excused>>

\* The idle watchdog, or a person's Ctrl-C.
Close(d) ==
    /\ life[d] = "listening"
    /\ life' = [life EXCEPT ![d] = "closing"]
    /\ UNCHANGED <<serves, pidFile, aged, portFile, lock, at, seen, child, excused>>

\* The finally clause unlinks ephemeral.pid first and ephemeral.port next,
\* whomever they name.
UnlinkPid(d) ==
    /\ life[d] = "closing"
    /\ life' = [life EXCEPT ![d] = "unlinked"]
    /\ excused' = excused \cup ({pidFile} \ {d, NoProcess})
    /\ pidFile' = NoProcess /\ aged' = FALSE
    /\ UNCHANGED <<serves, portFile, lock, at, seen, child>>

UnlinkPort(d) ==
    /\ life[d] = "unlinked"
    /\ life' = [life EXCEPT ![d] = "gone"]
    /\ excused' = excused \cup ({pidFile} \ {d, NoProcess})
    /\ portFile' = NoPort
    /\ UNCHANGED <<serves, pidFile, aged, lock, at, seen, child>>

\* `filigree dashboard` at a prompt: no lock, no record.
StartByHand(d, port) ==
    /\ life[d] = "none"
    /\ life' = [life EXCEPT ![d] = "booting"]
    /\ serves' = [serves EXCEPT ![d] = port]
    /\ excused' = excused \cup {d}
    /\ UNCHANGED <<pidFile, aged, portFile, lock, at, seen, child>>

\* DASHBOARD_STARTUP_GRACE_SECONDS have passed since the record was written.
GraceEnds ==
    /\ pidFile # NoProcess /\ ~aged
    /\ aged' = TRUE
    /\ UNCHANGED <<life, serves, pidFile, portFile, lock, at, seen, child, excused>>

\* Faults.  A killed dashboard leaves its record; a killed hook leaves its lock
\* to the system, and its child as it is.
DashboardKilled(d) ==
    /\ Runs(d)
    /\ life' = [life EXCEPT ![d] = "gone"]
    /\ UNCHANGED <<serves, pidFile, aged, portFile, lock, at, seen, child, excused>>

SessionKilled(s) ==
    /\ at[s] # "idle"
    /\ Returns(s)
    /\ excused' = excused \cup ({child[s]} \ {NoProcess})
    /\ UNCHANGED <<life, serves, pidFile, aged, portFile>>

SessionStep(s) ==
    \/ Probe(s) \/ Lock(s) \/ Reread(s) \/ Judge(s) \/ Signal(s) \/ Reap(s)
    \/ Spawn(s) \/ WritePid(s) \/ WritePort(s) \/ WriteFails(s) \/ Await(s)

DashboardStep(d) ==
    Serve(d) \/ GiveUp(d) \/ Close(d) \/ UnlinkPid(d) \/ UnlinkPort(d)

DashboardNext ==
    \/ \E s \in Sessions : SessionStep(s) \/ SessionKilled(s)
    \/ \E d \in Dashboards : DashboardStep(d) \/ DashboardKilled(d)
    \/ \E d \in Dashboards, port \in Ports : StartByHand(d, port)
    \/ GraceEnds

DashboardSpec == DashboardInit /\ [][DashboardNext]_dashVars

\* No dashboard runs unseen: one that ephemeral.pid and ephemeral.port do not
\* both name is still in the hands of the session that spawned it, is on its
\* way out, was started by hand, lost its record to the exit of another
\* dashboard, or was left by a killed hook.  Every other way to lose track of a
\* live dashboard (and so to start a second one) would be the sessions' doing.
LeaksExplained ==
    \A d \in Dashboards :
        (life[d] \in {"booting", "listening"} /\ d \notin excused) =>
            \/ pidFile = d /\ portFile = serves[d]
            \/ \E s \in Sessions : lock = s /\ child[s] = d
=============================================================================
