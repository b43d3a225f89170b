---------------------------- MODULE ServerDaemon -----------------------------
(***************************************************************************)
(* The server daemon and its record server.pid (server.py, and the         *)
(* `dashboard --server-mode` command of cli_commands/admin.py).  Starting, *)
(* stopping and claiming are done under server.lock.  Two things are not:  *)
(* the health check of a start, which removes the record of a daemon that  *)
(* exited at once, and the release at a daemon's end, which renames the    *)
(* record away, looks at it, and removes it or puts it back.               *)
(***************************************************************************)
EXTENDS Naturals, FiniteSets, TLC

CONSTANTS
    Callers,     \* the `filigree server` commands in flight
    Daemons,     \* the daemon processes, each started once
    NoDaemon     \* a missing file, an unheld lock

ASSUME NoDaemonAssumption == NoDaemon \notin Callers \cup Daemons

VARIABLES
    state,      \* what each daemon process does
    serverPid,  \* the process that server.pid names
    removing,   \* the process that server.pid.removing names
    holder,     \* who holds server.lock
    doing,      \* where each command is
    mine,       \* the daemon a start has spawned, or a stop has signalled
    unheld      \* daemons whose record an unlocked step took away

daemonVars == <<state, serverPid, removing, holder, doing, mine, unheld>>

\* is_pid_alive with verify_pid_ownership: no other program gets a daemon's pid.
Alive(d) == d # NoDaemon /\ state[d] \notin {"none", "gone"}

DaemonInit ==
    /\ state = [d \in Daemons |-> "none"]
    /\ serverPid = NoDaemon /\ removing = NoDaemon
    /\ holder = NoDaemon
    /\ doing = [c \in Callers |-> "idle"]
    /\ mine = [c \in Callers |-> NoDaemon]
    /\ unheld = {}

Goes(c, to) == doing' = [doing EXCEPT ![c] = to]

Ends(c) ==
    /\ Goes(c, "idle")
    /\ mine' = [mine EXCEPT ![c] = NoDaemon]
    /\ holder' = IF holder = c THEN NoDaemon ELSE holder

\* start_daemon: a live daemon on record refuses the start; a dead one's record
\* is overwritten further on.
StartLooks(c) ==
    /\ doing[c] = "idle" /\ holder = NoDaemon
    /\ \E d \in Daemons : state[d] = "none"
    /\ ~Alive(serverPid)
    /\ holder' = c
    /\ Goes(c, "spawning")
    /\ UNCHANGED <<state, serverPid, removing, mine, unheld>>

\* Popen; it may fail.
StartSpawns(c) ==
    /\ doing[c] = "spawning"
    /\ \/ \E d \in Daemons :
            /\ state[d] = "none"
            /\ state' = [state EXCEPT ![d] = "booting"]
            /\ mine' = [mine EXCEPT ![c] = d]
            /\ Goes(c, "writing")
            /\ UNCHANGED holder
       \/ Ends(c) /\ UNCHANGED state
    /\ UNCHANGED <<serverPid, removing, unheld>>

StartWrites(c) ==
    /\ doing[c] = "writing"
    /\ serverPid' = mine[c]
    /\ holder' = NoDaemon
    /\ Goes(c, "checking")
    /\ UNCHANGED <<state, removing, mine, unheld>>

\* The health check, half a second later and without the lock.
StartChecks(c) ==
    /\ doing[c] = "checking"
    /\ IF state[mine[c]] = "gone"
       THEN /\ serverPid' = NoDaemon
            /\ unheld' = unheld \cup ({serverPid} \ {NoDaemon, mine[c]})
       ELSE UNCHANGED <<serverPid, unheld>>
    /\ Ends(c)
    /\ UNCHANGED <<state, removing>>

\* stop_daemon: SIGTERM to a live daemon on record; a dead one's record goes.
StopLooks(c) ==
    /\ doing[c] = "idle" /\ holder = NoDaemon
    /\ serverPid # NoDaemon
    /\ IF Alive(serverPid)
       THEN /\ holder' = c
            /\ mine' = [mine EXCEPT ![c] = serverPid]
            /\ state' = [state EXCEPT ![serverPid] =
                            CASE @ = "booting" -> "gone"
                              [] @ \in {"claimed", "serving"} -> "releasing"
                              [] OTHER -> @]
            /\ Goes(c, "stopping")
            /\ UNCHANGED serverPid
       ELSE serverPid' = NoDaemon /\ UNCHANGED <<state, holder, mine, doing>>
    /\ UNCHANGED <<removing, unheld>>

\* It waits for the end of the process, or kills it, and removes the record.
StopReaps(c) ==
    /\ doing[c] = "stopping"
    /\ state' = [state EXCEPT ![mine[c]] = "gone"]
    /\ serverPid' = NoDaemon
    /\ Ends(c)
    /\ UNCHANGED <<removing, unheld>>

\* Mistake: a claim takes the record whoever is on it.
ClaimRegardless(d) ==
    /\ state[d] = "booting" /\ holder = NoDaemon
    /\ state' = [state EXCEPT ![d] = "claimed"] /\ serverPid' = d
    /\ UNCHANGED <<removing, holder, doing, mine, unheld>>

(***************************************************************************)
(* claim_current_process_as_daemon, in the daemon process: it waits for    *)
(* the lock; another live daemon on record refuses it, and it exits.       *)
(***************************************************************************)
ClaimRecord(d) ==
    /\ state[d] = "booting" /\ holder = NoDaemon
    /\ IF Alive(serverPid) /\ serverPid # d
       THEN state' = [state EXCEPT ![d] = "gone"] /\ UNCHANGED serverPid
       ELSE state' = [state EXCEPT ![d] = "claimed"] /\ serverPid' = d
    /\ UNCHANGED <<removing, holder, doing, mine, unheld>>

\* uvicorn binds the port, or the process ends: a port in use, a broken configuration.
Bind(d) ==
    /\ state[d] = "claimed"
    /\ \/ /\ \A e \in Daemons : state[e] # "serving"
          /\ state' = [state EXCEPT ![d] = "serving"]
       \/ state' = [state EXCEPT ![d] = "releasing"]
    /\ UNCHANGED <<serverPid, removing, holder, doing, mine, unheld>>

\* `filigree dashboard --server-mode` at a prompt.
RunByHand(d) ==
    /\ state[d] = "none"
    /\ state' = [state EXCEPT ![d] = "booting"]
    /\ UNCHANGED <<serverPid, removing, holder, doing, mine, unheld>>

\* A daemon ends of itself.
Interrupted(d) ==
    /\ state[d] = "serving"
    /\ state' = [state EXCEPT ![d] = "releasing"]
    /\ UNCHANGED <<serverPid, removing, holder, doing, mine, unheld>>

(***************************************************************************)
(* release_daemon_pid_if_owned, without the lock: the record is renamed    *)
(* away under one fixed name; found to be another's, it is renamed back    *)
(* over whatever has been written since.                                   *)
(***************************************************************************)
ReleaseRenames(d) ==
    /\ state[d] = "releasing"
    /\ IF serverPid = NoDaemon
       THEN state' = [state EXCEPT ![d] = "gone"] /\ UNCHANGED <<serverPid, removing>>
       ELSE /\ state' = [state EXCEPT ![d] = "judging"]
            /\ removing' = serverPid /\ serverPid' = NoDaemon
    /\ unheld' = unheld \cup ({serverPid} \ {NoDaemon, d})
    /\ UNCHANGED <<holder, doing, mine>>

ReleaseJudges(d) ==
    /\ state[d] = "judging"
    /\ state' = [state EXCEPT ![d] = "gone"]
    /\ removing' = NoDaemon
    /\ IF removing \in {d, NoDaemon}
       THEN UNCHANGED <<serverPid, unheld>>
       ELSE /\ serverPid' = removing
            /\ unheld' = unheld \cup ({serverPid} \ {NoDaemon, removing})
    /\ UNCHANGED <<holder, doing, mine>>

\* Faults: a process killed, with its record left; a command killed, its lock freed.
DaemonKilled(d) ==
    /\ Alive(d)
    /\ state' = [state EXCEPT ![d] = "gone"]
    /\ UNCHANGED <<serverPid, removing, holder, doing, mine, unheld>>

CallerKilled(c) ==
    /\ doing[c] # "idle"
    /\ Ends(c)
    /\ UNCHANGED <<state, serverPid, removing, unheld>>

CommandStep(c) ==
    \/ StartLooks(c) \/ StartSpawns(c) \/ StartWrites(c) \/ StartChecks(c)
    \/ StopLooks(c) \/ StopReaps(c) \/ CallerKilled(c)

ProcessStep(d) ==
    \/ RunByHand(d) \/ ClaimRecord(d) \/ Bind(d) \/ Interrupted(d)
    \/ ReleaseRenames(d) \/ ReleaseJudges(d) \/ DaemonKilled(d)

DaemonNext ==
    \/ \E c \in Callers : CommandStep(c)
    \/ \E d \in Daemons : ProcessStep(d)

DaemonSpec == DaemonInit /\ [][DaemonNext]_daemonVars

\* A daemon that serves is on record: `server stop` finds it, and a second
\* start is refused.  Only the two unlocked steps can take its record away, the
\* health check of another start and the release of another daemon; whatever
\* the locked commands do, in any order and killed at any point, keeps it.
ServingOnRecord ==
    \A d \in Daemons :
        (state[d] \in {"claimed", "serving"} /\ d \notin unheld) => serverPid = d
=============================================================================
