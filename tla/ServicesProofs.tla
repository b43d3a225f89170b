---------------------------- MODULE ServicesProofs ----------------------------
(* What surrounds the store keeps its records, for every set of processes.  Each *)
(* argument is about a lock: what is true while it is held, from the look that    *)
(* the holder takes to the write that it does, although others step in between.   *)
EXTENDS ServerDaemon, EphemeralDashboard, ProjectStore, SchemaUpgrade, Handlers,
        FiniteSetTheorems, TLAPS

-----------------------------------------------------------------------------
(* The server daemon                                                              *)

DaemonStates == {"none", "booting", "claimed", "serving", "releasing", "judging", "gone"}
CommandSteps == {"idle", "spawning", "writing", "checking", "stopping"}

DaemonTypes ==
    /\ state \in [Daemons -> DaemonStates]
    /\ serverPid \in Daemons \cup {NoDaemon}
    /\ removing \in Daemons \cup {NoDaemon}
    /\ doing \in [Callers -> CommandSteps]
    /\ mine \in [Callers -> Daemons \cup {NoDaemon}]

\* Between its look at the record and its write of it, a command holds the lock.
UnderLock(c) == doing[c] \in {"spawning", "writing", "stopping"}
LockIsHeld == \A c \in Callers : UnderLock(c) => holder = c

HasProcess == \A c \in Callers :
    doing[c] \in {"writing", "checking", "stopping"} => mine[c] \in Daemons

\* While a command may still write the record, nobody relies on it: the command has
\* seen no live daemon on record (or has signalled it), and a claim waits for the lock.
Relies(d) == state[d] \in {"claimed", "serving"} /\ d \notin unheld
NobodyRelies == \A c \in Callers : UnderLock(c) => \A d \in Daemons : ~Relies(d)

DaemonInv ==
    DaemonTypes /\ LockIsHeld /\ HasProcess /\ NobodyRelies /\ ServingOnRecord

LEMMA DaemonInvInit == DaemonInit => DaemonInv
BY DEF DaemonInit, DaemonInv, DaemonTypes, DaemonStates, CommandSteps, LockIsHeld, HasProcess,
       NobodyRelies, UnderLock, ServingOnRecord

LEMMA DaemonInvStep == DaemonInv /\ [DaemonNext]_daemonVars => DaemonInv'
<1> SUFFICES ASSUME DaemonInv, [DaemonNext]_daemonVars PROVE DaemonInv'
  OBVIOUS
<1> USE NoDaemonAssumption DEF DaemonInv, DaemonTypes, DaemonStates, CommandSteps, LockIsHeld,
        HasProcess, NobodyRelies, Relies, UnderLock, ServingOnRecord
<1>1. ASSUME NEW c \in Callers, StartLooks(c) PROVE DaemonInv'
  BY <1>1 DEF StartLooks, Goes, Alive
<1>2. ASSUME NEW c \in Callers, StartSpawns(c) PROVE DaemonInv'
  BY <1>2 DEF StartSpawns, Goes, Ends
<1>3. ASSUME NEW c \in Callers, StartWrites(c) PROVE DaemonInv'
  BY <1>3 DEF StartWrites, Goes
<1>4. ASSUME NEW c \in Callers, StartChecks(c) PROVE DaemonInv'
  BY <1>4 DEF StartChecks, Goes, Ends
<1>5. ASSUME NEW c \in Callers, StopLooks(c) PROVE DaemonInv'
  BY <1>5 DEF StopLooks, Goes, Alive
<1>6. ASSUME NEW c \in Callers, StopReaps(c) PROVE DaemonInv'
  BY <1>6 DEF StopReaps, Goes, Ends
<1>7. ASSUME NEW c \in Callers, CallerKilled(c) PROVE DaemonInv'
  BY <1>7 DEF CallerKilled, Goes, Ends
<1>8. ASSUME NEW d \in Daemons, RunByHand(d) PROVE DaemonInv'
  BY <1>8 DEF RunByHand
<1>9. ASSUME NEW d \in Daemons, ClaimRecord(d) PROVE DaemonInv'
  BY <1>9 DEF ClaimRecord, Alive
<1>10. ASSUME NEW d \in Daemons, Bind(d) PROVE DaemonInv'
  BY <1>10 DEF Bind
<1>11. ASSUME NEW d \in Daemons, Interrupted(d) PROVE DaemonInv'
  BY <1>11 DEF Interrupted
<1>12. ASSUME NEW d \in Daemons, ReleaseRenames(d) PROVE DaemonInv'
  BY <1>12 DEF ReleaseRenames
<1>13. ASSUME NEW d \in Daemons, ReleaseJudges(d) PROVE DaemonInv'
  BY <1>13 DEF ReleaseJudges
<1>14. ASSUME NEW d \in Daemons, DaemonKilled(d) PROVE DaemonInv'
  BY <1>14 DEF DaemonKilled, Alive
<1>15. CASE UNCHANGED daemonVars
  BY <1>15 DEF daemonVars
<1> QED
  BY <1>1, <1>2, <1>3, <1>4, <1>5, <1>6, <1>7, <1>8, <1>9, <1>10, <1>11, <1>12, <1>13, <1>14, <1>15 DEF DaemonNext, CommandStep, ProcessStep

(* A daemon that serves is on record, for every set of daemons and of commands:    *)
(* only a health check and a release, which do not take the lock, can lose it.      *)
THEOREM ServingAlwaysOnRecord == DaemonSpec => []ServingOnRecord
<1>1. DaemonInv => ServingOnRecord
  BY DEF DaemonInv
<1> QED
  BY DaemonInvInit, DaemonInvStep, <1>1, PTL DEF DaemonSpec

-----------------------------------------------------------------------------
(* The ephemeral dashboard                                                        *)

SessionSteps == {"idle", "locking", "probing", "judging", "terminating", "reaping",
                 "spawning", "recording", "recorded", "waiting"}
DashboardStates == {"none", "booting", "listening", "closing", "unlinked", "gone"}

DashboardTypes ==
    /\ life \in [Dashboards -> DashboardStates]
    /\ serves \in [Dashboards -> Ports \cup {NoPort}]
    /\ pidFile \in Dashboards \cup {NoProcess}
    /\ portFile \in Ports \cup {NoPort}
    /\ lock \in Sessions \cup {NoProcess}
    /\ at \in [Sessions -> SessionSteps]
    /\ seen \in [Sessions -> [pid : Dashboards \cup {NoProcess}, port : Ports \cup {NoPort}]]
    /\ child \in [Sessions -> Dashboards \cup {NoProcess}]

\* From its probe under the lock to its return, a session holds the lock.
Ensures(s) == at[s] \notin {"idle", "locking"}
LockIsTheirs == \A s \in Sessions : Ensures(s) => lock = s

HasChild == \A s \in Sessions :
    child[s] \in Dashboards <=> at[s] \in {"recording", "recorded", "waiting"}
HasPort == \A d \in Dashboards : life[d] \in {"booting", "listening"} => serves[d] \in Ports

\* What a session has read stays true, but that a dashboard's end removes the files.
StillSeen == \A s \in Sessions :
    at[s] \in {"judging", "terminating", "reaping"} =>
        /\ pidFile \in {seen[s].pid, NoProcess}
        /\ portFile \in {seen[s].port, NoPort}
        /\ at[s] # "judging" => seen[s].pid \in Dashboards

\* A dashboard that somebody has to account for.
Unexcused(d) == life[d] \in {"booting", "listening"} /\ d \notin excused

\* When a session spawns, there is no other dashboard to lose.
OnlyChild == \A s \in Sessions :
    at[s] \in {"spawning", "recording", "recorded", "waiting"} =>
        \A d \in Dashboards : Unexcused(d) => d = child[s]

\* The record that a session has written names its child, or somebody else's end
\* has taken it.
ChildOnRecord == \A s \in Sessions : \A d \in Dashboards :
    Unexcused(d) /\ d = child[s] =>
        /\ at[s] \in {"recorded", "waiting"} => pidFile = d
        /\ at[s] = "waiting" => portFile = serves[d]

DashboardInv ==
    /\ DashboardTypes /\ LockIsTheirs /\ HasChild /\ HasPort /\ StillSeen /\ OnlyChild
    /\ ChildOnRecord /\ LeaksExplained

LEMMA DashboardInvInit == DashboardInit => DashboardInv
BY NobodyAssumption
   DEF DashboardInit, DashboardInv, DashboardTypes, DashboardStates, SessionSteps, NoRecord,
       LockIsTheirs, Ensures, HasChild, HasPort, StillSeen, OnlyChild, Unexcused, ChildOnRecord,
       LeaksExplained

LEMMA DashboardInvStep == DashboardInv /\ [DashboardNext]_dashVars => DashboardInv'
<1> SUFFICES ASSUME DashboardInv, [DashboardNext]_dashVars PROVE DashboardInv'
  OBVIOUS
<1> USE NobodyAssumption DEF DashboardInv, DashboardTypes, DashboardStates, SessionSteps,
        LockIsTheirs, Ensures, HasChild, HasPort, StillSeen, OnlyChild, Unexcused,
        ChildOnRecord, LeaksExplained, RecordRemoved, RecordKept, Moves, Returns, NoRecord
<1>1. ASSUME NEW s \in Sessions, Probe(s) PROVE DashboardInv'
  <2>1. CASE UNCHANGED at
    BY <1>1, <2>1 DEF Probe
  <2>2. CASE at' = [at EXCEPT ![s] = "locking"]
    BY <1>1, <2>2 DEF Probe
  <2> QED
    BY <1>1, <2>1, <2>2 DEF Probe
<1>2. ASSUME NEW s \in Sessions, Lock(s) PROVE DashboardInv'
  BY <1>2 DEF Lock, Owned, Runs
<1>3. ASSUME NEW s \in Sessions, Reread(s) PROVE DashboardInv'
  BY <1>3 DEF Reread
<1>4. ASSUME NEW s \in Sessions, Judge(s) PROVE DashboardInv'
  BY <1>4 DEF Judge, Verdict, Owned, Runs
<1>5. ASSUME NEW s \in Sessions, Signal(s) PROVE DashboardInv'
  BY <1>5 DEF Signal
<1>6. ASSUME NEW s \in Sessions, Reap(s) PROVE DashboardInv'
  <2>1. DashboardTypes'
    BY <1>6 DEF Reap
  <2>2. LockIsTheirs'
    BY <1>6 DEF Reap
  <2>3. HasChild'
    BY <1>6 DEF Reap
  <2>4. HasPort'
    BY <1>6 DEF Reap
  <2>5. StillSeen'
    BY <1>6 DEF Reap
  <2>6. OnlyChild'
    BY <1>6 DEF Reap
  <2>7. ChildOnRecord'
    BY <1>6 DEF Reap
  <2>8. LeaksExplained'
    BY <1>6 DEF Reap
  <2> QED
    BY <2>1, <2>2, <2>3, <2>4, <2>5, <2>6, <2>7, <2>8
<1>7. ASSUME NEW s \in Sessions, Spawn(s) PROVE DashboardInv'
  <2>1. DashboardTypes'
    <3>1. CASE Returns(s) /\ UNCHANGED <<life, serves>>
      BY <1>7, <3>1 DEF Spawn
    <3>2. ASSUME NEW d \in Dashboards, NEW port \in Ports,
                 life' = [life EXCEPT ![d] = "booting"], serves' = [serves EXCEPT ![d] = port],
                 child' = [child EXCEPT ![s] = d], Moves(s, "recording"), UNCHANGED <<lock, seen>>
          PROVE  DashboardTypes'
      BY <1>7, <3>2 DEF Spawn
    <3> QED
      BY <1>7, <3>1, <3>2 DEF Spawn
  <2>2. LockIsTheirs'
    BY <1>7 DEF Spawn
  <2>3. HasChild'
    BY <1>7 DEF Spawn
  <2>4. HasPort'
    BY <1>7 DEF Spawn
  <2>5. StillSeen'
    BY <1>7 DEF Spawn
  <2>6. OnlyChild'
    BY <1>7 DEF Spawn
  <2>7. ChildOnRecord'
    BY <1>7 DEF Spawn
  <2>8. LeaksExplained'
    BY <1>7 DEF Spawn
  <2> QED
    BY <2>1, <2>2, <2>3, <2>4, <2>5, <2>6, <2>7, <2>8
<1>8. ASSUME NEW s \in Sessions, WritePid(s) PROVE DashboardInv'
  BY <1>8 DEF WritePid
<1>9. ASSUME NEW s \in Sessions, WritePort(s) PROVE DashboardInv'
  BY <1>9 DEF WritePort
<1>10. ASSUME NEW s \in Sessions, WriteFails(s) PROVE DashboardInv'
  <2>1. DashboardTypes'
    BY <1>10 DEF WriteFails
  <2>2. LockIsTheirs'
    BY <1>10 DEF WriteFails
  <2>3. HasChild'
    BY <1>10 DEF WriteFails
  <2>4. HasPort'
    BY <1>10 DEF WriteFails
  <2>5. StillSeen'
    BY <1>10 DEF WriteFails
  <2>6. OnlyChild'
    BY <1>10 DEF WriteFails
  <2>7. ChildOnRecord'
    BY <1>10 DEF WriteFails
  <2>8. LeaksExplained'
    BY <1>10 DEF WriteFails
  <2> QED
    BY <2>1, <2>2, <2>3, <2>4, <2>5, <2>6, <2>7, <2>8
<1>11. ASSUME NEW s \in Sessions, Await(s) PROVE DashboardInv'
  BY <1>11 DEF Await
<1>12. ASSUME NEW s \in Sessions, SessionKilled(s) PROVE DashboardInv'
  BY <1>12 DEF SessionKilled
<1>13. ASSUME NEW d \in Dashboards, Serve(d) PROVE DashboardInv'
  BY <1>13 DEF Serve
<1>14. ASSUME NEW d \in Dashboards, GiveUp(d) PROVE DashboardInv'
  BY <1>14 DEF GiveUp
<1>15. ASSUME NEW d \in Dashboards, Close(d) PROVE DashboardInv'
  BY <1>15 DEF Close
<1>16. ASSUME NEW d \in Dashboards, UnlinkPid(d) PROVE DashboardInv'
  BY <1>16 DEF UnlinkPid
<1>17. ASSUME NEW d \in Dashboards, UnlinkPort(d) PROVE DashboardInv'
  BY <1>17 DEF UnlinkPort
<1>18. ASSUME NEW d \in Dashboards, DashboardKilled(d) PROVE DashboardInv'
  BY <1>18 DEF DashboardKilled, Runs
<1>19. ASSUME NEW d \in Dashboards, NEW port \in Ports, StartByHand(d, port) PROVE DashboardInv'
  BY <1>19 DEF StartByHand
<1>20. CASE GraceEnds
  BY <1>20 DEF GraceEnds
<1>21. CASE UNCHANGED dashVars
  BY <1>21 DEF dashVars
<1> QED
  BY <1>1, <1>2, <1>3, <1>4, <1>5, <1>6, <1>7, <1>8, <1>9, <1>10, <1>11, <1>12, <1>13, <1>14, <1>15, <1>16, <1>17, <1>18, <1>19, <1>20, <1>21 DEF DashboardNext, SessionStep, DashboardStep

(* Every live dashboard is on record, in the hands of the session that holds the lock, *)
(* or excused, for every set of sessions, dashboards and ports: the sessions lose none. *)
THEOREM LeaksAlwaysExplained == DashboardSpec => []LeaksExplained
<1>1. DashboardInv => LeaksExplained
  BY DEF DashboardInv
<1> QED
  BY DashboardInvInit, DashboardInvStep, <1>1, PTL DEF DashboardSpec

-----------------------------------------------------------------------------
(* The projects that the daemon serves                                            *)

Places == [Keys -> Paths \cup {None}]
Requests == [step : {"idle", "queued", "opening", "publishing", "using"},
             key : Keys \cup {None}, path : Paths \cup {None}, handle : Handles \cup {None}]
HandleStates == [is : {"unused", "open", "closed"}, path : Paths \cup {None}]
HookStates == [step : {"idle", "registered", "reloading"}, key : Keys \cup {None}]

ServerTypes ==
    /\ config \in Places /\ projects \in Places /\ told \in Places
    /\ fresh # None => fresh \in Places
    /\ daemon \in {"down", "loaded", "serving"}
    /\ dbs \in [Keys -> Handles \cup {None}]
    /\ evicted \subseteq Handles /\ stale \subseteq evicted
    /\ request \in [Threads -> Requests]
    /\ handle \in [Handles -> HandleStates]
    /\ hook \in [Hooks -> HookStates]

\* What a request has in hand at each step.
HasInHand == \A t \in Threads :
    /\ request[t].step \in {"queued", "opening", "publishing"} => request[t].key \in Keys
    /\ request[t].step \in {"opening", "publishing"} => request[t].path \in Paths
    /\ request[t].step \in {"publishing", "using"} => request[t].handle \in Handles

\* Before uvicorn listens and after it has ended, nobody asks and nobody was told.
OffDuty == daemon # "serving" =>
    /\ told = Nowhere /\ fresh = None /\ dbs = Nowhere
    /\ \A t \in Threads : request[t].step = "idle"

\* A reload that is under way has read what was promised, and what it will be
\* taken to promise; a registration that comes after its read withdraws both.
FreshIsTrue == fresh # None => \A k \in Keys :
    (told[k] # None \/ \E n \in Hooks : hook[n] = [step |-> "reloading", key |-> k])
        => fresh[k] = config[k]

ServerBasics == ServerTypes /\ HasInHand /\ OffDuty
ToldInv == FreshIsTrue /\ ToldIsServed

Opening(t) == request[t].step = "publishing"
Using(t) == request[t].step = "using"

\* Every handle has one owner: a key of the cache, the evicted list, or the thread
\* that opens it; an unused handle has none.
OneKey == \A j, k \in Keys : dbs[j] = dbs[k] /\ dbs[j] # None => j = k
CacheIsOpen == \A k \in Keys : dbs[k] # None =>
    /\ handle[dbs[k]].is = "open" /\ handle[dbs[k]].path = projects[k]
    /\ projects[k] \in Paths /\ dbs[k] \notin evicted
EvictedIsOpen == \A h \in evicted : handle[h].is = "open"
OpeningIsApart == \A t \in Threads : Opening(t) =>
    /\ handle[request[t].handle].is = "open"
    /\ handle[request[t].handle].path = request[t].path
    /\ request[t].handle \notin evicted
    /\ \A k \in Keys : dbs[k] # request[t].handle
    /\ \A u \in Threads \ {t} :
          Opening(u) \/ Using(u) => request[u].handle # request[t].handle
OpenIsOwned == \A h \in Handles : handle[h].is = "open" =>
    \/ \E k \in Keys : dbs[k] = h
    \/ h \in evicted
    \/ \E t \in Threads : Opening(t) /\ request[t].handle = h
UsedIsOpen == \A t \in Threads : Using(t) =>
    \/ handle[request[t].handle].is = "open"
    \/ handle[request[t].handle].is = "closed" /\ request[t].handle \in outlived

HandleInv ==
    /\ OneKey /\ CacheIsOpen /\ EvictedIsOpen /\ OpeningIsApart /\ OpenIsOwned /\ UsedIsOpen

LEMMA ServerInvInit == ServerInit => ServerBasics /\ ToldInv /\ HandleInv
BY NoneAssumption
   DEF ServerInit, ServerBasics, ServerTypes, Places, Requests, HandleStates, HookStates, HasInHand, OffDuty, FreshIsTrue, ToldInv,
       ToldIsServed, HandleInv, OneKey, CacheIsOpen, EvictedIsOpen, OpenHandles, OpeningIsApart,
       Opening, Using, OpenIsOwned, UsedIsOpen, NoRequest, NoHook,
       Nowhere

LEMMA ClosedTypes ==
  ASSUME ServerTypes, NEW gone
  PROVE  /\ Closed(gone) \in [Handles -> HandleStates]
         /\ \A h \in Handles :
              /\ h \in gone => Closed(gone)[h].is = "closed"
              /\ h \notin gone => Closed(gone)[h] = handle[h]
BY DEF ServerTypes, Closed, HandleStates

LEMMA SupersededTypes ==
  ASSUME ServerTypes, NEW k \in Keys
  PROVE  /\ Superseded(k) \in [Hooks -> HookStates]
         /\ \A n \in Hooks :
              \/ hook[n].key # k /\ Superseded(k)[n] = hook[n]
              \/ Superseded(k)[n].key = None
BY DEF ServerTypes, Superseded, HookStates

LEMMA ServerBasicsStep == ServerBasics /\ [ServerNext]_storeVars => ServerBasics'
<1> SUFFICES ASSUME ServerBasics, [ServerNext]_storeVars PROVE ServerBasics'
  OBVIOUS
<1> USE NoneAssumption DEF ServerBasics, ServerTypes, Places, Requests, HandleStates, HookStates, HasInHand, OffDuty, NoRequest, NoHook,
        Nowhere, serverVars
<1>1. ASSUME NEW n \in Hooks, NEW k \in Keys, NEW p \in Paths, Register(n, k, p) PROVE ServerBasics'
  <2>1. hook' \in [Hooks -> HookStates]
    BY <1>1, SupersededTypes DEF Register
  <2> QED
    BY <1>1, <2>1 DEF Register
<1>2. ASSUME NEW n \in Hooks, NotListening(n) PROVE ServerBasics'
  BY <1>2 DEF NotListening
<1>3. ASSUME NEW n \in Hooks, ReloadReads(n) PROVE ServerBasics'
  BY <1>3 DEF ReloadReads
<1>4. ASSUME NEW n \in Hooks, ReloadWarns(n) PROVE ServerBasics'
  BY <1>4 DEF ReloadWarns
<1>5. ASSUME NEW k \in Keys, Unregister(k) PROVE ServerBasics'
  BY <1>5, SupersededTypes DEF Unregister
<1>6. CASE ReloadSwaps
  <2>1. handle' \in [Handles -> HandleStates]
    BY <1>6, ClosedTypes DEF ReloadSwaps
  <2>2. hook' \in [Hooks -> HookStates] /\ told' \in Places
    BY <1>6 DEF ReloadSwaps, Answered
  <2>3. dbs' \in [Keys -> Handles \cup {None}] /\ evicted' \subseteq Handles
    BY <1>6 DEF ReloadSwaps, Evict, MovedKeys
  <2> QED
    BY <1>6, <2>1, <2>2, <2>3 DEF ReloadSwaps
<1>7. CASE ReloadFails
  BY <1>7 DEF ReloadFails
<1>8. CASE Load
  BY <1>8 DEF Load
<1>9. CASE Listen
  BY <1>9 DEF Listen
<1>10. CASE Shutdown
  BY <1>10 DEF Shutdown, Closed
<1>11. CASE GraceOver
  BY <1>11 DEF GraceOver
<1>12. ASSUME NEW t \in Threads, NEW k \in Keys, LookUp(t, k) PROVE ServerBasics'
  <2>1. handle' \in [Handles -> HandleStates]
    BY <1>12, ClosedTypes DEF LookUp
  <2>2. CASE UNCHANGED request
    BY <1>12, <2>1, <2>2 DEF LookUp
  <2>3. CASE dbs[k] # None /\ Gets(t, k, "using", dbs[k])
    BY <1>12, <2>1, <2>3 DEF LookUp, Gets
  <2>4. CASE Gets(t, k, "queued", None)
    BY <1>12, <2>1, <2>4 DEF LookUp, Gets
  <2> QED
    BY <1>12, <2>2, <2>3, <2>4 DEF LookUp
<1>13. ASSUME NEW t \in Threads, TakeTurn(t) PROVE ServerBasics'
  <2> DEFINE k == request[t].key
  <2>1. k \in Keys /\ request[t].step = "queued"
    BY <1>13 DEF TakeTurn
  <2>2. CASE request' = [request EXCEPT ![t] = NoRequest]
    BY <1>13, <2>1, <2>2 DEF TakeTurn
  <2>3. CASE dbs[k] # None /\ Gets(t, k, "using", dbs[k])
    BY <1>13, <2>1, <2>3 DEF TakeTurn, Gets
  <2>4. CASE /\ projects[k] # None
             /\ request' = [request EXCEPT ![t].step = "opening", ![t].path = projects[k]]
    <3>1. projects[k] \in Paths /\ request \in [Threads -> Requests]
      BY <2>1, <2>4
    <3> HIDE DEF ServerBasics
    <3>2. /\ request' \in [Threads -> Requests]
          /\ request'[t].step = "opening" /\ request'[t].path \in Paths /\ request'[t].key \in Keys
          /\ \A u \in Threads \ {t} : request'[u] = request[u]
      BY <2>1, <2>4, <3>1
    <3> QED
      BY <1>13, <2>1, <3>2 DEF TakeTurn, ServerBasics
  <2> QED
    BY <1>13, <2>2, <2>3, <2>4 DEF TakeTurn
<1>14. ASSUME NEW t \in Threads, Open(t) PROVE ServerBasics'
  <2>1. ASSUME NEW h \in Handles,
               handle' = [handle EXCEPT ![h] = [is |-> "open", path |-> request[t].path]],
               request' = [request EXCEPT ![t].step = "publishing", ![t].handle = h]
        PROVE  ServerBasics'
    <3>1. request \in [Threads -> Requests]
      OBVIOUS
    <3> HIDE DEF ServerBasics
    <3>2. /\ request' \in [Threads -> Requests]
          /\ request'[t].step = "publishing" /\ request'[t].handle = h
          /\ request'[t].path = request[t].path /\ request'[t].key = request[t].key
          /\ \A u \in Threads \ {t} : request'[u] = request[u]
      BY <2>1, <3>1
    <3>3. UNCHANGED <<serverVars, daemon, projects, dbs, evicted, stale, fresh>>
          /\ request[t].step = "opening"
      BY <1>14 DEF Open
    <3> QED
      BY <2>1, <3>2, <3>3 DEF ServerBasics
  <2>2. CASE request' = [request EXCEPT ![t] = NoRequest] /\ UNCHANGED handle
    <3>1. UNCHANGED <<serverVars, daemon, projects, dbs, evicted, stale, fresh>>
      BY <1>14 DEF Open
    <3> QED
      BY <2>2, <3>1
  <2> QED
    BY <1>14, <2>1, <2>2 DEF Open
<1>15. ASSUME NEW t \in Threads, Publish(t) PROVE ServerBasics'
  <2> DEFINE k == request[t].key
             h == request[t].handle
  <2>1. k \in Keys /\ h \in Handles
    BY <1>15 DEF Publish
  <2>2. handle' \in [Handles -> HandleStates]
    BY <1>15, ClosedTypes DEF Publish
  <2>3. dbs' \in [Keys -> Handles \cup {None}] /\ (projects[k] = request[t].path => dbs'[k] # None)
    BY <1>15, <2>1 DEF Publish
  <2>4. CASE request' = [request EXCEPT ![t] = NoRequest]
    BY <1>15, <2>2, <2>3, <2>4 DEF Publish
  <2>5. CASE projects[k] = request[t].path /\ Gets(t, k, "using", dbs'[k])
    BY <1>15, <2>1, <2>2, <2>3, <2>5 DEF Publish, Gets
  <2> QED
    BY <1>15, <2>4, <2>5 DEF Publish
<1>16. ASSUME NEW t \in Threads, Answer(t) PROVE ServerBasics'
  BY <1>16 DEF Answer
<1>17. CASE UNCHANGED storeVars
  BY <1>17 DEF storeVars
<1> QED
  BY <1>1, <1>2, <1>3, <1>4, <1>5, <1>6, <1>7, <1>8, <1>9, <1>10, <1>11, <1>12, <1>13, <1>14, <1>15, <1>16, <1>17 DEF ServerNext

\* A change of one key's entry withdraws what was promised of that key.
Withdrawn(k) ==
    /\ told'[k] = None /\ \A j \in Keys \ {k} : told'[j] = told[j] /\ config'[j] = config[j]
    /\ \A n \in Hooks, j \in Keys :
          hook'[n] = [step |-> "reloading", key |-> j] => j # k /\ hook[n] = hook'[n]

LEMMA WithdrawnIsTold ==
  ASSUME ServerBasics, ToldInv, NEW k \in Keys, Withdrawn(k), UNCHANGED <<fresh, projects, daemon>>
  PROVE  ToldInv'
<1>1. FreshIsTrue'
  <2> SUFFICES ASSUME fresh # None, NEW j \in Keys,
                      told'[j] # None \/ \E n \in Hooks : hook'[n] = [step |-> "reloading", key |-> j]
               PROVE  fresh[j] = config'[j]
    BY DEF FreshIsTrue
  <2>1. j # k
    BY DEF Withdrawn
  <2>2. told[j] # None \/ \E n \in Hooks : hook[n] = [step |-> "reloading", key |-> j]
    BY <2>1 DEF Withdrawn
  <2> QED
    BY <2>1, <2>2 DEF Withdrawn, ToldInv, FreshIsTrue
<1>2. ToldIsServed'
  BY DEF Withdrawn, ToldInv, ToldIsServed
<1> QED
  BY <1>1, <1>2 DEF ToldInv

LEMMA ToldInvStep == ServerBasics /\ ToldInv /\ [ServerNext]_storeVars => ToldInv'
<1> SUFFICES ASSUME ServerBasics, ToldInv, [ServerNext]_storeVars PROVE ToldInv'
  OBVIOUS
<1> USE NoneAssumption DEF ServerBasics, ServerTypes, Places, Requests, HandleStates, HookStates, OffDuty, ToldInv, FreshIsTrue,
        ToldIsServed, NoHook, Nowhere, serverVars
<1>1. ASSUME NEW n \in Hooks, NEW k \in Keys, NEW p \in Paths, Register(n, k, p) PROVE ToldInv'
  <2>1. /\ Superseded(k) \in [Hooks -> HookStates]
        /\ \A m \in Hooks : \/ hook[m].key # k /\ Superseded(k)[m] = hook[m]
                          \/ Superseded(k)[m].key = None
    BY SupersededTypes
  <2>2. CASE config[k] = p
    BY <1>1, <2>2 DEF Register
  <2>3. CASE config[k] # p
    <3>1. hook' = [Superseded(k) EXCEPT ![n] = [step |-> "registered", key |-> k]]
      BY <1>1, <2>3 DEF Register
    <3>2. ASSUME NEW m \in Hooks, NEW j \in Keys, hook'[m] = [step |-> "reloading", key |-> j]
          PROVE  j # k /\ hook[m] = hook'[m]
      <4>1. hook'[m].step = "reloading" /\ hook'[m].key = j
        BY <3>2
      <4>2. m # n /\ hook'[m] = Superseded(k)[m]
        BY <2>1, <3>1, <4>1
      <4> QED
        BY <2>1, <4>1, <4>2
    <3>3. Withdrawn(k)
      BY <1>1, <2>3, <3>2 DEF Register, Withdrawn
    <3> QED
      BY <1>1, <3>3, WithdrawnIsTold DEF Register
  <2> QED
    BY <2>2, <2>3
<1>2. ASSUME NEW n \in Hooks, NotListening(n) PROVE ToldInv'
  BY <1>2 DEF NotListening
<1>3. ASSUME NEW n \in Hooks, ReloadReads(n) PROVE ToldInv'
  BY <1>3 DEF ReloadReads
<1>4. ASSUME NEW n \in Hooks, ReloadWarns(n) PROVE ToldInv'
  BY <1>4 DEF ReloadWarns
<1>5. ASSUME NEW k \in Keys, Unregister(k) PROVE ToldInv'
  <2>1. ASSUME NEW m \in Hooks, NEW j \in Keys, hook'[m] = [step |-> "reloading", key |-> j]
        PROVE  j # k /\ hook[m] = hook'[m]
    <3>1. hook'[m].key = j
      BY <2>1
    <3> QED
      BY <1>5, <3>1, SupersededTypes DEF Unregister
  <2>2. Withdrawn(k)
    BY <1>5, <2>1 DEF Unregister, Withdrawn
  <2> QED
    BY <1>5, <2>2, WithdrawnIsTold DEF Unregister
<1>6. CASE ReloadSwaps
  BY <1>6 DEF ReloadSwaps, Answered, Evict, Closed
<1>7. CASE ReloadFails
  BY <1>7 DEF ReloadFails
<1>8. CASE Load
  BY <1>8 DEF Load
<1>9. CASE Listen
  BY <1>9 DEF Listen
<1>10. CASE Shutdown
  BY <1>10 DEF Shutdown, Closed
<1>11. CASE GraceOver
  BY <1>11 DEF GraceOver
<1>12. ASSUME NEW t \in Threads, NEW k \in Keys, LookUp(t, k) PROVE ToldInv'
  BY <1>12 DEF LookUp, Gets, Closed
<1>13. ASSUME NEW t \in Threads, TakeTurn(t) PROVE ToldInv'
  BY <1>13 DEF TakeTurn, Gets
<1>14. ASSUME NEW t \in Threads, Open(t) PROVE ToldInv'
  BY <1>14 DEF Open
<1>15. ASSUME NEW t \in Threads, Publish(t) PROVE ToldInv'
  BY <1>15 DEF Publish, Gets, Closed
<1>16. ASSUME NEW t \in Threads, Answer(t) PROVE ToldInv'
  BY <1>16 DEF Answer
<1>17. CASE UNCHANGED storeVars
  BY <1>17 DEF storeVars
<1> QED
  BY <1>1, <1>2, <1>3, <1>4, <1>5, <1>6, <1>7, <1>8, <1>9, <1>10, <1>11, <1>12, <1>13, <1>14, <1>15, <1>16, <1>17 DEF ServerNext

LEMMA HandleFacts ==
  ASSUME ServerBasics, HandleInv
  PROVE  /\ stale \subseteq evicted /\ evicted \subseteq Handles /\ None \notin Handles
         /\ \A k \in Keys : dbs[k] # None => dbs[k] \in Handles
         /\ \A t \in Threads : Opening(t) \/ Using(t) => request[t].handle \in Handles
         /\ OneKey /\ CacheIsOpen /\ EvictedIsOpen /\ OpeningIsApart /\ OpenIsOwned /\ UsedIsOpen
BY NoneAssumption DEF ServerBasics, ServerTypes, HasInHand, HandleInv, Opening, Using

LEMMA SwapKeepsHandles == ServerBasics /\ HandleInv /\ ReloadSwaps => HandleInv'
<1> SUFFICES ASSUME ServerBasics, HandleInv, ReloadSwaps PROVE HandleInv'
  OBVIOUS
<1>1. \A h \in Handles : /\ h \in stale => handle'[h].is = "closed"
                         /\ h \notin stale => handle'[h] = handle[h]
  BY ClosedTypes DEF ReloadSwaps, ServerBasics
<1>2. /\ \A k \in Keys : dbs'[k] = IF k \in MovedKeys THEN None ELSE dbs[k]
      /\ evicted' = (evicted \ stale) \cup ({dbs[k] : k \in MovedKeys} \ {None})
      /\ projects' = fresh /\ MovedKeys \subseteq Keys
  BY DEF ReloadSwaps, Evict, MovedKeys
<1>3. \A t \in Threads : /\ request'[t] = request[t] /\ Opening(t)' = Opening(t) /\ Using(t)' = Using(t)
                         /\ Using(t) /\ request[t].handle \in stale => request[t].handle \in outlived'
                         /\ request[t].handle \in outlived => request[t].handle \in outlived'
  BY DEF ReloadSwaps, Opening, Using, InUse
<1>4. ASSUME NEW k \in Keys, dbs'[k] # None
      PROVE  k \notin MovedKeys /\ dbs'[k] = dbs[k] /\ projects'[k] = projects[k]
  <2>1. k \notin MovedKeys /\ dbs'[k] = dbs[k]
    BY <1>2, <1>4
  <2>2. projects[k] # None
    BY <1>4, <2>1, HandleFacts, NoneAssumption DEF CacheIsOpen
  <2> QED
    BY <1>2, <2>1, <2>2 DEF MovedKeys
<1>5. OneKey'
  BY <1>4, HandleFacts DEF OneKey
<1>6. CacheIsOpen'
  BY <1>1, <1>2, <1>4, HandleFacts DEF CacheIsOpen, OneKey
<1>7. EvictedIsOpen'
  BY <1>1, <1>2, HandleFacts DEF EvictedIsOpen, CacheIsOpen
<1>8. OpeningIsApart'
  BY <1>1, <1>2, <1>3, HandleFacts DEF OpeningIsApart
<1>9. OpenIsOwned'
  BY <1>1, <1>2, <1>3, HandleFacts DEF OpenIsOwned
<1>10. UsedIsOpen'
  BY <1>1, <1>3, HandleFacts DEF UsedIsOpen
<1> QED
  BY <1>5, <1>6, <1>7, <1>8, <1>9, <1>10 DEF HandleInv

LEMMA LookUpKeepsHandles ==
  ASSUME NEW t \in Threads, NEW k \in Keys, ServerBasics, HandleInv, LookUp(t, k)
  PROVE  HandleInv'
<1>1. \A h \in Handles : /\ h \in stale => handle'[h].is = "closed"
                         /\ h \notin stale => handle'[h] = handle[h]
  BY ClosedTypes DEF LookUp, ServerBasics
<1>2. dbs' = dbs /\ projects' = projects /\ evicted' = evicted \ stale
  BY DEF LookUp
<1>3. \A u \in Threads : \/ request'[u] = request[u]
                         \/ ~Using(u) /\ ~Opening(u)' /\ (Using(u)' => dbs[k] # None /\ request'[u].handle = dbs[k])
  BY DEF LookUp, Gets, Opening, Using, ServerBasics, ServerTypes, Requests
<1>4. \A u \in Threads : /\ Opening(u)' => Opening(u) /\ request'[u] = request[u]
                         /\ Opening(u) => Opening(u)' /\ request'[u] = request[u]
                         /\ Using(u)' /\ request'[u] = request[u] => Using(u)
  BY DEF LookUp, Gets, Opening, Using, ServerBasics, ServerTypes, Requests
<1>5. \A u \in Threads : /\ Using(u) /\ request[u].handle \in stale => request[u].handle \in outlived'
                         /\ request[u].handle \in outlived => request[u].handle \in outlived'
  BY DEF LookUp, Using, InUse
<1>6. OneKey'
  BY <1>2, HandleFacts DEF OneKey
<1>7. CacheIsOpen'
  BY <1>1, <1>2, HandleFacts DEF CacheIsOpen
<1>8. EvictedIsOpen'
  BY <1>1, <1>2, HandleFacts DEF EvictedIsOpen
<1>9. OpeningIsApart'
  BY <1>1, <1>2, <1>3, <1>4, HandleFacts DEF OpeningIsApart
<1>10. OpenIsOwned'
  BY <1>1, <1>2, <1>4, HandleFacts DEF OpenIsOwned
<1>11. UsedIsOpen'
  BY <1>1, <1>3, <1>4, <1>5, HandleFacts DEF UsedIsOpen, CacheIsOpen
<1> QED
  BY <1>6, <1>7, <1>8, <1>9, <1>10, <1>11 DEF HandleInv

LEMMA TakeTurnKeepsHandles ==
  ASSUME NEW t \in Threads, ServerBasics, HandleInv, TakeTurn(t)
  PROVE  HandleInv'
<1>1. UNCHANGED <<projects, dbs, evicted, handle, outlived>> /\ request[t].key \in Keys
      /\ ~Opening(t) /\ ~Using(t)
  BY DEF TakeTurn, ServerBasics, HasInHand, Opening, Using
<1>2. \A u \in Threads \ {t} : request'[u] = request[u] /\ Opening(u)' = Opening(u) /\ Using(u)' = Using(u)
  BY DEF TakeTurn, Gets, Opening, Using, ServerBasics, ServerTypes
<1>3. ~Opening(t)' /\ (Using(t)' => dbs[request[t].key] # None /\ request'[t].handle = dbs[request[t].key])
  BY DEF TakeTurn, Gets, Opening, Using, ServerBasics, ServerTypes, Requests, NoRequest
<1>4. OneKey' /\ CacheIsOpen' /\ EvictedIsOpen'
  BY <1>1, HandleFacts DEF OneKey, CacheIsOpen, EvictedIsOpen
<1>5. OpeningIsApart'
  BY <1>1, <1>2, <1>3, HandleFacts DEF OpeningIsApart
<1>6. OpenIsOwned'
  BY <1>1, <1>2, HandleFacts DEF OpenIsOwned
<1>7. UsedIsOpen'
  BY <1>1, <1>2, <1>3, HandleFacts DEF UsedIsOpen, CacheIsOpen
<1> QED
  BY <1>4, <1>5, <1>6, <1>7 DEF HandleInv

LEMMA OpenKeepsHandles ==
  ASSUME NEW t \in Threads, ServerBasics, HandleInv, Open(t)
  PROVE  HandleInv'
<1>1. UNCHANGED <<projects, dbs, evicted, outlived>> /\ ~Opening(t) /\ ~Using(t)
  BY DEF Open, Opening, Using
<1>2. \A u \in Threads \ {t} : request'[u] = request[u] /\ Opening(u)' = Opening(u) /\ Using(u)' = Using(u)
  BY DEF Open, Opening, Using, ServerBasics, ServerTypes
<1>3. CASE handle' = handle /\ ~Opening(t)' /\ ~Using(t)'
  <2>1. OneKey' /\ CacheIsOpen' /\ EvictedIsOpen'
    BY <1>1, <1>3, HandleFacts DEF OneKey, CacheIsOpen, EvictedIsOpen
  <2>2. OpeningIsApart' /\ OpenIsOwned' /\ UsedIsOpen'
    BY <1>1, <1>2, <1>3, HandleFacts DEF OpeningIsApart, OpenIsOwned, UsedIsOpen
  <2> QED
    BY <2>1, <2>2 DEF HandleInv
<1>4. ASSUME NEW h \in Handles, handle[h].is = "unused",
             handle'[h].is = "open", handle'[h].path = request'[t].path, request'[t].handle = h,
             \A g \in Handles \ {h} : handle'[g] = handle[g], Opening(t)'
      PROVE  HandleInv'
  <2>1. ~Using(t)'
    BY <1>4 DEF Opening, Using
  <2>2. OneKey' /\ CacheIsOpen' /\ EvictedIsOpen'
    BY <1>1, <1>4, HandleFacts DEF OneKey, CacheIsOpen, EvictedIsOpen
  <2>3. OpeningIsApart'
    <3>1. h \notin evicted /\ \A k \in Keys : dbs[k] # h
      BY <1>4, HandleFacts DEF EvictedIsOpen, CacheIsOpen
    <3>2. \A u \in Threads : Opening(u) \/ Using(u) => request[u].handle # h
      BY <1>4, HandleFacts DEF OpeningIsApart, UsedIsOpen
    <3> QED
      BY <1>1, <1>2, <1>4, <2>1, <3>1, <3>2, HandleFacts DEF OpeningIsApart
  <2>4. OpenIsOwned'
    BY <1>1, <1>2, <1>4, HandleFacts DEF OpenIsOwned
  <2>5. UsedIsOpen'
    BY <1>1, <1>2, <1>4, <2>1, HandleFacts DEF UsedIsOpen
  <2> QED
    BY <2>2, <2>3, <2>4, <2>5 DEF HandleInv
<1>5. CASE \E h \in Handles :
            /\ handle[h].is = "unused"
            /\ handle' = [handle EXCEPT ![h] = [is |-> "open", path |-> request[t].path]]
            /\ request' = [request EXCEPT ![t].step = "publishing", ![t].handle = h]
  <2>1. PICK h \in Handles :
            /\ handle[h].is = "unused"
            /\ handle' = [handle EXCEPT ![h] = [is |-> "open", path |-> request[t].path]]
            /\ request' = [request EXCEPT ![t].step = "publishing", ![t].handle = h]
    BY <1>5
  <2>2. request \in [Threads -> Requests] /\ handle \in [Handles -> HandleStates]
    BY DEF ServerBasics, ServerTypes
  <2>3. Opening(t)' /\ request'[t].handle = h /\ request'[t].path = request[t].path
    BY <2>1, <2>2 DEF Requests, Opening
  <2>4. handle'[h].is = "open" /\ handle'[h].path = request[t].path
        /\ \A g \in Handles \ {h} : handle'[g] = handle[g]
    BY <2>1, <2>2
  <2> QED
    BY <1>4, <2>1, <2>3, <2>4
<1> QED
  BY <1>3, <1>5 DEF Open, Opening, Using, ServerBasics, ServerTypes, NoRequest

LEMMA PublishKeepsHandles ==
  ASSUME NEW t \in Threads, ServerBasics, HandleInv, Publish(t)
  PROVE  HandleInv'
<1> DEFINE k == request[t].key
           h == request[t].handle
           current == projects[k] = request[t].path
<1>1. UNCHANGED <<projects, evicted, outlived>> /\ Opening(t) /\ k \in Keys /\ h \in Handles
      /\ request[t].path \in Paths
  BY DEF Publish, ServerBasics, HasInHand, Opening
<1>2. \A u \in Threads \ {t} : request'[u] = request[u] /\ Opening(u)' = Opening(u) /\ Using(u)' = Using(u)
  BY DEF Publish, Gets, Opening, Using, ServerBasics, ServerTypes
<1>3. ~Opening(t)' /\ (Using(t)' => current /\ request'[t].handle = dbs'[k])
  BY DEF Publish, Gets, Opening, Using, ServerBasics, ServerTypes, Requests, NoRequest
<1>4. CASE current /\ dbs[k] = None
  <2>1. /\ handle' = handle /\ dbs'[k] = h /\ \A j \in Keys \ {k} : dbs'[j] = dbs[j]
        /\ Using(t)' /\ request'[t].handle = h
    BY <1>1, <1>4 DEF Publish, Gets, Using, ServerBasics, ServerTypes, Requests
  <2>2. OneKey'
    BY <1>1, <2>1, HandleFacts DEF OneKey, OpeningIsApart
  <2>3. CacheIsOpen' /\ EvictedIsOpen'
    BY <1>1, <1>4, <2>1, HandleFacts DEF CacheIsOpen, EvictedIsOpen, OpeningIsApart
  <2>4. OpeningIsApart'
    BY <1>1, <1>2, <1>3, <2>1, HandleFacts DEF OpeningIsApart
  <2>5. OpenIsOwned'
    BY <1>1, <1>2, <1>4, <2>1, HandleFacts DEF OpenIsOwned
  <2>6. UsedIsOpen'
    BY <1>1, <1>2, <2>1, HandleFacts DEF UsedIsOpen, OpeningIsApart
  <2> QED
    BY <2>2, <2>3, <2>4, <2>5, <2>6 DEF HandleInv
<1>5. CASE ~(current /\ dbs[k] = None)
  <2>1. dbs' = dbs /\ (Using(t)' => dbs[k] # None /\ request'[t].handle = dbs[k])
    BY <1>3, <1>5 DEF Publish
  <2>2. handle'[h].is = "closed" /\ \A g \in Handles \ {h} : handle'[g] = handle[g]
    BY <1>1, <1>5, ClosedTypes DEF Publish, ServerBasics
  <2>3. /\ h \notin evicted /\ \A j \in Keys : dbs[j] # h
        /\ \A u \in Threads \ {t} : Opening(u) \/ Using(u) => request[u].handle # h
    BY <1>1, HandleFacts DEF OpeningIsApart
  <2>4. OneKey' /\ CacheIsOpen' /\ EvictedIsOpen'
    BY <1>1, <2>1, <2>2, <2>3, HandleFacts DEF OneKey, CacheIsOpen, EvictedIsOpen
  <2>5. OpeningIsApart'
    BY <1>1, <1>2, <1>3, <2>1, <2>2, <2>3, HandleFacts DEF OpeningIsApart
  <2>6. OpenIsOwned'
    BY <1>1, <1>2, <2>1, <2>2, <2>3, HandleFacts DEF OpenIsOwned
  <2>7. UsedIsOpen'
    BY <1>1, <1>2, <2>1, <2>2, <2>3, HandleFacts DEF UsedIsOpen, CacheIsOpen
  <2> QED
    BY <2>4, <2>5, <2>6, <2>7 DEF HandleInv
<1> QED
  BY <1>4, <1>5

LEMMA HandleInvStep == ServerBasics /\ HandleInv /\ [ServerNext]_storeVars => HandleInv'
<1> SUFFICES ASSUME ServerBasics, HandleInv, [ServerNext]_storeVars PROVE HandleInv'
  OBVIOUS
<1>1. CASE UNCHANGED <<projects, dbs, evicted, handle, request, outlived>>
  BY <1>1 DEF HandleInv, OneKey, CacheIsOpen, EvictedIsOpen, OpeningIsApart, Opening, OpenIsOwned, Using, UsedIsOpen
<1>2. CASE \/ ReloadFails \/ Listen \/ GraceOver
           \/ \E n \in Hooks : \/ \E k \in Keys, p \in Paths : Register(n, k, p)
                             \/ NotListening(n) \/ ReloadReads(n) \/ ReloadWarns(n)
           \/ \E k \in Keys : Unregister(k)
  BY <1>1, <1>2 DEF ReloadFails, Listen, GraceOver, Register, NotListening, ReloadReads, ReloadWarns,
                    Unregister, serverVars
<1>3. CASE ReloadSwaps
  BY <1>3, SwapKeepsHandles
<1>4. CASE Load
  <2>1. UNCHANGED <<dbs, evicted, handle, request, outlived>> /\ \A k \in Keys : dbs[k] = None
    BY <1>4 DEF Load, ServerBasics, OffDuty, Nowhere
  <2> QED
    BY <2>1 DEF HandleInv, OneKey, CacheIsOpen, EvictedIsOpen, OpeningIsApart, Opening, OpenIsOwned, Using, UsedIsOpen
<1>5. CASE Shutdown
  <2>1. /\ \A t \in Threads : ~Opening(t)' /\ ~Using(t)'
        /\ \A k \in Keys : dbs'[k] = None
        /\ evicted' = {}
    BY <1>5 DEF Shutdown, Opening, Using, Nowhere
  <2>2. \A h \in Handles : handle'[h].is # "open"
    <3>1. \A t \in Threads : ~Opening(t)
      BY <1>5 DEF Shutdown, Opening
    <3>2. \A h \in Handles : handle[h].is = "open" =>
             h \in evicted \cup ({dbs[k] : k \in Keys} \ {None})
      BY <3>1, HandleFacts DEF OpenIsOwned
    <3> QED
      BY <1>5, <3>2, ClosedTypes DEF Shutdown, ServerBasics
  <2> QED
    BY <2>1, <2>2 DEF HandleInv, OneKey, CacheIsOpen, EvictedIsOpen, OpeningIsApart, OpenIsOwned, UsedIsOpen
<1>6. ASSUME NEW t \in Threads, \E k \in Keys : LookUp(t, k) PROVE HandleInv'
  BY <1>6, LookUpKeepsHandles
<1>7. ASSUME NEW t \in Threads, TakeTurn(t) \/ Open(t) \/ Publish(t) PROVE HandleInv'
  BY <1>7, TakeTurnKeepsHandles, OpenKeepsHandles, PublishKeepsHandles
<1>8. ASSUME NEW t \in Threads, Answer(t) PROVE HandleInv'
  <2>1. UNCHANGED <<projects, dbs, evicted, handle, outlived>> /\ ~Opening(t) /\ ~Opening(t)' /\ ~Using(t)'
    BY <1>8 DEF Answer, Opening, Using, ServerBasics, ServerTypes, Requests, NoRequest
  <2>2. \A u \in Threads \ {t} : request'[u] = request[u] /\ Opening(u)' = Opening(u) /\ Using(u)' = Using(u)
    BY <1>8 DEF Answer, Opening, Using, ServerBasics, ServerTypes
  <2>3. OneKey' /\ CacheIsOpen' /\ EvictedIsOpen'
    BY <2>1, HandleFacts DEF OneKey, CacheIsOpen, EvictedIsOpen
  <2>4. OpeningIsApart' /\ OpenIsOwned' /\ UsedIsOpen'
    BY <2>1, <2>2, HandleFacts DEF OpeningIsApart, OpenIsOwned, UsedIsOpen
  <2> QED
    BY <2>3, <2>4 DEF HandleInv
<1> QED
  BY <1>1, <1>2, <1>3, <1>4, <1>5, <1>6, <1>7, <1>8 DEF ServerNext, storeVars

LEMMA HandleInvAccounts == ServerBasics /\ HandleInv => HandlesAccounted
<1> SUFFICES ASSUME ServerBasics, HandleInv PROVE HandlesAccounted
  OBVIOUS
<1>1. ASSUME NEW h \in OpenHandles, h \notin evicted,
             ~(\E t \in Threads : request[t].step = "publishing" /\ request[t].handle = h)
      PROVE  Cardinality({k \in Keys : dbs[k] = h}) = 1
  <2>1. h \in Handles /\ handle[h].is = "open"
    BY DEF OpenHandles
  <2>2. PICK k \in Keys : dbs[k] = h
    BY <1>1, <2>1, HandleFacts DEF OpenIsOwned, Opening
  <2>3. {j \in Keys : dbs[j] = h} = {k}
    BY <2>1, <2>2, HandleFacts DEF OneKey
  <2> QED
    BY <2>3, FS_Singleton
<1>2. ASSUME NEW k \in Keys, dbs[k] # None
      PROVE  handle[dbs[k]] = [is |-> "open", path |-> projects[k]]
  <2>1. dbs[k] \in Handles /\ handle[dbs[k]].is = "open" /\ handle[dbs[k]].path = projects[k]
    BY <1>2, HandleFacts DEF CacheIsOpen
  <2>2. handle[dbs[k]] \in HandleStates
    BY <2>1 DEF ServerBasics, ServerTypes
  <2> QED
    BY <2>1, <2>2 DEF HandleStates
<1>3. InUse \subseteq OpenHandles \cup outlived
  BY HandleFacts DEF InUse, OpenHandles, UsedIsOpen, Using
<1> QED
  BY <1>1, <1>2, <1>3 DEF HandlesAccounted

(* A prefix that a hook was told is served is routed to the directory that          *)
(* server.json names, for every set of hooks, requests, prefixes and directories.    *)
THEOREM ToldAlwaysServed == ServerSpec => []ToldIsServed
<1>1. ToldInv => ToldIsServed
  BY DEF ToldInv
<1> QED
  BY ServerInvInit, ServerBasicsStep, ToldInvStep, <1>1, PTL DEF ServerSpec

(* No database handle leaks, is cached twice, is cached for another directory, or is *)
(* closed under a request within its grace, for every set of them.                   *)
THEOREM HandlesAlwaysAccounted == ServerSpec => []HandlesAccounted
BY ServerInvInit, ServerBasicsStep, HandleInvStep, HandleInvAccounts, PTL DEF ServerSpec

-----------------------------------------------------------------------------
(* The upgrade of a database                                                      *)

\* What a file of version v has under either name of the renamed column.
Needed(v) == SchemaAt(v) \ {OldName}

OpenerStates == {"closed", "creating", "created", "pending", "upgrading", "open"}

SchemaTypes ==
    /\ stamp \in 0..CurrentVersion /\ appId \in BOOLEAN
    /\ opener \in [Openers -> [is : OpenerStates, at : 0..CurrentVersion]]

\* The renamed column is there under one name, with its table.
ColumnOnce ==
    /\ schema \subseteq FullSchema \cup {OldName}
    /\ NewName \in schema => OldName \notin schema /\ "entity_associations" \in schema

Creating(p) == opener[p].is \in {"creating", "created"}

\* Before the first stamp there is one creator at most, whose tables come at once.
FreshFile ==
    /\ stamp = 0 => schema \in {{}, FullSchema}
    /\ \A p \in Openers : Creating(p) => /\ stamp = 0 /\ appId
                                        /\ \A q \in Openers : Creating(q) => q = p
    /\ \A p \in Openers : opener[p].is = "created" => schema = FullSchema

\* Every process between two hops has what its next hop starts from.
HopsReady ==
    \A p \in Openers : opener[p].is = "upgrading" =>
        /\ opener[p].at \in 1..(CurrentVersion - 1) /\ stamp > 0
        /\ Needed(opener[p].at) \subseteq schema

SchemaInv == SchemaTypes /\ ColumnOnce /\ FreshFile /\ HopsReady /\ StampIsHonest

-----------------------------------------------------------------------------
(* What the hops do to a schema                                                   *)

LEMMA HopAdds ==
  /\ MIGRATIONS[1] = ToV2 /\ MIGRATIONS[2] = ToV3 /\ MIGRATIONS[3] = ToV4
  /\ MIGRATIONS[4] = ToV5 /\ MIGRATIONS[5] = ToV6 /\ MIGRATIONS[6] = ToV7
  /\ MIGRATIONS[7] = ToV8 /\ MIGRATIONS[8] = ToV9 /\ MIGRATIONS[9] = ToV10
  /\ MIGRATIONS[10] = ToV11 /\ MIGRATIONS[11] = ToV12 /\ MIGRATIONS[12] = ToV13
  /\ MIGRATIONS[13] = ToV14 /\ MIGRATIONS[14] = ToV15 /\ MIGRATIONS[15] = ToV16
  /\ MIGRATIONS[16] = ToV17 /\ MIGRATIONS[17] = ToV18 /\ MIGRATIONS[18] = ToV19
  /\ MIGRATIONS[19] = ToV20 /\ MIGRATIONS[20] = ToV21 /\ MIGRATIONS[21] = ToV22
  /\ MIGRATIONS[22] = ToV23 /\ MIGRATIONS[23] = ToV24 /\ MIGRATIONS[24] = ToV25
  /\ MIGRATIONS[25] = ToV26 /\ MIGRATIONS[26] = ToV27 /\ MIGRATIONS[27] = ToV28
  /\ MIGRATIONS[28] = ToV29
BY DEF MIGRATIONS

(* The hops that name the renamed column, and the hops before the table rebuild.     *)
LEMMA HopsApart ==
  ASSUME NEW n \in 1..28
  PROVE  /\ OldName \in MIGRATIONS[n] <=> n = 14
         /\ NewName \in MIGRATIONS[n] <=> n = 25
         /\ "entity_associations" \in MIGRATIONS[n] <=> n = 14
         /\ n < 5 => MIGRATIONS[n] \cap (ToV11 \cup ToV29) = {}
<1> USE DEF OldName, NewName
<1>1. CASE n = 1 \/ n = 2 \/ n = 3 \/ n = 4
  BY <1>1, HopAdds DEF ToV2, ToV3, ToV4, ToV5, ToV11, ToV29
<1>2. CASE n = 5 \/ n = 6 \/ n = 7 \/ n = 8 \/ n = 9
  BY <1>2, HopAdds DEF ToV6, ToV7, ToV8, ToV9, ToV10
<1>3. CASE n = 10 \/ n = 11 \/ n = 12 \/ n = 13 \/ n = 14
  BY <1>3, HopAdds DEF ToV11, ToV12, ToV13, ToV14, ToV15
<1>4. CASE n = 15 \/ n = 16 \/ n = 17 \/ n = 18 \/ n = 19 \/ n = 20
  BY <1>4, HopAdds DEF ToV16, ToV17, ToV18, ToV19, ToV20, ToV21
<1>5. CASE n = 21 \/ n = 22 \/ n = 23 \/ n = 24 \/ n = 25
  BY <1>5, HopAdds DEF ToV22, ToV23, ToV24, ToV25, ToV26
<1>6. CASE n = 26 \/ n = 27 \/ n = 28
  BY <1>6, HopAdds DEF ToV27, ToV28, ToV29
<1> HIDE DEF OldName, NewName
<1> QED
  BY <1>1, <1>2, <1>3, <1>4, <1>5, <1>6

LEMMA FirstSchema ==
  /\ OldName \notin SchemaV1 /\ NewName \notin SchemaV1
  /\ "entity_associations" \notin SchemaV1 /\ SchemaV1 \cap (ToV11 \cup ToV29) = {}
  /\ ToV6 \cap (ToV11 \cup ToV29) = {}
BY DEF OldName, NewName, SchemaV1, ToV6, ToV11, ToV29

LEMMA NeededIs ==
  ASSUME NEW v \in 1..29
  PROVE  \A x : x \in Needed(v) <=>
            x # OldName /\ (x \in SchemaV1 \/ \E n \in 1..(v - 1) : x \in MIGRATIONS[n])
BY DEF Needed, SchemaAt, UpTo

LEMMA NeededGrows ==
  ASSUME NEW v \in 1..28
  PROVE  Needed(v + 1) = Needed(v) \cup (MIGRATIONS[v] \ {OldName})
<1>1. 1..((v + 1) - 1) = (1..(v - 1)) \cup {v} /\ v + 1 \in 1..29 /\ v \in 1..29
  OBVIOUS
<1> QED
  BY <1>1, NeededIs

(* What every program of today finds in the file.                                   *)
LEMMA FullIs ==
  /\ FullSchema = Needed(29) /\ OldName \notin FullSchema
  /\ NewName \in FullSchema /\ "entity_associations" \in FullSchema
  /\ \A n \in 1..28 : MIGRATIONS[n] \ {OldName} \subseteq FullSchema
  /\ \A v \in 1..29 : Needed(v) \subseteq FullSchema
<1>1. FullSchema = Needed(29)
  BY DEF FullSchema, CurrentVersion, Needed, SchemaAt
<1>2. OldName # NewName /\ OldName # "entity_associations"
  BY DEF OldName, NewName
<1>3. \A v \in 1..29 : Needed(v) \subseteq FullSchema
  BY <1>1, NeededIs
<1>4. \A n \in 1..28 : MIGRATIONS[n] \ {OldName} \subseteq FullSchema
  BY <1>1, NeededIs
<1>5. NewName \in FullSchema /\ "entity_associations" \in FullSchema
  BY <1>2, <1>4, HopsApart
<1>6. OldName \notin FullSchema
  BY <1>1 DEF Needed
<1> QED
  BY <1>1, <1>3, <1>4, <1>5, <1>6

LEMMA NeededByVersion ==
  ASSUME NEW v \in 1..29
  PROVE  /\ NewName \in Needed(v) <=> v > 25
         /\ "entity_associations" \in Needed(v) <=> v > 14
         /\ v > 5 => ToV6 \subseteq Needed(v)
         /\ v <= 5 => Needed(v) \cap (ToV11 \cup ToV29) = {}
<1>1. OldName # NewName /\ OldName # "entity_associations" /\ OldName \notin ToV6
  BY DEF OldName, NewName, ToV6
<1>2. NewName \in Needed(v) <=> v > 25
  BY <1>1, NeededIs, HopsApart, FirstSchema
<1>3. "entity_associations" \in Needed(v) <=> v > 14
  BY <1>1, NeededIs, HopsApart, FirstSchema
<1>4. v > 5 => ToV6 \subseteq Needed(v)
  <2>1. v > 5 => 5 \in 1..(v - 1)
    OBVIOUS
  <2> QED
    BY <1>1, <2>1, NeededIs, HopAdds
<1>5. v <= 5 => Needed(v) \cap (ToV11 \cup ToV29) = {}
  BY NeededIs, HopsApart, FirstSchema
<1> QED
  BY <1>2, <1>3, <1>4, <1>5

(* A hop keeps what any version needs, gives what its own version needs, and leaves  *)
(* the schema of today as it is.                                                   *)
LEMMA HopKeeps ==
  ASSUME NEW v \in 1..28, NEW s, s \subseteq FullSchema \cup {OldName},
         NewName \in s => OldName \notin s /\ "entity_associations" \in s,
         Needed(v) \subseteq s
  PROVE  /\ Hopped(v, s) \subseteq FullSchema \cup {OldName}
         /\ NewName \in Hopped(v, s) =>
               OldName \notin Hopped(v, s) /\ "entity_associations" \in Hopped(v, s)
         /\ \A w \in 1..29 : Needed(w) \subseteq s => Needed(w) \subseteq Hopped(v, s)
         /\ Needed(v + 1) \subseteq Hopped(v, s)
         /\ s = FullSchema => Hopped(v, s) = FullSchema
<1>0. OldName # NewName /\ OldName # "entity_associations" /\ OldName \notin ToV6
      /\ NewName \notin LaterIssueColumns /\ "entity_associations" \notin LaterIssueColumns
      /\ LaterIssueColumns \subseteq ToV11 \cup ToV29 /\ NewName \notin ToV6 /\ ToV26 = {NewName}
      /\ NewName # "entity_associations"
  BY DEF OldName, NewName, ToV6, LaterIssueColumns, ToV11, ToV29, ToV26
<1>1. Needed(v + 1) = Needed(v) \cup (MIGRATIONS[v] \ {OldName})
  BY NeededGrows
<1>2. CASE v = 5
  <2>1. Hopped(v, s) = Rebuilt(s) /\ MIGRATIONS[v] = ToV6
    BY <1>2, HopAdds DEF Hopped
  <2>2. CASE ToV6 \subseteq s
    BY <1>1, <2>1, <2>2 DEF Rebuilt
  <2>3. CASE ~(ToV6 \subseteq s)
    <3>1. Hopped(v, s) = (s \ LaterIssueColumns) \cup ToV6
      BY <2>1, <2>3 DEF Rebuilt
    <3>2. ASSUME NEW w \in 1..29, Needed(w) \subseteq s PROVE Needed(w) \subseteq Hopped(v, s)
      <4>1. w <= 5
        BY <2>3, <3>2, NeededByVersion
      <4> QED
        BY <1>0, <3>1, <3>2, <4>1, NeededByVersion
    <3>3. Needed(v) \subseteq Hopped(v, s)
      BY <3>2
    <3>4. ToV6 \subseteq FullSchema
      BY <1>0, <1>2, <2>1, FullIs
    <3>5. Needed(v + 1) \subseteq Hopped(v, s)
      BY <1>1, <2>1, <3>1, <3>3
    <3>6. Hopped(v, s) \subseteq FullSchema \cup {OldName} /\ s # FullSchema
      BY <2>3, <3>1, <3>4
    <3> QED
      BY <1>0, <3>1, <3>2, <3>5, <3>6
  <2> QED
    BY <2>2, <2>3
<1>3. CASE v = 25
  <2>1. Hopped(v, s) = (s \ {OldName}) \cup {NewName} /\ MIGRATIONS[v] = {NewName}
    BY <1>0, <1>3, HopAdds DEF Hopped, Renamed
  <2>2. "entity_associations" \in s
    BY <1>3, NeededByVersion
  <2>3. \A w \in 1..29 : Needed(w) \subseteq s => Needed(w) \subseteq Hopped(v, s)
    BY <2>1 DEF Needed
  <2>4. Needed(v + 1) \subseteq Hopped(v, s)
    BY <1>1, <2>1, <2>3
  <2> QED
    BY <1>0, <2>1, <2>2, <2>3, <2>4, FullIs
<1>4. CASE v = 14 /\ NewName \in s
  <2>1. Hopped(v, s) = s
    BY <1>4 DEF Hopped, Added
  <2>2. MIGRATIONS[v] = {"entity_associations", OldName}
    BY <1>4, HopAdds DEF ToV15, OldName
  <2> QED
    BY <1>1, <1>4, <2>1, <2>2
<1>5. CASE v \notin {5, 25} /\ ~(v = 14 /\ NewName \in s)
  <2>1. Hopped(v, s) = s \cup MIGRATIONS[v]
    BY <1>5 DEF Hopped, Added
  <2>2. NewName \notin MIGRATIONS[v] /\ (OldName \in MIGRATIONS[v] => NewName \notin s)
    BY <1>5, HopsApart
  <2>3. MIGRATIONS[v] \subseteq FullSchema \cup {OldName}
    BY FullIs
  <2>4. s = FullSchema => MIGRATIONS[v] \subseteq FullSchema
    BY <2>2, <2>3, FullIs
  <2> QED
    BY <1>1, <2>1, <2>2, <2>3, <2>4
<1> QED
  BY <1>2, <1>3, <1>4, <1>5

-----------------------------------------------------------------------------
LEMMA SchemaInvInit == SchemaInit => SchemaInv
<1> SUFFICES ASSUME SchemaInit PROVE SchemaInv
  OBVIOUS
<1>1. /\ stamp \in 0..29 /\ appId \in BOOLEAN /\ schema = IF stamp = 0 THEN {} ELSE SchemaAt(stamp)
      /\ opener = [p \in Openers |-> NotOpen]
  BY FirstSeenAssumption DEF SchemaInit, CurrentVersion
<1>2. SchemaTypes /\ FreshFile /\ HopsReady
  BY <1>1 DEF SchemaTypes, FreshFile, HopsReady, Creating, NotOpen, OpenerStates, CurrentVersion
<1>3. stamp > 0 => stamp \in 1..29 /\ Needed(stamp) \subseteq schema
  BY <1>1 DEF Needed
<1>4. ColumnOnce
  <2>1. CASE stamp = 0
    BY <1>1, <2>1 DEF ColumnOnce
  <2>2. CASE stamp \in 1..29
    <3>1. schema \subseteq Needed(stamp) \cup {OldName}
      BY <1>1, <2>2 DEF Needed
    <3>2. NewName \in schema => stamp > 25
      BY <2>2, <3>1, NeededByVersion DEF OldName, NewName
    <3>3. stamp > 25 => OldName \notin schema
      BY <1>1, <2>2 DEF SchemaAt
    <3>4. stamp > 25 => "entity_associations" \in schema
      BY <1>3, <2>2, NeededByVersion
    <3> QED
      BY <2>2, <3>1, <3>2, <3>3, <3>4, FullIs DEF ColumnOnce
  <2> QED
    BY <1>1, <2>1, <2>2
<1>5. StampIsHonest
  BY <1>1, <1>3 DEF StampIsHonest, Needed, NotOpen
<1> QED
  BY <1>2, <1>4, <1>5 DEF SchemaInv

(* A file of the version of today has the schema of today.                           *)
LEMMA CurrentIsFull ==
  ASSUME SchemaInv, stamp = CurrentVersion
  PROVE  schema = FullSchema
<1>1. Needed(29) \subseteq schema
  BY DEF SchemaInv, StampIsHonest, Needed, CurrentVersion
<1>2. schema \subseteq FullSchema \cup {OldName} /\ (NewName \in schema => OldName \notin schema)
  BY DEF SchemaInv, ColumnOnce
<1> QED
  BY <1>1, <1>2, FullIs

LEMMA OpenerMoves ==
  ASSUME SchemaTypes, NEW p \in Openers, NEW is \in OpenerStates, NEW from \in 0..CurrentVersion,
         opener' = [opener EXCEPT ![p] = [is |-> is, at |-> from]]
  PROVE  /\ opener' \in [Openers -> [is : OpenerStates, at : 0..CurrentVersion]]
         /\ opener'[p].is = is /\ opener'[p].at = from
         /\ \A q \in Openers \ {p} : opener'[q] = opener[q]
BY DEF SchemaTypes

LEMMA SchemaInvStep == SchemaInv /\ [SchemaNext]_schemaVars => SchemaInv'
<1> SUFFICES ASSUME SchemaInv, [SchemaNext]_schemaVars PROVE SchemaInv'
  OBVIOUS
<1>0. SchemaTypes /\ ColumnOnce /\ FreshFile /\ HopsReady /\ StampIsHonest
  BY DEF SchemaInv
\* One opener moves and leaves the file alone, but for the application_id.
<1>1. ASSUME NEW p \in Openers, NEW is \in OpenerStates, NEW from \in 0..CurrentVersion,
             opener' = [opener EXCEPT ![p] = [is |-> is, at |-> from]],
             UNCHANGED <<stamp, schema>>, appId' \in BOOLEAN, appId => appId',
             is \in {"creating", "created"} => FALSE,
             is = "open" => stamp = CurrentVersion,
             is = "upgrading" => from = stamp /\ from \in 1..(CurrentVersion - 1)
      PROVE  SchemaInv'
  <2>1. /\ opener' \in [Openers -> [is : OpenerStates, at : 0..CurrentVersion]]
        /\ opener'[p].is = is /\ opener'[p].at = from
        /\ \A q \in Openers \ {p} : opener'[q] = opener[q]
    BY <1>0, <1>1, OpenerMoves
  <2>2. SchemaTypes' /\ ColumnOnce'
    BY <1>0, <1>1, <2>1 DEF SchemaTypes, ColumnOnce
  <2>3. FreshFile'
    BY <1>0, <1>1, <2>1 DEF FreshFile, Creating
  <2>4. HopsReady'
    <3>1. is = "upgrading" => stamp > 0 /\ Needed(from) \subseteq schema
      BY <1>0, <1>1 DEF StampIsHonest, Needed, CurrentVersion
    <3> QED
      BY <1>0, <1>1, <2>1, <3>1 DEF HopsReady
  <2>5. StampIsHonest'
    BY <1>0, <1>1, <2>1, CurrentIsFull DEF StampIsHonest
  <2> QED
    BY <2>2, <2>3, <2>4, <2>5 DEF SchemaInv
<1>2. ASSUME NEW p \in Openers, Classify(p) PROVE SchemaInv'
  <2>1. CASE stamp = 0 /\ ~appId
    <3>0. opener' = [opener EXCEPT ![p] = [is |-> "creating", at |-> 0]] /\ appId'
          /\ UNCHANGED <<stamp, schema>>
      BY <1>2, <2>1 DEF Classify, Becomes
    <3>1. /\ opener' \in [Openers -> [is : OpenerStates, at : 0..CurrentVersion]]
          /\ opener'[p].is = "creating"
          /\ \A q \in Openers \ {p} : opener'[q] = opener[q]
      BY <1>0, <3>0 DEF SchemaTypes, OpenerStates, CurrentVersion
    <3>2. \A q \in Openers : ~Creating(q)
      BY <1>0, <2>1 DEF FreshFile
    <3>3. SchemaTypes' /\ ColumnOnce'
      BY <1>0, <1>2, <2>1, <3>0, <3>1 DEF SchemaTypes, ColumnOnce, Classify
    <3>4. FreshFile'
      BY <1>0, <2>1, <3>0, <3>1, <3>2 DEF FreshFile, Creating
    <3>5. HopsReady' /\ StampIsHonest'
      BY <1>0, <2>1, <3>0, <3>1 DEF HopsReady, StampIsHonest
    <3> QED
      BY <3>3, <3>4, <3>5 DEF SchemaInv
  <2>2. CASE ~(stamp = 0 /\ ~appId)
    <3>1. \E is \in {"open", "pending"} : Becomes(p, is, 0) /\ (is = "open" => stamp = CurrentVersion)
      BY <1>2, <2>2 DEF Classify
    <3> QED
      <4>1. PICK is \in {"open", "pending"} :
               /\ opener' = [opener EXCEPT ![p] = [is |-> is, at |-> 0]]
               /\ is = "open" => stamp = CurrentVersion
        BY <3>1 DEF Becomes
      <4>2. is \in OpenerStates /\ 0 \in 0..CurrentVersion /\ is \notin {"creating", "created", "upgrading"}
        BY DEF OpenerStates, CurrentVersion
      <4>3. UNCHANGED <<stamp, schema, appId>> /\ appId \in BOOLEAN
        BY <1>0, <1>2, <2>2 DEF Classify, SchemaTypes
      <4> QED
        BY <1>1, <4>1, <4>2, <4>3
  <2> QED
    BY <2>1, <2>2
<1>3. ASSUME NEW p \in Openers, CreateTables(p) PROVE SchemaInv'
  <2>0. stamp = 0 /\ appId /\ opener[p].is = "creating" /\ schema' = schema \cup FullSchema
        /\ opener' = [opener EXCEPT ![p] = [is |-> "created", at |-> 0]] /\ UNCHANGED <<stamp, appId>>
    BY <1>0, <1>3 DEF CreateTables, Becomes, FreshFile, Creating
  <2>1. /\ opener' \in [Openers -> [is : OpenerStates, at : 0..CurrentVersion]]
        /\ opener'[p].is = "created"
        /\ \A q \in Openers \ {p} : opener'[q] = opener[q]
    BY <1>0, <2>0 DEF SchemaTypes, OpenerStates, CurrentVersion
  <2>2. schema' = FullSchema
    BY <1>0, <2>0 DEF FreshFile
  <2>3. SchemaTypes' /\ ColumnOnce'
    BY <1>0, <2>0, <2>1, <2>2, FullIs DEF SchemaTypes, ColumnOnce
  <2>4. FreshFile'
    BY <1>0, <2>0, <2>1, <2>2 DEF FreshFile, Creating
  <2>5. HopsReady' /\ StampIsHonest'
    BY <1>0, <2>0, <2>1, <2>2 DEF HopsReady, StampIsHonest
  <2> QED
    BY <2>3, <2>4, <2>5 DEF SchemaInv
<1>4. ASSUME NEW p \in Openers, StampFresh(p) PROVE SchemaInv'
  <2>0. stamp = 0 /\ schema = FullSchema /\ opener[p].is = "created" /\ stamp' = CurrentVersion
        /\ opener' = [opener EXCEPT ![p] = [is |-> "open", at |-> 0]] /\ UNCHANGED <<schema, appId>>
    BY <1>0, <1>4 DEF StampFresh, Becomes, FreshFile, Creating
  <2>1. /\ opener' \in [Openers -> [is : OpenerStates, at : 0..CurrentVersion]]
        /\ opener'[p].is = "open"
        /\ \A q \in Openers \ {p} : opener'[q] = opener[q]
    BY <1>0, <2>0 DEF SchemaTypes, OpenerStates, CurrentVersion
  <2>2. SchemaTypes' /\ ColumnOnce'
    BY <1>0, <2>0, <2>1 DEF SchemaTypes, ColumnOnce, CurrentVersion
  <2>3. FreshFile'
    BY <1>0, <2>0, <2>1 DEF FreshFile, Creating, CurrentVersion
  <2>4. HopsReady' /\ StampIsHonest'
    BY <1>0, <2>0, <2>1, FullIs DEF HopsReady, StampIsHonest, Needed, CurrentVersion
  <2> QED
    BY <2>2, <2>3, <2>4 DEF SchemaInv
<1>5. ASSUME NEW p \in Openers, BeginUpgrade(p) PROVE SchemaInv'
  <2>1. \E is \in {"open", "closed", "upgrading"}, from \in {0, stamp} :
           /\ opener' = [opener EXCEPT ![p] = [is |-> is, at |-> from]]
           /\ is = "open" => stamp = CurrentVersion
           /\ is = "upgrading" => from = stamp /\ stamp # 0 /\ stamp # CurrentVersion
    BY <1>5 DEF BeginUpgrade, NotOpen
  <2> QED
    <3>1. PICK is \in {"open", "closed", "upgrading"}, from \in {0, stamp} :
             /\ opener' = [opener EXCEPT ![p] = [is |-> is, at |-> from]]
             /\ is = "open" => stamp = CurrentVersion
             /\ is = "upgrading" => from = stamp /\ stamp # 0 /\ stamp # CurrentVersion
      BY <2>1
    <3>2. is \in OpenerStates /\ from \in 0..CurrentVersion /\ is \notin {"creating", "created"}
          /\ (is = "upgrading" => from = stamp /\ from \in 1..(CurrentVersion - 1))
      BY <1>0, <3>1 DEF OpenerStates, CurrentVersion, SchemaTypes
    <3>3. UNCHANGED <<stamp, schema, appId>> /\ appId \in BOOLEAN
      BY <1>0, <1>5 DEF BeginUpgrade, SchemaTypes
    <3> QED
      BY <1>1, <3>1, <3>2, <3>3
<1>6. ASSUME NEW p \in Openers, Leave(p) PROVE SchemaInv'
  <2>1. opener' = [opener EXCEPT ![p] = [is |-> "closed", at |-> 0]] /\ UNCHANGED <<stamp, schema, appId>>
    BY <1>6 DEF Leave, NotOpen
  <2>2. "closed" \in OpenerStates /\ 0 \in 0..CurrentVersion /\ appId \in BOOLEAN
    BY <1>0 DEF OpenerStates, CurrentVersion, SchemaTypes
  <2> QED
    BY <1>1, <2>1, <2>2
<1>7. ASSUME NEW p \in Openers, ApplyHop(p) PROVE SchemaInv'
  <2> DEFINE v == opener[p].at
  <2>0. /\ v \in 1..28 /\ stamp > 0 /\ Needed(v) \subseteq schema /\ opener[p].is = "upgrading"
        /\ schema' = Hopped(v, schema) /\ stamp' = v + 1 /\ appId' = (appId \/ v = 17)
    BY <1>0, <1>7 DEF ApplyHop, HopsReady, CurrentVersion
  <2>1. PICK is \in {"open", "upgrading"}, from \in 0..28 :
           /\ opener' = [opener EXCEPT ![p] = [is |-> is, at |-> from]]
           /\ is = "open" => v + 1 = CurrentVersion
           /\ is = "upgrading" => from = v + 1
    <3>1. CASE v + 1 = CurrentVersion
      BY <1>7, <3>1 DEF ApplyHop, Becomes
    <3>2. CASE v + 1 # CurrentVersion
      <4>1. v + 1 \in 0..28
        BY <2>0, <3>2 DEF CurrentVersion
      <4> QED
        BY <1>7, <3>2, <4>1 DEF ApplyHop, Becomes
    <3> QED
      BY <3>1, <3>2
  <2>2. /\ opener' \in [Openers -> [is : OpenerStates, at : 0..CurrentVersion]]
        /\ opener'[p].is = is /\ opener'[p].at = from
        /\ \A q \in Openers \ {p} : opener'[q] = opener[q]
    BY <1>0, <2>1 DEF SchemaTypes, OpenerStates, CurrentVersion
  <2>3. PICK w0 \in 1..28 : w0 = v
    BY <2>0
  <2> HIDE DEF v
  <2>4. /\ schema' \subseteq FullSchema \cup {OldName}
        /\ NewName \in schema' => OldName \notin schema' /\ "entity_associations" \in schema'
        /\ \A w \in 1..29 : Needed(w) \subseteq schema => Needed(w) \subseteq schema'
        /\ Needed(w0 + 1) \subseteq schema'
        /\ schema = FullSchema => schema' = FullSchema
    BY <1>0, <2>0, <2>3, HopKeeps DEF ColumnOnce
  <2>5. SchemaTypes' /\ ColumnOnce'
    BY <1>0, <2>0, <2>2, <2>4 DEF SchemaTypes, ColumnOnce, CurrentVersion
  <2>6. FreshFile'
    BY <1>0, <2>0, <2>1, <2>2 DEF FreshFile, Creating
  <2>7. HopsReady'
    BY <1>0, <2>0, <2>1, <2>2, <2>3, <2>4 DEF HopsReady, CurrentVersion
  <2>8. StampIsHonest'
    <3>1. SchemaAt(stamp') \ {OldName} \subseteq schema'
      BY <2>0, <2>3, <2>4 DEF Needed
    <3>2. is = "open" => schema' = FullSchema
      <4>1. is = "open" => Needed(29) \subseteq schema'
        BY <2>1, <2>3, <2>4 DEF CurrentVersion
      <4> QED
        BY <2>4, <4>1, FullIs
    <3>3. \A q \in Openers \ {p} : opener'[q].is = "open" => schema' = FullSchema
      BY <1>0, <2>2, <2>4 DEF StampIsHonest
    <3> QED
      BY <2>2, <3>1, <3>2, <3>3 DEF StampIsHonest
  <2> QED
    BY <2>5, <2>6, <2>7, <2>8 DEF SchemaInv
<1>8. ASSUME UNCHANGED <<stamp, appId, schema, opener>> PROVE SchemaInv'
  BY <1>0, <1>8
     DEF SchemaInv, SchemaTypes, ColumnOnce, FreshFile, Creating, HopsReady, StampIsHonest
<1>9. ASSUME NEW p \in Openers, NEW content, NEW signing, Attach(p, content, signing) PROVE SchemaInv'
  BY <1>8, <1>9 DEF Attach
<1> QED
  BY <1>2, <1>3, <1>4, <1>5, <1>6, <1>7, <1>8, <1>9 DEF SchemaNext, schemaVars

(* Whatever versions files start from, and whoever upgrades, dies or upgrades again  *)
(* under others: the stamp promises no more than the file holds, and whoever has the *)
(* database open has the whole schema of today.                                    *)
THEOREM StampAlwaysHonest == SchemaSpec => []StampIsHonest
<1>1. SchemaInv => StampIsHonest
  BY DEF SchemaInv
<1> QED
  BY <1>1, SchemaInvInit, SchemaInvStep, PTL DEF SchemaSpec
-----------------------------------------------------------------------------
(* The surfaces' handlers                                                          *)

\* A request under way: what it is about, and how far its handler has come.
Plans == McpPlans \cup CliPlans \cup HttpPlans
RequestRecord ==
    [surface : {"mcp", "cli", "http"}, plan : Seq(StageRecord), via : Seq(StageRecord),
     steps : Seq(STRING), todo : SUBSET Subjects, at : SUBSET Subjects, ids : SUBSET Subjects,
     foreign : SUBSET Subjects, gone : SUBSET Subjects, closing : BOOLEAN,
     cleared : SUBSET Subjects, closed : SUBSET Subjects, wrote : SUBSET Subjects,
     idle : SUBSET Subjects, failed : SUBSET Subjects, shown : SUBSET Subjects,
     shows : BOOLEAN, owed : BOOLEAN, answer : {"none", "done", "refused", "fault"}]
IsRequest(c) ==
    /\ c \in RequestRecord /\ c.via \in Plans
    /\ c.surface # "http" => c.via \in McpPlans \cup CliPlans

\* The stage and the step that come next, counted in the plan.
StageOf(c) == Len(c.via) - Len(c.plan) + 1
StepOf(c) == Len(c.via[StageOf(c)].steps) - Len(c.steps) + 1
OnCourse(c) ==
    /\ StageOf(c) \in DOMAIN c.via /\ c.plan # <<>>
    /\ \A k \in DOMAIN c.plan : c.plan[k] = c.via[StageOf(c) + k - 1]
    /\ StepOf(c) >= 1
    /\ \A k \in DOMAIN c.steps : c.steps[k] = c.via[StageOf(c)].steps[StepOf(c) + k - 1]

\* A subject that is still in the request has taken the step (h, k).
Passed(c, x, h, k) ==
    \/ h < StageOf(c)
    \/ h = StageOf(c) /\ x \notin c.todo /\ (x \in c.at => k < StepOf(c))

\* A stage works on all that is left at once, or on one of them after the other.
SubjectsApart(c) ==
    /\ c.todo \subseteq Left(c)
    /\ ~c.via[StageOf(c)].each => c.todo = {}
    /\ c.steps # <<>> =>
          /\ c.at \subseteq Left(c) /\ c.at \cap c.todo = {}
          /\ c.via[StageOf(c)].each => \E x \in c.at : c.at = {x}
          /\ ~c.via[StageOf(c)].each => c.at = Left(c)

\* Who is left has earned all steps that it has taken: the gate let it pass, the write
\* went through or had nothing to do.
Earned(c) ==
    \A x \in Left(c) : \A h \in DOMAIN c.via : \A k \in DOMAIN c.via[h].steps :
        Passed(c, x, h, k) =>
            /\ c.via[h].steps[k] \in Gates(c.closing) => x \in c.cleared \cup c.foreign
            /\ c.via[h].steps[k] \in Writes => x \in c.wrote \cup c.idle

\* What was written has taken a write of the plan, and nobody reports it as failed.
WrittenBy(c, x) ==
    \E h \in DOMAIN c.via : \E k \in DOMAIN c.via[h].steps :
        c.via[h].steps[k] \in Writes /\ Passed(c, x, h, k)
WrittenLeft(c) == \A x \in c.wrote : x \in Left(c) /\ WrittenBy(c, x)

\* If context.md is behind the store, a refresh is still to come.
RefreshAhead(c) ==
    \E h \in DOMAIN c.via : \E k \in DOMAIN c.via[h].steps :
        /\ ~c.via[h].each /\ c.via[h].steps[k] = "refresh"
        /\ h > StageOf(c) \/ (h = StageOf(c) /\ k >= StepOf(c))
Owes(c) == c.owed => c.surface = "http" \/ c.via \in Unrefreshed \/ RefreshAhead(c)

HasSnapshot(plan) ==
    \E h \in DOMAIN plan : \E k \in DOMAIN plan[h].steps : plan[h].steps[k] = "snapshot"
FailedAreGone(c) ==
    /\ c.shows => HasSnapshot(c.via)
    /\ HasSnapshot(c.via) => c.failed \subseteq c.gone

InFlight(c) ==
    /\ IsRequest(c) /\ OnCourse(c) /\ SubjectsApart(c) /\ Earned(c) /\ WrittenLeft(c)
    /\ Owes(c) /\ FailedAreGone(c)
    /\ c.via \notin Ungated => c.closed \subseteq c.cleared

SameRequest(c, d) ==
    /\ d.surface = c.surface /\ d.via = c.via /\ d.ids = c.ids /\ d.foreign = c.foreign
    /\ d.closing = c.closing

LEMMA PlanShape ==
  ASSUME NEW plan \in Plans
  PROVE  /\ IsPlan(plan) /\ ReportsUnwritten(plan) /\ ShownStay(plan)
         /\ plan \notin Partial => RefusesFirst(plan)
         /\ plan \notin Ungated => AsksFirst(plan)
BY HandlersAssumption DEF Plans

\* Where a request is in its plan.
LEMMA WhereItIs ==
  ASSUME NEW c, InFlight(c)
  PROVE  /\ c.via \in Seq(StageRecord) /\ c.plan \in Seq(StageRecord) /\ c.steps \in Seq(STRING)
         /\ StageOf(c) \in DOMAIN c.via /\ StageOf(c) \in Nat /\ StepOf(c) \in Nat
         /\ Head(c.plan) = c.via[StageOf(c)] /\ c.via[StageOf(c)] \in StageRecord
         /\ c.via[StageOf(c)].steps \in Seq(STRING) /\ Len(c.via[StageOf(c)].steps) \in Nat
         /\ ~c.via[StageOf(c)].each => c.via[StageOf(c)].refusal = "answer"
         /\ c.steps # <<>> => /\ StepOf(c) \in DOMAIN c.via[StageOf(c)].steps
                              /\ Head(c.steps) = c.via[StageOf(c)].steps[StepOf(c)]
         /\ c.steps = <<>> => StepOf(c) = Len(c.via[StageOf(c)].steps) + 1
<1>1. /\ c.via \in Seq(StageRecord) /\ c.plan \in Seq(StageRecord) /\ c.steps \in Seq(STRING)
      /\ OnCourse(c) /\ c.via \in Plans
  BY DEF InFlight, IsRequest, RequestRecord
<1>2. StageOf(c) \in DOMAIN c.via /\ c.via[StageOf(c)] \in StageRecord /\ StageOf(c) \in Nat
  BY <1>1 DEF OnCourse
<1>3. c.plan # <<>> /\ \A k \in DOMAIN c.plan : c.plan[k] = c.via[StageOf(c) + k - 1]
  BY <1>1 DEF OnCourse
<1> DEFINE p == c.plan
           n == StageOf(c)
           s == c.steps
           t == c.via[StageOf(c)].steps
<1>4. Head(p) = c.via[n]
  <2> HIDE DEF p, n
  <2>1. p # <<>> /\ p \in Seq(StageRecord) /\ n \in Nat /\ \A k \in DOMAIN p : p[k] = c.via[n + k - 1]
    BY <1>1, <1>2, <1>3 DEF p, n
  <2>2. Head(p) = p[1] /\ 1 \in DOMAIN p /\ n + 1 - 1 = n
    BY <2>1
  <2> QED
    BY <2>1, <2>2
<1>5. t \in Seq(STRING) /\ Len(t) \in Nat
  BY <1>2 DEF StageRecord
<1>6. ~c.via[n].each => c.via[n].refusal = "answer"
  BY <1>1, <1>2, PlanShape DEF IsPlan
<1> DEFINE m == StepOf(c)
<1>7. m = Len(t) - Len(s) + 1 /\ m >= 1 /\ \A k \in DOMAIN s : s[k] = t[m + k - 1]
  BY <1>1 DEF OnCourse, StepOf
<1>8. s \in Seq(STRING)
  BY <1>1
<1>9. /\ m \in Nat
      /\ s # <<>> => m \in DOMAIN t /\ Head(s) = t[m]
      /\ s = <<>> => m = Len(t) + 1
  <2> HIDE DEF s, t, m
  <2>1. Len(s) \in Nat /\ Len(t) \in Nat /\ DOMAIN t = 1..Len(t) /\ DOMAIN s = 1..Len(s)
    BY <1>5, <1>8
  <2>2. m \in Nat
    BY <1>7, <2>1
  <2>3. ASSUME s # <<>> PROVE m \in DOMAIN t /\ Head(s) = t[m]
    <3>1. Len(s) > 0 /\ Head(s) = s[1] /\ 1 \in DOMAIN s /\ m + 1 - 1 = m
      BY <1>8, <2>1, <2>2, <2>3
    <3> QED
      BY <1>7, <2>1, <2>2, <3>1
  <2>4. ASSUME s = <<>> PROVE m = Len(t) + 1
    BY <1>7, <2>4, <2>1
  <2> QED
    BY <2>2, <2>3, <2>4
<1> QED
  BY <1>1, <1>2, <1>4, <1>5, <1>6, <1>9
\* A handler that takes the step it is at.
LEMMA GoesOn ==
  ASSUME NEW c, InFlight(c), c.steps # <<>>, NEW d, d \in RequestRecord, SameRequest(c, d),
         d.plan = c.plan, d.steps = Tail(c.steps), d.todo = c.todo, d.at = c.at, d.failed = c.failed
  PROVE  /\ IsRequest(d) /\ OnCourse(d) /\ SubjectsApart(d)
         /\ StageOf(d) = StageOf(c) /\ StepOf(d) = StepOf(c) + 1
         /\ \A x \in Left(c), h, k \in Nat : Passed(d, x, h, k) <=>
               Passed(c, x, h, k) \/ (x \in c.at /\ h = StageOf(c) /\ k = StepOf(c))
<1>1. IsRequest(d)
  BY DEF InFlight, IsRequest, SameRequest
<1>2. StageOf(d) = StageOf(c) /\ StageOf(c) \in Nat /\ StepOf(c) \in Nat
  BY WhereItIs DEF StageOf, SameRequest
<1> DEFINE s == c.steps
           t == c.via[StageOf(c)].steps
           m == StepOf(c)
<1>3. s \in Seq(STRING) /\ t \in Seq(STRING) /\ m \in Nat /\ s # <<>>
  BY WhereItIs
<1>4. m = Len(t) - Len(s) + 1 /\ m >= 1 /\ \A k \in DOMAIN s : s[k] = t[m + k - 1]
  BY DEF InFlight, OnCourse, StepOf
<1>5. StepOf(d) = Len(t) - Len(Tail(s)) + 1
  BY <1>2 DEF StepOf, SameRequest
<1>6. /\ Len(t) - Len(Tail(s)) + 1 = m + 1 /\ m + 1 >= 1
      /\ \A k \in DOMAIN Tail(s) : Tail(s)[k] = t[(m + 1) + k - 1]
  <2> HIDE DEF s, t, m
  <2>1. /\ Len(t) \in Nat /\ Len(s) \in Nat /\ Len(s) > 0 /\ Len(Tail(s)) = Len(s) - 1
        /\ DOMAIN Tail(s) = 1..(Len(s) - 1) /\ DOMAIN s = 1..Len(s)
        /\ \A k \in 1..(Len(s) - 1) : Tail(s)[k] = s[k + 1]
    BY <1>3
  <2>2. ASSUME NEW k \in DOMAIN Tail(s) PROVE Tail(s)[k] = t[(m + 1) + k - 1]
    <3>1. k + 1 \in DOMAIN s /\ k \in Nat /\ Tail(s)[k] = s[k + 1]
      BY <2>1, <2>2
    <3>2. s[k + 1] = t[m + (k + 1) - 1] /\ m + (k + 1) - 1 = (m + 1) + k - 1
      BY <1>3, <1>4, <3>1
    <3> QED
      BY <3>1, <3>2
  <2> QED
    BY <1>3, <1>4, <2>1, <2>2
<1>7. StepOf(d) = StepOf(c) + 1
  BY <1>5, <1>6
<1>8. OnCourse(d)
  <2>1. /\ StageOf(d) \in DOMAIN d.via /\ d.plan # <<>>
        /\ \A k \in DOMAIN d.plan : d.plan[k] = d.via[StageOf(d) + k - 1]
    BY <1>2 DEF InFlight, OnCourse, SameRequest
  <2>2. d.steps = Tail(s) /\ d.via[StageOf(d)].steps = t /\ StepOf(d) = m + 1
    BY <1>2, <1>7 DEF SameRequest
  <2> HIDE DEF s, t, m
  <2>3. StepOf(d) >= 1 /\ \A k \in DOMAIN d.steps : d.steps[k] = d.via[StageOf(d)].steps[StepOf(d) + k - 1]
    BY <1>6, <2>2
  <2> QED
    BY <2>1, <2>3 DEF OnCourse
<1>9. Left(d) = Left(c)
  BY DEF Left, SameRequest
<1>10. SubjectsApart(d)
  BY <1>2, <1>9 DEF InFlight, SubjectsApart, SameRequest
<1>11. ASSUME NEW x \in Left(c), NEW h \in Nat, NEW k \in Nat
       PROVE  Passed(d, x, h, k) <=>
                 Passed(c, x, h, k) \/ (x \in c.at /\ h = StageOf(c) /\ k = StepOf(c))
  <2>1. x \in c.at => x \notin c.todo
    BY DEF InFlight, SubjectsApart
  <2>2. k < StepOf(c) + 1 <=> k < StepOf(c) \/ k = StepOf(c)
    BY <1>2
  <2> QED
    BY <1>2, <1>7, <2>1, <2>2 DEF Passed
<1> QED
  BY <1>1, <1>2, <1>7, <1>8, <1>10, <1>11

\* What it has done by then.
LEMMA GoesOnEarning ==
  ASSUME NEW c, InFlight(c), c.steps # <<>>, NEW d, d \in RequestRecord, SameRequest(c, d),
         d.plan = c.plan, d.steps = Tail(c.steps), d.todo = c.todo, d.at = c.at, d.failed = c.failed,
         d.gone = c.gone,
         c.cleared \subseteq d.cleared,
         Head(c.steps) \in Gates(c.closing) => c.at \subseteq d.cleared \cup c.foreign,
         c.wrote \cup c.idle \subseteq d.wrote \cup d.idle,
         Head(c.steps) \in Writes => c.at \subseteq d.wrote \cup d.idle,
         d.wrote \subseteq c.wrote \cup (IF Head(c.steps) \in Writes THEN c.at ELSE {})
  PROVE  Earned(d) /\ WrittenLeft(d)
<1> DEFINE here == StageOf(c)
           m == StepOf(c)
<1>1. /\ here \in DOMAIN c.via /\ here \in Nat /\ m \in DOMAIN c.via[here].steps /\ m \in Nat
      /\ Head(c.steps) = c.via[here].steps[m]
  BY WhereItIs
<1>2. \A x \in Left(c), h, k \in Nat : Passed(d, x, h, k) <=>
         Passed(c, x, h, k) \/ (x \in c.at /\ h = here /\ k = m)
  BY GoesOn
<1>3. Left(d) = Left(c) /\ d.via = c.via /\ d.closing = c.closing /\ d.foreign = c.foreign
  BY DEF Left, SameRequest
<1>4. c.via \in Seq(StageRecord) /\ DOMAIN c.via \subseteq Nat
  BY WhereItIs
<1>5. \A h \in DOMAIN c.via : DOMAIN c.via[h].steps \subseteq Nat
  <2> SUFFICES ASSUME NEW h \in DOMAIN c.via PROVE DOMAIN c.via[h].steps \subseteq Nat
    OBVIOUS
  <2>1. c.via[h] \in StageRecord
    BY <1>4
  <2>2. c.via[h].steps \in Seq(STRING)
    BY <2>1 DEF StageRecord
  <2> QED
    BY <2>2
<1> HIDE DEF here, m
<1>6. Earned(d)
  <2> SUFFICES ASSUME NEW x \in Left(c), NEW h \in DOMAIN c.via, NEW k \in DOMAIN c.via[h].steps,
                      Passed(d, x, h, k)
               PROVE  /\ c.via[h].steps[k] \in Gates(c.closing) => x \in d.cleared \cup c.foreign
                      /\ c.via[h].steps[k] \in Writes => x \in d.wrote \cup d.idle
    BY <1>3 DEF Earned
  <2>1. h \in Nat /\ k \in Nat
    BY <1>4, <1>5
  <2>2. CASE Passed(c, x, h, k)
    <3>1. /\ c.via[h].steps[k] \in Gates(c.closing) => x \in c.cleared \cup c.foreign
          /\ c.via[h].steps[k] \in Writes => x \in c.wrote \cup c.idle
      BY <2>2 DEF InFlight, Earned
    <3> QED
      BY <3>1
  <2>3. CASE x \in c.at /\ h = here /\ k = m
    BY <1>1, <2>3
  <2> QED
    BY <1>2, <2>1, <2>2, <2>3
<1>7. WrittenLeft(d)
  <2> SUFFICES ASSUME NEW x \in d.wrote PROVE x \in Left(c) /\ WrittenBy(d, x)
    BY <1>3 DEF WrittenLeft
  <2>1. CASE x \in c.wrote
    <3>1. PICK h \in DOMAIN c.via : \E k \in DOMAIN c.via[h].steps :
                 c.via[h].steps[k] \in Writes /\ Passed(c, x, h, k)
      BY <2>1 DEF InFlight, WrittenLeft, WrittenBy
    <3>2. PICK k \in DOMAIN c.via[h].steps : c.via[h].steps[k] \in Writes /\ Passed(c, x, h, k)
      BY <3>1
    <3>3. x \in Left(c)
      BY <2>1 DEF InFlight, WrittenLeft
    <3>4. Passed(d, x, h, k)
      BY <1>2, <1>4, <1>5, <3>2, <3>3
    <3> QED
      BY <1>3, <3>2, <3>3, <3>4 DEF WrittenBy
  <2>2. CASE x \in c.at /\ Head(c.steps) \in Writes
    <3>1. x \in Left(c)
      BY <2>2 DEF InFlight, SubjectsApart
    <3>2. Passed(d, x, here, m)
      BY <1>1, <1>2, <2>2, <3>1
    <3> QED
      BY <1>1, <1>3, <2>2, <3>1, <3>2 DEF WrittenBy
  <2> QED
    BY <2>1, <2>2
<1> QED
  BY <1>6, <1>7
\* A subject is reported and its turn ends: it had not been written.
LEMMA Reported ==
  ASSUME NEW c, InFlight(c), c.steps # <<>>, NEW d, d \in RequestRecord, SameRequest(c, d),
         d.plan = c.plan, d.steps = <<>>, d.todo = c.todo, d.at = c.at,
         d.failed = c.failed \cup c.at, d.gone = c.gone, d.cleared = c.cleared,
         d.wrote = c.wrote, d.idle = c.idle, d.owed = c.owed, d.closed = c.closed,
         d.shows = c.shows,
         Head(c.plan).refusal # "answer",
         HasSnapshot(c.via) => c.at \subseteq c.gone
  PROVE  InFlight(d)
<1> DEFINE here == StageOf(c)
           m == StepOf(c)
           t == c.via[here].steps
<1>1. /\ here \in DOMAIN c.via /\ here \in Nat /\ m \in DOMAIN t /\ m \in Nat
      /\ t \in Seq(STRING) /\ c.via[here].each /\ c.via[here].refusal # "answer"
  BY WhereItIs
<1>2. IsRequest(d)
  BY DEF InFlight, IsRequest, SameRequest
<1>3. StageOf(d) = here /\ StepOf(d) = Len(t) + 1 /\ m < Len(t) + 1 /\ Len(t) \in Nat
  <2>1. StageOf(d) = here
    BY DEF StageOf, SameRequest
  <2>2. StepOf(d) = Len(t) - 0 + 1
    BY <2>1 DEF StepOf, SameRequest
  <2> HIDE DEF t, here, m
  <2> QED
    BY <1>1, <2>1, <2>2
<1>4. c.at \cap c.todo = {} /\ c.at \subseteq Left(c) /\ c.todo \subseteq Left(c)
  BY DEF InFlight, SubjectsApart
<1>5. Left(d) = Left(c) \ c.at /\ d.via = c.via /\ d.closing = c.closing /\ d.foreign = c.foreign
  BY DEF Left, SameRequest
<1>6. \A x, h, k : x \notin c.at => (Passed(d, x, h, k) <=> Passed(c, x, h, k))
  BY <1>3 DEF Passed
<1>7. OnCourse(d)
  <2>1. /\ StageOf(d) \in DOMAIN d.via /\ d.plan # <<>>
        /\ \A k \in DOMAIN d.plan : d.plan[k] = d.via[StageOf(d) + k - 1]
    BY <1>3, <1>5 DEF InFlight, OnCourse
  <2>2. StepOf(d) >= 1 /\ DOMAIN d.steps = {}
    BY <1>3
  <2> QED
    BY <2>1, <2>2 DEF OnCourse
<1>8. SubjectsApart(d)
  BY <1>1, <1>3, <1>4, <1>5 DEF SubjectsApart
<1>9. Earned(d)
  BY <1>5, <1>6 DEF InFlight, Earned
<1>10. c.at \cap c.wrote = {}
  <2> SUFFICES ASSUME NEW x \in c.at, x \in c.wrote PROVE FALSE
    OBVIOUS
  <2>1. PICK h \in DOMAIN c.via : \E k \in DOMAIN c.via[h].steps :
               c.via[h].steps[k] \in Writes /\ Passed(c, x, h, k)
    BY DEF InFlight, WrittenLeft, WrittenBy
  <2>2. PICK k \in DOMAIN c.via[h].steps : c.via[h].steps[k] \in Writes /\ Passed(c, x, h, k)
    BY <2>1
  <2>3. Before(h, k, here, m)
    BY <2>2 DEF Passed, Before
  <2>4. Follows(c.via, here, m, Writes)
    BY <2>2, <2>3 DEF Follows
  <2>5. ReportsUnwritten(c.via)
    BY PlanShape DEF InFlight, IsRequest
  <2> QED
    BY <1>1, <2>4, <2>5 DEF ReportsUnwritten
<1>11. WrittenLeft(d)
  <2> SUFFICES ASSUME NEW x \in c.wrote PROVE x \in Left(d) /\ WrittenBy(d, x)
    BY DEF WrittenLeft
  <2>1. x \in Left(c) /\ x \notin c.at /\ WrittenBy(c, x)
    BY <1>10 DEF InFlight, WrittenLeft
  <2> QED
    BY <1>5, <1>6, <2>1 DEF WrittenBy
<1>12. Owes(d)
  <2>1. RefreshAhead(c) => RefreshAhead(d)
    <3> SUFFICES ASSUME RefreshAhead(c) PROVE RefreshAhead(d)
      OBVIOUS
    <3>1. PICK h \in DOMAIN c.via : \E k \in DOMAIN c.via[h].steps :
                 /\ ~c.via[h].each /\ c.via[h].steps[k] = "refresh"
                 /\ h > here \/ (h = here /\ k >= m)
      BY DEF RefreshAhead
    <3>2. h # here
      BY <1>1, <3>1
    <3> QED
      BY <1>3, <1>5, <3>1, <3>2 DEF RefreshAhead
  <2> QED
    BY <2>1 DEF InFlight, Owes, SameRequest
<1>13. FailedAreGone(d)
  BY DEF InFlight, FailedAreGone, SameRequest
<1>14. d.via \notin Ungated => d.closed \subseteq d.cleared
  BY <1>5 DEF InFlight
<1> QED
  BY <1>2, <1>7, <1>8, <1>9, <1>11, <1>12, <1>13, <1>14 DEF InFlight

\* The next subject has its turn.
LEMMA NextInTurn ==
  ASSUME NEW c, InFlight(c), c.steps = <<>>, NEW x \in c.todo, NEW d, d \in RequestRecord,
         SameRequest(c, d), d.plan = c.plan, d.steps = Head(c.plan).steps, d.todo = c.todo \ {x},
         d.at = {x}, d.failed = c.failed, d.gone = c.gone, d.cleared = c.cleared,
         d.wrote = c.wrote, d.idle = c.idle, d.owed = c.owed, d.closed = c.closed,
         d.shows = c.shows
  PROVE  InFlight(d)
<1> DEFINE here == StageOf(c)
           t == c.via[here].steps
<1>1. /\ here \in DOMAIN c.via /\ here \in Nat /\ t \in Seq(STRING) /\ Len(t) \in Nat
      /\ c.steps = <<>> /\ StepOf(c) = Len(t) + 1 /\ d.steps = t /\ c.via[here].each
  BY WhereItIs DEF InFlight, SubjectsApart
<1>2. IsRequest(d)
  BY DEF InFlight, IsRequest, SameRequest
<1>3. StageOf(d) = here /\ StepOf(d) = 1
  <2>1. StageOf(d) = here
    BY DEF StageOf, SameRequest
  <2>2. StepOf(d) = Len(t) - Len(t) + 1
    BY <1>1, <2>1 DEF StepOf, SameRequest
  <2> HIDE DEF t, here
  <2> QED
    BY <1>1, <2>1, <2>2
<1>4. Left(d) = Left(c) /\ d.via = c.via /\ d.closing = c.closing /\ d.foreign = c.foreign
  BY DEF Left, SameRequest
<1>5. c.todo \subseteq Left(c)
  BY DEF InFlight, SubjectsApart
<1>6. \A h \in DOMAIN c.via : \A k \in DOMAIN c.via[h].steps : k \in Nat /\ k >= 1 /\ h \in Nat
  <2> SUFFICES ASSUME NEW h \in DOMAIN c.via, NEW k \in DOMAIN c.via[h].steps
               PROVE  k \in Nat /\ k >= 1 /\ h \in Nat
    OBVIOUS
  <2>1. c.via[h] \in StageRecord /\ h \in Nat
    BY WhereItIs
  <2>2. c.via[h].steps \in Seq(STRING)
    BY <2>1 DEF StageRecord
  <2> QED
    BY <2>1, <2>2
<1>7. \A h \in DOMAIN c.via : \A k \in DOMAIN c.via[h].steps : h = here => k < Len(t) + 1
  BY <1>1
<1>8. \A y : \A h \in DOMAIN c.via : \A k \in DOMAIN c.via[h].steps :
          Passed(d, y, h, k) <=> Passed(c, y, h, k)
  <2> SUFFICES ASSUME NEW y, NEW h \in DOMAIN c.via, NEW k \in DOMAIN c.via[h].steps
               PROVE  Passed(d, y, h, k) <=> Passed(c, y, h, k)
    OBVIOUS
  <2>1. h = here => k < Len(t) + 1 /\ k >= 1 /\ k \in Nat
    BY <1>6, <1>7
  <2>2. h = here => ~(k < 1)
    BY <2>1
  <2> HIDE DEF here, t
  <2>3. CASE y = x
    BY <1>1, <1>3, <2>2, <2>3 DEF Passed, here
  <2>4. CASE y # x
    BY <1>1, <1>3, <2>1, <2>4 DEF Passed, here
  <2> QED
    BY <2>3, <2>4
<1>9. OnCourse(d)
  <2>1. /\ StageOf(d) \in DOMAIN d.via /\ d.plan # <<>>
        /\ \A k \in DOMAIN d.plan : d.plan[k] = d.via[StageOf(d) + k - 1]
    BY <1>3, <1>4 DEF InFlight, OnCourse
  <2>2. \A k \in DOMAIN t : 1 + k - 1 = k
    <3> HIDE DEF t
    <3> QED
      BY <1>1
  <2> QED
    BY <1>1, <1>3, <1>4, <2>1, <2>2 DEF OnCourse
<1>10. SubjectsApart(d)
  BY <1>1, <1>3, <1>4, <1>5 DEF SubjectsApart
<1>11. Earned(d)
  BY <1>4, <1>8 DEF InFlight, Earned
<1>12. WrittenLeft(d)
  BY <1>4, <1>8 DEF InFlight, WrittenLeft, WrittenBy
<1>13. Owes(d)
  <2>1. RefreshAhead(c) => RefreshAhead(d)
    BY <1>1, <1>3, <1>4 DEF RefreshAhead
  <2> QED
    BY <2>1 DEF InFlight, Owes, SameRequest
<1>14. FailedAreGone(d) /\ (d.via \notin Ungated => d.closed \subseteq d.cleared)
  BY <1>4 DEF InFlight, FailedAreGone
<1> QED
  BY <1>2, <1>9, <1>10, <1>11, <1>12, <1>13, <1>14 DEF InFlight
\* A stage that is entered has taken nobody a step on.
LEMMA Entered ==
  ASSUME NEW e, IsRequest(e), e.plan # <<>>, StageOf(e) \in DOMAIN e.via,
         \A k \in DOMAIN e.plan : e.plan[k] = e.via[StageOf(e) + k - 1],
         NEW d, d = Enter(e)
  PROVE  /\ IsRequest(d) /\ SameRequest(e, d) /\ OnCourse(d) /\ SubjectsApart(d)
         /\ StageOf(d) = StageOf(e) /\ Left(d) = Left(e)
         /\ \A x \in Left(d), h, k \in Nat : k >= 1 => (Passed(d, x, h, k) <=> h < StageOf(e))
         /\ ~d.via[StageOf(d)].each => StepOf(d) = 1
         /\ d.failed = e.failed /\ d.gone = e.gone /\ d.cleared = e.cleared /\ d.wrote = e.wrote
         /\ d.idle = e.idle /\ d.owed = e.owed /\ d.closed = e.closed /\ d.shows = e.shows
         /\ d.shown = e.shown /\ d.answer = e.answer
<1> DEFINE p == e.plan
           n == StageOf(e)
<1>1. p \in Seq(StageRecord) /\ p # <<>> /\ n \in Nat /\ e.via \in Seq(StageRecord) /\ e \in RequestRecord
  BY DEF IsRequest, RequestRecord
<1>2. Head(p) = e.via[n] /\ Head(p) \in StageRecord
  <2> HIDE DEF p, n
  <2>1. Head(p) = p[1] /\ 1 \in DOMAIN p /\ n + 1 - 1 = n /\ Head(p) \in StageRecord
    BY <1>1
  <2>2. p[1] = e.via[n + 1 - 1]
    BY <2>1 DEF p, n
  <2> QED
    BY <2>1, <2>2
<1>3. Left(e) \in SUBSET Subjects
  BY <1>1 DEF Left, RequestRecord
<1>4. Head(p).steps \in Seq(STRING)
  BY <1>2 DEF StageRecord
<1>5. CASE Head(p).each
  <2>1. d = [e EXCEPT !.todo = Left(e), !.steps = <<>>]
    BY <1>5 DEF Enter
  <2>2. /\ d \in RequestRecord /\ SameRequest(e, d)
        /\ d.plan = p /\ d.todo = Left(e) /\ d.steps = <<>>
        /\ d.failed = e.failed /\ d.gone = e.gone /\ d.cleared = e.cleared /\ d.wrote = e.wrote
        /\ d.idle = e.idle /\ d.owed = e.owed /\ d.closed = e.closed /\ d.shows = e.shows
        /\ d.shown = e.shown /\ d.answer = e.answer
    <3> HIDE DEF p
    <3>1. <<>> \in Seq(STRING)
      OBVIOUS
    <3> QED
      BY <1>1, <1>3, <2>1, <3>1 DEF RequestRecord, SameRequest, p
  <2>3. Left(d) = Left(e) /\ StageOf(d) = n /\ IsRequest(d) /\ d.via = e.via
    BY <2>2 DEF Left, SameRequest, StageOf, IsRequest
  <2>4. d.via[n].each
    BY <1>2, <1>5, <2>3
  <2>5. SubjectsApart(d)
    BY <2>2, <2>3, <2>4 DEF SubjectsApart
  <2>6. StepOf(d) = Len(Head(p).steps) - 0 + 1 /\ Head(p).steps \in Seq(STRING)
    BY <1>2, <2>2, <2>3 DEF StepOf, StageRecord
  <2>7. OnCourse(d)
    <3>1. DOMAIN d.steps = {} /\ StepOf(d) >= 1
      BY <2>2, <2>6
    <3> QED
      BY <2>2, <2>3, <3>1 DEF OnCourse
  <2>8. \A x \in Left(d), h, k \in Nat : k >= 1 => (Passed(d, x, h, k) <=> h < n)
    BY <2>2, <2>3 DEF Passed
  <2> QED
    BY <2>2, <2>3, <2>4, <2>5, <2>7, <2>8
<1>6. CASE ~Head(p).each
  <2>1. d = [e EXCEPT !.todo = {}, !.at = Left(e), !.steps = Head(p).steps]
    BY <1>6 DEF Enter
  <2>2. /\ d \in RequestRecord /\ SameRequest(e, d)
        /\ d.plan = p /\ d.todo = {} /\ d.at = Left(e) /\ d.steps = Head(p).steps
        /\ d.failed = e.failed /\ d.gone = e.gone /\ d.cleared = e.cleared /\ d.wrote = e.wrote
        /\ d.idle = e.idle /\ d.owed = e.owed /\ d.closed = e.closed /\ d.shows = e.shows
        /\ d.shown = e.shown /\ d.answer = e.answer
    <3>1. Head(p).steps \in Seq(STRING)
      BY <1>4
    <3> HIDE DEF p
    <3> QED
      BY <1>1, <1>3, <2>1, <3>1 DEF RequestRecord, SameRequest, p
  <2>3. Left(d) = Left(e) /\ StageOf(d) = n /\ IsRequest(d) /\ d.via = e.via
    BY <2>2 DEF Left, SameRequest, StageOf, IsRequest
  <2>4. ~d.via[n].each /\ d.steps = d.via[n].steps
    BY <1>2, <1>6, <2>2, <2>3
  <2>5. SubjectsApart(d)
    BY <2>2, <2>3, <2>4 DEF SubjectsApart
  <2>6. StepOf(d) = 1
    <3> DEFINE t == Head(p).steps
    <3>1. StepOf(d) = Len(t) - Len(t) + 1 /\ t \in Seq(STRING)
      BY <1>2, <1>4, <2>2, <2>3 DEF StepOf
    <3> HIDE DEF t
    <3> QED
      BY <3>1
  <2>7. OnCourse(d)
    <3> DEFINE t == Head(p).steps
    <3>1. t \in Seq(STRING)
      BY <1>4
    <3>2. \A k \in DOMAIN t : 1 + k - 1 = k
      <4> HIDE DEF t
      <4> QED
        BY <3>1
    <3>3. \A k \in DOMAIN d.steps : d.steps[k] = d.via[StageOf(d)].steps[StepOf(d) + k - 1]
      BY <2>2, <2>3, <2>4, <2>6, <3>2
    <3> QED
      BY <2>2, <2>3, <2>6, <3>3 DEF OnCourse
  <2>8. \A x \in Left(d), h, k \in Nat : k >= 1 => (Passed(d, x, h, k) <=> h < n)
    <3>1. \A k \in Nat : k >= 1 => ~(k < 1)
      OBVIOUS
    <3> QED
      BY <2>2, <2>3, <2>6, <3>1 DEF Passed
  <2> QED
    BY <2>2, <2>3, <2>4, <2>5, <2>6, <2>7, <2>8
<1> QED
  BY <1>5, <1>6

\* Places in a plan.
LEMMA StagePlaces ==
  ASSUME NEW plan \in Seq(StageRecord)
  PROVE  \A h \in DOMAIN plan : /\ h \in Nat
                                /\ \A k \in DOMAIN plan[h].steps : k \in Nat /\ k >= 1
<1> SUFFICES ASSUME NEW h \in DOMAIN plan
             PROVE  h \in Nat /\ \A k \in DOMAIN plan[h].steps : k \in Nat /\ k >= 1
  OBVIOUS
<1>1. plan[h] \in StageRecord /\ h \in Nat
  OBVIOUS
<1>2. plan[h].steps \in Seq(STRING)
  BY <1>1 DEF StageRecord
<1> QED
  BY <1>1, <1>2

LEMMA RestOfPlan ==
  ASSUME NEW v \in Seq(StageRecord), NEW p \in Seq(StageRecord), p # <<>>, Len(p) # 1,
         NEW n \in DOMAIN v, n = Len(v) - Len(p) + 1
  PROVE  /\ Tail(p) \in Seq(StageRecord) /\ Tail(p) # <<>> /\ Len(v) - Len(Tail(p)) + 1 = n + 1
         /\ n + 1 \in DOMAIN v
         /\ \A k \in DOMAIN Tail(p) :
               k + 1 \in DOMAIN p /\ Tail(p)[k] = p[k + 1] /\ (n + 1) + k - 1 = n + (k + 1) - 1
<1>1. Len(p) \in Nat /\ Len(p) # 0 /\ Len(v) \in Nat /\ DOMAIN v = 1..Len(v) /\ DOMAIN p = 1..Len(p)
  OBVIOUS
<1> DEFINE l == Len(p)
           m == Len(v)
<1>2. l > 1 /\ n \in 1..m
  <2>1. l \in Nat /\ l # 0 /\ l # 1 /\ n \in 1..m
    BY <1>1
  <2> HIDE DEF l, m
  <2> QED
    BY <2>1
<1>3. /\ Tail(p) \in Seq(StageRecord) /\ Len(Tail(p)) = l - 1
      /\ DOMAIN Tail(p) = 1..(l - 1) /\ \A k \in 1..(l - 1) : Tail(p)[k] = p[k + 1]
  BY <1>1, <1>2
<1>4. m - (l - 1) + 1 = n + 1 /\ n + 1 \in 1..m /\ l - 1 # 0
  <2>1. l \in Nat /\ m \in Nat /\ n = m - l + 1
    BY <1>1
  <2> HIDE DEF l, m
  <2> QED
    BY <1>2, <2>1
<1>5. \A k \in 1..(l - 1) : k + 1 \in 1..l /\ (n + 1) + k - 1 = n + (k + 1) - 1
  <2>1. l \in Nat /\ n \in Nat
    BY <1>1
  <2> HIDE DEF l
  <2> QED
    BY <2>1
<1>6. Tail(p) # <<>>
  <2>1. Len(<<>>) = 0
    OBVIOUS
  <2> QED
    BY <1>3, <1>4, <2>1
<1> QED
  BY <1>1, <1>3, <1>4, <1>5, <1>6

\* The next stage is entered when the last has nobody left to work on.
LEMMA StageDone ==
  ASSUME NEW c, InFlight(c), c.steps = <<>>, c.todo = {}, Len(c.plan) # 1,
         NEW d, d = Enter([c EXCEPT !.plan = Tail(@)])
  PROVE  InFlight(d) /\ d.answer = c.answer
<1> DEFINE e == [c EXCEPT !.plan = Tail(@)]
           p == c.plan
           n == StageOf(c)
<1>1. /\ p \in Seq(StageRecord) /\ p # <<>> /\ Len(p) # 1 /\ n \in Nat /\ c.via \in Seq(StageRecord)
      /\ c \in RequestRecord /\ n = Len(c.via) - Len(p) + 1
      /\ n \in DOMAIN c.via
  BY WhereItIs DEF InFlight, IsRequest, RequestRecord, OnCourse, StageOf
<1>2. /\ Tail(p) \in Seq(StageRecord) /\ Tail(p) # <<>> /\ Len(c.via) - Len(Tail(p)) + 1 = n + 1
      /\ n + 1 \in DOMAIN c.via
      /\ \A k \in DOMAIN Tail(p) : k + 1 \in DOMAIN p /\ Tail(p)[k] = p[k + 1] /\ (n + 1) + k - 1 = n + (k + 1) - 1
  <2> DEFINE v == c.via
  <2>1. v \in Seq(StageRecord) /\ n \in DOMAIN v /\ n = Len(v) - Len(p) + 1
    BY <1>1
  <2>2. p \in Seq(StageRecord) /\ p # <<>> /\ Len(p) # 1
    BY <1>1
  <2> HIDE DEF p, n, v
  <2>3. /\ Tail(p) \in Seq(StageRecord) /\ Tail(p) # <<>> /\ Len(v) - Len(Tail(p)) + 1 = n + 1
        /\ n + 1 \in DOMAIN v
        /\ \A k \in DOMAIN Tail(p) :
              k + 1 \in DOMAIN p /\ Tail(p)[k] = p[k + 1] /\ (n + 1) + k - 1 = n + (k + 1) - 1
    BY <2>1, <2>2, RestOfPlan
  <2> QED
    BY <2>3 DEF v
<1>3. /\ e \in RequestRecord /\ e.plan = Tail(p) /\ SameRequest(c, e) /\ e.steps = c.steps /\ e.todo = c.todo
      /\ e.at = c.at
      /\ e.failed = c.failed /\ e.gone = c.gone /\ e.cleared = c.cleared /\ e.wrote = c.wrote
      /\ e.idle = c.idle /\ e.owed = c.owed /\ e.closed = c.closed /\ e.shows = c.shows
      /\ e.answer = c.answer
  BY <1>1, <1>2 DEF RequestRecord, SameRequest
<1> HIDE DEF e
<1>4. /\ IsRequest(e) /\ StageOf(e) = n + 1 /\ Left(e) = Left(c) /\ e.via = c.via
  BY <1>2, <1>3 DEF InFlight, IsRequest, SameRequest, StageOf, Left
<1>5. \A k \in DOMAIN e.plan : e.plan[k] = e.via[StageOf(e) + k - 1]
  <2>1. \A k \in DOMAIN p : p[k] = c.via[n + k - 1]
    BY DEF InFlight, OnCourse
  <2> QED
    BY <1>2, <1>3, <1>4, <2>1
<1>6. d = Enter(e)
  BY DEF e
<1> HIDE DEF p, n
<1>16. e.plan # <<>> /\ StageOf(e) \in DOMAIN e.via
  BY <1>2, <1>3, <1>4
<1>17. /\ IsRequest(d) /\ SameRequest(e, d) /\ OnCourse(d) /\ SubjectsApart(d)
       /\ StageOf(d) = StageOf(e) /\ Left(d) = Left(e)
       /\ \A x \in Left(d), h, k \in Nat : k >= 1 => (Passed(d, x, h, k) <=> h < StageOf(e))
       /\ ~d.via[StageOf(d)].each => StepOf(d) = 1
       /\ d.failed = e.failed /\ d.gone = e.gone /\ d.cleared = e.cleared /\ d.wrote = e.wrote
       /\ d.idle = e.idle /\ d.owed = e.owed /\ d.closed = e.closed /\ d.shows = e.shows
       /\ d.answer = e.answer
  BY <1>4, <1>5, <1>6, <1>16, Entered
<1>7. /\ IsRequest(d) /\ SameRequest(e, d) /\ OnCourse(d) /\ SubjectsApart(d)
      /\ StageOf(d) = n + 1 /\ Left(d) = Left(c)
      /\ \A x \in Left(d), h, k \in Nat : k >= 1 => (Passed(d, x, h, k) <=> h < n + 1)
      /\ ~d.via[StageOf(d)].each => StepOf(d) = 1
      /\ d.failed = e.failed /\ d.gone = e.gone /\ d.cleared = e.cleared /\ d.wrote = e.wrote
      /\ d.idle = e.idle /\ d.owed = e.owed /\ d.closed = e.closed /\ d.shows = e.shows
      /\ d.answer = e.answer
  BY <1>4, <1>17
<1>8. SameRequest(c, d) /\ d.via = c.via
  BY <1>3, <1>7 DEF SameRequest
<1>9. \A h \in DOMAIN c.via : h \in Nat /\ \A k \in DOMAIN c.via[h].steps : k \in Nat /\ k >= 1
  BY <1>1, StagePlaces
<1>10. \A x \in Left(c) : \A h \in DOMAIN c.via : \A k \in DOMAIN c.via[h].steps :
          Passed(d, x, h, k) <=> Passed(c, x, h, k)
  <2> SUFFICES ASSUME NEW x \in Left(c), NEW h \in DOMAIN c.via, NEW k \in DOMAIN c.via[h].steps
               PROVE  Passed(d, x, h, k) <=> Passed(c, x, h, k)
    OBVIOUS
  <2>1. Passed(d, x, h, k) <=> h < n + 1
    BY <1>7, <1>9
  <2>2. h = n => k < StepOf(c)
    <3>1. StepOf(c) = Len(c.via[n].steps) + 1 /\ c.via[n].steps \in Seq(STRING)
      BY WhereItIs DEF n
    <3> DEFINE t == c.via[n].steps
    <3>2. t \in Seq(STRING) /\ StepOf(c) = Len(t) + 1 /\ (h = n => k \in DOMAIN t)
      BY <3>1
    <3> HIDE DEF t
    <3> QED
      BY <3>2
  <2>3. Passed(c, x, h, k) <=> h < n \/ h = n
    BY <2>2 DEF Passed, n
  <2>4. n \in Nat /\ h \in Nat
    BY <1>1, <1>9
  <2>5. h < n + 1 <=> h < n \/ h = n
    BY <2>4
  <2> QED
    BY <2>1, <2>3, <2>5
<1>11. Earned(d)
  <2> SUFFICES ASSUME NEW x \in Left(c), NEW h \in DOMAIN c.via, NEW k \in DOMAIN c.via[h].steps,
                      Passed(d, x, h, k)
               PROVE  /\ c.via[h].steps[k] \in Gates(c.closing) => x \in c.cleared \cup c.foreign
                      /\ c.via[h].steps[k] \in Writes => x \in c.wrote \cup c.idle
    BY <1>3, <1>7, <1>8 DEF Earned, SameRequest
  <2> QED
    BY <1>10 DEF InFlight, Earned
<1>12. WrittenLeft(d)
  <2> SUFFICES ASSUME NEW x \in c.wrote PROVE x \in Left(c) /\ WrittenBy(d, x)
    BY <1>3, <1>7 DEF WrittenLeft
  <2>1. x \in Left(c) /\ WrittenBy(c, x)
    BY DEF InFlight, WrittenLeft
  <2> QED
    BY <1>8, <1>10, <2>1 DEF WrittenBy
<1>13. Owes(d)
  <2>1. ASSUME RefreshAhead(c) PROVE RefreshAhead(d)
    <3>1. PICK h \in DOMAIN c.via : \E k \in DOMAIN c.via[h].steps :
                 /\ ~c.via[h].each /\ c.via[h].steps[k] = "refresh"
                 /\ h > n \/ (h = n /\ k >= StepOf(c))
      BY <2>1 DEF RefreshAhead, n
    <3>2. PICK k \in DOMAIN c.via[h].steps :
                 /\ ~c.via[h].each /\ c.via[h].steps[k] = "refresh"
                 /\ h > n \/ (h = n /\ k >= StepOf(c))
      BY <3>1
    <3>3. ~(h = n /\ k >= StepOf(c))
      <4>1. StepOf(c) = Len(c.via[n].steps) + 1 /\ c.via[n].steps \in Seq(STRING)
        BY WhereItIs DEF n
      <4> DEFINE t == c.via[n].steps
      <4>2. t \in Seq(STRING) /\ StepOf(c) = Len(t) + 1 /\ (h = n => k \in DOMAIN t)
        BY <4>1
      <4> HIDE DEF t
      <4> QED
        BY <4>2
    <3>4. h \in Nat /\ k \in Nat /\ k >= 1 /\ h > n
      BY <1>9, <3>2, <3>3
    <3>5. h > n + 1 \/ h = n + 1
      <4>1. n \in Nat /\ h \in Nat /\ h > n
        BY <1>1, <3>4
      <4> QED
        BY <4>1
    <3>6. h > StageOf(d) \/ (h = StageOf(d) /\ k >= StepOf(d))
      <4>1. CASE h > n + 1
        BY <1>7, <4>1
      <4>2. CASE h = n + 1
        <5>1. StepOf(d) = 1
          BY <1>7, <1>8, <3>2, <4>2
        <5> QED
          BY <1>7, <3>4, <4>2, <5>1
      <4> QED
        BY <3>5, <4>1, <4>2
    <3> QED
      BY <1>8, <3>2, <3>6 DEF RefreshAhead
  <2> QED
    BY <1>3, <1>7, <1>8, <2>1 DEF InFlight, Owes, SameRequest
<1>14. FailedAreGone(d) /\ (d.via \notin Ungated => d.closed \subseteq d.cleared)
  BY <1>3, <1>7, <1>8 DEF InFlight, FailedAreGone
<1>15. d.answer = c.answer
  BY <1>3, <1>7
<1> QED
  BY <1>7, <1>11, <1>12, <1>13, <1>14, <1>15 DEF InFlight
-----------------------------------------------------------------------------
(* The steps of a handler                                                          *)

\* What a step that goes through leaves of the request.
LEMMA PassIs ==
  ASSUME InFlight(call), Pass
  PROVE  /\ call' \in RequestRecord /\ SameRequest(call, call') /\ call.steps # <<>>
         /\ call'.plan = call.plan /\ call'.steps = Tail(call.steps) /\ call'.todo = call.todo
         /\ call'.at = call.at /\ call'.failed = call.failed /\ call'.gone = call.gone
         /\ call'.idle = call.idle /\ call'.answer = call.answer
         /\ call'.cleared = (IF Gating THEN call.cleared \cup (call.at \ call.foreign) ELSE call.cleared)
         /\ call'.closed = (IF Closing THEN call.closed \cup call.at ELSE call.closed)
         /\ call'.wrote = (IF Now \in Writes THEN call.wrote \cup call.at ELSE call.wrote)
         /\ call'.shows => call.shows \/ Now = "snapshot"
         /\ call'.owed => Now \in Showing \/ (call.owed /\ Now # "refresh")
<1> DEFINE s == Tail(call.steps)
           cleared == IF Gating THEN call.cleared \cup (call.at \ call.foreign) ELSE call.cleared
           closed == IF Closing THEN call.closed \cup call.at ELSE call.closed
           wrote == IF Now \in Writes THEN call.wrote \cup call.at ELSE call.wrote
           shown == IF Now = "snapshot" THEN call.at \ call.gone ELSE call.shown
           shows == call.shows \/ Now = "snapshot"
           owed == Now \in Showing \/ (call.owed /\ Now # "refresh")
<1>1. call \in RequestRecord /\ call.steps # <<>>
  BY DEF InFlight, IsRequest, Pass, Running
<1>2. call' = [call EXCEPT !.steps = s, !.cleared = cleared, !.closed = closed, !.wrote = wrote,
                           !.shown = shown, !.shows = shows, !.owed = owed]
  BY DEF Pass
<1>3. s \in Seq(STRING)
  <2> DEFINE q == call.steps
  <2>1. q \in Seq(STRING) /\ q # <<>>
    BY <1>1 DEF RequestRecord
  <2> HIDE DEF q
  <2>2. Tail(q) \in Seq(STRING)
    BY <2>1
  <2> QED
    BY <2>2 DEF q
<1>4. /\ cleared \in SUBSET Subjects /\ closed \in SUBSET Subjects /\ wrote \in SUBSET Subjects
      /\ shown \in SUBSET Subjects
  BY <1>1 DEF RequestRecord
<1>5. shows \in BOOLEAN /\ owed \in BOOLEAN
  BY <1>1 DEF RequestRecord
<1> HIDE DEF s, cleared, closed, wrote, shown, shows, owed
<1>6. call' \in RequestRecord /\ SameRequest(call, call')
  BY <1>1, <1>2, <1>3, <1>4, <1>5 DEF RequestRecord, SameRequest
<1>7. /\ call'.plan = call.plan /\ call'.steps = s /\ call'.todo = call.todo
      /\ call'.at = call.at /\ call'.failed = call.failed /\ call'.gone = call.gone
      /\ call'.idle = call.idle /\ call'.answer = call.answer
      /\ call'.cleared = cleared /\ call'.closed = closed /\ call'.wrote = wrote
  BY <1>1, <1>2 DEF RequestRecord
<1>8. call'.shows = shows /\ call'.owed = owed
  BY <1>1, <1>2 DEF RequestRecord
<1>9. call'.shows => call.shows \/ Now = "snapshot"
  BY <1>8 DEF shows
<1>10. call'.owed => Now \in Showing \/ (call.owed /\ Now # "refresh")
  BY <1>8 DEF owed
<1> QED
  BY <1>1, <1>6, <1>7, <1>9, <1>10 DEF s, cleared, closed, wrote

\* A refresh that was ahead is so still, but for the one just taken.
LEMMA StillAhead ==
  ASSUME NEW c, InFlight(c), c.steps # <<>>, NEW d, SameRequest(c, d),
         StageOf(d) = StageOf(c), StepOf(d) = StepOf(c) + 1, RefreshAhead(c), Head(c.steps) # "refresh"
  PROVE  RefreshAhead(d)
<1> DEFINE here == StageOf(c)
           m == StepOf(c)
<1>1. PICK h \in DOMAIN c.via : \E k \in DOMAIN c.via[h].steps :
             /\ ~c.via[h].each /\ c.via[h].steps[k] = "refresh"
             /\ h > here \/ (h = here /\ k >= m)
  BY DEF RefreshAhead
<1>2. PICK k \in DOMAIN c.via[h].steps :
             /\ ~c.via[h].each /\ c.via[h].steps[k] = "refresh"
             /\ h > here \/ (h = here /\ k >= m)
  BY <1>1
<1>3. h \in Nat /\ k \in Nat /\ m \in Nat /\ Head(c.steps) = c.via[here].steps[m]
  BY WhereItIs, StagePlaces
<1>4. h = here => k # m
  BY <1>2, <1>3
<1>5. h > here \/ (h = here /\ k >= m + 1)
  <2> HIDE DEF here, m
  <2>1. h = here /\ k >= m => k >= m + 1
    BY <1>3, <1>4
  <2> QED
    BY <1>2, <2>1
<1> QED
  BY <1>2, <1>5 DEF RefreshAhead, SameRequest

LEMMA PassKeeps ==
  ASSUME InFlight(call), Pass
  PROVE  InFlight(call') /\ call'.answer = call.answer
<1> DEFINE here == StageOf(call)
           m == StepOf(call)
           v == call.via
<1>1. /\ call.steps # <<>> /\ here \in DOMAIN v /\ here \in Nat /\ m \in Nat /\ m \in DOMAIN v[here].steps
      /\ Now = v[here].steps[m] /\ Now = Head(call.steps) /\ v \in Plans /\ ~Barred
  BY WhereItIs DEF Pass, Running, Now, InFlight, IsRequest
<1>2. /\ call' \in RequestRecord /\ SameRequest(call, call')
      /\ call'.plan = call.plan /\ call'.steps = Tail(call.steps) /\ call'.todo = call.todo
      /\ call'.at = call.at /\ call'.failed = call.failed /\ call'.gone = call.gone
      /\ call'.idle = call.idle /\ call'.answer = call.answer
      /\ call'.cleared = (IF Gating THEN call.cleared \cup (call.at \ call.foreign) ELSE call.cleared)
      /\ call'.closed = (IF Closing THEN call.closed \cup call.at ELSE call.closed)
      /\ call'.wrote = (IF Now \in Writes THEN call.wrote \cup call.at ELSE call.wrote)
      /\ call'.shows => call.shows \/ Now = "snapshot"
      /\ call'.owed => Now \in Showing \/ (call.owed /\ Now # "refresh")
  BY PassIs
<1>3. /\ IsRequest(call') /\ OnCourse(call') /\ SubjectsApart(call')
      /\ StageOf(call') = here /\ StepOf(call') = m + 1
  BY <1>1, <1>2, GoesOn
<1>4. Gating <=> Now \in Gates(call.closing)
  BY DEF Gating, Gates
<1>5. Closing <=> Now \in Closers(call.closing)
  BY DEF Closing, Closers, MayClose
<1>6. Earned(call') /\ WrittenLeft(call')
  <2>1. Head(call.steps) \in Gates(call.closing) => call.at \subseteq call'.cleared \cup call.foreign
    BY <1>1, <1>2, <1>4
  <2>2. call.cleared \subseteq call'.cleared
    BY <1>2
  <2>3. call.wrote \cup call.idle \subseteq call'.wrote \cup call'.idle
    BY <1>2
  <2>4. Head(call.steps) \in Writes => call.at \subseteq call'.wrote \cup call'.idle
    BY <1>1, <1>2
  <2>5. call'.wrote \subseteq call.wrote \cup (IF Head(call.steps) \in Writes THEN call.at ELSE {})
    BY <1>1, <1>2
  <2> QED
    BY <1>1, <1>2, <2>1, <2>2, <2>3, <2>4, <2>5, GoesOnEarning
<1>7. Owes(call')
  <2> SUFFICES ASSUME call'.owed, call.surface # "http", v \notin Unrefreshed
               PROVE  RefreshAhead(call')
    BY <1>2 DEF Owes, SameRequest
  <2>1. CASE Now \in Showing
    <3>1. Refreshes(v)
      BY HandlersAssumption DEF InFlight, IsRequest
    <3>2. PICK h \in DOMAIN v : \E k \in DOMAIN v[h].steps :
                 Before(here, m, h, k) /\ ~v[h].each /\ v[h].steps[k] = "refresh"
      BY <1>1, <2>1, <3>1 DEF Refreshes
    <3>3. PICK k \in DOMAIN v[h].steps :
                 Before(here, m, h, k) /\ ~v[h].each /\ v[h].steps[k] = "refresh"
      BY <3>2
    <3>4. h \in Nat /\ k \in Nat
      BY WhereItIs, StagePlaces
    <3>5. h > here \/ (h = here /\ k >= m + 1)
      <4>1. here \in Nat /\ m \in Nat /\ (here < h \/ (here = h /\ m < k))
        BY <1>1, <3>3 DEF Before
      <4> HIDE DEF here, m
      <4> QED
        BY <3>4, <4>1
    <3> QED
      BY <1>2, <1>3, <3>3, <3>5 DEF RefreshAhead, SameRequest
  <2>2. CASE call.owed /\ Now # "refresh"
    <3>1. RefreshAhead(call)
      BY <2>2 DEF InFlight, Owes
    <3> QED
      BY <1>1, <1>2, <1>3, <2>2, <3>1, StillAhead
  <2> QED
    BY <1>2, <2>1, <2>2
<1>8. FailedAreGone(call')
  <2>1. call'.shows => HasSnapshot(v)
    BY <1>1, <1>2 DEF InFlight, FailedAreGone, HasSnapshot
  <2> QED
    BY <1>2, <2>1 DEF InFlight, FailedAreGone, SameRequest
<1>9. v \notin Ungated => call'.closed \subseteq call'.cleared
  <2> SUFFICES ASSUME v \notin Ungated PROVE call'.closed \subseteq call'.cleared
    OBVIOUS
  <2>1. call.closed \subseteq call.cleared /\ call.cleared \subseteq call'.cleared
    BY <1>2 DEF InFlight
  <2>2. ASSUME Closing, NEW x \in call.at PROVE x \in call.cleared
    <3>1. Now \in Closers(call.closing) /\ AsksFirst(v) /\ call.closing \in BOOLEAN
      BY <1>1, <1>5, <2>2, PlanShape DEF InFlight, IsRequest, RequestRecord
    <3>2. Follows(v, here, m, Gates(call.closing))
      BY <1>1, <3>1 DEF AsksFirst
    <3>3. PICK h \in DOMAIN v : \E k \in DOMAIN v[h].steps :
                 Before(h, k, here, m) /\ v[h].steps[k] \in Gates(call.closing)
      BY <3>2 DEF Follows
    <3>4. PICK k \in DOMAIN v[h].steps :
                 Before(h, k, here, m) /\ v[h].steps[k] \in Gates(call.closing)
      BY <3>3
    <3>5. x \in Left(call) /\ x \notin call.todo
      BY <1>1, <2>2 DEF InFlight, SubjectsApart
    <3>6. Passed(call, x, h, k)
      BY <3>4, <3>5 DEF Passed, Before
    <3>7. x \in call.cleared \cup call.foreign
      BY <3>4, <3>5, <3>6 DEF InFlight, Earned
    <3>8. Now \in ({"prefix"} \cup Writes) \ (Making \cup {"dismiss"})
      BY <2>2 DEF Closing, MayClose, Writes, Showing, Making
    <3>9. x \notin call.foreign
      BY <1>1, <2>2, <3>8 DEF Barred, Foreign
    <3> QED
      BY <3>7, <3>9
  <2> QED
    BY <1>2, <2>1, <2>2
<1> QED
  BY <1>2, <1>3, <1>6, <1>7, <1>8, <1>9 DEF InFlight, SameRequest
LEMMA PassIdlyKeeps ==
  ASSUME InFlight(call), PassIdly
  PROVE  InFlight(call') /\ call'.answer = call.answer
<1> DEFINE s == Tail(call.steps)
           idle == call.idle \cup call.at
<1>1. /\ call \in RequestRecord /\ call.steps # <<>> /\ Now = Head(call.steps) /\ Now \in MayIdle
      /\ call' = [call EXCEPT !.steps = s, !.idle = idle]
  BY DEF InFlight, IsRequest, PassIdly, Running, Now
<1>2. s \in Seq(STRING) /\ idle \in SUBSET Subjects
  <2> DEFINE q == call.steps
  <2>1. q \in Seq(STRING) /\ q # <<>>
    BY <1>1 DEF RequestRecord
  <2> HIDE DEF q
  <2>2. Tail(q) \in Seq(STRING)
    BY <2>1
  <2> QED
    BY <1>1, <2>2 DEF q, RequestRecord
<1> HIDE DEF s, idle
<1>3. /\ call' \in RequestRecord /\ SameRequest(call, call')
      /\ call'.plan = call.plan /\ call'.steps = s /\ call'.todo = call.todo
      /\ call'.at = call.at /\ call'.failed = call.failed /\ call'.gone = call.gone
      /\ call'.idle = idle /\ call'.answer = call.answer /\ call'.cleared = call.cleared
      /\ call'.closed = call.closed /\ call'.wrote = call.wrote /\ call'.shows = call.shows
      /\ call'.owed = call.owed
  BY <1>1, <1>2 DEF RequestRecord, SameRequest
<1>4. /\ IsRequest(call') /\ OnCourse(call') /\ SubjectsApart(call')
      /\ StageOf(call') = StageOf(call) /\ StepOf(call') = StepOf(call) + 1
  BY <1>1, <1>3, GoesOn DEF s
<1>5. Earned(call') /\ WrittenLeft(call')
  <2>1. Head(call.steps) \notin Gates(call.closing)
    BY <1>1 DEF MayIdle, Gates
  <2>2. call.wrote \cup call.idle \subseteq call'.wrote \cup call'.idle /\ call.at \subseteq call'.wrote \cup call'.idle
    BY <1>3 DEF idle
  <2>3. call'.wrote \subseteq call.wrote \cup (IF Head(call.steps) \in Writes THEN call.at ELSE {})
    BY <1>3
  <2> QED
    BY <1>1, <1>3, <2>1, <2>2, <2>3, GoesOnEarning DEF s
<1>6. Owes(call')
  <2>1. Head(call.steps) # "refresh"
    BY <1>1 DEF MayIdle
  <2> QED
    BY <1>1, <1>3, <1>4, <2>1, StillAhead DEF InFlight, Owes, SameRequest
<1>7. FailedAreGone(call') /\ (call'.via \notin Ungated => call'.closed \subseteq call'.cleared)
  BY <1>3 DEF InFlight, FailedAreGone, SameRequest
<1> QED
  BY <1>3, <1>4, <1>5, <1>6, <1>7 DEF InFlight

\* Some scanners have ended: what was started counts as nothing done.
LEMMA PollKeeps ==
  ASSUME InFlight(call), Poll
  PROVE  \/ InFlight(call') /\ call'.answer = call.answer
         \/ /\ call'.answer = "refused" /\ call'.wrote = {} /\ call'.via = call.via
            /\ call'.closed = call.closed /\ call'.cleared = call.cleared
<1>1. PICK dead \in SUBSET call.at :
        call' = [call EXCEPT !.steps = Tail(call.steps), !.wrote = call.wrote \ dead,
                             !.idle = call.idle \cup dead,
                             !.answer = IF dead = call.at THEN "refused" ELSE call.answer]
  BY DEF Poll
<1> DEFINE s == Tail(call.steps)
           wrote == call.wrote \ dead
           idle == call.idle \cup dead
           answer == IF dead = call.at THEN "refused" ELSE call.answer
<1>2. /\ call \in RequestRecord /\ call.steps # <<>> /\ Now = Head(call.steps) /\ Now = "poll"
      /\ call' = [call EXCEPT !.steps = s, !.wrote = wrote, !.idle = idle, !.answer = answer]
  BY <1>1 DEF InFlight, IsRequest, Poll, Running, Now
<1>3. /\ s \in Seq(STRING) /\ idle \in SUBSET Subjects /\ wrote \in SUBSET Subjects
      /\ answer \in {"none", "done", "refused", "fault"}
  <2> DEFINE q == call.steps
  <2>1. q \in Seq(STRING) /\ q # <<>>
    BY <1>2 DEF RequestRecord
  <2> HIDE DEF q
  <2>2. Tail(q) \in Seq(STRING)
    BY <2>1
  <2>3. s \in Seq(STRING)
    BY <2>2 DEF q
  <2>4. call.at \in SUBSET Subjects /\ call.idle \in SUBSET Subjects /\ call.wrote \in SUBSET Subjects
    BY <1>2 DEF RequestRecord
  <2>5. answer \in {"none", "done", "refused", "fault"}
    BY <1>2 DEF RequestRecord
  <2> QED
    BY <2>3, <2>4, <2>5
<1> HIDE DEF s, idle, wrote, answer
<1>4. /\ call' \in RequestRecord /\ SameRequest(call, call')
      /\ call'.plan = call.plan /\ call'.steps = s /\ call'.todo = call.todo
      /\ call'.at = call.at /\ call'.failed = call.failed /\ call'.gone = call.gone
      /\ call'.idle = idle /\ call'.answer = answer /\ call'.cleared = call.cleared
      /\ call'.closed = call.closed /\ call'.wrote = wrote /\ call'.shows = call.shows
      /\ call'.owed = call.owed
  BY <1>2, <1>3 DEF RequestRecord, SameRequest
<1>5. CASE dead = call.at
  <2>1. ~call.via[StageOf(call)].each
    <3>1. ReportsUnwritten(call.via)
      BY PlanShape DEF InFlight, IsRequest
    <3> QED
      BY <1>2, <3>1, WhereItIs DEF ReportsUnwritten
  <2>2. call.at = Left(call)
    BY <1>2, <2>1 DEF InFlight, SubjectsApart
  <2>3. call.wrote \subseteq Left(call)
    BY DEF InFlight, WrittenLeft
  <2> QED
    BY <1>4, <1>5, <2>2, <2>3 DEF wrote, answer, SameRequest
<1>6. CASE dead # call.at
  <2>1. /\ IsRequest(call') /\ OnCourse(call') /\ SubjectsApart(call')
        /\ StageOf(call') = StageOf(call) /\ StepOf(call') = StepOf(call) + 1
    BY <1>2, <1>4, GoesOn DEF s
  <2>2. Earned(call') /\ WrittenLeft(call')
    <3>1. Head(call.steps) \notin Gates(call.closing) /\ Head(call.steps) \notin Writes
      BY <1>2 DEF Gates, Writes, Showing, Silent
    <3>2. call.wrote \cup call.idle \subseteq call'.wrote \cup call'.idle
      BY <1>4 DEF idle, wrote
    <3>3. call'.wrote \subseteq call.wrote \cup (IF Head(call.steps) \in Writes THEN call.at ELSE {})
      BY <1>4 DEF wrote
    <3> QED
      BY <1>2, <1>4, <3>1, <3>2, <3>3, GoesOnEarning DEF s
  <2>3. Owes(call')
    BY <1>2, <1>4, <2>1, StillAhead DEF InFlight, Owes, SameRequest
  <2>4. FailedAreGone(call') /\ (call'.via \notin Ungated => call'.closed \subseteq call'.cleared)
    BY <1>4 DEF InFlight, FailedAreGone, SameRequest
  <2>5. InFlight(call') /\ call'.answer = call.answer
    BY <1>4, <1>6, <2>1, <2>2, <2>3, <2>4 DEF InFlight, answer
  <2> QED
    BY <2>5
<1> QED
  BY <1>5, <1>6

\* A refusal that is reported, and one that is the answer.
LEMMA ReportKeeps ==
  ASSUME InFlight(call), Running, call' = Refusal(call), Head(call.plan).refusal # "answer",
         HasSnapshot(call.via) => call.at \subseteq call.gone
  PROVE  InFlight(call') /\ call'.answer = call.answer
<1> DEFINE failed == call.failed \cup call.at
<1>1. /\ call \in RequestRecord /\ call.steps # <<>>
      /\ call' = [call EXCEPT !.failed = failed, !.steps = <<>>]
  BY DEF InFlight, IsRequest, Running, Refusal
<1>2. failed \in SUBSET Subjects /\ <<>> \in Seq(STRING)
  BY <1>1 DEF RequestRecord
<1> HIDE DEF failed
<1>3. /\ call' \in RequestRecord /\ SameRequest(call, call')
      /\ call'.plan = call.plan /\ call'.steps = <<>> /\ call'.todo = call.todo
      /\ call'.at = call.at /\ call'.failed = failed /\ call'.gone = call.gone
      /\ call'.idle = call.idle /\ call'.answer = call.answer /\ call'.cleared = call.cleared
      /\ call'.closed = call.closed /\ call'.wrote = call.wrote /\ call'.shows = call.shows
      /\ call'.owed = call.owed
  BY <1>1, <1>2 DEF RequestRecord, SameRequest
<1> QED
  BY <1>1, <1>3, Reported DEF failed
\* What holds of the surface at any time.
SurfaceInv ==
    /\ AnswersTrue /\ ClosedWereCleared
    /\ call = NoCall \/ call.answer # "none" \/ InFlight(call)

LEMMA FlightIsTrue ==
  ASSUME InFlight(call'), call'.answer = "none"
  PROVE  SurfaceInv'
BY DEF InFlight, SurfaceInv, AnswersTrue, AnswersTrueBut, ClosedWereCleared, ClosedWereClearedBut

LEMMA BusyIsInFlight ==
  ASSUME SurfaceInv, Busy
  PROVE  InFlight(call) /\ call.answer = "none"
BY DEF SurfaceInv, Busy, NoCall

\* A refused call is true when it wrote nothing, or when somebody removed what it wrote.
LEMMA RefusedIsTrue ==
  ASSUME call'.answer = "refused",
         call'.wrote = {} \/ (call'.wrote \cup call'.idle) \cap call'.gone # {} \/ call'.via \in Partial,
         call'.via \notin Ungated => call'.closed \subseteq call'.cleared
  PROVE  SurfaceInv'
BY DEF SurfaceInv, AnswersTrue, AnswersTrueBut, ClosedWereCleared, ClosedWereClearedBut

LEMMA AnswerKeeps ==
  ASSUME InFlight(call), NEW answer \in {"done", "refused", "fault"},
         call' = [call EXCEPT !.answer = answer]
  PROVE  /\ call'.answer = answer /\ call'.wrote = call.wrote /\ call'.idle = call.idle
         /\ call'.gone = call.gone /\ call'.via = call.via /\ call'.closed = call.closed
         /\ call'.cleared = call.cleared /\ call'.failed = call.failed /\ call'.ids = call.ids
         /\ call'.shows = call.shows /\ call'.shown = call.shown /\ call'.owed = call.owed
         /\ call'.surface = call.surface
         /\ call'.via \notin Ungated => call'.closed \subseteq call'.cleared
<1>1. call \in RequestRecord
  BY DEF InFlight, IsRequest
<1>2. /\ call'.answer = answer /\ call'.wrote = call.wrote /\ call'.idle = call.idle
      /\ call'.gone = call.gone /\ call'.via = call.via /\ call'.closed = call.closed
      /\ call'.cleared = call.cleared /\ call'.failed = call.failed /\ call'.ids = call.ids
      /\ call'.shows = call.shows /\ call'.shown = call.shown /\ call'.owed = call.owed
      /\ call'.surface = call.surface
  BY <1>1 DEF RequestRecord
<1> QED
  BY <1>2 DEF InFlight

LEMMA RefuseKeeps ==
  ASSUME InFlight(call), Refuse
  PROVE  SurfaceInv'
<1> DEFINE here == StageOf(call)
           m == StepOf(call)
           v == call.via
<1>1. /\ call.steps # <<>> /\ here \in DOMAIN v /\ here \in Nat /\ m \in Nat /\ m \in DOMAIN v[here].steps
      /\ Now = v[here].steps[m] /\ v \in Plans /\ Running /\ call.answer = "none"
      /\ Head(call.plan) = v[here]
  BY WhereItIs DEF Refuse, Running, Busy, Now, InFlight, IsRequest
<1>2. CASE Head(call.plan).refusal # "answer"
  <2>1. ASSUME HasSnapshot(v) PROVE call.at \subseteq call.gone
    <3>1. Now = "dismiss"
      BY <1>1, <1>2, <2>1, PlanShape DEF ShownStay, HasSnapshot
    <3>2. Missing
      BY <3>1 DEF Refuse, Asking, Making, Gating, Barred
    <3>3. v[here].each
      BY <1>1, <1>2, WhereItIs
    <3>4. PICK x \in call.at : call.at = {x}
      BY <1>1, <3>3 DEF InFlight, SubjectsApart
    <3> QED
      BY <3>2, <3>4 DEF Missing
  <2>2. InFlight(call') /\ call'.answer = "none"
    BY <1>1, <1>2, <2>1, ReportKeeps DEF Refuse
  <2> QED
    BY <2>2, FlightIsTrue
<1>3. CASE Head(call.plan).refusal = "answer"
  <2>1. call' = [call EXCEPT !.answer = "refused"]
    BY <1>3 DEF Refuse, Refusal
  <2>2. /\ call'.answer = "refused" /\ call'.wrote = call.wrote /\ call'.idle = call.idle
        /\ call'.gone = call.gone /\ call'.via = v
        /\ call'.via \notin Ungated => call'.closed \subseteq call'.cleared
    BY <2>1, AnswerKeeps
  <2>3. ASSUME v \notin Partial, NEW y \in call.wrote
        PROVE  (call.wrote \cup call.idle) \cap call.gone # {}
    <3>1. RefusesFirst(v)
      BY <1>1, <2>3, PlanShape
    <3>2. PICK h \in DOMAIN v : \E k \in DOMAIN v[h].steps :
                 v[h].steps[k] \in Writes /\ Passed(call, y, h, k)
      BY <2>3 DEF InFlight, WrittenLeft, WrittenBy
    <3>3. PICK k \in DOMAIN v[h].steps : v[h].steps[k] \in Writes /\ Passed(call, y, h, k)
      BY <3>2
    <3>4. h \in Nat /\ k \in Nat /\ (h < here \/ h = here)
      BY <3>3, WhereItIs, StagePlaces DEF Passed
    <3>5. ~v[here].each
      <4>1. Before(h, k, here + 1, 1)
        <5>1. here \in Nat
          BY <1>1
        <5> HIDE DEF here
        <5> QED
          BY <3>4, <5>1 DEF Before
      <4>2. Follows(v, here + 1, 1, Writes)
        BY <3>3, <4>1 DEF Follows
      <4> QED
        BY <1>1, <1>3, <3>1, <4>2 DEF RefusesFirst
    <3>6. call.at = Left(call) /\ call.todo = {}
      BY <1>1, <3>5 DEF InFlight, SubjectsApart
    <3>7. y \in Left(call)
      BY <2>3 DEF InFlight, WrittenLeft
    <3>8. Before(h, k, here, m)
      BY <3>3, <3>6, <3>7 DEF Passed, Before
    <3>9. Now \in ByAbsence
      <4>1. Follows(v, here, m, Writes)
        BY <3>3, <3>8 DEF Follows
      <4> QED
        BY <1>1, <1>3, <3>1, <4>1 DEF RefusesFirst
    <3>10. Missing
      BY <3>9 DEF Refuse, Asking, Making, Gating, Barred, ByAbsence, Writes, Showing, Silent
    <3>11. PICK z \in call.at : z \in call.gone
      BY <3>10 DEF Missing
    <3>12. Passed(call, z, h, k)
      BY <3>6, <3>8 DEF Passed, Before
    <3>13. z \in call.wrote \cup call.idle
      BY <3>3, <3>6, <3>11, <3>12 DEF InFlight, Earned
    <3> QED
      BY <3>11, <3>13
  <2>4. call'.wrote = {} \/ (call'.wrote \cup call'.idle) \cap call'.gone # {} \/ call'.via \in Partial
    BY <2>2, <2>3
  <2> QED
    BY <2>2, <2>4, RefusedIsTrue
<1> QED
  BY <1>2, <1>3

LEMMA FaultIsTrue ==
  ASSUME call'.answer = "fault", call'.via \notin Ungated => call'.closed \subseteq call'.cleared
  PROVE  SurfaceInv'
BY DEF SurfaceInv, AnswersTrue, AnswersTrueBut, ClosedWereCleared, ClosedWereClearedBut

LEMMA FailKeeps ==
  ASSUME InFlight(call), Fail
  PROVE  SurfaceInv'
<1>1. call.answer = "none" /\ Running
  BY DEF Fail, Running, Busy
<1>2. CASE Head(call.plan).refusal = "catch"
  <2>1. ~HasSnapshot(call.via)
    <3>1. ShownStay(call.via)
      BY PlanShape DEF InFlight, IsRequest
    <3> QED
      BY <1>2, <3>1, WhereItIs DEF ShownStay, HasSnapshot
  <2>2. InFlight(call') /\ call'.answer = "none"
    BY <1>1, <1>2, <2>1, ReportKeeps DEF Fail
  <2> QED
    BY <2>2, FlightIsTrue
<1>3. CASE Head(call.plan).refusal # "catch"
  <2>1. call' = [call EXCEPT !.answer = "fault"]
    BY <1>3 DEF Fail
  <2>2. call'.answer = "fault" /\ (call'.via \notin Ungated => call'.closed \subseteq call'.cleared)
    BY <2>1, AnswerKeeps
  <2> QED
    BY <2>2, FaultIsTrue
<1> QED
  BY <1>2, <1>3
LEMMA NextSubjectKeeps ==
  ASSUME InFlight(call), NextSubject
  PROVE  InFlight(call') /\ call'.answer = call.answer
<1>1. PICK x \in call.todo :
        call' = [call EXCEPT !.todo = @ \ {x}, !.at = {x}, !.steps = Head(call.plan).steps]
  BY DEF NextSubject
<1> DEFINE s == Head(call.plan).steps
           todo == call.todo \ {x}
<1>2. call \in RequestRecord /\ call.steps = <<>> /\ x \in Subjects
  BY DEF InFlight, IsRequest, NextSubject, RequestRecord
<1>3. s \in Seq(STRING) /\ todo \in SUBSET Subjects
  BY <1>2, WhereItIs DEF RequestRecord
<1>4. call' = [call EXCEPT !.todo = todo, !.at = {x}, !.steps = s]
  BY <1>1
<1> HIDE DEF s, todo
<1>5. /\ call' \in RequestRecord /\ SameRequest(call, call')
      /\ call'.plan = call.plan /\ call'.steps = s /\ call'.todo = todo
      /\ call'.at = {x} /\ call'.failed = call.failed /\ call'.gone = call.gone
      /\ call'.idle = call.idle /\ call'.answer = call.answer /\ call'.cleared = call.cleared
      /\ call'.closed = call.closed /\ call'.wrote = call.wrote /\ call'.shows = call.shows
      /\ call'.owed = call.owed
  BY <1>2, <1>3, <1>4 DEF RequestRecord, SameRequest
<1> QED
  BY <1>2, <1>5, NextInTurn DEF s, todo

LEMMA DoneIsTrue ==
  ASSUME call'.answer = "done",
         call'.via \notin Ungated => call'.closed \subseteq call'.cleared,
         call'.wrote \cap call'.failed = {},
         (IF call'.shows THEN call'.shown ELSE Left(call')) \cap call'.failed \subseteq call'.gone,
         Steps(call'.via) \cap Writes # {} => Left(call') \subseteq call'.wrote \cup call'.idle,
         call'.owed => call'.surface = "http" \/ call'.via \in Unrefreshed
  PROVE  SurfaceInv'
BY DEF SurfaceInv, AnswersTrue, AnswersTrueBut, ClosedWereCleared, ClosedWereClearedBut, Told

LEMMA NextStageKeeps ==
  ASSUME InFlight(call), NextStage
  PROVE  SurfaceInv'
<1> DEFINE here == StageOf(call)
           v == call.via
<1>1. /\ call.steps = <<>> /\ call.todo = {} /\ call.answer = "none" /\ call \in RequestRecord
      /\ here \in DOMAIN v /\ here \in Nat /\ v \in Seq(StageRecord)
  BY WhereItIs DEF NextStage, Busy, InFlight, IsRequest, RequestRecord
<1>2. call.wrote \subseteq Left(call)
  BY DEF InFlight, WrittenLeft
<1>3. ASSUME Head(call.plan).some /\ Left(call) = {} PROVE SurfaceInv'
  <2>1. call' = [call EXCEPT !.answer = "refused"]
    BY <1>3 DEF NextStage
  <2>2. /\ call'.answer = "refused" /\ call'.wrote = call.wrote
        /\ call'.via \notin Ungated => call'.closed \subseteq call'.cleared
    BY <2>1, AnswerKeeps
  <2> QED
    BY <1>2, <1>3, <2>2, RefusedIsTrue
<1>4. ASSUME ~(Head(call.plan).some /\ Left(call) = {}), Len(call.plan) = 1 PROVE SurfaceInv'
  <2>1. call' = [call EXCEPT !.answer = "done"]
    BY <1>4 DEF NextStage
  <2>2. /\ call'.answer = "done" /\ call'.wrote = call.wrote /\ call'.idle = call.idle
        /\ call'.gone = call.gone /\ call'.via = v /\ call'.failed = call.failed /\ call'.ids = call.ids
        /\ call'.shows = call.shows /\ call'.shown = call.shown /\ call'.owed = call.owed
        /\ call'.surface = call.surface
        /\ call'.via \notin Ungated => call'.closed \subseteq call'.cleared
    BY <2>1, AnswerKeeps
  <2>3. Left(call') = Left(call)
    BY <2>2 DEF Left
  <2>4. call'.wrote \cap call'.failed = {}
    BY <1>2, <2>2 DEF Left
  <2>5. (IF call'.shows THEN call'.shown ELSE Left(call')) \cap call'.failed \subseteq call'.gone
    BY <2>2, <2>3 DEF InFlight, FailedAreGone, Left
  <2>6. Len(v) \in Nat /\ here = Len(v) /\ \A h \in DOMAIN v : h < here \/ h = here
    <3>1. here = Len(v) - 1 + 1
      BY <1>4 DEF StageOf
    <3>2. Len(v) \in Nat /\ DOMAIN v = 1..Len(v)
      BY <1>1
    <3> HIDE DEF v, here
    <3> QED
      BY <3>1, <3>2
  <2>7. \A h \in DOMAIN v : \A k \in DOMAIN v[h].steps : h = here => k < StepOf(call)
    <3> SUFFICES ASSUME NEW k \in DOMAIN v[here].steps PROVE k < StepOf(call)
      OBVIOUS
    <3> DEFINE t == v[here].steps
    <3>1. t \in Seq(STRING) /\ StepOf(call) = Len(t) + 1 /\ k \in DOMAIN t
      BY <1>1, WhereItIs
    <3> HIDE DEF t
    <3> QED
      BY <3>1
  <2>8. ASSUME Steps(v) \cap Writes # {} PROVE Left(call) \subseteq call.wrote \cup call.idle
    <3>1. PICK h \in DOMAIN v : \E k \in DOMAIN v[h].steps : v[h].steps[k] \in Writes
      BY <2>8 DEF Steps
    <3>2. PICK k \in DOMAIN v[h].steps : v[h].steps[k] \in Writes
      BY <3>1
    <3>3. \A x \in Left(call) : Passed(call, x, h, k)
      BY <1>1, <2>6, <2>7 DEF Passed
    <3> QED
      BY <3>2, <3>3 DEF InFlight, Earned
  <2>9. ~RefreshAhead(call)
    <3> SUFFICES ASSUME NEW h \in DOMAIN v, NEW k \in DOMAIN v[h].steps,
                        h > here \/ (h = here /\ k >= StepOf(call))
                 PROVE  FALSE
      BY DEF RefreshAhead
    <3>1. k \in Nat /\ h \in Nat /\ StepOf(call) \in Nat
      BY <1>1, WhereItIs, StagePlaces
    <3>2. (h < here \/ h = here) /\ (h = here => k < StepOf(call))
      BY <2>6, <2>7
    <3> DEFINE n == StepOf(call)
    <3>3. /\ n \in Nat /\ here \in Nat /\ (h > here \/ (h = here /\ k >= n))
          /\ (h < here \/ h = here) /\ (h = here => k < n)
      BY <1>1, <3>1, <3>2
    <3> HIDE DEF n, here
    <3> QED
      BY <3>1, <3>3
  <2>10. call'.owed => call'.surface = "http" \/ call'.via \in Unrefreshed
    BY <2>2, <2>9 DEF InFlight, Owes
  <2> QED
    BY <2>2, <2>3, <2>4, <2>5, <2>8, <2>10, DoneIsTrue
<1>5. ASSUME ~(Head(call.plan).some /\ Left(call) = {}), Len(call.plan) # 1 PROVE SurfaceInv'
  <2>1. call' = Enter([call EXCEPT !.plan = Tail(@)])
    BY <1>5 DEF NextStage
  <2>2. InFlight(call') /\ call'.answer = "none"
    BY <1>1, <1>5, <2>1, StageDone
  <2> QED
    BY <2>2, FlightIsTrue
<1> QED
  BY <1>3, <1>4, <1>5

\* Another process removes a subject.
LEMMA VanishKeeps ==
  ASSUME InFlight(call), Vanish
  PROVE  InFlight(call') /\ call'.answer = call.answer
<1>1. PICK x \in call.ids \ call.gone : call' = [call EXCEPT !.gone = @ \cup {x}]
  BY DEF Vanish
<1>2. call \in RequestRecord
  BY DEF InFlight, IsRequest
<1>3. /\ call' \in RequestRecord /\ SameRequest(call, call')
      /\ call'.plan = call.plan /\ call'.steps = call.steps /\ call'.todo = call.todo
      /\ call'.at = call.at /\ call'.failed = call.failed /\ call'.gone = call.gone \cup {x}
      /\ call'.idle = call.idle /\ call'.answer = call.answer /\ call'.cleared = call.cleared
      /\ call'.closed = call.closed /\ call'.wrote = call.wrote /\ call'.shows = call.shows
      /\ call'.owed = call.owed
  BY <1>1, <1>2 DEF RequestRecord, SameRequest
<1>4. /\ StageOf(call') = StageOf(call) /\ Left(call') = Left(call) /\ call'.via = call.via
      /\ call'.closing = call.closing /\ call'.foreign = call.foreign /\ call'.surface = call.surface
  BY <1>3 DEF StageOf, Left, SameRequest
<1>5. StepOf(call') = StepOf(call)
  BY <1>3, <1>4 DEF StepOf
<1>6. \A y, h, k : Passed(call', y, h, k) <=> Passed(call, y, h, k)
  BY <1>3, <1>4, <1>5 DEF Passed
<1>7. IsRequest(call') /\ OnCourse(call') /\ SubjectsApart(call')
  BY <1>3, <1>4, <1>5 DEF InFlight, IsRequest, OnCourse, SubjectsApart
<1>8. Earned(call')
  BY <1>3, <1>4, <1>6 DEF InFlight, Earned
<1>9. WrittenLeft(call')
  BY <1>3, <1>4, <1>6 DEF InFlight, WrittenLeft, WrittenBy
<1>10. Owes(call')
  BY <1>3, <1>4, <1>5 DEF InFlight, Owes, RefreshAhead
<1>11. FailedAreGone(call') /\ (call'.via \notin Ungated => call'.closed \subseteq call'.cleared)
  BY <1>3, <1>4 DEF InFlight, FailedAreGone
<1> QED
  BY <1>3, <1>7, <1>8, <1>9, <1>10, <1>11 DEF InFlight

\* A request just taken up is in flight: its first step is put to every subject.
LEMMA AskBegins ==
  ASSUME NEW surface \in {"mcp", "cli", "http"}, NEW plan \in Plans,
         surface # "http" => plan \in McpPlans \cup CliPlans, Ask(surface, plan)
  PROVE  InFlight(call') /\ call'.answer = "none"
<1>0. PICK ids \in SUBSET Subjects \ {{}}, closing \in BOOLEAN :
        \E foreign \in SUBSET ids, gone \in SUBSET ids :
          call' = Enter([NoCall EXCEPT !.surface = surface, !.plan = plan, !.via = plan, !.ids = ids,
                                       !.foreign = foreign, !.gone = gone, !.closing = closing])
  BY DEF Ask
<1>1. PICK foreign \in SUBSET ids, gone \in SUBSET ids :
        call' = Enter([NoCall EXCEPT !.surface = surface, !.plan = plan, !.via = plan, !.ids = ids,
                                     !.foreign = foreign, !.gone = gone, !.closing = closing])
  BY <1>0
<1> DEFINE e == [NoCall EXCEPT !.surface = surface, !.plan = plan, !.via = plan, !.ids = ids,
                               !.foreign = foreign, !.gone = gone, !.closing = closing]
           d == call'
<1>2. IsPlan(plan) /\ plan \in Seq(StageRecord) /\ plan # <<>>
  BY PlanShape DEF IsPlan
<1>3. /\ e.plan = plan /\ e.via = plan /\ e.surface = surface /\ e.ids = ids /\ e.foreign = foreign
      /\ e.gone = gone /\ e.closing = closing /\ e.steps = <<>> /\ e.todo = {} /\ e.at = {}
      /\ e.cleared = {} /\ e.closed = {} /\ e.wrote = {} /\ e.idle = {} /\ e.failed = {} /\ e.shown = {}
      /\ e.shows = FALSE /\ e.owed = FALSE /\ e.answer = "none"
  BY DEF NoCall
<1>4. e \in RequestRecord
  <2>1. <<>> \in Seq(STRING)
    OBVIOUS
  <2> QED
    BY <1>2, <2>1 DEF NoCall, RequestRecord
<1>5. d = Enter(e)
  BY <1>1
<1> HIDE DEF e, d
<1>6. IsRequest(e)
  BY <1>3, <1>4 DEF IsRequest
<1>7. Len(plan) - Len(plan) + 1 = 1 /\ 1 \in DOMAIN plan /\ \A k \in DOMAIN plan : 1 + k - 1 = k
  <2>1. Len(plan) \in Nat /\ Len(plan) # 0 /\ DOMAIN plan = 1..Len(plan)
    BY <1>2
  <2> DEFINE l == Len(plan)
  <2>2. l \in Nat /\ l # 0 /\ DOMAIN plan = 1..l
    BY <2>1
  <2> HIDE DEF l
  <2>3. l - l + 1 = 1 /\ 1 \in 1..l /\ \A k \in 1..l : 1 + k - 1 = k
    BY <2>2
  <2> QED
    BY <2>2, <2>3 DEF l
<1>8. StageOf(e) = 1 /\ StageOf(e) \in DOMAIN e.via /\ e.plan # <<>>
  BY <1>2, <1>3, <1>7 DEF StageOf
<1>9. \A k \in DOMAIN e.plan : e.plan[k] = e.via[StageOf(e) + k - 1]
  BY <1>3, <1>7, <1>8
<1>10. /\ IsRequest(d) /\ SameRequest(e, d) /\ OnCourse(d) /\ SubjectsApart(d)
       /\ StageOf(d) = StageOf(e) /\ Left(d) = Left(e)
       /\ \A x \in Left(d), h, k \in Nat : k >= 1 => (Passed(d, x, h, k) <=> h < StageOf(e))
       /\ d.failed = e.failed /\ d.gone = e.gone /\ d.cleared = e.cleared /\ d.wrote = e.wrote
       /\ d.idle = e.idle /\ d.owed = e.owed /\ d.closed = e.closed /\ d.shows = e.shows
       /\ d.answer = e.answer
  BY <1>5, <1>6, <1>8, <1>9, Entered
<1>11. Earned(d)
  <2> SUFFICES ASSUME NEW x \in Left(d), NEW h \in DOMAIN d.via, NEW k \in DOMAIN d.via[h].steps,
                      Passed(d, x, h, k)
               PROVE  FALSE
    BY DEF Earned
  <2>1. d.via = plan
    BY <1>3, <1>10 DEF SameRequest
  <2>2. h \in Nat /\ h >= 1 /\ k \in Nat /\ k >= 1
    BY <1>2, <2>1, StagePlaces
  <2> QED
    BY <1>8, <1>10, <2>2
<1>12. WrittenLeft(d) /\ Owes(d) /\ (d.via \notin Ungated => d.closed \subseteq d.cleared)
  BY <1>3, <1>10 DEF WrittenLeft, Owes
<1>13. FailedAreGone(d)
  BY <1>3, <1>10 DEF FailedAreGone
<1> QED
  BY <1>3, <1>10, <1>11, <1>12, <1>13 DEF InFlight, d

LEMMA SurfaceInvInit == call = NoCall => SurfaceInv
BY DEF SurfaceInv, AnswersTrue, AnswersTrueBut, ClosedWereCleared, ClosedWereClearedBut, NoCall

LEMMA SurfaceInvStep == SurfaceInv /\ [SurfacesNext]_call => SurfaceInv'
<1> SUFFICES ASSUME SurfaceInv, [SurfacesNext]_call PROVE SurfaceInv'
  OBVIOUS
<1>1. ASSUME NEW surface \in {"mcp", "cli", "http"}, NEW plan \in Plans,
             surface # "http" => plan \in McpPlans \cup CliPlans, Ask(surface, plan)
      PROVE  SurfaceInv'
  BY <1>1, AskBegins, FlightIsTrue
<1>2. ASSUME NEW plan \in McpPlans, Ask("mcp", plan) PROVE SurfaceInv'
  BY <1>1, <1>2 DEF Plans
<1>3. ASSUME NEW plan \in CliPlans, Ask("cli", plan) PROVE SurfaceInv'
  BY <1>1, <1>3 DEF Plans
<1>4. ASSUME NEW plan \in HttpPlans, Ask("http", plan) PROVE SurfaceInv'
  BY <1>1, <1>4 DEF Plans
<1>5. ASSUME Busy PROVE InFlight(call) /\ call.answer = "none"
  BY <1>5, BusyIsInFlight
<1>6. ASSUME Return PROVE SurfaceInv'
  BY <1>6 DEF Return, SurfaceInv, AnswersTrue, AnswersTrueBut, ClosedWereCleared,
              ClosedWereClearedBut, NoCall
<1>7. ASSUME Vanish PROVE SurfaceInv'
  <2>1. Busy
    BY <1>7 DEF Vanish
  <2> QED
    BY <1>5, <1>7, <2>1, VanishKeeps, FlightIsTrue
<1>8. ASSUME NextSubject PROVE SurfaceInv'
  <2>1. Busy
    BY <1>8 DEF NextSubject
  <2> QED
    BY <1>5, <1>8, <2>1, NextSubjectKeeps, FlightIsTrue
<1>9. ASSUME NextStage PROVE SurfaceInv'
  <2>1. Busy
    BY <1>9 DEF NextStage
  <2> QED
    BY <1>5, <1>9, <2>1, NextStageKeeps
<1>10. ASSUME Pass PROVE SurfaceInv'
  <2>1. Busy
    BY <1>10 DEF Pass, Running
  <2> QED
    BY <1>5, <1>10, <2>1, PassKeeps, FlightIsTrue
<1>11. ASSUME PassIdly PROVE SurfaceInv'
  <2>1. Busy
    BY <1>11 DEF PassIdly, Running
  <2> QED
    BY <1>5, <1>11, <2>1, PassIdlyKeeps, FlightIsTrue
<1>12. ASSUME Poll PROVE SurfaceInv'
  <2>1. Busy
    BY <1>12 DEF Poll, Running
  <2>2. InFlight(call) /\ call.answer = "none" /\ (call.via \notin Ungated => call.closed \subseteq call.cleared)
    BY <1>5, <2>1 DEF InFlight
  <2>3. CASE InFlight(call') /\ call'.answer = call.answer
    BY <2>2, <2>3, FlightIsTrue
  <2>4. CASE /\ call'.answer = "refused" /\ call'.wrote = {} /\ call'.via = call.via
             /\ call'.closed = call.closed /\ call'.cleared = call.cleared
    BY <2>2, <2>4, RefusedIsTrue
  <2> QED
    BY <1>12, <2>2, <2>3, <2>4, PollKeeps
<1>13. ASSUME Refuse PROVE SurfaceInv'
  <2>1. Busy
    BY <1>13 DEF Refuse, Running
  <2> QED
    BY <1>5, <1>13, <2>1, RefuseKeeps
<1>14. ASSUME Fail PROVE SurfaceInv'
  <2>1. Busy
    BY <1>14 DEF Fail, Running
  <2> QED
    BY <1>5, <1>14, <2>1, FailKeeps
<1>15. CASE UNCHANGED call
  BY <1>15 DEF SurfaceInv, AnswersTrue, AnswersTrueBut, ClosedWereCleared, ClosedWereClearedBut, Told
<1> QED
  BY <1>2, <1>3, <1>4, <1>6, <1>7, <1>8, <1>9, <1>10, <1>11, <1>12, <1>13, <1>14, <1>15
     DEF SurfacesNext, Handle

(* Whatever is asked of a tool, a command or a route, about however many subjects,    *)
(* and whatever others do to them between two of its store calls, the answer is true: *)
(* a refusal changed nothing, what is listed was done, what is reported as failed was *)
(* not, and context.md was written again.                                            *)
THEOREM AnswersAlwaysTrue == SurfacesSpec => []AnswersTrue
<1>1. SurfaceInv => AnswersTrue
  BY DEF SurfaceInv
<1> QED
  BY <1>1, SurfaceInvInit, SurfaceInvStep, PTL DEF SurfacesSpec

(* Whatever is asked, what a handler closes had passed the closure gate in the same    *)
(* call, but for the handlers that never ask it.                                     *)
THEOREM ClosuresAlwaysCleared == SurfacesSpec => []ClosedWereCleared
<1>1. SurfaceInv => ClosedWereCleared
  BY DEF SurfaceInv
<1> QED
  BY <1>1, SurfaceInvInit, SurfaceInvStep, PTL DEF SurfacesSpec
=============================================================================
