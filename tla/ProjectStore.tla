---------------------------- MODULE ProjectStore -----------------------------
(***************************************************************************)
(* The projects that the server daemon serves (dashboard.ProjectStore) and *)
(* their durable list, server.json (server.register_project).  Requests    *)
(* look a database handle up on worker threads, opening it outside the     *)
(* global lock; reloads run on the event loop, swap the project map and    *)
(* evict the handles of projects that went or moved; an evicted handle is  *)
(* closed when its grace is over.                                          *)
(***************************************************************************)
EXTENDS Naturals, FiniteSets, TLC

CONSTANTS
    Threads,   \* the requests in flight
    Hooks,     \* the session hooks that register a project
    Keys,      \* project prefixes
    Paths,     \* store directories
    Handles,   \* database handles, each opened once
    None

ASSUME NoneAssumption == None \notin Keys \cup Paths \cup Handles

VARIABLES
    config,     \* server.json: the store directory registered under each key
    daemon,     \* down, loaded, serving or draining
    projects,   \* _projects: key -> path
    dbs,        \* _dbs: key -> handle
    evicted,    \* _evicted_dbs
    stale,      \* the evicted handles whose grace is over
    openLock,   \* _db_open_locks: key -> the thread that holds it
    fresh,      \* the map a reload has computed and not swapped in yet
    request,    \* per thread: step, key, path and handle
    handle,     \* per handle: unused, open or closed, and the path it serves
    hook,       \* per hook: step and key; no key once its registration is superseded
    told,       \* key -> the path whose hook was told that the server runs
    outlived    \* handles closed under a request that outlived their grace

storeVars == <<config, daemon, projects, dbs, evicted, stale, openLock, fresh,
               request, handle, hook, told, outlived>>

serverVars == <<config, hook, told>>

NoRequest == [step |-> "idle", key |-> None, path |-> None, handle |-> None]
NoHook == [step |-> "idle", key |-> None]
Nowhere == [k \in Keys |-> None]

ServerInit ==
    /\ config = Nowhere
    /\ daemon = "down"
    /\ projects = Nowhere /\ dbs = Nowhere
    /\ evicted = {} /\ stale = {}
    /\ openLock = Nowhere
    /\ fresh = None
    /\ request = [t \in Threads |-> NoRequest]
    /\ handle = [h \in Handles |-> [is |-> "unused", path |-> None]]
    /\ hook = [n \in Hooks |-> NoHook]
    /\ told = Nowhere
    /\ outlived = {}

Evict(keys) ==
    /\ dbs' = [k \in Keys |-> IF k \in keys THEN None ELSE dbs[k]]
    /\ evicted' = (evicted \ stale) \cup ({dbs[k] : k \in keys} \ {None})

InUse == {request[t].handle : t \in {t \in Threads : request[t].step = "using"}}

Closed(handles) == [h \in Handles |-> IF h \in handles THEN [handle[h] EXCEPT !.is = "closed"]
                                      ELSE handle[h]]

(***************************************************************************)
(* register_project, under server.lock: the entry of a project replaces    *)
(* any other entry of the same root, and another project's prefix is       *)
(* refused (so a key never changes hands here, only its directory).        *)
(***************************************************************************)
Superseded(k) == [n \in Hooks |-> IF hook[n].key = k THEN [hook[n] EXCEPT !.key = None]
                                  ELSE hook[n]]

Register(n, k, p) ==
    /\ hook[n].step = "idle"
    /\ config' = [config EXCEPT ![k] = p]
    /\ told' = IF config[k] = p THEN told ELSE [told EXCEPT ![k] = None]
    /\ hook' = [(IF config[k] = p THEN hook ELSE Superseded(k))
                   EXCEPT ![n] = [step |-> "registered", key |-> k]]
    /\ UNCHANGED <<daemon, projects, dbs, evicted, stale, openLock, fresh, request,
                   handle, outlived>>

Unregister(k) ==
    /\ config[k] # None
    /\ config' = [config EXCEPT ![k] = None]
    /\ told' = [told EXCEPT ![k] = None]
    /\ hook' = Superseded(k)
    /\ UNCHANGED <<daemon, projects, dbs, evicted, stale, openLock, fresh, request,
                   handle, outlived>>

\* _ensure_dashboard_server_mode: nobody listens, and the hook says so.
NotListening(n) ==
    /\ hook[n].step = "registered" /\ daemon # "serving"
    /\ hook' = [hook EXCEPT ![n] = NoHook]
    /\ UNCHANGED <<config, told, daemon, projects, dbs, evicted, stale, openLock, fresh,
                   request, handle, outlived>>

(***************************************************************************)
(* POST /api/reload: an async handler, so one reload at a time runs on the *)
(* event loop.  It computes the map from server.json, and swaps it in.     *)
(***************************************************************************)
ReloadReads(n) ==
    /\ hook[n].step = "registered" /\ daemon = "serving" /\ fresh = None
    /\ fresh' = config
    /\ hook' = [hook EXCEPT ![n].step = "reloading"]
    /\ UNCHANGED <<config, told, daemon, projects, dbs, evicted, stale, openLock, request,
                   handle, outlived>>

MovedKeys == {k \in Keys : projects[k] # None /\ projects[k] # fresh[k]}

\* The answer reaches the hook that still waits for it.
Answered ==
    /\ told' = [k \in Keys |->
                   IF \E n \in Hooks : hook[n] = [step |-> "reloading", key |-> k]
                   THEN config[k] ELSE told[k]]
    /\ hook' = [n \in Hooks |-> IF hook[n].step = "reloading" THEN NoHook ELSE hook[n]]

\* Mistake: a reload only adds projects; one that moved keeps its directory.
ReloadAdds ==
    /\ fresh # None
    /\ projects' = [k \in Keys |-> IF projects[k] = None THEN fresh[k] ELSE projects[k]]
    /\ fresh' = None
    /\ Answered
    /\ UNCHANGED <<config, daemon, dbs, evicted, stale, openLock, request, handle, outlived>>

ReloadSwaps ==
    /\ fresh # None
    /\ projects' = fresh /\ fresh' = None
    /\ Evict(MovedKeys)
    /\ handle' = Closed(stale)
    /\ outlived' = outlived \cup (stale \cap InUse)
    /\ stale' = {}
    /\ Answered
    /\ UNCHANGED <<config, daemon, openLock, request>>

\* The map cannot be computed (a corrupt server.json, two stores of one prefix):
\* the old one stays, and the hook warns.
ReloadFails ==
    /\ fresh # None
    /\ fresh' = None
    /\ hook' = [n \in Hooks |-> IF hook[n].step = "reloading" THEN NoHook ELSE hook[n]]
    /\ UNCHANGED <<config, told, daemon, projects, dbs, evicted, stale, openLock, request,
                   handle, outlived>>

\* The two seconds of the POST are over: the hook warns, the reload goes on.
ReloadWarns(n) ==
    /\ hook[n].step = "reloading"
    /\ hook' = [hook EXCEPT ![n] = NoHook]
    /\ UNCHANGED <<config, told, daemon, projects, dbs, evicted, stale, openLock, fresh,
                   request, handle, outlived>>

\* main: load() before uvicorn listens on the port.
Load ==
    /\ daemon = "down"
    /\ daemon' = "loaded"
    /\ projects' = config
    /\ UNCHANGED <<serverVars, dbs, evicted, stale, openLock, fresh, request, handle, outlived>>

Listen ==
    /\ daemon = "loaded"
    /\ daemon' = "serving"
    /\ UNCHANGED <<serverVars, projects, dbs, evicted, stale, openLock, fresh, request,
                   handle, outlived>>

\* The daemon's end: the requests are over when close_all runs.
Shutdown ==
    /\ daemon = "serving" /\ fresh = None
    /\ \A t \in Threads : request[t].step = "idle"
    /\ daemon' = "down"
    /\ handle' = Closed(evicted \cup ({dbs[k] : k \in Keys} \ {None}))
    /\ dbs' = Nowhere /\ evicted' = {} /\ stale' = {}
    /\ told' = Nowhere
    /\ UNCHANGED <<config, hook, projects, openLock, fresh, request, outlived>>

(***************************************************************************)
(* get_db.  Every round first closes the evicted handles whose grace is    *)
(* over; then the cache is asked, and the per-key open lock queued for.    *)
(***************************************************************************)
Gets(t, k, step, h) ==
    request' = [request EXCEPT ![t] = [step |-> step, key |-> k, path |-> None, handle |-> h]]

LookUp(t, k) ==
    /\ request[t].step = "idle" /\ daemon = "serving"
    /\ handle' = Closed(stale)
    /\ outlived' = outlived \cup (stale \cap InUse)
    /\ evicted' = evicted \ stale /\ stale' = {}
    /\ IF projects[k] = None THEN UNCHANGED request
       ELSE IF dbs[k] # None THEN Gets(t, k, "using", dbs[k])
       ELSE Gets(t, k, "queued", None)
    /\ UNCHANGED <<serverVars, daemon, projects, dbs, openLock, fresh>>

\* Under the open lock, and the global lock again: somebody may have opened it.
TakeTurn(t) ==
    LET k == request[t].key IN
    /\ request[t].step = "queued" /\ openLock[k] = None
    /\ IF projects[k] = None
       THEN request' = [request EXCEPT ![t] = NoRequest] /\ UNCHANGED openLock
       ELSE IF dbs[k] # None
       THEN Gets(t, k, "using", dbs[k]) /\ UNCHANGED openLock
       ELSE /\ request' = [request EXCEPT ![t].step = "opening", ![t].path = projects[k]]
            /\ openLock' = [openLock EXCEPT ![k] = t]
    /\ UNCHANGED <<serverVars, daemon, projects, dbs, evicted, stale, fresh, handle, outlived>>

\* The open itself holds no global lock, and may fail.
Open(t) ==
    /\ request[t].step = "opening"
    /\ \/ \E h \in Handles :
            /\ handle[h].is = "unused"
            /\ handle' = [handle EXCEPT ![h] = [is |-> "open", path |-> request[t].path]]
            /\ request' = [request EXCEPT ![t].step = "publishing", ![t].handle = h]
            /\ UNCHANGED openLock
       \/ /\ request' = [request EXCEPT ![t] = NoRequest]
          /\ openLock' = [openLock EXCEPT ![request[t].key] = None]
          /\ UNCHANGED handle
    /\ UNCHANGED <<serverVars, daemon, projects, dbs, evicted, stale, fresh, outlived>>

\* Mistake: the handle is published without a second look at the map.
PublishBlindly(t) ==
    LET k == request[t].key
        h == request[t].handle IN
    /\ request[t].step = "publishing"
    /\ openLock' = [openLock EXCEPT ![k] = None]
    /\ dbs' = [dbs EXCEPT ![k] = h]
    /\ Gets(t, k, "using", h)
    /\ UNCHANGED handle
    /\ UNCHANGED <<serverVars, daemon, projects, evicted, stale, fresh, outlived>>

(***************************************************************************)
(* The publication rechecks the map: the project may be gone, moved, or    *)
(* cached by now, and then the new handle is closed.                       *)
(***************************************************************************)
Publish(t) ==
    LET k == request[t].key
        h == request[t].handle
        current == projects[k] = request[t].path IN
    /\ request[t].step = "publishing"
    /\ openLock' = [openLock EXCEPT ![k] = None]
    /\ dbs' = IF current /\ dbs[k] = None THEN [dbs EXCEPT ![k] = h] ELSE dbs
    /\ handle' = IF current /\ dbs[k] = None THEN handle ELSE Closed({h})
    /\ IF current THEN Gets(t, k, "using", dbs'[k])
       ELSE request' = [request EXCEPT ![t] = NoRequest]   \* KeyError, or the next round
    /\ UNCHANGED <<serverVars, daemon, projects, evicted, stale, fresh, outlived>>

Answer(t) ==
    /\ request[t].step = "using"
    /\ request' = [request EXCEPT ![t] = NoRequest]
    /\ UNCHANGED <<serverVars, daemon, projects, dbs, evicted, stale, openLock, fresh,
                   handle, outlived>>

\* _evicted_close_grace_seconds have passed for a handle.
GraceOver ==
    /\ \E h \in evicted \ stale : stale' = stale \cup {h}
    /\ UNCHANGED <<serverVars, daemon, projects, dbs, evicted, openLock, fresh, request,
                   handle, outlived>>

ServerNext ==
    \/ \E n \in Hooks :
          \/ \E k \in Keys, p \in Paths : Register(n, k, p)
          \/ NotListening(n) \/ ReloadReads(n) \/ ReloadWarns(n)
    \/ \E k \in Keys : Unregister(k)
    \/ ReloadSwaps \/ ReloadFails
    \/ Load \/ Listen \/ Shutdown \/ GraceOver
    \/ \E t \in Threads :
          \/ \E k \in Keys : LookUp(t, k)
          \/ TakeTurn(t) \/ Open(t) \/ Publish(t) \/ Answer(t)

ServerSpec == ServerInit /\ [][ServerNext]_storeVars

OpenHandles == {h \in Handles : handle[h].is = "open"}

\* No connection leaks and none is pulled away.  Every open handle is cached
\* under one key, waits in the evicted list, or is in the hands of the thread
\* that opens it; what is cached is open and serves the directory on the map;
\* and a request's handle is open unless the request outlived the grace.
HandlesAccounted ==
    /\ \A h \in OpenHandles :
          \/ Cardinality({k \in Keys : dbs[k] = h}) = 1
          \/ h \in evicted
          \/ \E t \in Threads : request[t].step = "publishing" /\ request[t].handle = h
    /\ \A k \in Keys : dbs[k] # None =>
          handle[dbs[k]] = [is |-> "open", path |-> projects[k]]
    /\ InUse \subseteq OpenHandles \cup outlived

\* A hook that reports the server running, without a warning, has its project
\* served: the daemon routes the prefix to the directory that server.json names,
\* until somebody registers or unregisters that prefix again.
ToldIsServed ==
    daemon = "serving" =>
        \A k \in Keys : told[k] # None => projects[k] = told[k] /\ config[k] = told[k]
=============================================================================
