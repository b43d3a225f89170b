----------------------------- MODULE MCServices ------------------------------
(* What surrounds the issue store: the built-in workflow packs, the ephemeral       *)
(* dashboard, the server daemon, the projects it serves, the upgrade of a database  *)
(* and the surfaces' handlers, each in a scene of its own.                          *)
EXTENDS WorkflowPacks, EphemeralDashboard, ServerDaemon, ProjectStore, SchemaUpgrade,
        Handlers

VARIABLE scene
mcVars == <<packVars, dashVars, daemonVars, storeVars, schemaVars, call, scene>>

Scenes == {"packs", "dashboards", "daemon", "projects", "schema", "surfaces"}

ServicesInit ==
    /\ scene \in Scenes
    /\ DashboardInit /\ DaemonInit /\ ServerInit
    /\ call = NoCall
    /\ IF scene = "packs" THEN PackInit
       ELSE kind = "task" /\ status = "open" /\ filled = {} /\ before = "open"
    /\ IF scene = "schema" THEN SchemaInit
       ELSE /\ stamp = 0 /\ appId = FALSE /\ schema = {}
            /\ opener = [p \in Openers |-> NotOpen] /\ binding = NoBinding

ServicesNext ==
    /\ UNCHANGED scene
    /\ IF scene = "packs" THEN PackNext ELSE UNCHANGED packVars
    /\ IF scene = "dashboards" THEN DashboardNext ELSE UNCHANGED dashVars
    /\ IF scene = "daemon" THEN DaemonNext ELSE UNCHANGED daemonVars
    /\ IF scene = "projects" THEN ServerNext ELSE UNCHANGED storeVars
    /\ IF scene = "schema" THEN SchemaNext ELSE UNCHANGED schemaVars
    /\ IF scene = "surfaces" THEN SurfacesNext ELSE UNCHANGED call

ServicesSpec == ServicesInit /\ [][ServicesNext]_mcVars

(* Each scene has three of one kind of process or handle, two of another, and two    *)
(* places; the scenes share the names, and the names are interchangeable.           *)
Interchangeable ==
    Permutations(Dashboards) \cup Permutations(Sessions) \cup Permutations(Ports)

(* Two processes upgrade one database.                                              *)
UpgradeAlone == ServicesInit /\ scene = "schema" /\ [][ServicesNext]_mcVars
=============================================================================
