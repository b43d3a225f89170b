------------------------------ MODULE StoreMove ------------------------------
(***************************************************************************)
(* The one-time move of a project's store from .filigree/ (`legacy') to    *)
(* .weft/filigree/ (`weft') by `filigree init' (core.migrate_store_to_weft *)
(* and cli_commands/admin.init), which may die after any of its steps and  *)
(* be run again, and the rule by which every session finds the store       *)
(* (resolve_store_dir, find_filigree_anchor).                              *)
(*                                                                         *)
(* A conf file names the database; without one the store directory has it. *)
(* A database is the set of what was committed to it, 0 standing for the   *)
(* database itself; an absent one is empty.  Of the metadata beside it the *)
(* federation token is kept, as a version, 0 for none.                     *)
(*                                                                         *)
(* Assumptions: nobody has the store open while init runs (UPGRADING.md,   *)
(* "Stop ALL writers"), and weft.toml names no store.                      *)
(***************************************************************************)
EXTENDS Naturals, FiniteSets

CONSTANTS Layouts,    \* how projects start: "vanilla", "relocated", "confless"
          MaxCommits, \* bound: commits
          MaxTokens,  \* bound: tokens ever minted
          MaxInits    \* bound: runs of init

ASSUME LayoutAssumption == Layouts \subseteq {"vanilla", "relocated", "confless"}

Dirs   == {"legacy", "weft"}
Places == Dirs \cup {"custom"}
Steps  == {"idle", "copy", "metadata", "conf", "unlink", "husk", "import", "retire", "open"}

VARIABLES dbs,      \* place -> contents of the database there
          tokens,   \* directory -> federation_token there
          conf,     \* where .filigree.conf points, "none" when there is none
          layout,   \* how the project started
          commits,  \* the last commit a session made
          minted,   \* the last token minted
          mover,    \* the step of init that comes next
          inits,    \* runs of init so far
          torn      \* init died between rewriting the conf and removing the legacy database

stores   == <<dbs, tokens, conf>>
moveVars == <<stores, layout, commits, minted, mover, inits, torn>>

There(place) == dbs[place] # {}

\* A weft directory is made by the first file that goes there.
WeftDir == There("weft") \/ tokens["weft"] > 0

(* Finding the store *******************************************************)

\* Mistake: the store that has a database is taken, conf or no conf.
ByPresence == There("legacy") /\ ~There("weft")

\* Legacy stays canonical until weft has a database, and without a conf to
\* mark the commit of the move until its own database is gone.
KeepLegacy == There("legacy") /\ (~There("weft") \/ conf = "none")

StoreDir == IF WeftDir /\ ~KeepLegacy THEN "weft" ELSE "legacy"
OpenedDb == IF conf = "none" THEN StoreDir ELSE conf

\* Opening creates a database that is not there.
Opened(place, new) == dbs' = [dbs EXCEPT ![place] = @ \cup {0} \cup new]

(* Sessions ****************************************************************)

Commit ==
    /\ mover = "idle" /\ commits < MaxCommits
    /\ commits' = commits + 1
    /\ Opened(OpenedDb, {commits'})
    /\ UNCHANGED <<tokens, conf, layout, minted, mover, inits, torn>>

\* Rotated on command; minted by install or doctor where there is none.
MintToken ==
    /\ mover = "idle" /\ minted < MaxTokens
    /\ minted' = minted + 1
    /\ tokens' = [tokens EXCEPT ![StoreDir] = minted']
    /\ UNCHANGED <<dbs, conf, layout, commits, mover, inits, torn>>

(* filigree init ***********************************************************)

AlreadyMoved == \/ conf = "weft" /\ There("weft")
                \/ conf = "none" /\ There("weft") /\ ~There("legacy")

Moves == /\ ~AlreadyMoved
         /\ conf # "custom"
         /\ There("legacy") \/ There("weft")

AfterMove == IF conf = "none" THEN "open" ELSE "import"

StartInit ==
    /\ mover = "idle" /\ inits < MaxInits
    /\ inits' = inits + 1
    /\ mover' = IF ~Moves THEN AfterMove ELSE IF There("legacy") THEN "copy" ELSE "metadata"
    /\ UNCHANGED <<stores, layout, commits, minted, torn>>

\* Mistake: a copy that is there already is not made again.
CopiedOnce == IF There("weft") THEN dbs["weft"] ELSE dbs["legacy"]

\* Whatever an interrupted run left behind is copied anew.
Snapshot == dbs["legacy"]

CopyDb ==
    /\ mover = "copy"
    /\ dbs' = [dbs EXCEPT !["weft"] = Snapshot]
    /\ mover' = "metadata"
    /\ UNCHANGED <<tokens, conf, layout, commits, minted, inits, torn>>

\* Mistake: the token of the legacy store always goes forward.
TokenGoes == TRUE

\* A token in weft may be newer, unless legacy is still canonical.
TokenWanted == StoreDir = "legacy" \/ tokens["weft"] = 0

CopyMetadata ==
    /\ mover = "metadata"
    /\ tokens' = IF tokens["legacy"] > 0 /\ TokenWanted
                 THEN [tokens EXCEPT !["weft"] = tokens["legacy"]] ELSE tokens
    /\ mover' = IF conf = "none" THEN "unlink" ELSE "conf"
    /\ UNCHANGED <<dbs, conf, layout, commits, minted, inits, torn>>

RewriteConf ==
    /\ mover = "conf"
    /\ conf' = "weft"
    /\ mover' = "unlink"
    /\ UNCHANGED <<dbs, tokens, layout, commits, minted, inits, torn>>

UnlinkLegacy ==
    /\ mover = "unlink"
    /\ dbs' = [dbs EXCEPT !["legacy"] = {}]
    /\ mover' = "husk"
    /\ UNCHANGED <<tokens, conf, layout, commits, minted, inits, torn>>

RemoveHuskToken ==
    /\ mover = "husk"
    /\ tokens' = [tokens EXCEPT !["legacy"] = 0]
    /\ mover' = AfterMove
    /\ UNCHANGED <<dbs, conf, layout, commits, minted, inits, torn>>

\* The conf's fields, all but `db', go to config.json of the store.
ImportConf ==
    /\ mover = "import"
    /\ mover' = "retire"
    /\ UNCHANGED <<stores, layout, commits, minted, inits, torn>>

RetireConf ==
    /\ mover = "retire"
    /\ conf' = "none"
    /\ mover' = "open"
    /\ UNCHANGED <<dbs, tokens, layout, commits, minted, inits, torn>>

OpenStore ==
    /\ mover = "open"
    /\ Opened(OpenedDb, {})
    /\ mover' = "idle"
    /\ UNCHANGED <<tokens, conf, layout, commits, minted, inits, torn>>

InitDies ==
    /\ mover # "idle"
    /\ mover' = "idle"
    /\ torn' = (torn \/ (mover = "unlink" /\ conf = "weft"))
    /\ UNCHANGED <<stores, layout, commits, minted, inits>>

MoveInit ==
    /\ layout \in Layouts
    /\ conf = IF layout = "confless" THEN "none" ELSE IF layout = "vanilla" THEN "legacy" ELSE "custom"
    /\ dbs = [p \in Places |-> IF p = (IF conf = "custom" THEN "custom" ELSE "legacy") THEN {0} ELSE {}]
    /\ tokens = [d \in Dirs |-> 0]
    /\ commits = 0 /\ minted = 0 /\ mover = "idle" /\ inits = 0 /\ torn = FALSE

MoveNext ==
    \/ Commit \/ MintToken
    \/ StartInit \/ CopyDb \/ CopyMetadata \/ RewriteConf \/ UnlinkLegacy \/ RemoveHuskToken
    \/ ImportConf \/ RetireConf \/ OpenStore
    \/ InitDies
MoveSpec == MoveInit /\ [][MoveNext]_moveVars

(* Properties **************************************************************)

AllThere     == mover = "idle" => dbs[OpenedDb] = 0..commits
TokenNewest  == mover = "idle" => tokens[StoreDir] \in {0, minted}

\* "A crash at any step leaves a consistent state the next explicit run
\* resumes" (migrate_store_to_weft): whenever no init is running, a session
\* that opens the project finds everything that was ever committed.
NothingLost == AllThere

\* Wherever init dies and how often it is run again, sessions find every commit
\* and are handed no token that was since rotated: in projects that never had
\* a conf, while a conf stands, and after it was retired unless the database
\* had been relocated or init once died before removing the legacy database.
MoveKeepsTo ==
    \/ AllThere /\ TokenNewest
    \/ conf = "none" /\ (layout = "relocated" \/ (layout = "vanilla" /\ torn))
=============================================================================
