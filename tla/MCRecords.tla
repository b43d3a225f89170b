------------------------------ MODULE MCRecords ------------------------------
(* The records that live beside the issues, each module in a scene of its own (and  *)
(* Annotations in two), explored side by side: the other modules keep the state     *)
(* they start in.                                                                   *)
EXTENDS ChangesFeed, Transfer, Observations, EntityBindings, Annotations,
        TemplateAuthoring, StoreMove

(* Four statuses: a start, two whose role the author chooses, and one in work.      *)
(* Edges back to the start and out of work are left out: no walk takes them.        *)
FourStatuses == {"start", "a", "b", "work"}
Roles == [s \in FourStatuses |->
    CASE s = "start" -> {"open"} [] s = "work" -> {"wip"}
      [] s = "a" -> {"open", "wip"} [] OTHER -> {"open", "done"}]
ForwardPairs ==
    {e \in (FourStatuses \ {"work"}) \X (FourStatuses \ {"start"}) : e[1] # e[2]}

VARIABLE scene
recordVars == <<feedVars, transferVars, obsVars, entityVars, noteVars, authoringVars, moveVars>>
mcVars == <<recordVars, scene>>

Scenes == {"feed", "transfer", "observations", "bindings", "anchors", "carrying", "authoring", "move"}

ALine == CHOOSE l \in Lines : TRUE

RecordsInit ==
    /\ scene \in Scenes
    /\ FeedInit /\ ObsInit /\ EntityInit
    /\ IF scene = "transfer" THEN TransferInit
       ELSE db = [d \in DBs |-> Seeded(1)] /\ born = 1
    /\ IF scene = "anchors" THEN NoteInit
       ELSE /\ text = <<ALine>> /\ notes = [a \in Notes |-> Unmade]
            /\ considered = {} /\ acked = {} /\ withdrawn = {}
    /\ IF scene = "authoring" THEN AuthoringInit
       ELSE /\ cat = [s \in Node |-> CHOOSE c \in RolesFor[s] : TRUE] /\ edges = <<>>
    /\ IF scene = "move" THEN MoveInit
       ELSE /\ dbs = [p \in Places |-> {}] /\ tokens = [d \in Dirs |-> 0]
            /\ conf = "none" /\ layout = "relocated"
            /\ commits = 0 /\ minted = 0 /\ mover = "idle" /\ inits = 0 /\ torn = FALSE

(* Anchors move while the file is edited; carrying needs no more than one line.      *)
AnchorsNext ==
    \/ EditFile
    \/ \E a \in Notes, first, last \in 1..MaxLines : Annotate(a, first, last, TRUE)

CarryingNext ==
    \/ \E a \in Notes :
         \/ \E critical \in BOOLEAN : Annotate(a, 1, 1, critical)
         \/ \E status \in {"active", "resolved", "superseded", "promoted"}, critical \in BOOLEAN :
               Update(a, status, critical)
         \/ \E i \in Concerns : LinkNote(a, i) \/ UnlinkNote(a, i)
         \/ \E from, to \in Concerns : Carry(a, from, to)
    \/ \E i \in Concerns : DeleteConcern(i)

RecordsNext ==
    /\ UNCHANGED scene
    /\ IF scene = "feed" THEN FeedNext ELSE UNCHANGED feedVars
    /\ IF scene = "transfer" THEN TransferNext ELSE UNCHANGED transferVars
    /\ IF scene = "observations" THEN ObsNext ELSE UNCHANGED obsVars
    /\ IF scene = "bindings" THEN EntityNext ELSE UNCHANGED entityVars
    /\ IF scene = "anchors" THEN AnchorsNext
       ELSE IF scene = "carrying" THEN CarryingNext ELSE UNCHANGED noteVars
    /\ IF scene = "authoring" THEN AuthoringNext ELSE UNCHANGED authoringVars
    /\ IF scene = "move" THEN MoveNext ELSE UNCHANGED moveVars

RecordsSpec == RecordsInit /\ [][RecordsNext]_mcVars

(* The scenes that disagree with what is said of them, each alone.                  *)
FeedAlone     == RecordsInit /\ scene = "feed" /\ [][RecordsNext]_mcVars
TransferAlone == RecordsInit /\ scene = "transfer" /\ [][RecordsNext]_mcVars
BindingsAlone == RecordsInit /\ scene = "bindings" /\ [][RecordsNext]_mcVars
MoveAlone     == RecordsInit /\ scene = "move" /\ [][RecordsNext]_mcVars
=============================================================================
