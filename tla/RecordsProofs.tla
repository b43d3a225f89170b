---------------------------- MODULE RecordsProofs -----------------------------
(* What lives beside the issues keeps its promises for every number of callers,  *)
(* records and repetitions.  One part each: the move of a project's store, the     *)
(* queue of observations, annotations and their anchors, the change feed, the      *)
(* sign-offs on an issue's entities, and imports.                                *)
EXTENDS ChangesFeed, Observations, Annotations, EntityBindings, StoreMove, Transfer,
        FiniteSetTheorems, WellFoundedInduction, TLAPS

-----------------------------------------------------------------------------
(* The move of a project's store                                                 *)

MoveTypes ==
    /\ dbs \in [Places -> SUBSET Nat] /\ tokens \in [Dirs -> Nat]
    /\ layout \in {"vanilla", "relocated", "confless"}
    /\ commits \in Nat /\ minted \in Nat /\ torn \in BOOLEAN

Everything == 0..commits
NewestOrNone(d) == tokens[d] \in {0, minted}

\* A relocated database, while its conf stands: nothing is moved.
ConfNamesCustom ==
    /\ layout = "relocated" /\ conf = "custom" /\ mover \in {"idle", "import", "retire"}
    /\ dbs["custom"] = Everything /\ dbs["legacy"] = {} /\ dbs["weft"] = {}
    /\ tokens["weft"] = 0 /\ NewestOrNone("legacy")

\* Until the conf is rewritten the legacy database has everything; tokens go to weft
\* as soon as a copy is there.
ConfNamesLegacy ==
    /\ layout = "vanilla" /\ conf = "legacy" /\ mover \in {"idle", "copy", "metadata", "conf"}
    /\ dbs["legacy"] = Everything
    /\ mover \in {"metadata", "conf"} => dbs["weft"] = Everything
    /\ tokens["weft"] > 0 => dbs["weft"] # {}
    /\ IF tokens["weft"] > 0 THEN tokens["weft"] = minted ELSE NewestOrNone("legacy")

\* From then on weft has; the legacy database is left only by a death before unlink.
ConfNamesWeft ==
    /\ layout = "vanilla" /\ conf = "weft" /\ mover \in {"idle", "unlink", "husk", "import", "retire"}
    /\ dbs["weft"] = Everything /\ NewestOrNone("weft")
    /\ torn \/ mover = "unlink" \/ dbs["legacy"] = {}

\* Without a conf the legacy database has everything as long as it is there.
NoConfLegacy ==
    /\ layout = "confless" /\ conf = "none" /\ mover \in {"idle", "copy", "metadata", "unlink"}
    /\ dbs["legacy"] = Everything /\ NewestOrNone("legacy")
    /\ mover \in {"metadata", "unlink"} => dbs["weft"] = Everything
    /\ tokens["weft"] > 0 => tokens["legacy"] > 0
    /\ mover = "unlink" => tokens["weft"] = tokens["legacy"]

NoConfWeft ==
    /\ layout # "relocated" /\ conf = "none" /\ mover \in {"idle", "husk", "open"}
    /\ dbs["weft"] = Everything /\ dbs["legacy"] = {} /\ NewestOrNone("weft")

\* The exceptions of MoveKeepsTo: a conf that was retired does not come back.
Exempt == conf = "none" /\ (layout = "relocated" \/ (layout = "vanilla" /\ torn))
ExemptStays == mover \in {"idle", "copy", "metadata", "unlink", "husk", "open"}

MoveInv ==
    /\ MoveTypes
    /\ \/ ConfNamesCustom \/ ConfNamesLegacy \/ ConfNamesWeft \/ NoConfLegacy \/ NoConfWeft
       \/ Exempt /\ ExemptStays

LEMMA MoveInitially == MoveInit => MoveInv
<1> SUFFICES ASSUME MoveInit PROVE MoveInv
  OBVIOUS
<1>1. 0..0 = {0} /\ layout \in {"vanilla", "relocated", "confless"} /\ conf \in {"none", "legacy", "custom"}
  BY LayoutAssumption DEF MoveInit
<1>2. /\ dbs["legacy"] = IF conf = "custom" THEN {} ELSE {0}
      /\ dbs["custom"] = (IF conf = "custom" THEN {0} ELSE {}) /\ dbs["weft"] = {}
      /\ tokens["legacy"] = 0 /\ tokens["weft"] = 0
  BY <1>1 DEF MoveInit, Places, Dirs
<1>3. dbs \in [Places -> SUBSET Nat] /\ tokens \in [Dirs -> Nat]
  <2>1. {0} \in SUBSET Nat /\ {} \in SUBSET Nat
    OBVIOUS
  <2> QED
    BY <2>1 DEF MoveInit
<1>4. MoveTypes
  BY <1>1, <1>3 DEF MoveInit, MoveTypes
<1>5. commits = 0 /\ minted = 0 /\ mover = "idle"
      /\ conf = IF layout = "confless" THEN "none" ELSE IF layout = "vanilla" THEN "legacy" ELSE "custom"
  BY DEF MoveInit
<1>6. ConfNamesCustom \/ ConfNamesLegacy \/ NoConfLegacy
  BY <1>1, <1>2, <1>5 DEF ConfNamesCustom, ConfNamesLegacy, NoConfLegacy, Everything, NewestOrNone
<1> QED
  BY <1>4, <1>6 DEF MoveInv

(* Which store and which database a session finds in each stage.                    *)
LEMMA CustomFinds ==
  ASSUME MoveTypes, ConfNamesCustom
  PROVE  OpenedDb = "custom" /\ StoreDir = "legacy" /\ ~Moves /\ AfterMove = "import"
BY DEF MoveTypes, ConfNamesCustom, OpenedDb, StoreDir, WeftDir, KeepLegacy, There, Moves, AfterMove,
       Dirs

LEMMA LegacyFinds ==
  ASSUME MoveTypes, ConfNamesLegacy
  PROVE  /\ OpenedDb = "legacy" /\ There("legacy") /\ Moves
         /\ StoreDir = IF There("weft") THEN "weft" ELSE "legacy"
<1>1. 0 \in Everything
  BY DEF MoveTypes, Everything
<1> QED
  BY <1>1 DEF MoveTypes, ConfNamesLegacy, OpenedDb, StoreDir, WeftDir, KeepLegacy, There, Moves,
          AlreadyMoved

LEMMA WeftFinds ==
  ASSUME MoveTypes, ConfNamesWeft
  PROVE  OpenedDb = "weft" /\ StoreDir = "weft" /\ ~Moves /\ AfterMove = "import"
<1>1. 0 \in Everything
  BY DEF MoveTypes, Everything
<1> QED
  BY <1>1 DEF MoveTypes, ConfNamesWeft, OpenedDb, StoreDir, WeftDir, KeepLegacy, There, Moves,
          AlreadyMoved, AfterMove

LEMMA NoConfLegacyFinds ==
  ASSUME MoveTypes, NoConfLegacy
  PROVE  OpenedDb = "legacy" /\ StoreDir = "legacy" /\ Moves /\ There("legacy")
<1>1. 0 \in Everything
  BY DEF MoveTypes, Everything
<1> QED
  BY <1>1 DEF MoveTypes, NoConfLegacy, OpenedDb, StoreDir, WeftDir, KeepLegacy, There, Moves,
          AlreadyMoved

LEMMA NoConfWeftFinds ==
  ASSUME MoveTypes, NoConfWeft
  PROVE  OpenedDb = "weft" /\ StoreDir = "weft" /\ ~Moves /\ AfterMove = "open"
<1>1. 0 \in Everything
  BY DEF MoveTypes, Everything
<1> QED
  BY <1>1 DEF MoveTypes, NoConfWeft, OpenedDb, StoreDir, WeftDir, KeepLegacy, There, Moves,
          AlreadyMoved, AfterMove

LEMMA ReadsRight ==
  ASSUME MoveInv
  PROVE  MoveKeepsTo
<1>1. MoveTypes
  BY DEF MoveInv
<1>2. CASE ConfNamesCustom
  BY <1>1, <1>2, CustomFinds DEF ConfNamesCustom, MoveKeepsTo, AllThere, TokenNewest, Everything, NewestOrNone
<1>3. CASE ConfNamesLegacy
  <2>1. tokens["weft"] \in Nat
    BY <1>1 DEF MoveTypes, Dirs
  <2> QED
    BY <1>1, <1>3, <2>1, LegacyFinds
       DEF ConfNamesLegacy, MoveKeepsTo, AllThere, TokenNewest, Everything, NewestOrNone, There
<1>4. CASE ConfNamesWeft
  BY <1>1, <1>4, WeftFinds DEF ConfNamesWeft, MoveKeepsTo, AllThere, TokenNewest, Everything, NewestOrNone
<1>5. CASE NoConfLegacy
  BY <1>1, <1>5, NoConfLegacyFinds DEF NoConfLegacy, MoveKeepsTo, AllThere, TokenNewest, Everything, NewestOrNone
<1>6. CASE NoConfWeft
  BY <1>1, <1>6, NoConfWeftFinds DEF NoConfWeft, MoveKeepsTo, AllThere, TokenNewest, Everything, NewestOrNone
<1> QED
  BY <1>2, <1>3, <1>4, <1>5, <1>6 DEF MoveInv, MoveKeepsTo, Exempt

LEMMA OpeningKeeps ==
  ASSUME MoveTypes, NEW d \in Places, OpenedDb = d, dbs[d] = Everything, NEW new \in SUBSET Nat,
         Opened(OpenedDb, new)
  PROVE  dbs' \in [Places -> SUBSET Nat] /\ dbs'[d] = Everything \cup new
         /\ \A p \in Places \ {d} : dbs'[p] = dbs[p]
<1>1. 0 \in Everything /\ Everything \subseteq Nat
  BY DEF MoveTypes, Everything
<1> QED
  BY <1>1 DEF Opened, MoveTypes

LEMMA CommitKeeps ==
  ASSUME MoveTypes, NEW d \in Places, OpenedDb = d, dbs[d] = Everything, Commit
  PROVE  /\ MoveTypes' /\ dbs'[d] = Everything' /\ \A p \in Places \ {d} : dbs'[p] = dbs[p]
         /\ UNCHANGED <<tokens, conf, layout, minted, mover, torn>> /\ mover = "idle"
<1>1. Everything' = Everything \cup {commits'} /\ commits' \in Nat
  BY DEF Commit, Everything, MoveTypes
<1>2. dbs' \in [Places -> SUBSET Nat] /\ dbs'[d] = Everything \cup {commits'}
      /\ \A p \in Places \ {d} : dbs'[p] = dbs[p]
  BY <1>1, OpeningKeeps DEF Commit
<1> QED
  BY <1>1, <1>2 DEF Commit, MoveTypes

LEMMA MintKeeps ==
  ASSUME MoveTypes, MintToken, StoreDir \in Dirs
  PROVE  /\ MoveTypes' /\ minted' = minted + 1 /\ tokens'[StoreDir] = minted'
         /\ \A d \in Dirs \ {StoreDir} : tokens'[d] = tokens[d]
         /\ UNCHANGED <<dbs, conf, layout, commits, mover, torn>> /\ mover = "idle"
BY DEF MintToken, MoveTypes

LEMMA MoveTypesStep == ASSUME MoveInv, [MoveNext]_moveVars PROVE MoveTypes'
<1>1. MoveTypes
  BY DEF MoveInv
<1>2. StoreDir \in Dirs
  BY DEF StoreDir, Dirs
<1>3. CASE MintToken
  BY <1>1, <1>2, <1>3, MintKeeps
<1>4. ASSUME NEW d, NEW new \in SUBSET Nat, Opened(d, new) PROVE dbs' \in [Places -> SUBSET Nat]
  <2>1. CASE d \in Places
    <3>1. dbs[d] \subseteq Nat
      BY <1>1, <2>1 DEF MoveTypes
    <3>2. dbs[d] \cup {0} \cup new \subseteq Nat
      <4>1. 0 \in Nat /\ new \subseteq Nat
        OBVIOUS
      <4> HIDE DEF Places
      <4> QED
        BY <3>1, <4>1, Zenon
    <3> QED
      BY <1>1, <1>4, <3>2 DEF Opened, MoveTypes
  <2>2. CASE d \notin Places
    BY <1>1, <1>4, <2>2 DEF Opened, MoveTypes
  <2> QED
    BY <2>1, <2>2
<1>5. CASE Commit
  BY <1>1, <1>4, <1>5 DEF Commit, MoveTypes
<1>6. CASE OpenStore
  BY <1>1, <1>4, <1>6 DEF OpenStore, MoveTypes
<1>7. CASE CopyDb \/ UnlinkLegacy
  BY <1>1, <1>7 DEF CopyDb, Snapshot, UnlinkLegacy, MoveTypes, Places, Dirs
<1>8. CASE CopyMetadata \/ RemoveHuskToken
  BY <1>1, <1>8 DEF CopyMetadata, RemoveHuskToken, MoveTypes, Dirs
<1>9. CASE StartInit \/ RewriteConf \/ ImportConf \/ RetireConf \/ InitDies \/ UNCHANGED moveVars
  BY <1>1, <1>9 DEF StartInit, RewriteConf, ImportConf, RetireConf, InitDies, moveVars, stores, MoveTypes
<1> QED
  BY <1>3, <1>5, <1>6, <1>7, <1>8, <1>9 DEF MoveNext

LEMMA CustomStep ==
  ASSUME MoveTypes, MoveTypes', ConfNamesCustom, MoveNext
  PROVE  MoveInv'
<1> SUFFICES ConfNamesCustom' \/ (Exempt /\ ExemptStays)'
  BY DEF MoveInv
<1>0. OpenedDb = "custom" /\ StoreDir = "legacy" /\ ~Moves /\ AfterMove = "import"
  BY CustomFinds
<1>1. CASE Commit
  BY <1>0, <1>1, CommitKeeps DEF ConfNamesCustom, Places, Dirs, NewestOrNone
<1>2. CASE MintToken
  BY <1>0, <1>2, MintKeeps DEF ConfNamesCustom, Dirs, NewestOrNone, Everything
<1>3. CASE StartInit
  BY <1>0, <1>3 DEF StartInit, stores, ConfNamesCustom, NewestOrNone, Everything
<1>4. CASE ImportConf
  BY <1>4 DEF ImportConf, stores, ConfNamesCustom, NewestOrNone, Everything
<1>5. CASE RetireConf
  BY <1>5 DEF RetireConf, ConfNamesCustom, Exempt, ExemptStays
<1>6. CASE InitDies
  BY <1>6 DEF InitDies, stores, ConfNamesCustom, NewestOrNone, Everything
<1> QED
  BY <1>1, <1>2, <1>3, <1>4, <1>5, <1>6
     DEF MoveNext, ConfNamesCustom, CopyDb, CopyMetadata, RewriteConf, UnlinkLegacy, RemoveHuskToken, OpenStore

LEMMA LegacyStep ==
  ASSUME MoveTypes, MoveTypes', ConfNamesLegacy, MoveNext
  PROVE  MoveInv'
<1> SUFFICES ConfNamesLegacy' \/ ConfNamesWeft'
  BY DEF MoveInv
<1>0. /\ OpenedDb = "legacy" /\ There("legacy") /\ Moves
      /\ StoreDir = (IF There("weft") THEN "weft" ELSE "legacy")
      /\ tokens["weft"] \in Nat /\ tokens["legacy"] \in Nat /\ minted \in Nat
      /\ StoreDir \in Dirs
  BY LegacyFinds DEF MoveTypes, Dirs
<1>1. CASE Commit
  BY <1>0, <1>1, CommitKeeps DEF ConfNamesLegacy, Places, Dirs, NewestOrNone
<1>2. CASE MintToken
  BY <1>0, <1>2, MintKeeps DEF ConfNamesLegacy, Dirs, NewestOrNone, Everything, There
<1>3. CASE StartInit
  BY <1>0, <1>3 DEF StartInit, stores, ConfNamesLegacy, NewestOrNone, Everything
<1>4. CASE CopyDb
  <2>1. dbs'["legacy"] = dbs["legacy"] /\ dbs'["weft"] = dbs["legacy"]
    BY <1>4 DEF CopyDb, Snapshot, MoveTypes, Places, Dirs
  <2> QED
    BY <1>0, <1>4, <2>1 DEF CopyDb, ConfNamesLegacy, NewestOrNone, Everything, There
<1>5. CASE CopyMetadata
  <2>1. tokens'["legacy"] = tokens["legacy"]
        /\ tokens'["weft"] = IF tokens["legacy"] > 0 /\ TokenWanted THEN tokens["legacy"] ELSE tokens["weft"]
    BY <1>5 DEF CopyMetadata, MoveTypes, Dirs
  <2>2. There("weft") /\ dbs["weft"] = Everything
    BY <1>0, <1>5 DEF CopyMetadata, ConfNamesLegacy, There
  <2>3. TokenWanted <=> tokens["weft"] = 0
    BY <1>0, <2>2 DEF TokenWanted
  <2> QED
    BY <1>0, <1>5, <2>1, <2>2, <2>3 DEF CopyMetadata, ConfNamesLegacy, NewestOrNone, Everything, There
<1>6. CASE RewriteConf
  BY <1>0, <1>6 DEF RewriteConf, ConfNamesLegacy, ConfNamesWeft, NewestOrNone, Everything
<1>7. CASE InitDies
  BY <1>0, <1>7 DEF InitDies, stores, ConfNamesLegacy, NewestOrNone, Everything
<1> QED
  BY <1>1, <1>2, <1>3, <1>4, <1>5, <1>6, <1>7
     DEF MoveNext, ConfNamesLegacy, ImportConf, RetireConf, UnlinkLegacy, RemoveHuskToken, OpenStore

LEMMA WeftStep ==
  ASSUME MoveTypes, MoveTypes', ConfNamesWeft, MoveNext
  PROVE  MoveInv'
<1> SUFFICES ConfNamesWeft' \/ NoConfWeft' \/ (Exempt /\ ExemptStays)'
  BY DEF MoveInv
<1>0. OpenedDb = "weft" /\ StoreDir = "weft" /\ ~Moves /\ AfterMove = "import" /\ torn \in BOOLEAN
  BY WeftFinds DEF MoveTypes
<1>1. CASE Commit
  BY <1>0, <1>1, CommitKeeps DEF ConfNamesWeft, Places, Dirs, NewestOrNone
<1>2. CASE MintToken
  BY <1>0, <1>2, MintKeeps DEF ConfNamesWeft, Dirs, NewestOrNone, Everything
<1>3. CASE StartInit
  BY <1>0, <1>3 DEF StartInit, stores, ConfNamesWeft, NewestOrNone, Everything
<1>4. CASE UnlinkLegacy
  <2>1. dbs'["legacy"] = {} /\ dbs'["weft"] = dbs["weft"]
    BY <1>4 DEF UnlinkLegacy, MoveTypes, Places, Dirs
  <2> QED
    BY <1>0, <1>4, <2>1 DEF UnlinkLegacy, ConfNamesWeft, NewestOrNone, Everything
<1>5. CASE RemoveHuskToken
  <2>1. tokens'["weft"] = tokens["weft"]
    BY <1>5 DEF RemoveHuskToken, MoveTypes, Dirs
  <2> QED
    BY <1>0, <1>5, <2>1 DEF RemoveHuskToken, ConfNamesWeft, NewestOrNone, Everything
<1>6. CASE ImportConf
  BY <1>0, <1>6 DEF ImportConf, stores, ConfNamesWeft, NewestOrNone, Everything
<1>7. CASE RetireConf
  BY <1>0, <1>7 DEF RetireConf, ConfNamesWeft, NoConfWeft, NewestOrNone, Everything, Exempt, ExemptStays
<1>8. CASE InitDies
  BY <1>0, <1>8 DEF InitDies, stores, ConfNamesWeft, NewestOrNone, Everything
<1> QED
  BY <1>1, <1>2, <1>3, <1>4, <1>5, <1>6, <1>7, <1>8
     DEF MoveNext, ConfNamesWeft, CopyDb, CopyMetadata, RewriteConf, OpenStore

LEMMA NoConfLegacyStep ==
  ASSUME MoveTypes, MoveTypes', NoConfLegacy, MoveNext
  PROVE  MoveInv'
<1> SUFFICES NoConfLegacy' \/ NoConfWeft'
  BY DEF MoveInv
<1>0. /\ OpenedDb = "legacy" /\ StoreDir = "legacy" /\ There("legacy") /\ Moves
      /\ tokens["weft"] \in Nat /\ tokens["legacy"] \in Nat /\ minted \in Nat
  BY NoConfLegacyFinds DEF MoveTypes, Dirs
<1>1. CASE Commit
  BY <1>0, <1>1, CommitKeeps DEF NoConfLegacy, Places, Dirs, NewestOrNone
<1>2. CASE MintToken
  BY <1>0, <1>2, MintKeeps DEF NoConfLegacy, Dirs, NewestOrNone, Everything
<1>3. CASE StartInit
  BY <1>0, <1>3 DEF StartInit, stores, NoConfLegacy, NewestOrNone, Everything
<1>4. CASE CopyDb
  <2>1. dbs'["legacy"] = dbs["legacy"] /\ dbs'["weft"] = dbs["legacy"]
    BY <1>4 DEF CopyDb, Snapshot, MoveTypes, Places, Dirs
  <2> QED
    BY <1>0, <1>4, <2>1 DEF CopyDb, NoConfLegacy, NewestOrNone, Everything
<1>5. CASE CopyMetadata
  <2>1. tokens'["legacy"] = tokens["legacy"]
        /\ tokens'["weft"] = IF tokens["legacy"] > 0 THEN tokens["legacy"] ELSE tokens["weft"]
    BY <1>0, <1>5 DEF CopyMetadata, MoveTypes, Dirs, TokenWanted
  <2> QED
    BY <1>0, <1>5, <2>1 DEF CopyMetadata, NoConfLegacy, NewestOrNone, Everything
<1>6. CASE UnlinkLegacy
  <2>1. dbs'["legacy"] = {} /\ dbs'["weft"] = dbs["weft"]
    BY <1>6 DEF UnlinkLegacy, MoveTypes, Places, Dirs
  <2> QED
    BY <1>0, <1>6, <2>1 DEF UnlinkLegacy, NoConfLegacy, NoConfWeft, NewestOrNone, Everything
<1>7. CASE InitDies
  BY <1>0, <1>7 DEF InitDies, stores, NoConfLegacy, NewestOrNone, Everything
<1> QED
  BY <1>1, <1>2, <1>3, <1>4, <1>5, <1>6, <1>7
     DEF MoveNext, NoConfLegacy, RewriteConf, ImportConf, RetireConf, RemoveHuskToken, OpenStore

LEMMA NoConfWeftStep ==
  ASSUME MoveTypes, MoveTypes', NoConfWeft, MoveNext
  PROVE  MoveInv'
<1> SUFFICES NoConfWeft'
  BY DEF MoveInv
<1>0. OpenedDb = "weft" /\ StoreDir = "weft" /\ ~Moves /\ AfterMove = "open"
  BY NoConfWeftFinds
<1>1. CASE Commit
  BY <1>0, <1>1, CommitKeeps DEF NoConfWeft, Places, Dirs, NewestOrNone
<1>2. CASE MintToken
  BY <1>0, <1>2, MintKeeps DEF NoConfWeft, Dirs, NewestOrNone, Everything
<1>3. CASE StartInit
  BY <1>0, <1>3 DEF StartInit, stores, NoConfWeft, NewestOrNone, Everything
<1>4. CASE RemoveHuskToken
  <2>1. tokens'["weft"] = tokens["weft"]
    BY <1>4 DEF RemoveHuskToken, MoveTypes, Dirs
  <2> QED
    BY <1>0, <1>4, <2>1 DEF RemoveHuskToken, NoConfWeft, NewestOrNone, Everything
<1>5. CASE OpenStore
  <2>1. dbs'["weft"] = Everything \cup {} /\ dbs'["legacy"] = dbs["legacy"]
    BY <1>0, <1>5, OpeningKeeps DEF OpenStore, NoConfWeft, Places, Dirs
  <2> QED
    BY <1>5, <2>1 DEF OpenStore, NoConfWeft, NewestOrNone, Everything
<1>6. CASE InitDies
  BY <1>0, <1>6 DEF InitDies, stores, NoConfWeft, NewestOrNone, Everything
<1> QED
  BY <1>1, <1>2, <1>3, <1>4, <1>5, <1>6
     DEF MoveNext, NoConfWeft, CopyDb, CopyMetadata, RewriteConf, ImportConf, RetireConf, UnlinkLegacy

LEMMA ExemptStep ==
  ASSUME MoveTypes, MoveTypes', Exempt, ExemptStays, MoveNext
  PROVE  MoveInv'
<1>1. torn \in BOOLEAN
  BY DEF MoveTypes
<1>2. Exempt' /\ ExemptStays'
  BY <1>1
     DEF MoveNext, Exempt, ExemptStays, stores, Commit, MintToken, StartInit, AfterMove, CopyDb,
         CopyMetadata, RewriteConf, UnlinkLegacy, RemoveHuskToken, ImportConf, RetireConf, OpenStore, InitDies
<1> QED
  BY <1>2 DEF MoveInv

LEMMA MoveInvStep == MoveInv /\ [MoveNext]_moveVars => MoveInv'
<1> SUFFICES ASSUME MoveInv, [MoveNext]_moveVars PROVE MoveInv'
  OBVIOUS
<1>1. MoveTypes /\ MoveTypes'
  BY MoveTypesStep DEF MoveInv
<1>2. CASE MoveNext
  BY <1>1, <1>2, CustomStep, LegacyStep, WeftStep, NoConfLegacyStep, NoConfWeftStep, ExemptStep DEF MoveInv
<1>3. CASE UNCHANGED moveVars
  BY <1>3
     DEF moveVars, stores, MoveInv, MoveTypes, ConfNamesCustom, ConfNamesLegacy, ConfNamesWeft,
         NoConfLegacy, NoConfWeft, Exempt, ExemptStays, Everything, NewestOrNone
<1> QED
  BY <1>2, <1>3

(* Wherever init dies and however often it runs again, a session finds every commit   *)
(* and no token that was rotated since, for every number of commits, rotations and   *)
(* runs, but for the layouts that MoveKeepsTo leaves out.                           *)
THEOREM MoveAlwaysKeeps == MoveSpec => []MoveKeepsTo
BY MoveInitially, MoveInvStep, ReadsRight, PTL DEF MoveSpec

-----------------------------------------------------------------------------
(* Observations                                                                  *)

QueueRows == [id : Nat, what : Whats, old : BOOLEAN]
CallStates == [at : {"idle", "insert", "delete", "audit", "link"}, obs : SUBSET Nat, issue : Nat,
               row : SUBSET Whats]

ObsTypes ==
    /\ queue \subseteq QueueRows /\ lastObs \in Nat
    /\ IsFiniteSet(made) /\ \A i \in made : i.no \in Nat
    /\ call \in [Callers -> CallStates]

\* Ids are drawn once: whatever names one names one that was drawn.
Drew == 1..lastObs
IdsDrawn ==
    /\ QueueIds \subseteq Drew
    /\ \A t \in audit : t.obs \in Drew
    /\ \A e \in evidence : e.obs \in Drew
    /\ \A c \in Callers : call[c].obs \subseteq Drew

\* Who is in the queue was neither dismissed nor linked.
Ended(id) == \E t \in audit : t.obs = id /\ t.why \in {"dismissed", "linked"}
QueuedNotEnded == \A id \in QueueIds : ~Ended(id) /\ ~\E e \in evidence : e.obs = id

\* A promotion deletes and audits what it made an issue from.
Named(id) == \E i \in made : id \in Range(i.from)
PromotedNamed ==
    \A c \in Callers : call[c].at \in {"delete", "audit"} => \A id \in call[c].obs : Named(id)

ObsInv ==
    ObsTypes /\ IdsDrawn /\ QueuedNotEnded /\ PromotedNamed /\ ObservationsAccounted /\ DisposedOnce

LEMMA ObsInitially == ObsInit => ObsInv
<1> SUFFICES ASSUME ObsInit PROVE ObsInv
  OBVIOUS
<1>1. queue = {} /\ lastObs = 0 /\ audit = {} /\ evidence = {} /\ made = {} /\ QueueIds = {} /\ Drew = {}
  BY DEF ObsInit, QueueIds, Drew
<1>2. ObsTypes
  BY FS_EmptySet DEF ObsInit, ObsTypes, CallStates, Idle
<1>3. \A c \in Callers : call[c].at = "idle" /\ call[c].obs = {}
  BY DEF ObsInit, Idle
<1> QED
  BY <1>1, <1>2, <1>3
     DEF ObsInv, IdsDrawn, QueuedNotEnded, PromotedNamed, ObservationsAccounted, DisposedOnce, Drew

(* What a row added to the audit trail says.                                        *)
LEMMA TrailedIs ==
  ASSUME NEW those, NEW why
  PROVE  /\ audit \subseteq Trailed(those, why)
         /\ \A id \in those : \E t \in Trailed(those, why) : t.obs = id /\ t.why = why
         /\ \A t \in Trailed(those, why) \ audit :
               /\ t.obs \in those /\ t.why = why
               /\ (~\E u \in audit : u.obs = t.obs /\ u.why = why) => t.n = 1
<1>1. ASSUME NEW t \in Trailed(those, why) \ audit
      PROVE  /\ t.obs \in those /\ t.why = why
             /\ (~\E u \in audit : u.obs = t.obs /\ u.why = why) => t.n = 1
  <2>1. PICK id \in those :
           t = [obs |-> id, why |-> why, n |-> 1 + Cardinality({u \in audit : u.obs = id /\ u.why = why})]
    BY <1>1 DEF Trailed
  <2>2. t.obs = id /\ t.why = why /\ t.n = 1 + Cardinality({u \in audit : u.obs = id /\ u.why = why})
    BY <2>1
  <2>3. ASSUME ~\E u \in audit : u.obs = id /\ u.why = why PROVE t.n = 1
    <3>1. {u \in audit : u.obs = id /\ u.why = why} = {}
      BY <2>3
    <3> QED
      BY <2>2, <3>1, FS_EmptySet
  <2> QED
    BY <2>2, <2>3
<1>2. ASSUME NEW id \in those PROVE \E t \in Trailed(those, why) : t.obs = id /\ t.why = why
  <2> DEFINE olds == 1 + Cardinality({u \in audit : u.obs = id /\ u.why = why})
  <2> DEFINE t == [obs |-> id, why |-> why, n |-> olds]
  <2>1. t \in Trailed(those, why)
    BY <1>2, Zenon DEF Trailed
  <2> HIDE DEF olds
  <2>2. t.obs = id /\ t.why = why
    OBVIOUS
  <2> QED
    BY <2>1, <2>2
<1> QED
  BY <1>1, <1>2 DEF Trailed

LEMMA CallMoves ==
  ASSUME ObsTypes, NEW c \in Callers, NEW at \in {"idle", "insert", "delete", "audit", "link"},
         NEW those \in SUBSET Nat, NEW issue \in Nat,
         Goes(c, at, those, issue)
  PROVE  /\ call' \in [Callers -> CallStates]
         /\ call'[c].at = at /\ call'[c].obs = those
         /\ \A d \in Callers \ {c} : call'[d] = call[d]
BY DEF Goes, ObsTypes, CallStates

LEMMA CallReturns ==
  ASSUME ObsTypes, NEW c \in Callers, Returns(c)
  PROVE  /\ call' \in [Callers -> CallStates]
         /\ call'[c].at = "idle" /\ call'[c].obs = {}
         /\ \A d \in Callers \ {c} : call'[d] = call[d]
BY DEF Returns, ObsTypes, CallStates, Idle

(* What one transaction does to the tables: rows for `those' are added to the audit    *)
(* trail, and evidence of at most one; observations leave the queue when they are     *)
(* among them, were recorded before, or are named by an issue; new ones were never    *)
(* drawn.                                                                             *)
LEMMA TablesSettle ==
  ASSUME ObsInv, NEW those \in SUBSET Drew, NEW why, audit' = Trailed(those, why),
         lastObs' \in Nat, lastObs' >= lastObs, made' = made,
         QueueIds' \subseteq QueueIds \cup ((lastObs + 1)..lastObs'),
         (lastObs + 1)..lastObs' \subseteq QueueIds',
         \A id \in QueueIds \ QueueIds' : id \in those \/ (\E t \in audit : t.obs = id) \/ Named(id),
         why \in {"dismissed", "linked"} => those \subseteq QueueIds /\ those \cap QueueIds' = {},
         \/ evidence' = evidence
         \/ why = "linked" /\ \E id, i : those = {id} /\ evidence' = evidence \cup {[obs |-> id, issue |-> i]}
  PROVE  /\ QueueIds' \subseteq Drew'
         /\ \A t \in audit' : t.obs \in Drew'
         /\ \A e \in evidence' : e.obs \in Drew'
         /\ QueuedNotEnded' /\ ObservationsAccounted' /\ DisposedOnce'
<1>1. /\ ObsTypes /\ IdsDrawn /\ QueuedNotEnded /\ PromotedNamed /\ ObservationsAccounted /\ DisposedOnce
  BY DEF ObsInv
<1>2. Drew \subseteq Drew' /\ (lastObs + 1)..lastObs' = Drew' \ Drew
  BY <1>1 DEF Drew, ObsTypes
<1>3. audit \subseteq audit' /\ \A id \in those : \E t \in audit' : t.obs = id /\ t.why = why
  BY TrailedIs
<1>4. \A t \in audit' \ audit :
         /\ t.obs \in those /\ t.why = why
         /\ (~\E u \in audit : u.obs = t.obs /\ u.why = why) => t.n = 1
  BY TrailedIs
<1>5. \A e \in evidence' \ evidence : why = "linked" /\ e.obs \in those
  OBVIOUS
<1>6. evidence \subseteq evidence' /\ \A e, f \in evidence' \ evidence : e = f
  OBVIOUS
<1>7. /\ QueueIds' \subseteq Drew'
      /\ \A t \in audit' : t.obs \in Drew'
      /\ \A e \in evidence' : e.obs \in Drew'
  BY <1>1, <1>2, <1>4, <1>5 DEF IdsDrawn
<1>8. QueuedNotEnded'
  <2> SUFFICES ASSUME NEW id \in QueueIds'
               PROVE  /\ \A t \in audit' : ~(t.obs = id /\ t.why \in {"dismissed", "linked"})
                      /\ \A e \in evidence' : e.obs # id
    BY DEF QueuedNotEnded, Ended
  <2>1. CASE id \in QueueIds
    BY <1>1, <1>4, <1>5, <2>1 DEF QueuedNotEnded, Ended
  <2>2. CASE id \notin QueueIds
    <3>1. id \notin Drew
      BY <1>2, <2>2
    <3> QED
      BY <1>1, <1>4, <1>5, <3>1 DEF IdsDrawn
  <2> QED
    BY <2>1, <2>2
<1>9. ObservationsAccounted'
  <2>1. ASSUME NEW id \in 1..lastObs'
        PROVE  \/ id \in QueueIds' \/ (\E t \in audit' : t.obs = id)
               \/ \E i \in made : id \in Range(i.from)
    <3>1. CASE id \in Drew
      BY <1>1, <1>3, <3>1 DEF ObservationsAccounted, Named, Drew
    <3>2. CASE id \notin Drew
      BY <1>2, <3>2, <2>1 DEF Drew
    <3> QED
      BY <3>1, <3>2
  <2>2. \A e \in evidence' : \E t \in audit' : t.obs = e.obs /\ t.why = "linked"
    BY <1>1, <1>3, <1>5 DEF ObservationsAccounted
  <2> QED
    BY <2>1, <2>2 DEF ObservationsAccounted
<1>10. DisposedOnce'
  <2>1. \A t \in audit' : t.why \in {"dismissed", "linked"} =>
          /\ t.n = 1
          /\ ~\E s \in audit' : s.obs = t.obs /\ s.why \in {"dismissed", "linked"} \ {t.why}
    BY <1>1, <1>4 DEF DisposedOnce, QueuedNotEnded, Ended
  <2>2. \A e, f \in evidence' : e.obs = f.obs => e = f
    BY <1>1, <1>5, <1>6 DEF DisposedOnce, QueuedNotEnded
  <2> QED
    BY <1>1, <2>1, <2>2 DEF DisposedOnce
<1> QED
  BY <1>7, <1>8, <1>9, <1>10

(* A transaction that adds nothing to the audit trail adds no row for nobody.         *)
LEMMA NothingTrailed ==
  ASSUME NEW why PROVE Trailed({}, why) = audit
BY DEF Trailed

(* What one step does to the calls.                                                 *)
LEMMA CallsSettle ==
  ASSUME ObsInv, NEW c \in Callers, lastObs' \in Nat, lastObs' >= lastObs, made \subseteq made',
         \A d \in Callers \ {c} : call'[d] = call[d],
         call'[c].obs \subseteq Drew',
         call'[c].at \in {"delete", "audit"} => \A id \in call'[c].obs : Named(id)'
  PROVE  (\A d \in Callers : call'[d].obs \subseteq Drew') /\ PromotedNamed'
<1>1. Drew \subseteq Drew'
  BY DEF Drew, ObsInv, ObsTypes
<1>2. \A id : Named(id) => Named(id)'
  BY DEF Named
<1> QED
  BY <1>1, <1>2 DEF ObsInv, IdsDrawn, PromotedNamed

(* The same when the calls stay as they are.                                        *)
LEMMA CallsStay ==
  ASSUME ObsInv, lastObs' = lastObs, made' = made, call' = call
  PROVE  (\A d \in Callers : call'[d].obs \subseteq Drew') /\ PromotedNamed'
BY DEF ObsInv, IdsDrawn, PromotedNamed, Drew, Named
LEMMA Leaves ==
  ASSUME ObsTypes, NEW those, queue' = Without(those)
  PROVE  queue' \subseteq QueueRows /\ QueueIds' = QueueIds \ those
BY DEF Without, QueueIds, ObsTypes

(* Observations leave the queue with a row each, and nothing else happens to them.    *)
LEMMA LeavingSettles ==
  ASSUME ObsInv, NEW those \in SUBSET Drew, NEW why, audit' = Trailed(those, why), queue' = Without(those),
         UNCHANGED <<lastObs, made, call>>,
         why \in {"dismissed", "linked"} => those \subseteq QueueIds,
         \/ evidence' = evidence
         \/ why = "linked" /\ \E id, i : those = {id} /\ evidence' = evidence \cup {[obs |-> id, issue |-> i]}
  PROVE  ObsInv'
<1>1. queue' \subseteq QueueRows /\ QueueIds' = QueueIds \ those
  BY Leaves DEF ObsInv
<1>2. lastObs \in Nat /\ lastObs' = lastObs /\ (lastObs + 1)..lastObs = {}
  BY DEF ObsInv, ObsTypes
<1>3. /\ QueueIds' \subseteq Drew'
      /\ \A t \in audit' : t.obs \in Drew'
      /\ \A e \in evidence' : e.obs \in Drew'
      /\ QueuedNotEnded' /\ ObservationsAccounted' /\ DisposedOnce'
  <2>1. made' = made /\ lastObs' >= lastObs
    BY <1>2
  <2> QED
    BY <1>1, <1>2, <2>1, TablesSettle
<1>4. (\A d \in Callers : call'[d].obs \subseteq Drew') /\ PromotedNamed'
  BY CallsStay
<1>5. ObsTypes'
  BY <1>1 DEF ObsInv, ObsTypes
<1> QED
  BY <1>3, <1>4, <1>5 DEF ObsInv, IdsDrawn

LEMMA SweepKeeps == ASSUME ObsInv, Sweep PROVE ObsInv'
<1>1. ExpiredIds \in SUBSET Drew
  BY DEF ObsInv, IdsDrawn, ExpiredIds, QueueIds
<1> QED
  BY <1>1, LeavingSettles DEF Sweep

LEMMA DismissKeeps ==
  ASSUME ObsInv, NEW c \in Callers, NEW those, Dismiss(c, those) PROVE ObsInv'
<1>1. Found(those) \in SUBSET Drew /\ Found(those) \subseteq QueueIds
  BY DEF ObsInv, IdsDrawn, Found
<1> QED
  BY <1>1, LeavingSettles DEF Dismiss

LEMMA LinkToIssueKeeps ==
  ASSUME ObsInv, NEW c \in Callers, NEW id, NEW i, LinkToIssue(c, id, i) PROVE ObsInv'
<1>1. id \in QueueIds
  BY DEF LinkToIssue, Linked, Linkable, InQueue, QueueIds
<1>2. {id} \in SUBSET Drew /\ {id} \subseteq QueueIds
  BY <1>1 DEF ObsInv, IdsDrawn
<1>3. /\ audit' = Trailed({id}, "linked") /\ queue' = Without({id}) /\ UNCHANGED <<lastObs, made, call>>
      /\ evidence' = evidence \cup {[obs |-> id, issue |-> i.no]}
  BY DEF LinkToIssue, Linked
<1>4. "linked" = "linked" /\ \E d, j : {id} = {d} /\ evidence' = evidence \cup {[obs |-> d, issue |-> j]}
  BY <1>3
<1> QED
  BY <1>2, <1>3, <1>4, LeavingSettles

LEMMA PromoteAgainKeeps ==
  ASSUME ObsInv, NEW c \in Callers, NEW id \in QueueIds, PromoteAgain(c, id) PROVE ObsInv'
<1>1. id \in Drew
  BY DEF ObsInv, IdsDrawn
<1>2. CASE audit' = Trailed({id}, "promoted")
  BY <1>1, <1>2, LeavingSettles DEF PromoteAgain
<1>3. CASE audit' = audit /\ \E t \in audit : t.obs = id
  <2>1. queue' \subseteq QueueRows /\ QueueIds' = QueueIds \ {id}
    BY Leaves DEF ObsInv, PromoteAgain
  <2>2. lastObs \in Nat /\ lastObs' = lastObs /\ (lastObs + 1)..lastObs = {} /\ made' = made /\ lastObs' >= lastObs
    BY DEF ObsInv, ObsTypes, PromoteAgain
  <2>3. audit' = Trailed({}, "promoted") /\ evidence' = evidence /\ {} \in SUBSET Drew
    BY <1>3, NothingTrailed DEF PromoteAgain
  <2>4. /\ QueueIds' \subseteq Drew'
        /\ \A t \in audit' : t.obs \in Drew'
        /\ \A e \in evidence' : e.obs \in Drew'
        /\ QueuedNotEnded' /\ ObservationsAccounted' /\ DisposedOnce'
    BY <1>3, <2>1, <2>2, <2>3, TablesSettle
  <2>5. (\A d \in Callers : call'[d].obs \subseteq Drew') /\ PromotedNamed'
    BY CallsStay DEF PromoteAgain
  <2>6. ObsTypes'
    BY <2>1 DEF ObsInv, ObsTypes, PromoteAgain
  <2> QED
    BY <2>4, <2>5, <2>6 DEF ObsInv, IdsDrawn
<1> QED
  BY <1>2, <1>3 DEF PromoteAgain
(* A step that touches no table.                                                     *)
LEMMA OnlyCalls ==
  ASSUME ObsInv, NEW c \in Callers, UNCHANGED tablesO,
         call' \in [Callers -> CallStates], \A d \in Callers \ {c} : call'[d] = call[d],
         call'[c].obs \subseteq Drew,
         call'[c].at \in {"delete", "audit"} => \A id \in call'[c].obs : Named(id)
  PROVE  ObsInv'
<1>1. /\ queue' = queue /\ lastObs' = lastObs /\ audit' = audit /\ evidence' = evidence /\ made' = made
      /\ QueueIds' = QueueIds /\ Drew' = Drew /\ lastObs' >= lastObs /\ lastObs \in Nat
  BY DEF tablesO, QueueIds, Drew, ObsInv, ObsTypes
<1>2. \A id : Named(id)' = Named(id)
  BY <1>1 DEF Named
<1>3. (\A d \in Callers : call'[d].obs \subseteq Drew') /\ PromotedNamed'
  BY <1>1, <1>2, CallsSettle
<1>4. ObsTypes'
  BY <1>1 DEF ObsInv, ObsTypes
<1>5. QueuedNotEnded' /\ ObservationsAccounted' /\ DisposedOnce'
  BY <1>1 DEF ObsInv, QueuedNotEnded, Ended, ObservationsAccounted, DisposedOnce
<1> QED
  BY <1>1, <1>3, <1>4, <1>5 DEF ObsInv, IdsDrawn

LEMMA LookForDuplicateKeeps ==
  ASSUME ObsInv, NEW c \in Callers, NEW what \in Whats, LookForDuplicate(c, what) PROVE ObsInv'
<1> DEFINE olds == {o.id : o \in {p \in queue : p.what = what}}
<1>1. call' = [call EXCEPT ![c] = [at |-> "insert", obs |-> olds, issue |-> 0, row |-> {what}]]
  BY DEF LookForDuplicate
<1>2. olds \subseteq Drew /\ olds \subseteq Nat
  BY DEF ObsInv, IdsDrawn, QueueIds, Drew
<1> HIDE DEF olds
<1>3. /\ call' \in [Callers -> CallStates]
      /\ \A d \in Callers \ {c} : call'[d] = call[d]
      /\ call'[c].obs = olds /\ call'[c].at = "insert"
  BY <1>1, <1>2 DEF ObsInv, ObsTypes, CallStates
<1>4. UNCHANGED tablesO
  BY DEF LookForDuplicate
<1> QED
  BY <1>2, <1>3, <1>4, OnlyCalls

LEMMA DiesKeeps ==
  ASSUME ObsInv, NEW c \in Callers, Dies(c) PROVE ObsInv'
<1>1. /\ call' \in [Callers -> CallStates]
      /\ call'[c].at = "idle" /\ call'[c].obs = {}
      /\ \A d \in Callers \ {c} : call'[d] = call[d]
  BY CallReturns DEF Dies, ObsInv
<1> QED
  BY <1>1, OnlyCalls DEF Dies

LEMMA MergeAgainKeeps ==
  ASSUME ObsInv, NEW c \in Callers, NEW list \in Lists, MergeAgain(c, list) PROVE ObsInv'
<1>1. PICK i \in AlreadyMerged(list) : Goes(c, "link", Found(Range(list)), i.no) /\ UNCHANGED tablesO
  BY DEF MergeAgain
<1>2. i.no \in Nat
  BY DEF AlreadyMerged, ObsInv, ObsTypes
<1>3. Found(Range(list)) \subseteq Drew /\ Found(Range(list)) \in SUBSET Nat
  <2>1. QueueIds \subseteq Drew /\ Drew \subseteq Nat
    BY DEF ObsInv, IdsDrawn, Drew
  <2> QED
    BY <2>1 DEF Found
<1>4. /\ call' \in [Callers -> CallStates]
      /\ call'[c].at = "link" /\ call'[c].obs = Found(Range(list))
      /\ \A d \in Callers \ {c} : call'[d] = call[d]
  BY <1>1, <1>2, <1>3, CallMoves DEF ObsInv
<1> QED
  BY <1>1, <1>3, <1>4, OnlyCalls

LEMMA ExpiresKeeps == ASSUME ObsInv, Expires PROVE ObsInv'
<1>1. PICK o \in queue : queue' = (queue \ {o}) \cup {[o EXCEPT !.old = TRUE]}
  BY DEF Expires
<1>2. [o EXCEPT !.old = TRUE] \in QueueRows /\ [o EXCEPT !.old = TRUE].id = o.id
  BY DEF ObsInv, ObsTypes, QueueRows
<1>3. queue' \subseteq QueueRows /\ QueueIds' = QueueIds
  BY <1>1, <1>2 DEF ObsInv, ObsTypes, QueueIds
<1>4. UNCHANGED <<lastObs, audit, evidence, made, call>>
  BY DEF Expires
<1>5. ObsTypes'
  BY <1>3, <1>4 DEF ObsInv, ObsTypes
<1>6. IdsDrawn' /\ PromotedNamed'
  BY <1>3, <1>4 DEF ObsInv, IdsDrawn, PromotedNamed, Drew, Named
<1>7. QueuedNotEnded' /\ ObservationsAccounted' /\ DisposedOnce'
  BY <1>3, <1>4 DEF ObsInv, QueuedNotEnded, Ended, ObservationsAccounted, DisposedOnce
<1> QED
  BY <1>5, <1>6, <1>7 DEF ObsInv
LEMMA InsertKeeps ==
  ASSUME ObsInv, NEW c \in Callers, InsertObservation(c) PROVE ObsInv'
<1>1. PICK what \in call[c].row :
         LET rest == Without(call[c].obs)
         IN  IF \E o \in rest : o.what = what
             THEN UNCHANGED tablesO
             ELSE /\ lastObs' = lastObs + 1
                  /\ queue' = rest \cup {[id |-> lastObs + 1, what |-> what, old |-> FALSE]}
                  /\ audit' = Trailed(call[c].obs, "replaced")
                  /\ UNCHANGED <<evidence, made>>
  BY DEF InsertObservation
<1>2. /\ call' \in [Callers -> CallStates]
      /\ call'[c].at = "idle" /\ call'[c].obs = {}
      /\ \A d \in Callers \ {c} : call'[d] = call[d]
  BY CallReturns DEF InsertObservation, ObsInv
<1>3. CASE UNCHANGED tablesO
  BY <1>2, <1>3, OnlyCalls
<1>4. CASE /\ lastObs' = lastObs + 1
           /\ queue' = Without(call[c].obs) \cup {[id |-> lastObs + 1, what |-> what, old |-> FALSE]}
           /\ audit' = Trailed(call[c].obs, "replaced")
           /\ UNCHANGED <<evidence, made>>
  <2>1. /\ what \in Whats /\ lastObs \in Nat /\ call[c].obs \in SUBSET Drew
        /\ Without(call[c].obs) \subseteq QueueRows
        /\ {o.id : o \in Without(call[c].obs)} = QueueIds \ call[c].obs
    BY <1>1 DEF ObsInv, ObsTypes, CallStates, IdsDrawn, Without, QueueIds
  <2> DEFINE new == [id |-> lastObs + 1, what |-> what, old |-> FALSE]
  <2>8. new \in QueueRows /\ new.id = lastObs + 1 /\ queue' = Without(call[c].obs) \cup {new}
    BY <1>4, <2>1 DEF QueueRows
  <2> HIDE DEF new
  <2>2. queue' \subseteq QueueRows
    BY <2>1, <2>8
  <2>3. QueueIds' = {o.id : o \in Without(call[c].obs)} \cup {lastObs + 1}
    BY <2>8 DEF QueueIds
  <2>4. /\ lastObs' \in Nat /\ lastObs' >= lastObs /\ (lastObs + 1)..lastObs' = {lastObs + 1}
        /\ made' = made /\ evidence' = evidence
    BY <1>4, <2>1
  <2>5. /\ QueueIds' \subseteq Drew'
        /\ \A t \in audit' : t.obs \in Drew'
        /\ \A e \in evidence' : e.obs \in Drew'
        /\ QueuedNotEnded' /\ ObservationsAccounted' /\ DisposedOnce'
    <3> DEFINE those == call[c].obs
    <3>1. /\ QueueIds' \subseteq QueueIds \cup ((lastObs + 1)..lastObs')
          /\ (lastObs + 1)..lastObs' \subseteq QueueIds'
          /\ \A id \in QueueIds \ QueueIds' : id \in those
          /\ those \in SUBSET Drew /\ audit' = Trailed(those, "replaced")
      BY <1>4, <2>1, <2>3, <2>4
    <3> HIDE DEF those
    <3> QED
      BY <2>4, <3>1, TablesSettle
  <2>6. (\A d \in Callers : call'[d].obs \subseteq Drew') /\ PromotedNamed'
    BY <1>2, <2>4, CallsSettle
  <2>7. ObsTypes'
    BY <1>2, <2>2, <2>4 DEF ObsInv, ObsTypes
  <2> QED
    BY <2>5, <2>6, <2>7 DEF ObsInv, IdsDrawn
<1> QED
  BY <1>1, <1>3, <1>4

LEMMA DeletePromotedKeeps ==
  ASSUME ObsInv, NEW c \in Callers, DeletePromoted(c) PROVE ObsInv'
<1>1. /\ call[c].obs \in SUBSET Nat /\ call[c].obs \subseteq Drew /\ lastObs \in Nat
      /\ \A id \in call[c].obs : Named(id)
  BY DEF ObsInv, ObsTypes, CallStates, IdsDrawn, PromotedNamed, DeletePromoted
<1>2. /\ call' \in [Callers -> CallStates]
      /\ call'[c].at = "audit" /\ call'[c].obs = call[c].obs
      /\ \A d \in Callers \ {c} : call'[d] = call[d]
  BY <1>1, CallMoves DEF DeletePromoted, ObsInv
<1>3. lastObs' = lastObs /\ audit' = audit /\ evidence' = evidence /\ made' = made
  BY DEF DeletePromoted
<1>4. CASE queue' = queue
  BY <1>1, <1>2, <1>3, <1>4, OnlyCalls DEF tablesO
<1>5. CASE queue' = Without(call[c].obs)
  <2>1. queue' \subseteq QueueRows /\ QueueIds' = QueueIds \ call[c].obs
    BY <1>5, Leaves DEF ObsInv
  <2>2. lastObs' >= lastObs /\ (lastObs + 1)..lastObs' = {} /\ lastObs' \in Nat
    BY <1>1, <1>3
  <2>3. audit' = Trailed({}, "promoted") /\ {} \in SUBSET Drew
    BY <1>3, NothingTrailed
  <2>4. \A id \in QueueIds \ QueueIds' : Named(id)
    BY <1>1, <2>1
  <2>5. /\ QueueIds' \subseteq Drew'
        /\ \A t \in audit' : t.obs \in Drew'
        /\ \A e \in evidence' : e.obs \in Drew'
        /\ QueuedNotEnded' /\ ObservationsAccounted' /\ DisposedOnce'
    BY <1>3, <2>1, <2>2, <2>3, <2>4, TablesSettle
  <2>6. (\A d \in Callers : call'[d].obs \subseteq Drew') /\ PromotedNamed'
    <3>1. call'[c].obs \subseteq Drew' /\ \A id : Named(id)' = Named(id)
      BY <1>1, <1>2, <1>3 DEF Drew, Named
    <3> QED
      BY <1>1, <1>2, <1>3, <2>2, <3>1, CallsSettle
  <2>7. ObsTypes'
    BY <1>2, <1>3, <2>1 DEF ObsInv, ObsTypes
  <2> QED
    BY <2>5, <2>6, <2>7 DEF ObsInv, IdsDrawn
<1> QED
  BY <1>4, <1>5 DEF DeletePromoted

LEMMA AuditPromotedKeeps ==
  ASSUME ObsInv, NEW c \in Callers, AuditPromoted(c) PROVE ObsInv'
<1>1. call[c].obs \in SUBSET Drew /\ lastObs \in Nat
  BY DEF ObsInv, ObsTypes, IdsDrawn
<1>2. /\ call' \in [Callers -> CallStates]
      /\ call'[c].at = "idle" /\ call'[c].obs = {}
      /\ \A d \in Callers \ {c} : call'[d] = call[d]
  BY CallReturns DEF AuditPromoted, ObsInv
<1>3. /\ lastObs' = lastObs /\ queue' = queue /\ evidence' = evidence /\ made' = made
      /\ QueueIds' = QueueIds
  BY DEF AuditPromoted, QueueIds
<1>4. CASE audit' = audit
  BY <1>2, <1>3, <1>4, OnlyCalls DEF tablesO
<1>5. CASE audit' = Trailed(call[c].obs, "promoted")
  <2>1. lastObs' >= lastObs /\ (lastObs + 1)..lastObs' = {} /\ lastObs' \in Nat
    BY <1>1, <1>3
  <2>2. /\ QueueIds' \subseteq Drew'
        /\ \A t \in audit' : t.obs \in Drew'
        /\ \A e \in evidence' : e.obs \in Drew'
        /\ QueuedNotEnded' /\ ObservationsAccounted' /\ DisposedOnce'
    BY <1>1, <1>3, <1>5, <2>1, TablesSettle
  <2>3. (\A d \in Callers : call'[d].obs \subseteq Drew') /\ PromotedNamed'
    BY <1>2, <1>3, <2>1, CallsSettle
  <2>4. ObsTypes'
    BY <1>2, <1>3 DEF ObsInv, ObsTypes
  <2> QED
    BY <2>2, <2>3, <2>4 DEF ObsInv, IdsDrawn
<1> QED
  BY <1>4, <1>5 DEF AuditPromoted
(* A promotion makes an issue that no other was made like.                           *)
LEMMA MakingSettles ==
  ASSUME ObsInv, NEW list, NEW alone \in BOOLEAN, UNCHANGED <<queue, lastObs, audit, evidence>>,
         made' = made \cup {NewIssue(list, alone)},
         ~\E i \in made : i.alone = alone /\ i.from = list
  PROVE  /\ IsFiniteSet(made') /\ \A i \in made' : i.no \in Nat
         /\ Cardinality(made) + 1 \in Nat
         /\ \A id \in Range(list) : Named(id)'
         /\ QueuedNotEnded' /\ ObservationsAccounted' /\ DisposedOnce'
<1> DEFINE issue == NewIssue(list, alone)
<1>1. Cardinality(made) + 1 \in Nat /\ IsFiniteSet(made')
  BY FS_CardinalityType, FS_AddElement DEF ObsInv, ObsTypes
<1>2. issue.no = Cardinality(made) + 1 /\ issue.from = list /\ issue.alone = alone /\ made' = made \cup {issue}
  BY DEF NewIssue
<1> HIDE DEF issue
<1>3. \A i \in made' : i.no \in Nat
  BY <1>1, <1>2 DEF ObsInv, ObsTypes
<1>4. \A id \in Range(list) : Named(id)'
  BY <1>2 DEF Named
<1>5. QueuedNotEnded'
  BY DEF ObsInv, QueuedNotEnded, Ended, QueueIds
<1>6. ObservationsAccounted'
  <2>1. QueueIds' = QueueIds /\ lastObs' = lastObs /\ audit' = audit /\ evidence' = evidence
    BY DEF QueueIds
  <2> QED
    BY <1>2, <2>1 DEF ObsInv, ObservationsAccounted
<1>7. DisposedOnce'
  <2>1. \A i, j \in made' : i.from = j.from /\ i.alone = j.alone => i = j
    BY <1>2 DEF ObsInv, DisposedOnce
  <2> QED
    BY <2>1 DEF ObsInv, DisposedOnce
<1> QED
  BY <1>1, <1>3, <1>4, <1>5, <1>6, <1>7

(* Then the call goes on with the observations the issue was made from.               *)
LEMMA MakingKeeps ==
  ASSUME ObsInv, NEW c \in Callers, NEW list, NEW alone \in BOOLEAN,
         UNCHANGED <<queue, lastObs, audit, evidence>>,
         made' = made \cup {NewIssue(list, alone)},
         ~\E i \in made : i.alone = alone /\ i.from = list,
         Range(list) \subseteq Drew,
         call' \in [Callers -> CallStates], call'[c].obs = Range(list),
         \A d \in Callers \ {c} : call'[d] = call[d]
  PROVE  ObsInv'
<1>1. /\ IsFiniteSet(made') /\ \A i \in made' : i.no \in Nat
      /\ \A id \in Range(list) : Named(id)'
      /\ QueuedNotEnded' /\ ObservationsAccounted' /\ DisposedOnce'
  BY MakingSettles
<1>2. /\ lastObs' = lastObs /\ lastObs \in Nat /\ lastObs' >= lastObs /\ made \subseteq made'
      /\ Drew' = Drew /\ QueueIds' = QueueIds
  BY DEF ObsInv, ObsTypes, Drew, QueueIds
<1>3. (\A d \in Callers : call'[d].obs \subseteq Drew') /\ PromotedNamed'
  BY <1>1, <1>2, CallsSettle
<1>4. ObsTypes'
  BY <1>1 DEF ObsInv, ObsTypes
<1> QED
  BY <1>1, <1>2, <1>3, <1>4 DEF ObsInv, IdsDrawn

LEMMA LinkableDrawn ==
  ASSUME ObsInv, NEW id, Linkable(id) PROVE id \in QueueIds /\ id \in Drew /\ id \in Nat
BY DEF ObsInv, ObsTypes, IdsDrawn, Linkable, InQueue, QueueIds, Drew

LEMMA PromoteKeeps ==
  ASSUME ObsInv, NEW c \in Callers, NEW id \in QueueIds, Promote(c, id) PROVE ObsInv'
<1>1. id \in Drew /\ {id} \in SUBSET Nat
  BY LinkableDrawn DEF Promote
<1>2. /\ call' \in [Callers -> CallStates]
      /\ call'[c].obs = {id}
      /\ \A d \in Callers \ {c} : call'[d] = call[d]
  BY <1>1, CallMoves DEF Promote, ObsInv
<1>3. Range(<<id>>) = {id}
  BY DEF Range
<1>4. ~\E i \in made : i.alone = TRUE /\ i.from = <<id>>
  BY DEF Promote, AlreadyPromoted
<1>5. /\ UNCHANGED <<queue, lastObs, audit, evidence>>
      /\ made' = made \cup {NewIssue(<<id>>, TRUE)}
  BY DEF Promote
<1> QED
  BY <1>1, <1>2, <1>3, <1>4, <1>5, MakingKeeps

LEMMA MergeKeeps ==
  ASSUME ObsInv, NEW c \in Callers, NEW list \in Lists, Merge(c, list) PROVE ObsInv'
<1>1. Range(list) \subseteq Drew /\ Range(list) \in SUBSET Nat
  BY LinkableDrawn DEF Merge
<1>2. ~\E i \in made : i.alone = FALSE /\ i.from = list
  BY DEF Merge, AlreadyMerged
<1>3. /\ UNCHANGED <<queue, lastObs, audit, evidence>>
      /\ made' = made \cup {NewIssue(list, FALSE)}
      /\ Goes(c, "link", Range(list), NewIssue(list, FALSE).no)
  BY DEF Merge
<1>4. NewIssue(list, FALSE).no \in Nat
  <2>1. Cardinality(made) + 1 \in Nat
    BY FS_CardinalityType DEF ObsInv, ObsTypes
  <2> QED
    BY <2>1 DEF NewIssue
<1>5. /\ call' \in [Callers -> CallStates]
      /\ call'[c].obs = Range(list)
      /\ \A d \in Callers \ {c} : call'[d] = call[d]
  BY <1>1, <1>3, <1>4, CallMoves DEF ObsInv
<1> QED
  BY <1>1, <1>2, <1>3, <1>5, MakingKeeps
LEMMA LinkMergedKeeps ==
  ASSUME ObsInv, NEW c \in Callers, LinkMerged(c) PROVE ObsInv'
<1>1. PICK id \in call[c].obs :
         /\ Linked(id, call[c].issue) \/ UNCHANGED <<evidence, audit, queue>>
         /\ IF call[c].obs = {id} THEN Returns(c)
            ELSE Goes(c, "link", call[c].obs \ {id}, call[c].issue)
         /\ lastObs' = lastObs /\ made' = made
  BY DEF LinkMerged
<1>2. call[c].obs \in SUBSET Nat /\ call[c].obs \subseteq Drew /\ call[c].issue \in Nat /\ lastObs \in Nat
  BY DEF ObsInv, ObsTypes, CallStates, IdsDrawn
<1>3. /\ call' \in [Callers -> CallStates]
      /\ call'[c].at \in {"idle", "link"} /\ call'[c].obs \subseteq call[c].obs
      /\ \A d \in Callers \ {c} : call'[d] = call[d]
  <2>1. CASE Returns(c)
    BY <2>1, CallReturns DEF ObsInv
  <2>2. CASE Goes(c, "link", call[c].obs \ {id}, call[c].issue)
    <3>1. call[c].obs \ {id} \in SUBSET Nat
      BY <1>2
    <3> QED
      BY <1>2, <2>2, <3>1, CallMoves DEF ObsInv
  <2> QED
    BY <1>1, <2>1, <2>2
<1>4. CASE UNCHANGED <<evidence, audit, queue>>
  <2>1. UNCHANGED tablesO
    BY <1>1, <1>4 DEF tablesO
  <2> QED
    BY <1>2, <1>3, <2>1, OnlyCalls
<1>5. CASE Linked(id, call[c].issue)
  <2>1. id \in QueueIds /\ id \in Drew
    BY <1>5, LinkableDrawn DEF Linked
  <2>2. /\ evidence' = evidence \cup {[obs |-> id, issue |-> call[c].issue]}
        /\ audit' = Trailed({id}, "linked") /\ queue' = Without({id})
    BY <1>5 DEF Linked
  <2>3. queue' \subseteq QueueRows /\ QueueIds' = QueueIds \ {id}
    BY <2>2, Leaves DEF ObsInv
  <2>4. lastObs' >= lastObs /\ (lastObs + 1)..lastObs' = {} /\ lastObs' \in Nat /\ made' = made
    BY <1>1, <1>2
  <2>5. /\ {id} \in SUBSET Drew /\ {id} \subseteq QueueIds /\ {id} \cap QueueIds' = {}
        /\ \E d, i : {id} = {d} /\ evidence' = evidence \cup {[obs |-> d, issue |-> i]}
    BY <2>1, <2>2, <2>3
  <2>6. /\ QueueIds' \subseteq Drew'
        /\ \A t \in audit' : t.obs \in Drew'
        /\ \A e \in evidence' : e.obs \in Drew'
        /\ QueuedNotEnded' /\ ObservationsAccounted' /\ DisposedOnce'
    BY <2>2, <2>3, <2>4, <2>5, TablesSettle
  <2>7. (\A d \in Callers : call'[d].obs \subseteq Drew') /\ PromotedNamed'
    <3>1. call'[c].obs \subseteq Drew' /\ call'[c].at \notin {"delete", "audit"} /\ made \subseteq made'
      BY <1>1, <1>2, <1>3 DEF Drew
    <3> QED
      BY <1>3, <2>4, <3>1, CallsSettle
  <2>8. ObsTypes'
    BY <1>1, <1>3, <2>3 DEF ObsInv, ObsTypes
  <2> QED
    BY <2>6, <2>7, <2>8 DEF ObsInv, IdsDrawn
<1> QED
  BY <1>1, <1>4, <1>5

LEMMA ObsInvStep == ObsInv /\ [ObsNext]_obsVars => ObsInv'
<1> SUFFICES ASSUME ObsInv, [ObsNext]_obsVars PROVE ObsInv'
  OBVIOUS
<1>1. ASSUME NEW c \in Callers, NEW what \in Whats, LookForDuplicate(c, what) PROVE ObsInv'
  BY <1>1, LookForDuplicateKeeps
<1>2. ASSUME NEW c \in Callers, InsertObservation(c) PROVE ObsInv'
  BY <1>2, InsertKeeps
<1>3. ASSUME NEW c \in Callers, NEW those \in SUBSET QueueIds, Dismiss(c, those) PROVE ObsInv'
  BY <1>3, DismissKeeps
<1>4. ASSUME NEW c \in Callers, NEW id \in QueueIds, NEW i \in made, LinkToIssue(c, id, i) PROVE ObsInv'
  BY <1>4, LinkToIssueKeeps
<1>5. ASSUME NEW c \in Callers, NEW id \in QueueIds, PromoteAgain(c, id) \/ Promote(c, id) PROVE ObsInv'
  BY <1>5, PromoteAgainKeeps, PromoteKeeps
<1>6. ASSUME NEW c \in Callers, DeletePromoted(c) \/ AuditPromoted(c) PROVE ObsInv'
  BY <1>6, DeletePromotedKeeps, AuditPromotedKeeps
<1>7. ASSUME NEW c \in Callers, NEW list \in Lists, MergeAgain(c, list) \/ Merge(c, list) PROVE ObsInv'
  BY <1>7, MergeAgainKeeps, MergeKeeps
<1>8. ASSUME NEW c \in Callers, LinkMerged(c) \/ Dies(c) PROVE ObsInv'
  BY <1>8, LinkMergedKeeps, DiesKeeps
<1>9. CASE UNCHANGED obsVars
  BY <1>9 DEF obsVars, ObsInv, ObsTypes, IdsDrawn, QueuedNotEnded, Ended, PromotedNamed, Named, QueueIds, Drew,
              ObservationsAccounted, DisposedOnce
<1> QED
  BY <1>1, <1>2, <1>3, <1>4, <1>5, <1>6, <1>7, <1>8, <1>9, SweepKeeps, ExpiresKeeps, Zenon DEF ObsNext

(* However callers interleave, fail and die, every observation that left the queue   *)
(* has its row or its issue, evidence its audit row, and none is disposed of twice.    *)
THEOREM ObservationsAlwaysSettled == ObsSpec => []ObservationsSettled
<1>1. ObsInv => ObservationsSettled
  BY DEF ObsInv, ObservationsSettled
<1> QED
  BY <1>1, ObsInitially, ObsInvStep, PTL DEF ObsSpec
-----------------------------------------------------------------------------
(* Annotations                                                                   *)

NoteStates == [status : {"none", "active", "resolved", "superseded", "promoted"}, critical : BOOLEAN,
               first : Nat, snippet : Seq(Lines), sum : Seq(Lines)]
NoteTypes == text \in Seq(Lines) /\ notes \in [Notes -> NoteStates]

\* The snippet was cut out of the file whose checksum was kept, where it says.
CutFrom(note) == \E last \in note.first..Len(note.sum) :
    note.first > 0 /\ note.snippet = SubSeq(note.sum, note.first, last)
NoteInv == NoteTypes /\ \A a \in Notes : Made(a) => CutFrom(notes[a])

LEMMA TextsAreSequences == Texts \subseteq Seq(Lines)
BY DEF Texts

LEMMA NoteInitially == NoteInit => NoteInv
<1> SUFFICES ASSUME NoteInit PROVE NoteInv
  OBVIOUS
<1>1. <<>> \in Seq(Lines) /\ text \in Seq(Lines)
  BY TextsAreSequences DEF NoteInit
<1>2. notes \in [Notes -> NoteStates]
  BY <1>1 DEF NoteInit, NoteStates, Unmade
<1>3. \A a \in Notes : ~Made(a)
  BY DEF NoteInit, Made, Unmade
<1> QED
  BY <1>1, <1>2, <1>3 DEF NoteInv, NoteTypes

LEMMA AnnotateCuts ==
  ASSUME NoteInv, NEW a \in Notes, NEW first \in Nat \ {0}, NEW last \in Nat, NEW critical \in BOOLEAN,
         Annotate(a, first, last, critical)
  PROVE  NoteInv'
<1> DEFINE note == [status |-> "active", critical |-> critical, first |-> first,
                    snippet |-> SubSeq(text, first, last), sum |-> text]
<1>1. /\ first =< last /\ last =< Len(text) /\ text' = text /\ text \in Seq(Lines)
      /\ notes' = [notes EXCEPT ![a] = note]
  BY DEF Annotate, Slice, NoteInv, NoteTypes
<1>2. SubSeq(text, first, last) \in Seq(Lines) /\ Len(text) \in Nat
  BY <1>1
<1>3. /\ note \in NoteStates
      /\ note.first = first /\ note.sum = text /\ note.snippet = SubSeq(text, first, last)
  BY <1>1, <1>2 DEF NoteStates
<1>4. CutFrom(note)
  BY <1>1, <1>2, <1>3 DEF CutFrom
<1> HIDE DEF note
<1>5. notes' \in [Notes -> NoteStates] /\ notes'[a] = note /\ \A b \in Notes \ {a} : notes'[b] = notes[b]
  BY <1>1, <1>3 DEF NoteInv, NoteTypes
<1>6. \A b \in Notes : Made(b)' => CutFrom(notes'[b])
  BY <1>4, <1>5 DEF NoteInv, Made
<1> QED
  BY <1>1, <1>5, <1>6 DEF NoteInv, NoteTypes, CutFrom

LEMMA UpdateCuts ==
  ASSUME NoteInv, NEW a \in Notes, NEW critical \in BOOLEAN,
         NEW status \in {"active", "resolved", "superseded", "promoted"}, Update(a, status, critical)
  PROVE  NoteInv'
<1>1. /\ Made(a) /\ text' = text
      /\ notes' = [notes EXCEPT ![a].status = status, ![a].critical = critical]
  BY DEF Update
<1>2. notes' \in [Notes -> NoteStates]
  BY <1>1 DEF NoteInv, NoteTypes, NoteStates
<1>3. \A b \in Notes : /\ notes'[b].first = notes[b].first /\ notes'[b].sum = notes[b].sum
                       /\ notes'[b].snippet = notes[b].snippet
                       /\ Made(b)' => Made(b)
  BY <1>1 DEF NoteInv, NoteTypes, NoteStates, Made
<1>4. \A b \in Notes : Made(b)' => CutFrom(notes'[b])
  BY <1>3 DEF NoteInv, CutFrom
<1> QED
  BY <1>1, <1>2, <1>4 DEF NoteInv, NoteTypes, CutFrom
LEMMA NoteInvStep == NoteInv /\ [NoteNext]_noteVars => NoteInv'
<1> SUFFICES ASSUME NoteInv, [NoteNext]_noteVars PROVE NoteInv'
  OBVIOUS
<1>1. ASSUME notes' = notes, text' \in Seq(Lines) PROVE NoteInv'
  BY <1>1 DEF NoteInv, NoteTypes, Made, CutFrom
<1>2. CASE EditFile
  BY <1>1, <1>2, TextsAreSequences DEF EditFile
<1>3. ASSUME NEW a \in Notes, NEW first \in 1..MaxLines, NEW last \in 1..MaxLines, NEW critical \in BOOLEAN,
             Annotate(a, first, last, critical)
      PROVE  NoteInv'
  <2>1. first \in Nat \ {0} /\ last \in Nat
    BY <1>3
  <2> QED
    BY <1>3, <2>1, AnnotateCuts
<1>4. ASSUME NEW a \in Notes, NEW critical \in BOOLEAN,
             NEW status \in {"active", "resolved", "superseded", "promoted"}, Update(a, status, critical)
      PROVE  NoteInv'
  BY <1>4, UpdateCuts
<1>5. ASSUME NEW a \in Notes, NEW i \in Concerns, LinkNote(a, i) \/ UnlinkNote(a, i) PROVE NoteInv'
  BY <1>1, <1>5 DEF LinkNote, UnlinkNote, NoteInv, NoteTypes
<1>6. ASSUME NEW a \in Notes, NEW i \in Concerns, NEW j \in Concerns, Carry(a, i, j) PROVE NoteInv'
  BY <1>1, <1>6 DEF Carry, NoteInv, NoteTypes
<1>7. ASSUME NEW i \in Concerns, DeleteConcern(i) PROVE NoteInv'
  BY <1>1, <1>7 DEF DeleteConcern, NoteInv, NoteTypes
<1>8. CASE UNCHANGED noteVars
  BY <1>1, <1>8 DEF noteVars, NoteInv, NoteTypes
<1> QED
  BY <1>2, <1>3, <1>4, <1>5, <1>6, <1>7, <1>8, Zenon DEF NoteNext

LEMMA CutIs ==
  ASSUME NEW t \in Seq(Lines), NEW first \in Nat \ {0}, NEW last \in first..Len(t)
  PROVE  Len(SubSeq(t, first, last)) = last - first + 1
OBVIOUS

\* What an anchor in a state and at a place says of the lines s it was made on.
SaysTrue(s, sum, state, at) ==
    /\ at > 0 => SubSeq(text, at, at + Len(s) - 1) = s
    /\ state = "current" <=> text = sum /\ text # Missing
    /\ state = "line_drifted" =>
          ~\E other \in (at + Len(s) - 1 + 1)..(Len(text) + 1 - Len(s)) :
              SubSeq(text, other, other + Len(s) - 1) = s

LEMMA DriftedTrue ==
  ASSUME text \in Seq(Lines), NEW s \in Seq(Lines), Len(s) > 0, NEW at \in 1..Len(text), FoundOnce(s, at)
  PROVE  /\ SubSeq(text, at, at + Len(s) - 1) = s
         /\ ~\E other \in (at + Len(s) - 1 + 1)..(Len(text) + 1 - Len(s)) :
               SubSeq(text, other, other + Len(s) - 1) = s
<1> DEFINE size == Len(s)
<1>1. size \in Nat /\ size > 0 /\ Len(text) \in Nat
  OBVIOUS
<1>2. \A other : Occurs(s, other) <=> other + size - 1 =< Len(text) /\ SubSeq(text, other, other + size - 1) = s
  BY DEF Occurs, Slice
<1>3. Occurs(s, at) /\ \A other \in 1..Len(text) : Occurs(s, other) => at =< other /\ other < at + size
  BY DEF FoundOnce
<1> SUFFICES /\ SubSeq(text, at, at + size - 1) = s
             /\ ~\E other \in (at + size - 1 + 1)..(Len(text) + 1 - size) :
                    SubSeq(text, other, other + size - 1) = s
  OBVIOUS
<1> HIDE DEF size
<1>4. ASSUME NEW other \in (at + size - 1 + 1)..(Len(text) + 1 - size),
             SubSeq(text, other, other + size - 1) = s
      PROVE  FALSE
  <2>1. other \in 1..Len(text) /\ other + size - 1 =< Len(text) /\ other >= at + size
    BY <1>1
  <2>2. at + size > other
    BY <1>2, <1>3, <1>4, <2>1
  <2> QED
    BY <1>1, <2>1, <2>2
<1> QED
  BY <1>2, <1>3, <1>4

LEMMA CutHonest ==
  ASSUME NoteInv, NEW a \in Notes, Made(a)
  PROVE  SaysTrue(notes[a].snippet, notes[a].sum, AnchorState(a).state, AnchorState(a).at)
<1> DEFINE once == {at \in 1..Len(text) : FoundOnce(notes[a].snippet, at)}
<1>1. PICK last \in notes[a].first..Len(notes[a].sum) :
         notes[a].first > 0 /\ notes[a].snippet = SubSeq(notes[a].sum, notes[a].first, last)
  BY DEF NoteInv, CutFrom
<1>2. PICK s \in Seq(Lines), sum \in Seq(Lines), first \in Nat \ {0} :
         s = notes[a].snippet /\ sum = notes[a].sum /\ first = notes[a].first
  BY <1>1 DEF NoteInv, NoteTypes, NoteStates
<1>3. text \in Seq(Lines) /\ s = SubSeq(sum, first, last) /\ last \in first..Len(sum)
  BY <1>1, <1>2 DEF NoteInv, NoteTypes
<1>4. Len(s) = last - first + 1
  BY <1>3, CutIs
<1>5. Len(s) > 0 /\ first + Len(s) - 1 = last
  <2> DEFINE size == Len(s)
  <2>1. /\ size = last - first + 1 /\ first \in Nat /\ Len(sum) \in Nat
        /\ last \in first..Len(sum)
    BY <1>3, <1>4
  <2> SUFFICES size > 0 /\ first + size - 1 = last
    OBVIOUS
  <2> HIDE DEF size
  <2> QED
    BY <2>1
<1>6. CASE text = Missing
  <2>1. AnchorState(a) = [state |-> "file_missing", at |-> 0]
    BY <1>6 DEF AnchorState, AnchorAt
  <2> QED
    BY <1>6, <2>1 DEF SaysTrue
<1>7. CASE text # Missing /\ text = sum
  <2>1. AnchorState(a) = [state |-> "current", at |-> first]
    BY <1>2, <1>7 DEF AnchorState, AnchorAt
  <2>2. SubSeq(text, first, first + Len(s) - 1) = s
    BY <1>3, <1>5, <1>7
  <2> QED
    BY <1>2, <1>7, <2>1, <2>2 DEF SaysTrue
<1>8. CASE text # Missing /\ text # sum /\ Occurs(s, first)
  <2>1. AnchorState(a) = [state |-> "content_changed_anchor_found", at |-> first]
    BY <1>2, <1>8 DEF AnchorState, AnchorAt
  <2>2. SubSeq(text, first, first + Len(s) - 1) = s
    BY <1>8 DEF Occurs, Slice
  <2>3. SaysTrue(s, sum, "content_changed_anchor_found", first)
    BY <1>8, <2>2 DEF SaysTrue
  <2> QED
    BY <1>2, <2>1, <2>3
<1>9. CASE text # Missing /\ text # sum /\ ~Occurs(s, first) /\ once # {}
  <2>1. PICK at \in once : AnchorState(a) = [state |-> "line_drifted", at |-> at]
    BY <1>2, <1>9 DEF AnchorState, AnchorAt
  <2>2. /\ SubSeq(text, at, at + Len(s) - 1) = s
        /\ ~\E other \in (at + Len(s) - 1 + 1)..(Len(text) + 1 - Len(s)) :
               SubSeq(text, other, other + Len(s) - 1) = s
    BY <1>2, <1>3, <1>5, <2>1, DriftedTrue
  <2>3. SaysTrue(s, sum, "line_drifted", at)
    BY <1>9, <2>2 DEF SaysTrue
  <2> QED
    BY <1>2, <2>1, <2>3
<1>10. CASE text # Missing /\ text # sum /\ ~Occurs(s, first) /\ once = {}
  <2>1. AnchorState(a) = [state |-> "stale", at |-> 0]
    BY <1>2, <1>10 DEF AnchorState, AnchorAt
  <2> QED
    BY <1>2, <1>10, <2>1 DEF SaysTrue
<1> QED
  BY <1>6, <1>7, <1>8, <1>9, <1>10

(* However a file is edited and its annotations change, each points at its own lines  *)
(* or admits that it does not know where they are, for files of every length.        *)
THEOREM AnchorsAlwaysHonest == NoteSpec => []AnchorHonest
<1>1. NoteInv => AnchorHonest
  BY CutHonest DEF AnchorHonest, SaysTrue
<1> QED
  BY <1>1, NoteInitially, NoteInvStep, PTL DEF NoteSpec
\* Acknowledgements lead from an issue to one other, and leave a link there.
CarryInv ==
    /\ considered \subseteq Notes \X Concerns
    /\ acked \subseteq [note : Notes, from : Concerns, to : Concerns]
    /\ \A k \in acked : <<k.note, k.to>> \in considered \cup withdrawn
    /\ \A k, l \in acked : k.note = l.note /\ k.from = l.from => k = l

LEMMA CarryInitially == NoteInit => CarryInv
BY DEF NoteInit, CarryInv

LEMMA CarryKeeps ==
  ASSUME CarryInv, NEW a \in Notes, NEW from \in Concerns, NEW to \in Concerns, Carry(a, from, to)
  PROVE  CarryInv'
<1> DEFINE new == [note |-> a, from |-> from, to |-> to]
<1>1. /\ considered' = considered \cup {<<a, to>>} /\ withdrawn' = withdrawn
      /\ acked' = acked \/ (AckedAt(a, from) = {} /\ acked' = acked \cup {new})
  BY DEF Carry, WithLink, Acknowledged
<1>2. /\ new \in [note : Notes, from : Concerns, to : Concerns]
      /\ new.note = a /\ new.from = from /\ new.to = to
  OBVIOUS
<1> HIDE DEF new
<1>3. AckedAt(a, from) = {} => \A k \in acked : ~(k.note = a /\ k.from = from)
  BY DEF AckedAt
<1>4. considered' \subseteq Notes \X Concerns
  BY <1>1 DEF CarryInv
<1>5. acked' \subseteq [note : Notes, from : Concerns, to : Concerns]
  BY <1>1, <1>2 DEF CarryInv
<1>6. ASSUME NEW k \in acked' PROVE <<k.note, k.to>> \in considered' \cup withdrawn'
  <2>1. CASE k \in acked
    BY <1>1, <2>1 DEF CarryInv
  <2>2. CASE k = new
    <3>1. <<k.note, k.to>> = <<a, to>>
      BY <1>2, <2>2
    <3> QED
      BY <1>1, <3>1
  <2> QED
    BY <1>1, <2>1, <2>2
<1>7. \A k, l \in acked' : k.note = l.note /\ k.from = l.from => k = l
  BY <1>1, <1>2, <1>3 DEF CarryInv
<1> QED
  BY <1>4, <1>5, <1>6, <1>7 DEF CarryInv

LEMMA CarryInvStep == CarryInv /\ [NoteNext]_noteVars => CarryInv'
<1> SUFFICES ASSUME CarryInv, [NoteNext]_noteVars PROVE CarryInv'
  OBVIOUS
<1>1. ASSUME UNCHANGED <<considered, acked, withdrawn>> PROVE CarryInv'
  BY <1>1 DEF CarryInv
<1>2. CASE EditFile
  BY <1>1, <1>2 DEF EditFile
<1>3. ASSUME NEW a \in Notes, NEW first \in 1..MaxLines, NEW last \in 1..MaxLines, NEW critical \in BOOLEAN,
             Annotate(a, first, last, critical)
      PROVE  CarryInv'
  BY <1>1, <1>3 DEF Annotate
<1>4. ASSUME NEW a \in Notes, NEW critical \in BOOLEAN,
             NEW status \in {"active", "resolved", "superseded", "promoted"}, Update(a, status, critical)
      PROVE  CarryInv'
  BY <1>1, <1>4 DEF Update
<1>5. ASSUME NEW a \in Notes, NEW i \in Concerns, LinkNote(a, i) PROVE CarryInv'
  BY <1>5 DEF LinkNote, WithLink, CarryInv
<1>6. ASSUME NEW a \in Notes, NEW i \in Concerns, UnlinkNote(a, i) PROVE CarryInv'
  BY <1>6 DEF UnlinkNote, CarryInv
<1>7. ASSUME NEW a \in Notes, NEW i \in Concerns, NEW j \in Concerns, Carry(a, i, j) PROVE CarryInv'
  BY <1>7, CarryKeeps
<1>8. ASSUME NEW i \in Concerns, DeleteConcern(i) PROVE CarryInv'
  BY <1>8 DEF DeleteConcern, CarryInv
<1>9. CASE UNCHANGED noteVars
  BY <1>1, <1>9 DEF noteVars
<1> QED
  BY <1>2, <1>3, <1>4, <1>5, <1>6, <1>7, <1>8, <1>9, Zenon DEF NoteNext

(* If nobody were warned where the annotation is linked, carrying would lead from     *)
(* each of these issues to another one, no two to the same and none to the first:     *)
(* more issues than there are.                                                       *)
LEMMA CarriedWarns ==
  ASSUME CarryInv, NEW a \in Notes, NEW i \in Concerns, <<a, i>> \in considered,
         notes[a].status = "active", notes[a].critical,
         NEW reached \in SUBSET Concerns, i \in reached, \A k \in CarriedFrom(a, reached) : k.to \in reached
  PROVE  \/ \E j \in reached : a \in WarningsOf(j) \/ <<a, j>> \in withdrawn
         \/ \E k \in CarriedFrom(a, reached) : k.to = i
         \/ \E k, l \in CarriedFrom(a, reached) : k # l /\ k.to = l.to
<1> SUFFICES ASSUME \A j \in reached : a \notin WarningsOf(j) /\ <<a, j>> \notin withdrawn,
                    \A k \in CarriedFrom(a, reached) : k.to # i,
                    \A k, l \in CarriedFrom(a, reached) : k.to = l.to => k = l
             PROVE  FALSE
  OBVIOUS
<1> DEFINE linked == {j \in reached : <<a, j>> \in considered}
<1> DEFINE next == [j \in linked |-> (CHOOSE k \in CarriedFrom(a, reached) : k.from = j).to]
<1>1. IsFiniteSet(linked) /\ i \in linked /\ linked \subseteq reached
  BY ConcernsAssumption, FS_Subset
<1>2. \A j \in linked : \E k \in CarriedFrom(a, reached) : k.from = j
  BY DEF WarningsOf, AckedAt, CarriedFrom
<1>3. \A k \in CarriedFrom(a, reached) : k.to \in linked \ {i}
  BY DEF CarriedFrom, CarryInv
<1>4. ASSUME NEW j \in linked PROVE \E k \in CarriedFrom(a, reached) : k.from = j /\ next[j] = k.to
  BY <1>2
<1>5. next \in [linked -> linked \ {i}]
  BY <1>3, <1>4
<1>6. \A j, l \in linked : next[j] = next[l] => j = l
  BY <1>4
<1> HIDE DEF next, linked
<1>7. next \in Injection(linked, linked \ {i})
  BY <1>5, <1>6 DEF Injection, IsInjective
<1>8. /\ IsFiniteSet(linked \ {i}) /\ Cardinality(linked \ {i}) = Cardinality(linked) - 1
      /\ Cardinality(linked) \in Nat
  BY <1>1, FS_RemoveElement, FS_CardinalityType
<1>9. Cardinality(linked) =< Cardinality(linked \ {i})
  BY <1>7, <1>8, FS_Injection
<1> QED
  BY <1>8, <1>9

(* Whatever is carried, linked, taken back and deleted, over any number of issues, an   *)
(* annotation that must be considered warns somewhere along its way.                  *)
THEOREM CarriedNeverLost == NoteSpec => []CarriedNotLost
<1>1. CarryInv => CarriedNotLost
  BY CarriedWarns DEF CarriedNotLost
<1> QED
  BY <1>1, CarryInitially, CarryInvStep, PTL DEF NoteSpec
-----------------------------------------------------------------------------
(* The change feed                                                               *)

\* Rows and records have a place in the merged order.
Dated(rows) == \A r \in rows : r.at \in Nat /\ r.id \in Nat

LEMMA EarlierOrders ==
  ASSUME NEW R, Dated(R), NEW r \in R, NEW s \in R, NEW t \in R
  PROVE  /\ ~Earlier(r, r)
         /\ Earlier(r, s) => ~Earlier(s, r)
         /\ Earlier(r, s) /\ Earlier(s, t) => Earlier(r, t)
         /\ Earlier(r, s) /\ ~Earlier(t, s) => Earlier(r, t)
         /\ ~Earlier(s, r) /\ Earlier(s, t) => Earlier(r, t)
         /\ ~Earlier(r, s) /\ ~Earlier(s, r) => r.at = s.at /\ r.id = s.id
BY DEF Dated, Earlier

LEMMA LeastNumber ==
  ASSUME NEW K, K \subseteq Nat, K # {}
  PROVE  \E k \in K : \A j \in K : k =< j
<1>1. PICK k \in K : \A j \in K : ~(<<j, k>> \in OpToRel(<, Nat))
  BY NatLessThanWellFounded, WFMin
<1>2. \A j \in K : ~(j < k)
  BY <1>1 DEF OpToRel
<1> QED
  BY <1>2

LEMMA GreatestNumber ==
  ASSUME NEW n \in Nat, NEW K \in SUBSET (0..n), K # {}
  PROVE  \E k \in K : \A j \in K : j =< k
<1> DEFINE M == {n - k : k \in K}
<1>1. M \in SUBSET Nat /\ M # {}
  <2>1. \A k \in K : n - k \in Nat
    OBVIOUS
  <2> QED
    BY <2>1
<1>2. PICK m \in M : \A i \in M : m =< i
  <2> HIDE DEF M
  <2> QED
    BY <1>1, LeastNumber
<1>3. PICK k \in K : m = n - k
  BY <1>2
<1>4. \A j \in K : n - k =< n - j
  BY <1>2, <1>3
<1>5. \A j \in K : j \in Int
  OBVIOUS
<1> QED
  BY <1>4, <1>5

LEMMA FirstRow ==
  ASSUME NEW R, Dated(R), R # {}
  PROVE  \E r \in R : \A s \in R : ~Earlier(s, r)
<1> DEFINE ats == {r.at : r \in R}
<1>1. ats \in SUBSET Nat /\ ats # {}
  BY DEF Dated
<1>2. PICK first \in ats : \A at \in ats : first =< at
  <2> HIDE DEF ats
  <2> QED
    BY <1>1, LeastNumber
<1> DEFINE nos == {r.id : r \in {q \in R : q.at = first}}
<1>3. nos \in SUBSET Nat /\ nos # {}
  BY <1>2 DEF Dated
<1>4. PICK no \in nos : \A id \in nos : no =< id
  <2> HIDE DEF nos
  <2> QED
    BY <1>3, LeastNumber
<1>5. PICK r \in R : r.at = first /\ r.id = no
  BY <1>4
<1>6. \A s \in R : first =< s.at /\ (s.at = first => no =< s.id)
  BY <1>2, <1>4
<1> QED
  BY <1>5, <1>6 DEF Dated, Earlier

LEMMA LastRow ==
  ASSUME NEW A \in Nat, NEW B \in Nat, NEW R, \A r \in R : r.at \in 0..A /\ r.id \in 0..B, R # {}
  PROVE  \E r \in R : \A s \in R : ~Earlier(r, s)
<1> DEFINE ats == {r.at : r \in R}
<1>1. ats \in SUBSET (0..A) /\ ats # {}
  OBVIOUS
<1>2. PICK last \in ats : \A at \in ats : at =< last
  <2> HIDE DEF ats
  <2> QED
    BY <1>1, GreatestNumber
<1> DEFINE nos == {r.id : r \in {q \in R : q.at = last}}
<1>3. nos \in SUBSET (0..B) /\ nos # {}
  BY <1>2
<1>4. PICK no \in nos : \A id \in nos : id =< no
  <2> HIDE DEF nos
  <2> QED
    BY <1>3, GreatestNumber
<1>5. PICK r \in R : r.at = last /\ r.id = no
  BY <1>4
<1>6. \A s \in R : s.at =< last /\ (s.at = last => s.id =< no)
  BY <1>2, <1>4
<1>7. \A s \in R : s.at \in Int /\ s.id \in Int
  OBVIOUS
<1> QED
  BY <1>5, <1>6, <1>7 DEF Earlier

(* The first n rows come before all others.                                          *)
LEMMA FirstsBefore ==
  ASSUME NEW R, Dated(R), IsFiniteSet(R), NEW n \in Nat, NEW r \in FirstOf(n, R), NEW x \in R \ FirstOf(n, R)
  PROVE  Earlier(r, x)
<1> DEFINE before(y) == {s \in R : Earlier(s, y)}
<1>1. r \in R /\ Cardinality(before(r)) < n /\ ~(Cardinality(before(x)) < n)
  BY DEF FirstOf
<1>2. IsFiniteSet(before(r)) /\ IsFiniteSet(before(x))
  BY FS_Subset
<1>3. SUFFICES ASSUME ~Earlier(r, x) PROVE FALSE
  OBVIOUS
<1>4. before(x) \subseteq before(r)
  BY <1>1, <1>3, EarlierOrders
<1>5. /\ Cardinality(before(x)) =< Cardinality(before(r))
      /\ Cardinality(before(x)) \in Nat /\ Cardinality(before(r)) \in Nat
  BY <1>2, <1>4, FS_Subset, FS_CardinalityType
<1> HIDE DEF before
<1> QED
  BY <1>1, <1>5

(* There are n of them, if a row is left over.                                       *)
LEMMA FirstsEnough ==
  ASSUME NEW R, Dated(R), IsFiniteSet(R), NEW n \in Nat, R \ FirstOf(n, R) # {}
  PROVE  Cardinality(FirstOf(n, R)) >= n
<1> DEFINE before(y) == {s \in R : Earlier(s, y)}
<1>1. PICK y \in R \ FirstOf(n, R) : \A s \in R \ FirstOf(n, R) : ~Earlier(s, y)
  BY FirstRow DEF Dated
<1>2. before(y) \subseteq FirstOf(n, R)
  BY <1>1
<1>3. ~(Cardinality(before(y)) < n)
  BY <1>1 DEF FirstOf
<1>4. IsFiniteSet(FirstOf(n, R)) /\ IsFiniteSet(before(y))
  BY FS_Subset DEF FirstOf
<1>5. /\ Cardinality(before(y)) =< Cardinality(FirstOf(n, R))
      /\ Cardinality(before(y)) \in Nat /\ Cardinality(FirstOf(n, R)) \in Nat
  BY <1>2, <1>4, FS_Subset, FS_CardinalityType
<1> HIDE DEF before
<1> QED
  BY <1>3, <1>5
LEMMA FirstsWithin ==
  ASSUME NEW R, Dated(R), IsFiniteSet(R), NEW n
  PROVE  FirstOf(n, R) \subseteq R /\ Dated(FirstOf(n, R)) /\ IsFiniteSet(FirstOf(n, R))
BY FS_Subset DEF FirstOf, Dated

FeedRows == [id : 1..MaxFeedIds, issue : FeedIssues, at : Nat]
FeedRecords == [id : Nat, issue : FeedIssues, at : Nat, gone : BOOLEAN]
Records(events, deletions) == {EventRecord(e) : e \in events} \cup {TombRecord(d) : d \in deletions}

LEMMA RecordTypes ==
  ASSUME NEW e \in FeedRows
  PROVE  /\ e.id \in 1..MaxFeedIds /\ e.issue \in FeedIssues /\ e.at \in Nat
         /\ EventRecord(e) \in FeedRecords /\ TombRecord(e) \in FeedRecords
         /\ EventRecord(e).id = e.id /\ EventRecord(e).at = e.at
         /\ EventRecord(e).issue = e.issue /\ EventRecord(e).gone = FALSE
         /\ TombRecord(e).id = TombBase + e.id /\ TombRecord(e).at = e.at
         /\ TombRecord(e).issue = e.issue /\ TombRecord(e).gone = TRUE
<1>1. /\ e.id \in 1..MaxFeedIds /\ e.issue \in FeedIssues /\ e.at \in Nat
      /\ TombBase \in Nat /\ MaxFeedIds \in Nat
  BY FeedAssumption DEF FeedRows
<1>2. e.id \in Nat /\ TombBase + e.id \in Nat
  BY <1>1
<1> QED
  BY <1>1, <1>2 DEF EventRecord, TombRecord, FeedRecords

LEMMA RecordsFinite ==
  ASSUME NEW events \in SUBSET FeedRows, NEW deletions \in SUBSET FeedRows,
         IsFiniteSet(events), IsFiniteSet(deletions)
  PROVE  /\ IsFiniteSet(Records(events, deletions)) /\ Dated(Records(events, deletions))
         /\ Records(events, deletions) \subseteq FeedRecords
<1> DEFINE ev == {EventRecord(e) : e \in events}
<1> DEFINE del == {TombRecord(d) : d \in deletions}
<1>1. IsFiniteSet(ev)
  <2> DEFINE f == [e \in events |-> EventRecord(e)]
  <2>1. f \in Surjection(events, ev)
    BY DEF Surjection
  <2> QED
    BY <2>1, FS_Surjection
<1>2. IsFiniteSet(del)
  <2> DEFINE f == [d \in deletions |-> TombRecord(d)]
  <2>1. f \in Surjection(deletions, del)
    BY DEF Surjection
  <2> QED
    BY <2>1, FS_Surjection
<1>3. ev \subseteq FeedRecords /\ del \subseteq FeedRecords
  <2>1. \A e \in FeedRows : EventRecord(e) \in FeedRecords /\ TombRecord(e) \in FeedRecords
    BY RecordTypes
  <2> QED
    BY <2>1
<1> HIDE DEF ev, del
<1>4. IsFiniteSet(ev \cup del)
  BY <1>1, <1>2, FS_Union
<1>5. ev \cup del \subseteq FeedRecords /\ Dated(ev \cup del)
  BY <1>3 DEF Dated, FeedRecords
<1> QED
  BY <1>4, <1>5 DEF Records, ev, del

LEMMA PageIs ==
  ASSUME NEW events, NEW deletions
  PROVE  PageOf(events, deletions) = FirstOf(PageLimit, FirstOf(PageLimit + 1, Records(events, deletions)))
BY DEF PageOf, Records, Overfetch

(* A tombstone that is not on the page comes after everything on it.                  *)
LEMMA LaterTombs ==
  ASSUME NEW events \in SUBSET FeedRows, NEW deletions \in SUBSET FeedRows,
         IsFiniteSet(events), IsFiniteSet(deletions),
         NEW d \in deletions,
         NEW page, page = PageOf(events, FirstOf(PageLimit + 1, deletions)),
         TombRecord(d) \notin page
  PROVE  \A r \in page : Earlier(r, TombRecord(d))
<1> DEFINE some == FirstOf(PageLimit + 1, deletions)
<1> DEFINE merged == Records(events, some)
<1> DEFINE over == FirstOf(PageLimit + 1, merged)
<1> DEFINE x == TombRecord(d)
<1>1. PageLimit \in Nat /\ PageLimit + 1 \in Nat
  BY FeedAssumption
<1>2. Dated(deletions)
  <2>1. 1..MaxFeedIds \subseteq Nat
    BY FeedAssumption
  <2> QED
    BY <2>1 DEF Dated, FeedRows
<1>3. some \subseteq deletions /\ IsFiniteSet(some)
  BY <1>2, FirstsWithin
<1>4. IsFiniteSet(merged) /\ Dated(merged) /\ merged \subseteq FeedRecords
  <2> HIDE DEF some
  <2> QED
    BY <1>3, RecordsFinite
<1>5. over \subseteq merged /\ IsFiniteSet(over) /\ Dated(over)
  <2> HIDE DEF merged
  <2> QED
    BY <1>4, FirstsWithin
<1>6. page = FirstOf(PageLimit, over) /\ page \subseteq over
  <2>1. page = FirstOf(PageLimit, over)
    BY PageIs
  <2> HIDE DEF over
  <2> QED
    BY <1>5, <2>1, FirstsWithin
<1>7. CASE d \in some
  <2>1. x \in merged
    BY <1>7 DEF Records
  <2>2. ASSUME x \in over PROVE \A r \in page : Earlier(r, x)
    <3> HIDE DEF over, x
    <3>1. x \in over \ FirstOf(PageLimit, over)
      BY <1>6, <2>2 DEF x
    <3> QED
      BY <1>1, <1>5, <1>6, <3>1, FirstsBefore
  <2>3. ASSUME x \notin over PROVE \A r \in page : Earlier(r, x)
    <3> HIDE DEF merged, x
    <3>1. x \in merged \ FirstOf(PageLimit + 1, merged)
      BY <2>1, <2>3
    <3>2. \A r \in over : Earlier(r, x)
      BY <1>1, <1>4, <3>1, FirstsBefore
    <3> QED
      BY <1>6, <3>2
  <2> QED
    BY <2>2, <2>3
<1>8. CASE d \notin some
  <2>1. SUFFICES ASSUME NEW r \in page, ~Earlier(r, x) PROVE FALSE
    OBVIOUS
  <2>2. \A t \in some : Earlier(t, d)
    BY <1>1, <1>2, <1>8, FirstsBefore
  <2>3. ASSUME NEW t \in some PROVE Earlier(TombRecord(t), x)
    <3>1. t \in FeedRows /\ d \in FeedRows /\ Earlier(t, d)
      BY <1>3, <2>2
    <3>2. /\ TombRecord(t).at = t.at /\ TombRecord(t).id = TombBase + t.id
          /\ x.at = d.at /\ x.id = TombBase + d.id
          /\ t.id \in 1..MaxFeedIds /\ d.id \in 1..MaxFeedIds /\ t.at \in Nat /\ d.at \in Nat
      BY <3>1, RecordTypes
    <3> HIDE DEF x
    <3> QED
      BY <3>1, <3>2, FeedAssumption DEF Earlier
  <2>4. r \in merged /\ r \in over
    BY <1>5, <1>6
  <2>5. ASSUME NEW t \in some PROVE Earlier(TombRecord(t), r) /\ TombRecord(t) \in merged
    <3>1. TombRecord(t) \in merged /\ TombRecord(t) \in FeedRecords /\ r \in FeedRecords /\ x \in FeedRecords
      BY <1>3, <1>4, <2>4, RecordTypes DEF Records
    <3>2. Dated(FeedRecords)
      BY DEF Dated, FeedRecords
    <3> HIDE DEF x, merged, some, over
    <3> QED
      BY <2>1, <2>3, <2>5, <3>1, <3>2, EarlierOrders
  <2> DEFINE before == {s \in over : Earlier(s, r)}
  <2>6. \A t \in some : TombRecord(t) \in over
    <3> SUFFICES ASSUME NEW t \in some, TombRecord(t) \notin over PROVE FALSE
      OBVIOUS
    <3>1. TombRecord(t) \in merged \ FirstOf(PageLimit + 1, merged)
      BY <2>5
    <3> HIDE DEF merged, some
    <3>2. Earlier(r, TombRecord(t))
      BY <1>1, <1>4, <2>4, <3>1, FirstsBefore
    <3> QED
      BY <1>4, <2>4, <2>5, <3>1, <3>2, EarlierOrders
  <2>7. [t \in some |-> TombRecord(t)] \in Injection(some, before)
    <3>1. [t \in some |-> TombRecord(t)] \in [some -> before]
      BY <2>5, <2>6
    <3>2. ASSUME NEW t \in some, NEW u \in some, TombRecord(t) = TombRecord(u) PROVE t = u
      <4>1. t \in FeedRows /\ u \in FeedRows
        BY <1>3, <3>2
      <4>2. /\ TombRecord(t).id = TombBase + t.id /\ TombRecord(u).id = TombBase + u.id
            /\ TombRecord(t).at = t.at /\ TombRecord(u).at = u.at
            /\ TombRecord(t).issue = t.issue /\ TombRecord(u).issue = u.issue
            /\ t.id \in 1..MaxFeedIds /\ u.id \in 1..MaxFeedIds
        BY <4>1, RecordTypes
      <4>3. TombBase + t.id = TombBase + u.id /\ t.at = u.at /\ t.issue = u.issue
        BY <3>2, <4>2, Zenon
      <4>4. t.id = u.id
        BY <4>2, <4>3, FeedAssumption
      <4> QED
        BY <4>1, <4>3, <4>4 DEF FeedRows
    <3> QED
      BY <3>1, <3>2 DEF Injection, IsInjective
  <2>8. Cardinality(some) >= PageLimit + 1
    BY <1>1, <1>2, <1>8, FirstsEnough
  <2>9. IsFiniteSet(before)
    BY <1>5, FS_Subset
  <2>10. Cardinality(before) < PageLimit
    <3> HIDE DEF over
    <3> QED
      BY <1>6 DEF FirstOf
  <2> HIDE DEF before, some
  <2>11. Cardinality(some) =< Cardinality(before) /\ Cardinality(some) \in Nat /\ Cardinality(before) \in Nat
    BY <1>3, <2>7, <2>9, FS_Injection, FS_CardinalityType
  <2> QED
    BY <1>1, <2>8, <2>10, <2>11
<1> QED
  BY <1>7, <1>8
FeedTypes ==
    /\ clock \in Nat /\ live \subseteq FeedIssues /\ mirror \subseteq FeedIssues
    /\ log \subseteq FeedRows /\ IsFiniteSet(log) /\ tombs \subseteq FeedRows /\ IsFiniteSet(tombs)
    /\ ids \in [event : 0..MaxFeedIds, tomb : 0..MaxFeedIds]
    /\ writing \subseteq [kind : {"create", "change", "delete"}, issue : FeedIssues, at : Nat]
    /\ cursor \in [at : Nat, id : Nat]
    /\ \A events \in fetched : events \subseteq FeedRows /\ IsFiniteSet(events)

\* Events that are there or were fetched; times that no open transaction precedes.
Known == log \cup UNION fetched
Behind(time) == time =< clock /\ \A w \in writing : time =< w.at
Past(time) == time < clock /\ \A w \in writing : time < w.at

\* Writers are serialised: what is committed is before what will be.
EventsInOrder ==
    /\ \A w \in writing : w.at =< clock
    /\ \A e \in Known : e.id =< ids.event /\ Behind(e.at)
    /\ \A e, f \in Known : e.id = f.id => e = f
TombsInOrder ==
    /\ \A d \in tombs : d.id =< ids.tomb /\ Past(d.at)
    /\ \A d, t \in tombs : d.id = t.id \/ d.issue = t.issue => d = t

\* So is what the consumer has read, and what it is reading is after that.
CursorInOrder ==
    /\ Behind(cursor.at) /\ (cursor.id =< TombBase \/ Past(cursor.at))
    /\ \A events \in fetched : \A e \in events :
          e.at > cursor.at \/ (e.at = cursor.at /\ e.id > cursor.id)

\* Of whatever is gone, and the consumer believes in, there is a tombstone to come.
DeletionsTold ==
    /\ \A e \in Known : e.issue \in live \/ \E d \in tombs : d.issue = e.issue /\ e.at =< d.at
    /\ \A i \in mirror : i \in live \/ \E d \in TombsAfter(cursor) : d.issue = i
FeedInv == FeedTypes /\ EventsInOrder /\ TombsInOrder /\ CursorInOrder /\ DeletionsTold

LEMMA FeedInitially == FeedInit => FeedInv
<1> SUFFICES ASSUME FeedInit PROVE FeedInv
  OBVIOUS
<1>1. /\ clock = 1 /\ live = {} /\ log = {} /\ tombs = {} /\ writing = {} /\ fetched = {} /\ mirror = {}
      /\ ids = [event |-> 0, tomb |-> 0] /\ cursor = [at |-> 0, id |-> 0] /\ Known = {} /\ TombsAfter(cursor) = {}
  BY DEF FeedInit, Known, TombsAfter
<1>2. FeedTypes
  BY <1>1, FS_EmptySet, FeedAssumption DEF FeedTypes
<1> QED
  BY <1>1, <1>2, FeedAssumption DEF FeedInv, EventsInOrder, TombsInOrder, CursorInOrder, DeletionsTold, Behind, Past

(* No two records have the same place.                                              *)
LEMMA PlacesDiffer ==
  ASSUME FeedInv, NEW events \in SUBSET Known, NEW r \in Records(events, tombs), NEW s \in Records(events, tombs),
         r.at = s.at, r.id = s.id
  PROVE  r = s
<1>1. Known \subseteq FeedRows /\ tombs \subseteq FeedRows
  BY DEF FeedInv, FeedTypes, Known
<1>2. \A e \in FeedRows : EventRecord(e).id = e.id /\ TombRecord(e).id = TombBase + e.id /\ e.id \in 1..MaxFeedIds
  BY RecordTypes
<1>3. MaxFeedIds \in Nat /\ TombBase \in Nat /\ TombBase > MaxFeedIds
  BY FeedAssumption
<1>4. ASSUME NEW e \in events, NEW f \in events, r = EventRecord(e), s = EventRecord(f) PROVE r = s
  <2>1. e.id = f.id /\ e \in Known /\ f \in Known
    BY <1>1, <1>2, <1>4
  <2>2. e = f
    BY <2>1 DEF FeedInv, EventsInOrder
  <2> QED
    BY <1>4, <2>2
<1>5. ASSUME NEW e \in tombs, NEW f \in tombs, r = TombRecord(e), s = TombRecord(f) PROVE r = s
  <2>1. TombBase + e.id = TombBase + f.id /\ e.id \in 1..MaxFeedIds /\ f.id \in 1..MaxFeedIds
    BY <1>1, <1>2, <1>5
  <2>2. e.id = f.id
    BY <1>3, <2>1
  <2>3. e = f
    BY <2>2 DEF FeedInv, TombsInOrder
  <2> QED
    BY <1>5, <2>3
<1>6. ASSUME NEW e \in events, NEW f \in tombs,
             \/ r = EventRecord(e) /\ s = TombRecord(f)
             \/ s = EventRecord(e) /\ r = TombRecord(f)
      PROVE  FALSE
  <2>1. e.id = TombBase + f.id /\ e.id \in 1..MaxFeedIds /\ f.id \in 1..MaxFeedIds
    BY <1>1, <1>2, <1>6
  <2> QED
    BY <1>3, <2>1
<1> QED
  BY <1>4, <1>5, <1>6 DEF Records

(* Where records end.                                                                *)
LEMMA RecordBounds ==
  ASSUME FeedInv, NEW events \in SUBSET Known, NEW r \in Records(events, tombs)
  PROVE  /\ r \in FeedRecords
         /\ r.at \in 0..clock /\ r.id \in 0..(TombBase + MaxFeedIds)
         /\ Behind(r.at) /\ (r.id =< TombBase \/ Past(r.at))
<1>1. Known \subseteq FeedRows /\ tombs \subseteq FeedRows /\ clock \in Nat
  BY DEF FeedInv, FeedTypes, Known
<1>2. MaxFeedIds \in Nat /\ TombBase \in Nat /\ TombBase > MaxFeedIds
  BY FeedAssumption
<1>3. ASSUME NEW e \in events, r = EventRecord(e)
      PROVE  r \in FeedRecords /\ r.at = e.at /\ r.id = e.id /\ e.at \in Nat /\ e.id \in 1..MaxFeedIds /\ Behind(e.at)
  <2>1. e \in FeedRows /\ Behind(e.at)
    BY <1>1 DEF FeedInv, EventsInOrder
  <2> QED
    BY <1>3, <2>1, RecordTypes
<1>4. ASSUME NEW d \in tombs, r = TombRecord(d)
      PROVE  /\ r \in FeedRecords /\ r.at = d.at /\ r.id = TombBase + d.id
             /\ d.at \in Nat /\ d.id \in 1..MaxFeedIds /\ Past(d.at)
  <2>1. d \in FeedRows /\ Past(d.at)
    BY <1>1 DEF FeedInv, TombsInOrder
  <2> QED
    BY <1>4, <2>1, RecordTypes
<1>5. CASE \E e \in events : r = EventRecord(e)
  BY <1>1, <1>2, <1>3, <1>5 DEF Behind
<1>6. CASE \E d \in tombs : r = TombRecord(d)
  <2>1. PICK d \in tombs : r = TombRecord(d)
    BY <1>6
  <2>2. Past(r.at) /\ r.at \in Nat /\ r.id = TombBase + d.id /\ d.id \in 1..MaxFeedIds /\ r \in FeedRecords
    BY <1>4, <2>1
  <2>3. \A w \in writing : w.at \in Nat
    BY DEF FeedInv, FeedTypes
  <2>4. Behind(r.at) /\ r.at \in 0..clock
    BY <1>1, <2>2, <2>3 DEF Past, Behind
  <2> QED
    BY <1>2, <2>2, <2>4
<1> QED
  BY <1>5, <1>6 DEF Records

LEMMA LastIsLast ==
  ASSUME FeedInv, NEW events \in SUBSET Known, NEW P \in SUBSET Records(events, tombs), P # {}
  PROVE  LastOf(P) \in P /\ \A s \in P : s = LastOf(P) \/ Earlier(s, LastOf(P))
<1>1. clock \in Nat /\ TombBase + MaxFeedIds \in Nat
  BY FeedAssumption DEF FeedInv, FeedTypes
<1>2. \A r \in P : r.at \in 0..clock /\ r.id \in 0..(TombBase + MaxFeedIds)
  BY RecordBounds
<1>3. PICK r \in P : \A s \in P : ~Earlier(r, s)
  BY <1>1, <1>2, LastRow
<1>4. ASSUME NEW s \in P PROVE s = r \/ Earlier(s, r)
  <2>1. Dated(P)
    BY <1>2 DEF Dated
  <2>2. ~Earlier(s, r) => r.at = s.at /\ r.id = s.id
    BY <1>3, <2>1, EarlierOrders
  <2> QED
    BY <2>2, PlacesDiffer
<1> QED
  BY <1>4 DEF LastOf
LEMMA FetchTombsKeeps == ASSUME FeedInv, FetchTombs PROVE FeedInv'
<1>1. PICK events \in fetched :
         LET page == PageOf(events, FirstOf(Overfetch, TombsAfter(cursor)))
         IN  /\ fetched' = {}
             /\ cursor' = IF page = {} THEN cursor ELSE [at |-> LastOf(page).at, id |-> LastOf(page).id]
             /\ seen' = seen \cup page
             /\ mirror' = Mirrored(page)
             /\ UNCHANGED <<clock, tables, writing>>
  BY DEF FetchTombs
<1> DEFINE deletions == TombsAfter(cursor)
<1>2. /\ events \in SUBSET FeedRows /\ IsFiniteSet(events) /\ events \in SUBSET Known
      /\ deletions \in SUBSET FeedRows /\ IsFiniteSet(deletions) /\ deletions \subseteq tombs
  BY FS_Subset DEF FeedInv, FeedTypes, Known, TombsAfter
<1>3. PICK page : page = PageOf(events, FirstOf(PageLimit + 1, deletions))
  OBVIOUS
<1>4. /\ fetched' = {} /\ mirror' = Mirrored(page)
      /\ cursor' = IF page = {} THEN cursor ELSE [at |-> LastOf(page).at, id |-> LastOf(page).id]
      /\ UNCHANGED <<clock, live, log, tombs, ids, writing>>
  BY <1>1, <1>3 DEF Overfetch, tables
<1>5. page \in SUBSET Records(events, tombs)
  <2>1. page \subseteq Records(events, FirstOf(PageLimit + 1, deletions))
    BY <1>3, PageIs DEF FirstOf
  <2>2. FirstOf(PageLimit + 1, deletions) \subseteq tombs
    BY <1>2 DEF FirstOf
  <2> QED
    BY <2>1, <2>2 DEF Records
<1>6. page # {} => LastOf(page) \in page /\ \A s \in page : s = LastOf(page) \/ Earlier(s, LastOf(page))
  BY <1>2, <1>5, LastIsLast
<1> HIDE DEF deletions
<1>7. ASSUME NEW d \in deletions, TombRecord(d) \notin page
      PROVE  d \in TombsAfter(cursor)'
  <2>1. \A r \in page : Earlier(r, TombRecord(d))
    BY <1>2, <1>3, <1>7, LaterTombs
  <2>2. d \in tombs' /\ d \in FeedRows
    BY <1>2, <1>4
  <2>3. CASE page = {}
    BY <1>4, <2>2, <2>3 DEF TombsAfter, deletions
  <2>4. CASE page # {}
    <3>1. Earlier(LastOf(page), TombRecord(d)) /\ cursor'.at = LastOf(page).at /\ cursor'.id = LastOf(page).id
      BY <1>4, <1>6, <2>1, <2>4
    <3>2. TombRecord(d).at = d.at /\ TombRecord(d).id = TombBase + d.id
      BY <2>2, RecordTypes
    <3>3. cursor'.at < d.at \/ (cursor'.at = d.at /\ cursor'.id < TombBase + d.id)
      BY <3>1, <3>2 DEF Earlier
    <3>4. /\ cursor'.at \in Nat /\ cursor'.id \in Nat /\ d.at \in Nat /\ TombBase + d.id \in Nat
      <4>1. LastOf(page) \in FeedRecords /\ TombRecord(d) \in FeedRecords
        BY <1>2, <1>5, <1>6, <2>2, <2>4, RecordBounds, RecordTypes
      <4> QED
        BY <3>1, <3>2, <4>1 DEF FeedRecords
    <3> QED
      BY <2>2, <3>3, <3>4 DEF TombsAfter
  <2> QED
    BY <2>3, <2>4
<1>8. ASSUME NEW i \in mirror', i \notin live PROVE \E d \in deletions : d.issue = i /\ TombRecord(d) \notin page
  <2> DEFINE about == {r \in page : r.issue = i}
  <2>1. i \in FeedIssues /\ IF about = {} THEN i \in mirror ELSE ~LastOf(about).gone
    BY <1>4, <1>8 DEF Mirrored
  <2>2. \A d \in FeedRows : TombRecord(d).issue = d.issue /\ TombRecord(d).gone = TRUE
    BY RecordTypes
  <2>3. CASE about = {}
    <3>1. PICK d \in deletions : d.issue = i
      BY <1>8, <2>1, <2>3 DEF FeedInv, DeletionsTold, deletions
    <3> QED
      BY <1>2, <2>2, <2>3, <3>1
  <2>4. CASE about # {}
    <3>1. about \in SUBSET Records(events, tombs)
      BY <1>5
    <3>2. LastOf(about) \in about /\ \A s \in about : s = LastOf(about) \/ Earlier(s, LastOf(about))
      <4> HIDE DEF about
      <4> QED
        BY <1>2, <2>4, <3>1, LastIsLast
    <3>3. PICK r \in about : r = LastOf(about)
      BY <3>2
    <3>4. r \in Records(events, tombs) /\ r.issue = i /\ r.gone # TRUE
      BY <2>1, <2>4, <3>1, <3>3
    <3>5. PICK e \in events : r = EventRecord(e)
      BY <1>2, <2>2, <3>4 DEF Records, FeedInv, FeedTypes
    <3>6. /\ e \in FeedRows /\ e \in Known /\ e.issue = i /\ r.at = e.at /\ r.id = e.id
          /\ e.id \in 1..MaxFeedIds /\ e.at \in Nat
      BY <1>2, <3>4, <3>5, RecordTypes
    <3>7. PICK d \in tombs : d.issue = i /\ e.at =< d.at
      BY <1>8, <3>6 DEF FeedInv, DeletionsTold
    <3>8. /\ d \in FeedRows /\ d.id \in 1..MaxFeedIds /\ d.at \in Nat
          /\ TombRecord(d).at = d.at /\ TombRecord(d).id = TombBase + d.id
      BY <3>7, RecordTypes DEF FeedInv, FeedTypes
    <3>9. e.at > cursor.at \/ (e.at = cursor.at /\ e.id > cursor.id)
      BY DEF FeedInv, CursorInOrder
    <3>10. TombBase \in Nat /\ MaxFeedIds \in Nat /\ TombBase > MaxFeedIds /\ cursor.at \in Nat /\ cursor.id \in Nat
      BY FeedAssumption DEF FeedInv, FeedTypes
    <3>11. d \in deletions
      BY <3>6, <3>7, <3>8, <3>9, <3>10 DEF TombsAfter, deletions
    <3>12. ~Earlier(TombRecord(d), r)
      BY <3>6, <3>7, <3>8, <3>10 DEF Earlier
    <3>13. TombRecord(d) \notin page
      BY <2>2, <3>2, <3>3, <3>4, <3>7, <3>8, <3>12
    <3> QED
      BY <3>7, <3>11, <3>13
  <2> QED
    BY <2>3, <2>4
<1>9. Known' \subseteq Known /\ \A time : (Behind(time)' <=> Behind(time)) /\ (Past(time)' <=> Past(time))
  BY <1>4 DEF Known, Behind, Past
<1>10. cursor' \in [at : Nat, id : Nat] /\ CursorInOrder'
  <2>1. CASE page = {}
    BY <1>4, <1>9, <2>1 DEF FeedInv, FeedTypes, CursorInOrder
  <2>2. CASE page # {}
    <3>1. PICK r \in Records(events, tombs) : cursor' = [at |-> r.at, id |-> r.id]
      BY <1>4, <1>5, <1>6, <2>2
    <3>2. r \in FeedRecords /\ Behind(r.at) /\ (r.id =< TombBase \/ Past(r.at))
      BY <1>2, RecordBounds
    <3>3. cursor' \in [at : Nat, id : Nat] /\ cursor'.at = r.at /\ cursor'.id = r.id
      BY <3>1, <3>2 DEF FeedRecords
    <3> QED
      BY <1>4, <1>9, <3>2, <3>3 DEF CursorInOrder
  <2> QED
    BY <2>1, <2>2
<1>11. FeedTypes'
  BY <1>4, <1>10 DEF FeedInv, FeedTypes, Mirrored
<1>12. EventsInOrder' /\ TombsInOrder'
  BY <1>4, <1>9 DEF FeedInv, EventsInOrder, TombsInOrder
<1>13. DeletionsTold'
  <2>1. \A e \in Known' : e.issue \in live' \/ \E d \in tombs' : d.issue = e.issue /\ e.at =< d.at
    BY <1>4, <1>9 DEF FeedInv, DeletionsTold
  <2>2. \A i \in mirror' : i \in live' \/ \E d \in TombsAfter(cursor)' : d.issue = i
    BY <1>4, <1>7, <1>8
  <2> QED
    BY <2>1, <2>2 DEF DeletionsTold
<1> QED
  BY <1>10, <1>11, <1>12, <1>13 DEF FeedInv
LEMMA FetchEventsKeeps == ASSUME FeedInv, FetchEvents PROVE FeedInv'
<1> DEFINE some == FirstOf(Overfetch, EventsAfter(cursor))
<1>1. fetched' = {some} /\ UNCHANGED <<clock, live, log, tombs, ids, writing, cursor, mirror>>
  BY DEF FetchEvents, tables
<1>2. some \subseteq log /\ \A e \in some : e.at > cursor.at \/ (e.at = cursor.at /\ e.id > cursor.id)
  BY DEF FirstOf, EventsAfter
<1>3. IsFiniteSet(some) /\ some \subseteq FeedRows
  BY <1>2, FS_Subset DEF FeedInv, FeedTypes
<1> HIDE DEF some
<1>4. /\ Known' \subseteq Known /\ TombsAfter(cursor)' = TombsAfter(cursor)
      /\ \A time : (Behind(time)' <=> Behind(time)) /\ (Past(time)' <=> Past(time))
  BY <1>1, <1>2 DEF Known, Behind, Past, TombsAfter
<1>5. FeedTypes'
  BY <1>1, <1>3 DEF FeedInv, FeedTypes
<1>6. EventsInOrder' /\ TombsInOrder'
  BY <1>1, <1>4 DEF FeedInv, EventsInOrder, TombsInOrder
<1>7. CursorInOrder'
  BY <1>1, <1>2, <1>4 DEF FeedInv, CursorInOrder
<1>8. DeletionsTold'
  BY <1>1, <1>4 DEF FeedInv, DeletionsTold
<1> QED
  BY <1>5, <1>6, <1>7, <1>8 DEF FeedInv

(* A writer that asks the clock, and the clock that goes on, put nothing before what   *)
(* is committed.                                                                     *)
LEMMA TickKeeps == ASSUME FeedInv, Tick PROVE FeedInv'
<1>1. clock' = clock + 1 /\ UNCHANGED <<live, log, tombs, ids, writing, cursor, fetched, mirror>>
  BY DEF Tick, tables, consumer
<1>2. clock \in Nat /\ \A time \in Nat : (Behind(time) => Behind(time)') /\ (Past(time) => Past(time)')
  BY <1>1 DEF FeedInv, FeedTypes, Behind, Past
<1>3. Known' = Known /\ TombsAfter(cursor)' = TombsAfter(cursor)
  BY <1>1 DEF Known, TombsAfter
<1>4. cursor.at \in Nat /\ (\A e \in Known : e.at \in Nat) /\ (\A d \in tombs : d.at \in Nat)
      /\ (\A w \in writing : w.at \in Nat)
  BY DEF FeedInv, FeedTypes, Known, FeedRows
<1>5. FeedTypes'
  BY <1>1, <1>2 DEF FeedInv, FeedTypes
<1>6. EventsInOrder'
  <2>1. \A w \in writing' : w.at =< clock'
    BY <1>1, <1>2, <1>4 DEF FeedInv, EventsInOrder
  <2> QED
    BY <1>1, <1>2, <1>3, <1>4, <2>1 DEF FeedInv, EventsInOrder
<1>7. TombsInOrder' /\ CursorInOrder' /\ DeletionsTold'
  BY <1>1, <1>2, <1>3, <1>4 DEF FeedInv, TombsInOrder, CursorInOrder, DeletionsTold
<1> QED
  BY <1>5, <1>6, <1>7 DEF FeedInv

LEMMA BeginWriteKeeps ==
  ASSUME FeedInv, NEW kind \in {"create", "change", "delete"}, NEW i \in FeedIssues, BeginWrite(kind, i)
  PROVE  FeedInv'
<1> DEFINE w == [kind |-> kind, issue |-> i, at |-> clock]
<1>1. writing' = {w} /\ UNCHANGED <<clock, live, log, tombs, ids, cursor, fetched, mirror>>
  BY DEF BeginWrite, tables, consumer
<1>2. w.at = clock /\ clock \in Nat /\ w \in [kind : {"create", "change", "delete"}, issue : FeedIssues, at : Nat]
  BY DEF FeedInv, FeedTypes
<1> HIDE DEF w
<1>3. \A time \in Nat : (Behind(time) => Behind(time)') /\ (Past(time) => Past(time)')
  BY <1>1, <1>2 DEF Behind, Past
<1>4. Known' = Known /\ TombsAfter(cursor)' = TombsAfter(cursor)
  BY <1>1 DEF Known, TombsAfter
<1>5. cursor.at \in Nat /\ (\A e \in Known : e.at \in Nat) /\ (\A d \in tombs : d.at \in Nat)
  BY DEF FeedInv, FeedTypes, Known, FeedRows
<1>6. FeedTypes'
  BY <1>1, <1>2 DEF FeedInv, FeedTypes
<1>7. EventsInOrder'
  <2>1. \A v \in writing' : v.at =< clock'
    BY <1>1, <1>2
  <2> QED
    BY <1>1, <1>3, <1>4, <1>5, <2>1 DEF FeedInv, EventsInOrder
<1>8. TombsInOrder' /\ CursorInOrder' /\ DeletionsTold'
  BY <1>1, <1>3, <1>4, <1>5 DEF FeedInv, TombsInOrder, CursorInOrder, DeletionsTold
<1> QED
  BY <1>6, <1>7, <1>8 DEF FeedInv

LEMMA BringBackKeeps == ASSUME FeedInv, NEW i \in FeedIssues, BringBack(i) PROVE FeedInv'
<1>1. live' = live \cup {i} /\ UNCHANGED <<clock, log, tombs, ids, writing, cursor, fetched, mirror>>
  BY DEF BringBack, consumer
<1>2. /\ Known' = Known /\ TombsAfter(cursor)' = TombsAfter(cursor)
      /\ \A time : (Behind(time)' <=> Behind(time)) /\ (Past(time)' <=> Past(time))
  BY <1>1 DEF Known, TombsAfter, Behind, Past
<1>3. FeedTypes'
  BY <1>1 DEF FeedInv, FeedTypes
<1>4. EventsInOrder' /\ TombsInOrder' /\ CursorInOrder'
  BY <1>1, <1>2 DEF FeedInv, EventsInOrder, TombsInOrder, CursorInOrder
<1>5. DeletionsTold'
  BY <1>1, <1>2 DEF FeedInv, DeletionsTold
<1> QED
  BY <1>3, <1>4, <1>5 DEF FeedInv

(* The writer lock is let go: nothing else has changed but time.                      *)
LEMMA Released ==
  ASSUME FeedInv, writing' = {}, clock' = clock
  PROVE  \A time : (Behind(time) => Behind(time)') /\ (Past(time) => Past(time)')
BY DEF Behind, Past

LEMMA CommitEventKeeps ==
  ASSUME FeedInv, NEW w \in writing, CommitEvent(w), writing' = {}, UNCHANGED <<clock, consumer>>
  PROVE  FeedInv'
<1>0. PICK new : new = [id |-> ids.event + 1, issue |-> w.issue, at |-> w.at]
  OBVIOUS
<1>1. /\ live' = live \cup {w.issue} /\ log' = log \cup {new} /\ ids' = [ids EXCEPT !.event = ids.event + 1]
      /\ ids.event < MaxFeedIds /\ UNCHANGED <<clock, tombs, cursor, fetched, mirror>>
  BY <1>0 DEF CommitEvent, consumer
<1>2. /\ w.issue \in FeedIssues /\ w.at \in Nat /\ w.at =< clock /\ clock \in Nat
      /\ ids.event \in 0..MaxFeedIds /\ ids.tomb \in 0..MaxFeedIds /\ MaxFeedIds \in Nat
  BY FeedAssumption DEF FeedInv, FeedTypes, EventsInOrder
<1>3. new \in FeedRows /\ new.id = ids.event + 1 /\ new.issue = w.issue /\ new.at = w.at
  BY <1>0, <1>1, <1>2 DEF FeedRows
<1>4. ids' \in [event : 0..MaxFeedIds, tomb : 0..MaxFeedIds] /\ ids'.event = ids.event + 1 /\ ids'.tomb = ids.tomb
  BY <1>1, <1>2 DEF FeedInv, FeedTypes
<1>5. Known' = Known \cup {new} /\ TombsAfter(cursor)' = TombsAfter(cursor) /\ Known \subseteq FeedRows
  BY <1>1 DEF Known, TombsAfter, FeedInv, FeedTypes
<1>6. \A time : (Behind(time) => Behind(time)') /\ (Past(time) => Past(time)')
  BY <1>1, Released
<1>7. Behind(new.at)'
  BY <1>1, <1>2, <1>3 DEF Behind
<1>8. FeedTypes'
  BY <1>1, <1>2, <1>3, <1>4, FS_AddElement DEF FeedInv, FeedTypes
<1>9. EventsInOrder'
  <2>1. \A e \in Known : e.id \in Nat /\ e.id =< ids.event /\ Behind(e.at)
    BY <1>2, <1>5 DEF FeedInv, EventsInOrder, FeedRows
  <2>2. \A e \in Known' : e.id =< ids'.event /\ Behind(e.at)'
    BY <1>2, <1>3, <1>4, <1>5, <1>6, <1>7, <2>1
  <2>3. \A e, f \in Known' : e.id = f.id => e = f
    <3>1. \A e \in Known : e.id # new.id
      BY <1>2, <1>3, <2>1
    <3> QED
      BY <1>5, <3>1 DEF FeedInv, EventsInOrder
  <2> QED
    BY <2>2, <2>3 DEF EventsInOrder
<1>10. TombsInOrder'
  BY <1>1, <1>4, <1>6 DEF FeedInv, TombsInOrder
<1>11. CursorInOrder'
  BY <1>1, <1>6 DEF FeedInv, CursorInOrder
<1>12. DeletionsTold'
  BY <1>1, <1>3, <1>5 DEF FeedInv, DeletionsTold
<1> QED
  BY <1>8, <1>9, <1>10, <1>11, <1>12 DEF FeedInv

LEMMA CommitDeletionKeeps ==
  ASSUME FeedInv, NEW w \in writing, CommitDeletion(w), writing' = {}, UNCHANGED <<clock, consumer>>
  PROVE  FeedInv'
<1>0. PICK new : new = [id |-> ids.tomb + 1, issue |-> w.issue, at |-> w.at]
  OBVIOUS
<1>1. /\ live' = live \ {w.issue} /\ log' = {e \in log : e.issue # w.issue}
      /\ tombs' = {t \in tombs : t.issue # new.issue} \cup {new}
      /\ ids' = [ids EXCEPT !.tomb = ids.tomb + 1]
      /\ ids.tomb < MaxFeedIds /\ clock > w.at /\ UNCHANGED <<clock, cursor, fetched, mirror>>
  BY <1>0 DEF CommitDeletion, TombsWith, consumer
<1>2. /\ w.issue \in FeedIssues /\ w.at \in Nat /\ clock \in Nat /\ cursor.at \in Nat /\ cursor.id \in Nat
      /\ ids.event \in 0..MaxFeedIds /\ ids.tomb \in 0..MaxFeedIds /\ MaxFeedIds \in Nat /\ TombBase \in Nat
  BY FeedAssumption DEF FeedInv, FeedTypes
<1>3. new \in FeedRows /\ new.id = ids.tomb + 1 /\ new.issue = w.issue /\ new.at = w.at
  BY <1>0, <1>1, <1>2 DEF FeedRows
<1>4. ids' \in [event : 0..MaxFeedIds, tomb : 0..MaxFeedIds] /\ ids'.event = ids.event /\ ids'.tomb = ids.tomb + 1
  BY <1>1, <1>2 DEF FeedInv, FeedTypes
<1>5. Known' \subseteq Known /\ tombs \subseteq FeedRows
  BY <1>1 DEF Known, FeedInv, FeedTypes
<1>6. \A time : (Behind(time) => Behind(time)') /\ (Past(time) => Past(time)')
  BY <1>1, Released
<1>7. Past(new.at)'
  BY <1>1, <1>2, <1>3 DEF Past
<1>8. FeedTypes'
  <2>1. IsFiniteSet(log') /\ IsFiniteSet({t \in tombs : t.issue # new.issue})
    BY <1>1, FS_Subset DEF FeedInv, FeedTypes
  <2>2. IsFiniteSet(tombs') /\ tombs' \subseteq FeedRows
    BY <1>1, <1>3, <1>5, <2>1, FS_AddElement
  <2> QED
    BY <1>1, <1>4, <2>1, <2>2 DEF FeedInv, FeedTypes
<1>9. EventsInOrder'
  BY <1>1, <1>4, <1>5, <1>6 DEF FeedInv, EventsInOrder
<1>10. TombsInOrder'
  <2>1. \A d \in tombs : d.id \in Nat /\ d.id =< ids.tomb /\ Past(d.at)
    BY <1>2, <1>5 DEF FeedInv, TombsInOrder, FeedRows
  <2>2. \A d \in tombs' : d.id =< ids'.tomb /\ Past(d.at)'
    BY <1>1, <1>2, <1>3, <1>4, <1>6, <1>7, <2>1
  <2>3. \A d, t \in tombs' : d.id = t.id \/ d.issue = t.issue => d = t
    <3>1. \A d \in tombs : d.id # new.id
      BY <1>2, <1>3, <2>1
    <3> QED
      BY <1>1, <3>1 DEF FeedInv, TombsInOrder
  <2> QED
    BY <2>2, <2>3 DEF TombsInOrder
<1>11. CursorInOrder'
  BY <1>1, <1>6 DEF FeedInv, CursorInOrder
<1>12. new \in TombsAfter(cursor)'
  <2>1. cursor.at =< w.at /\ (cursor.id =< TombBase \/ cursor.at < w.at)
    BY DEF FeedInv, CursorInOrder, Behind, Past
  <2>2. new.at > cursor.at \/ (new.at = cursor.at /\ TombBase + new.id > cursor.id)
    BY <1>2, <1>3, <2>1
  <2> QED
    BY <1>1, <2>2 DEF TombsAfter
<1>13. DeletionsTold'
  <2>1. ASSUME NEW e \in Known' PROVE e.issue \in live' \/ \E d \in tombs' : d.issue = e.issue /\ e.at =< d.at
    <3>1. CASE e.issue = w.issue
      <4>1. e.at =< w.at
        BY <1>5 DEF FeedInv, EventsInOrder, Behind
      <4> QED
        BY <1>1, <1>3, <3>1, <4>1
    <3>2. CASE e.issue # w.issue
      BY <1>1, <1>3, <1>5, <3>2 DEF FeedInv, DeletionsTold
    <3> QED
      BY <3>1, <3>2
  <2>2. ASSUME NEW i \in mirror' PROVE i \in live' \/ \E d \in TombsAfter(cursor)' : d.issue = i
    <3>1. CASE i = w.issue
      BY <1>3, <1>12, <3>1
    <3>2. CASE i # w.issue
      <4>1. i \in live \/ \E d \in TombsAfter(cursor) : d.issue = i
        BY <1>1 DEF FeedInv, DeletionsTold
      <4>2. \A d \in TombsAfter(cursor) : d.issue = i => d \in TombsAfter(cursor)'
        BY <1>1, <1>3, <3>2 DEF TombsAfter
      <4> QED
        BY <1>1, <3>2, <4>1, <4>2
    <3> QED
      BY <3>1, <3>2
  <2> QED
    BY <2>1, <2>2 DEF DeletionsTold
<1> QED
  BY <1>8, <1>9, <1>10, <1>11, <1>13 DEF FeedInv

LEMMA FeedInvStep == FeedInv /\ [FeedNext]_feedVars => FeedInv'
<1> SUFFICES ASSUME FeedInv, [FeedNext]_feedVars PROVE FeedInv'
  OBVIOUS
<1>1. ASSUME NEW i \in FeedIssues, NEW kind \in {"create", "change", "delete"}, BeginWrite(kind, i) PROVE FeedInv'
  BY <1>1, BeginWriteKeeps
<1>2. ASSUME NEW i \in FeedIssues, BringBack(i) PROVE FeedInv'
  BY <1>2, BringBackKeeps
<1>3. CASE CommitWrite
  BY <1>3, CommitEventKeeps, CommitDeletionKeeps DEF CommitWrite
<1>4. CASE UNCHANGED feedVars
  <2>1. UNCHANGED <<clock, live, log, tombs, ids, writing, cursor, fetched, mirror>>
    BY <1>4 DEF feedVars, tables, consumer
  <2> QED
    BY <2>1 DEF FeedInv, FeedTypes, EventsInOrder, TombsInOrder, CursorInOrder, DeletionsTold, Known,
                TombsAfter, Behind, Past
<1> QED
  BY <1>1, <1>2, <1>3, <1>4, TickKeeps, FetchEventsKeeps, FetchTombsKeeps, Zenon DEF FeedNext

(* A consumer that has read to the end believes in no issue that is gone, however      *)
(* writers, the clock and its two SELECTs interleave, for pages of every size.        *)
THEOREM PhantomsNeverStay == FeedSpec => []NoPhantomIssues
<1>1. FeedInv => NoPhantomIssues
  BY DEF FeedInv, DeletionsTold, NoPhantomIssues, CaughtUp
<1> QED
  BY <1>1, FeedInitially, FeedInvStep, PTL DEF FeedSpec
-----------------------------------------------------------------------------
(* Sign-offs                                                                     *)

Binding == [issue : Governed, entity : EntityIds, hash : Nat, at : Nat, orphan : BOOLEAN,
            seq : 0..attaches, over : Nat]

\* The table has a row for every sign-off, as new, and none whose number and version
\* were not signed together, whatever its attachment has become since.
SignoffsKept(rows, signed) ==
    \A s \in signed : \E b \in rows : b.issue = s.issue /\ b.seq >= s.seq

SignoffsTrue(rows, signed) ==
    \A b \in rows : Signed(b) => [issue |-> b.issue, hash |-> b.over, seq |-> b.seq] \in signed

TableHolds(rows, signed) == SignoffsKept(rows, signed) /\ SignoffsTrue(rows, signed)

EntityInv ==
    /\ attaches \in Nat /\ content \in Nat
    /\ \A s \in signoffs : s.seq \in 1..attaches
    /\ bindings \subseteq Binding /\ TableHolds(bindings, signoffs)
    /\ backfill.stage = "applying" =>
          backfill.draft \subseteq Binding /\ TableHolds(backfill.draft, signoffs)
    /\ backfill.stage \in {"idle", "read", "applying"}
    /\ backfill.stage = "read" => backfill.rows # {}
    /\ backfill = [stage |-> backfill.stage, rows |-> backfill.rows, found |-> backfill.found,
                   draft |-> backfill.draft]

LEMMA EntityInitially == EntityInit => EntityInv
<1> SUFFICES ASSUME EntityInit PROVE EntityInv
  OBVIOUS
<1>1. backfill = [stage |-> "idle", rows |-> {}, found |-> {}, draft |-> {}]
  BY DEF EntityInit, NoBackfill
<1> QED
  BY <1>1 DEF EntityInit, EntityInv, TableHolds, SignoffsKept, SignoffsTrue

\* Merged rows have the higher number, and with it the version that was signed.
LEMMA MergedIs ==
  ASSUME attaches \in Nat, NEW s \in Binding, NEW b \in Binding
  PROVE  LET m == MergedInto(s, b)
         IN  /\ m \in Binding /\ m.issue = s.issue /\ m.seq >= s.seq /\ m.seq >= b.seq
             /\ \/ m.seq = s.seq /\ m.over = s.over
                \/ m.seq = b.seq /\ m.over = b.over
<1> DEFINE newest == IF b.at > s.at THEN b ELSE s
           signer == IF b.seq > s.seq THEN b ELSE s
           m == [s EXCEPT !.hash = newest.hash, !.at = newest.at,
                          !.seq = signer.seq, !.over = signer.over]
<1>1. newest \in Binding /\ signer \in {s, b} /\ signer \in Binding
  OBVIOUS
<1>2. b.seq \in Nat /\ s.seq \in Nat
  BY DEF Binding
<1>3. signer.seq >= s.seq /\ signer.seq >= b.seq
  BY <1>2
<1>4. MergedInto(s, b) = m
  BY DEF MergedInto
<1> HIDE DEF newest, signer
<1>5. m \in Binding /\ m.issue = s.issue /\ m.seq = signer.seq /\ m.over = signer.over
  BY <1>1 DEF Binding
<1> HIDE DEF m
<1> QED
  BY <1>1, <1>3, <1>4, <1>5

\* One row rewritten: whatever row goes, one with its number or a higher one comes.
LEMMA RewritingHolds ==
  ASSUME attaches \in Nat, NEW rows \in SUBSET Binding, NEW signed,
         \A s \in signed : s.seq \in 1..attaches, TableHolds(rows, signed),
         NEW key, NEW found
  PROVE  /\ Rewritten(rows, key, found) \in SUBSET Binding
         /\ TableHolds(Rewritten(rows, key, found), signed)
<1> DEFINE old == At(rows, key[1], key[2])
           survivors == At(rows, key[1], Identity)
           orphans == {[b EXCEPT !.orphan = TRUE] : b \in old}
           renamed == {[b EXCEPT !.entity = Identity] : b \in old}
           merged == {MergedInto(s, b) : s \in survivors, b \in old}
           new == Rewritten(rows, key, found)
<1>1. /\ old \subseteq rows /\ survivors \subseteq rows
      /\ \A b \in old : b \in Binding /\ b.issue = key[1]
      /\ \A b \in survivors : b \in Binding /\ b.issue = key[1]
  BY DEF At
<1>2. \/ new = rows
      \/ new = (rows \ old) \cup orphans
      \/ survivors = {} /\ new = (rows \ (old \cup survivors)) \cup renamed
      \/ survivors # {} /\ old # {} /\ new = (rows \ (old \cup survivors)) \cup merged
  BY DEF Rewritten
<1>3. \A b \in old : LET o == [b EXCEPT !.orphan = TRUE] IN
         /\ o \in orphans /\ o \in Binding /\ o.issue = b.issue /\ o.seq = b.seq
         /\ o.over = b.over
  BY <1>1 DEF Binding
<1>4. \A b \in old : LET o == [b EXCEPT !.entity = Identity] IN
         /\ o \in renamed /\ o \in Binding /\ o.issue = b.issue /\ o.seq = b.seq
         /\ o.over = b.over
  BY <1>1 DEF Binding, EntityIds
<1>5. ASSUME NEW s \in survivors, NEW b \in old
      PROVE  LET m == MergedInto(s, b)
             IN  /\ m \in merged /\ m \in Binding /\ m.issue = s.issue /\ m.issue = b.issue
                 /\ m.seq >= s.seq /\ m.seq >= b.seq
                 /\ \/ m.seq = s.seq /\ m.over = s.over
                    \/ m.seq = b.seq /\ m.over = b.over
  <2> DEFINE m == MergedInto(s, b)
  <2>1. m \in merged
    OBVIOUS
  <2>2. /\ m \in Binding /\ m.issue = s.issue /\ m.seq >= s.seq /\ m.seq >= b.seq
        /\ \/ m.seq = s.seq /\ m.over = s.over
           \/ m.seq = b.seq /\ m.over = b.over
    BY <1>1, MergedIs
  <2> HIDE DEF m, merged
  <2> QED
    BY <1>1, <2>1, <2>2 DEF m
<1>6. \A m \in merged : \E s \in survivors, b \in old : m = MergedInto(s, b)
  OBVIOUS
<1>7. /\ \A o \in orphans : \E b \in old : o = [b EXCEPT !.orphan = TRUE]
      /\ \A o \in renamed : \E b \in old : o = [b EXCEPT !.entity = Identity]
  OBVIOUS
<1> HIDE DEF old, survivors, orphans, renamed, merged, new
\* Every new row is one of before, or says of its number what one of before said.
<1>8. ASSUME NEW n \in new
      PROVE  n \in Binding /\ \E b \in rows : n.issue = b.issue /\ n.seq = b.seq /\ n.over = b.over
  <2>1. CASE n \in rows
    BY <2>1
  <2>2. CASE n \in orphans
    <3>1. PICK b \in old : n = [b EXCEPT !.orphan = TRUE]
      BY <1>7, <2>2
    <3> QED
      BY <1>1, <1>3, <3>1
  <2>3. CASE n \in renamed
    <3>1. PICK b \in old : n = [b EXCEPT !.entity = Identity]
      BY <1>7, <2>3
    <3> QED
      BY <1>1, <1>4, <3>1
  <2>4. CASE n \in merged
    <3>1. PICK s \in survivors, b \in old : n = MergedInto(s, b)
      BY <1>6, <2>4
    <3> QED
      BY <1>1, <1>5, <3>1
  <2> QED
    BY <1>2, <2>1, <2>2, <2>3, <2>4
\* Every row of before is there, or another with its number or a higher one.
<1>9. ASSUME NEW b \in rows PROVE \E n \in new : n.issue = b.issue /\ n.seq >= b.seq
  <2>0. b.seq \in Nat
    BY DEF Binding
  <2>1. CASE b \notin old \cup survivors
    <3>1. b \in new
      BY <1>2, <2>1
    <3> QED
      BY <2>0, <3>1
  <2>2. CASE new = rows
    BY <2>0, <2>2
  <2>3. CASE new = (rows \ old) \cup orphans
    <3>1. CASE b \in old
      <4> DEFINE o == [b EXCEPT !.orphan = TRUE]
      <4>1. o \in new /\ o.issue = b.issue /\ o.seq = b.seq
        BY <1>3, <2>3, <3>1
      <4> HIDE DEF o
      <4> QED
        BY <2>0, <4>1
    <3>2. CASE b \notin old
      BY <2>0, <2>3, <3>2
    <3> QED
      BY <3>1, <3>2
  <2>4. CASE survivors = {} /\ new = (rows \ (old \cup survivors)) \cup renamed
    <3>1. CASE b \in old
      <4> DEFINE o == [b EXCEPT !.entity = Identity]
      <4>1. o \in new /\ o.issue = b.issue /\ o.seq = b.seq
        BY <1>4, <2>4, <3>1
      <4> HIDE DEF o
      <4> QED
        BY <2>0, <4>1
    <3> QED
      BY <2>1, <2>4, <3>1
  <2>5. CASE survivors # {} /\ old # {} /\ new = (rows \ (old \cup survivors)) \cup merged
    <3>1. PICK s \in survivors, o \in old : TRUE
      BY <2>5
    <3>2. CASE b \in old
      BY <1>5, <2>5, <3>1, <3>2
    <3>3. CASE b \in survivors
      BY <1>5, <2>5, <3>1, <3>3
    <3> QED
      BY <2>1, <3>2, <3>3
  <2> QED
    BY <1>2, <2>2, <2>3, <2>4, <2>5
<1>10. SignoffsKept(new, signed)
  <2> SUFFICES ASSUME NEW s \in signed PROVE \E n \in new : n.issue = s.issue /\ n.seq >= s.seq
    BY DEF SignoffsKept
  <2>1. PICK b \in rows : b.issue = s.issue /\ b.seq >= s.seq
    BY DEF TableHolds, SignoffsKept
  <2>2. PICK n \in new : n.issue = b.issue /\ n.seq >= b.seq
    BY <1>9
  <2>3. n.seq \in Nat /\ b.seq \in Nat /\ s.seq \in Nat
    BY <1>8 DEF Binding
  <2> QED
    BY <2>1, <2>2, <2>3
<1>11. SignoffsTrue(new, signed)
  BY <1>8 DEF TableHolds, SignoffsTrue, Signed
<1> QED
  BY <1>8, <1>10, <1>11 DEF TableHolds, new
\* A refreshed row keeps its sign-off, or has the new one.
LEMMA RefreshedIs ==
  ASSUME attaches \in Nat, attaches' = attaches + 1, NEW b \in Binding, NEW new \in Binding',
         new.issue = b.issue, new.seq \in {0, attaches + 1}
  PROVE  LET r == RefreshedBy(b, new)
         IN  /\ r \in Binding' /\ r.issue = b.issue /\ r.seq >= b.seq /\ r.seq >= new.seq
             /\ \/ r.seq = b.seq /\ r.over = b.over
                \/ r.seq = new.seq /\ r.over = new.over
<1> DEFINE r == RefreshedBy(b, new)
<1>1. b.seq \in Nat /\ b.seq <= attaches /\ b \in Binding'
  BY DEF Binding
<1>2. CASE Signed(new)
  <2>1. r = [new EXCEPT !.orphan = b.orphan] /\ new.seq = attaches + 1
    BY <1>2 DEF RefreshedBy, Signed
  <2> HIDE DEF r
  <2>2. r \in Binding' /\ r.issue = b.issue /\ r.seq = new.seq /\ r.over = new.over
    BY <2>1 DEF Binding
  <2> QED
    BY <1>1, <2>1, <2>2 DEF r
<1>3. CASE ~Signed(new)
  <2>1. r = [b EXCEPT !.hash = new.hash, !.at = new.at] /\ new.seq = 0
    BY <1>3 DEF RefreshedBy, Signed
  <2> HIDE DEF r
  <2>2. r \in Binding' /\ r.issue = b.issue /\ r.seq = b.seq /\ r.over = b.over
    BY <1>1, <2>1 DEF Binding
  <2> QED
    BY <1>1, <2>1, <2>2 DEF r
<1> QED
  BY <1>2, <1>3

LEMMA AttachKeeps ==
  ASSUME EntityInv, NEW i \in Governed, NEW e \in EntityIds, NEW hash \in 1..content,
         NEW signs \in BOOLEAN, Attach(i, e, hash, signs)
  PROVE  EntityInv'
<1> DEFINE old == At(bindings, i, e)
           new == [issue |-> i, entity |-> e, hash |-> hash, at |-> attaches + 1,
                   orphan |-> FALSE, seq |-> IF signs THEN attaches + 1 ELSE 0,
                   over |-> IF signs THEN hash ELSE 0]
           mark == [issue |-> i, hash |-> hash, seq |-> attaches + 1]
           refreshed == {RefreshedBy(b, new) : b \in old}
<1>1. /\ MayWrite /\ attaches' = attaches + 1 /\ content' = content /\ backfill' = backfill
      /\ bindings' = (bindings \ old) \cup IF old = {} THEN {new} ELSE refreshed
      /\ signoffs' = signoffs \cup IF signs THEN {mark} ELSE {}
  BY DEF Attach
<1>2. attaches \in Nat /\ content \in Nat /\ bindings \subseteq Binding
  BY DEF EntityInv
<1>3. hash \in Nat
  BY <1>2
<1>4. /\ new \in Binding' /\ new.issue = i
      /\ new.seq = (IF signs THEN attaches + 1 ELSE 0) /\ new.over = (IF signs THEN hash ELSE 0)
  BY <1>1, <1>2, <1>3 DEF Binding
<1>5. \A b \in old : b \in bindings /\ b \in Binding /\ b.issue = i
  BY <1>2 DEF At
<1>6. mark.issue = i /\ mark.seq = attaches + 1 /\ mark.hash = hash
  OBVIOUS
<1>7. \A r \in refreshed : \E b \in old : r = RefreshedBy(b, new)
  OBVIOUS
<1>8. \A b \in old : RefreshedBy(b, new) \in refreshed
  OBVIOUS
<1>9. Signed(new) => signs
  BY <1>4 DEF Signed
<1>10. ASSUME signs PROVE [issue |-> new.issue, hash |-> new.over, seq |-> new.seq] = mark
  BY <1>4, <1>10
<1> HIDE DEF old, new, mark, refreshed
<1>11. ASSUME NEW b \in old
       PROVE  LET r == RefreshedBy(b, new)
              IN  /\ r \in Binding' /\ r.issue = b.issue /\ r.seq >= b.seq /\ r.seq >= new.seq
                  /\ \/ r.seq = b.seq /\ r.over = b.over
                     \/ r.seq = new.seq /\ r.over = new.over
  BY <1>1, <1>2, <1>4, <1>5, RefreshedIs
\* A row says of its number what one of before said, or what the new one says.
<1>12. ASSUME NEW r \in bindings'
       PROVE  /\ r \in Binding'
              /\ \/ \E b \in bindings : r.issue = b.issue /\ r.seq = b.seq /\ r.over = b.over
                 \/ r.issue = i /\ r.seq = new.seq /\ r.over = new.over
  <2>1. CASE r \in bindings
    BY <1>1, <1>2, <2>1 DEF Binding
  <2>2. CASE r = new
    BY <1>4, <2>2
  <2>3. CASE r \in refreshed
    <3>1. PICK b \in old : r = RefreshedBy(b, new)
      BY <1>7, <2>3
    <3> QED
      BY <1>5, <1>11, <3>1
  <2> QED
    BY <1>1, <2>1, <2>2, <2>3
<1>13. ASSUME NEW b \in bindings PROVE \E r \in bindings' : r.issue = b.issue /\ r.seq >= b.seq
  <2>0. b.seq \in Nat
    BY <1>2 DEF Binding
  <2>1. CASE b \in old
    <3>1. RefreshedBy(b, new) \in bindings'
      BY <1>1, <1>8, <2>1
    <3> QED
      BY <1>11, <2>1, <3>1
  <2>2. CASE b \notin old
    BY <1>1, <2>0, <2>2
  <2> QED
    BY <2>1, <2>2
<1>14. ASSUME signs PROVE \E r \in bindings' : r.issue = i /\ r.seq >= attaches + 1
  <2>1. CASE old = {}
    BY <1>1, <1>2, <1>4, <1>14, <2>1
  <2>2. CASE old # {}
    <3>1. PICK b \in old : TRUE
      BY <2>2
    <3>2. RefreshedBy(b, new) \in bindings'
      BY <1>1, <1>8, <2>2
    <3> QED
      BY <1>4, <1>5, <1>11, <1>14, <3>2
  <2> QED
    BY <2>1, <2>2
<1>15. \A s \in signoffs' : s.seq \in 1..attaches'
  BY <1>1, <1>2, <1>6 DEF EntityInv
<1>16. SignoffsKept(bindings', signoffs')
  <2> SUFFICES ASSUME NEW s \in signoffs'
               PROVE  \E r \in bindings' : r.issue = s.issue /\ r.seq >= s.seq
    BY DEF SignoffsKept
  <2>1. CASE s \in signoffs
    <3>1. PICK b \in bindings : b.issue = s.issue /\ b.seq >= s.seq
      BY <2>1 DEF EntityInv, TableHolds, SignoffsKept
    <3>2. PICK r \in bindings' : r.issue = b.issue /\ r.seq >= b.seq
      BY <1>13
    <3>3. b.seq \in Nat /\ s.seq \in Nat /\ r.seq \in Nat
      BY <1>2, <1>12, <1>15 DEF Binding
    <3> QED
      BY <3>1, <3>2, <3>3
  <2>2. CASE signs /\ s = mark
    BY <1>6, <1>14, <2>2
  <2> QED
    BY <1>1, <2>1, <2>2
<1>17. SignoffsTrue(bindings', signoffs')
  <2> SUFFICES ASSUME NEW r \in bindings', Signed(r)
               PROVE  [issue |-> r.issue, hash |-> r.over, seq |-> r.seq] \in signoffs'
    BY DEF SignoffsTrue
  <2>1. ASSUME NEW b \in bindings, r.issue = b.issue, r.seq = b.seq, r.over = b.over
        PROVE  [issue |-> r.issue, hash |-> r.over, seq |-> r.seq] \in signoffs'
    BY <1>1, <2>1 DEF EntityInv, TableHolds, SignoffsTrue, Signed
  <2>2. CASE r.issue = i /\ r.seq = new.seq /\ r.over = new.over
    <3>1. signs
      BY <1>9, <2>2 DEF Signed
    <3> QED
      BY <1>1, <1>4, <1>10, <2>2, <3>1
  <2> QED
    BY <1>12, <2>1, <2>2
<1>18. bindings' \subseteq Binding'
  BY <1>12
<1> QED
  BY <1>1, <1>2, <1>15, <1>16, <1>17, <1>18 DEF EntityInv, TableHolds, MayWrite

\* Removing an association takes no sign-off with it.
LEMMA DetachKeeps ==
  ASSUME EntityInv, NEW b \in bindings, Detach(b)
  PROVE  EntityInv'
<1>1. /\ MayWrite /\ ~Signed(b) /\ bindings' = bindings \ {b} /\ attaches' = attaches
      /\ content' = content /\ signoffs' = signoffs /\ backfill' = backfill
  BY DEF Detach, Removable
<1>2. attaches \in Nat /\ bindings \subseteq Binding /\ \A s \in signoffs : s.seq \in 1..attaches
  BY DEF EntityInv
<1>3. b.seq \in Nat
  BY <1>2 DEF Binding
<1>4. SignoffsKept(bindings', signoffs)
  BY <1>1, <1>2, <1>3 DEF EntityInv, TableHolds, SignoffsKept, Signed
<1>5. SignoffsTrue(bindings', signoffs)
  BY <1>1 DEF EntityInv, TableHolds, SignoffsTrue
<1>6. bindings' \subseteq Binding'
  BY <1>1, <1>2 DEF Binding
<1> QED
  BY <1>1, <1>4, <1>5, <1>6 DEF EntityInv, TableHolds, MayWrite

LEMMA BackfillRewritesKeeps ==
  ASSUME EntityInv, NEW key \in backfill.rows, BackfillRewrites(key)
  PROVE  EntityInv'
<1> DEFINE rows == IF backfill.stage = "applying" THEN backfill.draft ELSE bindings
           left == backfill.rows \ {key}
           table == Rewritten(rows, key, backfill.found)
<1>1. /\ backfill' = [backfill EXCEPT !.stage = "applying", !.rows = @ \ {key}, !.draft = table]
      /\ bindings' = bindings /\ attaches' = attaches /\ content' = content
      /\ signoffs' = signoffs
  BY DEF BackfillRewrites
<1>2. /\ attaches \in Nat /\ rows \in SUBSET Binding /\ TableHolds(rows, signoffs)
      /\ \A s \in signoffs : s.seq \in 1..attaches
  BY DEF EntityInv
<1> HIDE DEF rows
<1>3. table \in SUBSET Binding /\ TableHolds(table, signoffs)
  BY <1>2, RewritingHolds
<1> HIDE DEF table
<1>4. backfill' = [stage |-> "applying", rows |-> left, found |-> backfill.found, draft |-> table]
  BY <1>1 DEF EntityInv
<1>5. /\ backfill'.draft = table
      /\ backfill' = [stage |-> backfill'.stage, rows |-> backfill'.rows,
                      found |-> backfill'.found, draft |-> backfill'.draft]
  BY <1>4
<1>6. Binding' = Binding
  BY <1>1 DEF Binding
<1> QED
  BY <1>1, <1>3, <1>5, <1>6 DEF EntityInv, TableHolds, SignoffsKept, SignoffsTrue

LEMMA BackfillEndsKeeps ==
  ASSUME EntityInv, BackfillEnds
  PROVE  EntityInv'
<1>1. /\ backfill.stage # "idle"
      /\ bindings' = bindings \/ (backfill.rows = {} /\ bindings' = backfill.draft)
      /\ backfill' = [stage |-> "idle", rows |-> {}, found |-> {}, draft |-> {}]
      /\ attaches' = attaches /\ content' = content /\ signoffs' = signoffs
  BY DEF BackfillEnds, NoBackfill
<1>2. Binding' = Binding
  BY <1>1 DEF Binding
<1>3. /\ backfill'.stage = "idle"
      /\ backfill' = [stage |-> backfill'.stage, rows |-> backfill'.rows,
                      found |-> backfill'.found, draft |-> backfill'.draft]
  BY <1>1
<1>4. CASE bindings' = bindings
  BY <1>1, <1>2, <1>3, <1>4 DEF EntityInv
<1>5. CASE backfill.stage = "applying" /\ bindings' = backfill.draft
  BY <1>1, <1>2, <1>3, <1>5 DEF EntityInv
<1>6. backfill.stage = "read" => backfill.rows # {}
  BY DEF EntityInv
<1> QED
  BY <1>1, <1>4, <1>5, <1>6 DEF EntityInv

\* A step that leaves the tables, the sign-offs and a transaction alone.
LEMMA OthersKeep ==
  ASSUME EntityInv, bindings' = bindings, attaches' = attaches, signoffs' = signoffs,
         content' \in Nat, backfill' = backfill
  PROVE  EntityInv'
<1>1. Binding' = Binding
  BY DEF Binding
<1> QED
  BY <1>1 DEF EntityInv

LEMMA BackfillReadsKeeps ==
  ASSUME EntityInv, NEW found, BackfillReads(found)
  PROVE  EntityInv'
<1> DEFINE rows == {<<b.issue, b.entity>> : b \in {r \in bindings : ~r.orphan /\ r.entity # Identity}}
<1>1. /\ rows # {} /\ bindings' = bindings /\ attaches' = attaches /\ content' = content
      /\ signoffs' = signoffs
      /\ backfill' = [stage |-> "read", rows |-> rows, found |-> found, draft |-> {}]
  BY DEF BackfillReads
<1> HIDE DEF rows
<1>2. /\ backfill'.stage = "read" /\ backfill'.rows # {}
      /\ backfill' = [stage |-> backfill'.stage, rows |-> backfill'.rows,
                      found |-> backfill'.found, draft |-> backfill'.draft]
  BY <1>1
<1>3. Binding' = Binding
  BY <1>1 DEF Binding
<1> QED
  BY <1>1, <1>2, <1>3 DEF EntityInv

LEMMA EntityInvStep == EntityInv /\ [EntityNext]_entityVars => EntityInv'
<1> SUFFICES ASSUME EntityInv, [EntityNext]_entityVars PROVE EntityInv'
  OBVIOUS
<1>1. content \in Nat
  BY DEF EntityInv
<1>2. CASE ContentMoves \/ UNCHANGED entityVars
  BY <1>1, <1>2, OthersKeep DEF ContentMoves, entityVars
<1>3. ASSUME NEW i \in Governed, NEW e \in EntityIds, NEW hash \in 1..content,
             NEW signs \in BOOLEAN, Attach(i, e, hash, signs)
      PROVE  EntityInv'
  BY <1>3, AttachKeeps
<1>4. CASE \E b \in bindings : Detach(b)
  BY <1>4, DetachKeeps
<1>5. CASE \E found \in SUBSET Locators : BackfillReads(found)
  BY <1>5, BackfillReadsKeeps
<1>6. CASE BackfillEnds
  BY <1>6, BackfillEndsKeeps
<1>7. CASE \E key \in backfill.rows : BackfillRewrites(key)
  BY <1>7, BackfillRewritesKeeps
<1>8. ASSUME NEW c \in Closers, NEW issues, NEW answers,
             AskGate(c, issues, answers) \/ CloseCleared(c)
      PROVE  EntityInv'
  BY <1>1, <1>8, OthersKeep DEF AskGate, CloseCleared
<1>9. ASSUME NEW i \in Governed, CloseUnasked(i) \/ Reopen(i) \/ UndoStatus(i)
      PROVE  EntityInv'
  BY <1>1, <1>9, OthersKeep DEF CloseUnasked, Reopen, UndoStatus
<1> QED
  BY <1>2, <1>3, <1>4, <1>5, <1>6, <1>7, <1>8, <1>9 DEF EntityNext

(* However attachments, removals and backfills follow each other, for any number of   *)
(* issues and locators: the newest sign-off of an issue is never lost, and a row that  *)
(* passes for fresh holds what was signed under its number.                          *)
THEOREM SignoffsAlwaysHold == EntitySpec => []SignoffsHold
<1>1. EntityInv => SignoffsHold
  BY DEF EntityInv, TableHolds, SignoffsKept, SignoffsTrue, SignoffsHold, GovernedStays,
         SignoffVouches, Drifted
<1> QED
  BY <1>1, EntityInitially, EntityInvStep, PTL DEF EntitySpec

-----------------------------------------------------------------------------
(* Imports                                                                       *)

IssueRow == [id : Nat, future : BOOLEAN, held : BOOLEAN, lease : BOOLEAN]
FileRow == [id : Nat, path : Paths]
FindingRow == [id : Nat, file : Nat, print : Prints \cup {NoPrint}, of : Paths]
NoteRow == [id : Nat, file : Nat, finding : Nat, of : Paths]

\* A database is a record of its tables.
IsTables(t) ==
    t = [issues |-> t.issues, files |-> t.files, findings |-> t.findings,
         notes |-> t.notes, events |-> t.events, annexes |-> t.annexes]

IsEvent(e) == e = [id |-> e.id, issue |-> e.issue, key |-> e.key, undoes |-> e.undoes]

\* The tables of a database, with rows of their columns.
TablesOK(t) ==
    /\ IsTables(t)
    /\ t.issues \subseteq IssueRow /\ t.files \subseteq FileRow
    /\ t.findings \subseteq FindingRow /\ t.notes \subseteq NoteRow
    /\ \A e \in t.events : IsEvent(e)

\* A path has one file, an id one finding.
IdsName(t) ==
    /\ \A f, g \in t.files : f.path = g.path => f = g
    /\ \A g, h \in t.findings : g.id = h.id => g = h

\* Every finding and note is about the file it names, every note about its finding.
FileAbout(t, id, of) == \E f \in t.files : f.id = id /\ f.path = of
FindingAbout(t, id, of) == \E g \in t.findings : g.id = id /\ g.of = of
AboutTheirs(t) ==
    /\ \A g \in t.findings : FileAbout(t, g.file, g.of)
    /\ \A n \in t.notes : FileAbout(t, n.file, n.of) /\ FindingAbout(t, n.finding, n.of)

OneFuture(t) == \E i \in t.issues : {j \in t.issues : IsFuture(j)} = {i}

Whole(t) == TablesOK(t) /\ IdsName(t) /\ AboutTheirs(t) /\ OneFuture(t)

\* What two databases call by one id is one thing.
Agree(t, u) ==
    /\ \A i \in t.issues, j \in u.issues : i.id = j.id => i.future = j.future
    /\ \A f \in t.files, g \in u.files : f.id = g.id => f.path = g.path
    /\ \A g \in t.findings, h \in u.findings : g.id = h.id => g.of = h.of

IdsUpTo(t, n) ==
    /\ \A i \in t.issues : i.id <= n
    /\ \A f \in t.files : f.id <= n
    /\ \A g \in t.findings : g.id <= n

TransferInv ==
    /\ born \in Nat /\ db = [d \in DBs |-> db[d]]
    /\ \A d \in DBs : Whole(db[d]) /\ IdsUpTo(db[d], born)
    /\ \A d, e \in DBs : Agree(db[d], db[e])

\* A stage that goes through gives the tables it wrote and nothing else.
LEMMA StagesGive ==
  ASSUME NEW d, NEW x, NEW merge \in BOOLEAN
  PROVE  /\ FutureReconciled(d, x).ok => FutureReconciled(d, x) = Done(FutureReconciled(d, x).db)
         /\ IssuesImported(d, x, merge).ok => IssuesImported(d, x, merge) = Done(IssuesImported(d, x, merge).db)
         /\ FilesImported(d, x, merge).ok => FilesImported(d, x, merge) = Done(FilesImported(d, x, merge).db)
         /\ FindingsImported(d, x, merge).ok => FindingsImported(d, x, merge) = Done(FindingsImported(d, x, merge).db)
         /\ AnnexesImported(d, x, merge).ok => AnnexesImported(d, x, merge) = Done(AnnexesImported(d, x, merge).db)
         /\ EventsImported(d, x, merge).ok => EventsImported(d, x, merge) = Done(EventsImported(d, x, merge).db)
         /\ NotesImported(d, x, merge).ok => NotesImported(d, x, merge) = Done(NotesImported(d, x, merge).db)
<1>1. FutureReconciled(d, x).ok => FutureReconciled(d, x) = Done(FutureReconciled(d, x).db)
  BY DEF FutureReconciled, Done, Refused
<1>2. IssuesImported(d, x, merge).ok => IssuesImported(d, x, merge) = Done(IssuesImported(d, x, merge).db)
  BY DEF IssuesImported, Done, Refused
<1>3. FilesImported(d, x, merge).ok => FilesImported(d, x, merge) = Done(FilesImported(d, x, merge).db)
  BY DEF FilesImported, Done, Refused
<1>4. FindingsImported(d, x, merge).ok => FindingsImported(d, x, merge) = Done(FindingsImported(d, x, merge).db)
  BY DEF FindingsImported, Done, Refused
<1>5. AnnexesImported(d, x, merge).ok => AnnexesImported(d, x, merge) = Done(AnnexesImported(d, x, merge).db)
  BY DEF AnnexesImported, Done, Refused
<1>6. EventsImported(d, x, merge).ok => EventsImported(d, x, merge) = Done(EventsImported(d, x, merge).db)
  BY DEF EventsImported, Done, Refused
<1>7. NotesImported(d, x, merge).ok => NotesImported(d, x, merge) = Done(NotesImported(d, x, merge).db)
  BY DEF NotesImported, Done, Refused
<1> QED
  BY <1>1, <1>2, <1>3, <1>4, <1>5, <1>6, <1>7

Staged(d, x, merge, e) ==
    \E d1, d2, d3, d4, d5, d6 :
       /\ FutureReconciled(d, x) = Done(d1) /\ IssuesImported(d1, x, merge) = Done(d2)
       /\ FilesImported(d2, x, merge) = Done(d3) /\ FindingsImported(d3, x, merge) = Done(d4)
       /\ AnnexesImported(d4, x, merge) = Done(d5) /\ EventsImported(d5, x, merge) = Done(d6)
       /\ NotesImported(d6, x, merge) = Done(e)

\* An import that goes through is its stages, one after the other.
LEMMA ImportIs ==
  ASSUME NEW d, NEW x, NEW merge \in BOOLEAN, ImportJsonl(d, x, merge).ok
  PROVE  \E e : Staged(d, x, merge, e) /\ ImportJsonl(d, x, merge) = Done(e)
<1> DEFINE r0 == FutureReconciled(d, x)
           r1 == IssuesImported(r0.db, x, merge)
           r2 == FilesImported(r1.db, x, merge)
           r3 == FindingsImported(r2.db, x, merge)
           r4 == AnnexesImported(r3.db, x, merge)
           r5 == EventsImported(r4.db, x, merge)
           r6 == NotesImported(r5.db, x, merge)
<1>1. ImportJsonl(d, x, merge) =
         IF r0.ok /\ r1.ok /\ r2.ok /\ r3.ok /\ r4.ok /\ r5.ok /\ r6.ok THEN r6 ELSE Refused(d)
  BY DEF ImportJsonl
<1>2. r0.ok /\ r1.ok /\ r2.ok /\ r3.ok /\ r4.ok /\ r5.ok /\ r6.ok /\ ImportJsonl(d, x, merge) = r6
  <2> HIDE DEF r0, r1, r2, r3, r4, r5, r6
  <2> QED
    BY <1>1 DEF Refused
<1>3. /\ r0 = Done(r0.db) /\ r1 = Done(r1.db) /\ r2 = Done(r2.db) /\ r3 = Done(r3.db)
      /\ r4 = Done(r4.db) /\ r5 = Done(r5.db) /\ r6 = Done(r6.db)
  BY <1>2, StagesGive
<1>4. Staged(d, x, merge, r6.db)
  BY <1>3 DEF Staged
<1> QED
  BY <1>2, <1>3, <1>4
-----------------------------------------------------------------------------
(* What each stage writes                                                        *)

SameButIssues(d, e) ==
    /\ IsTables(e) /\ e.files = d.files /\ e.findings = d.findings /\ e.notes = d.notes
    /\ e.events = d.events /\ e.annexes = d.annexes

FutureIds(x) == {i.id : i \in {j \in x.issues : IsFuture(j)}}
Rivals(d, x) == {i \in d.issues : IsFuture(i) /\ i.id \notin FutureIds(x)}

LEMMA DoneIs ==
  ASSUME NEW d, NEW e, Done(d) = Done(e)
  PROVE  d = e
BY DEF Done

\* The release reconciled: the rival releases of the target are gone, nothing
\* else is.
LEMMA FutureStage ==
  ASSUME NEW d, NEW x, NEW e, IsTables(d), FutureReconciled(d, x) = Done(e)
  PROVE  /\ SameButIssues(d, e)
         /\ e.issues = IF FutureIds(x) = {} \/ Rivals(d, x) = {} THEN d.issues ELSE d.issues \ Rivals(d, x)
<1> DEFINE R == Rivals(d, x)
           m == [d EXCEPT !.issues = @ \ R]
<1>1. SameButIssues(d, m) /\ m.issues = d.issues \ R
  <2> HIDE DEF R
  <2> QED
    BY DEF IsTables, SameButIssues
<1>2. SameButIssues(d, d)
  BY DEF SameButIssues
<1>3. CASE FutureIds(x) = {} \/ R = {}
  <2>1. FutureReconciled(d, x) = Done(d)
    BY <1>3 DEF FutureReconciled, FutureIds, Rivals
  <2> QED
    BY <1>2, <1>3, <2>1, DoneIs
<1>4. CASE ~(FutureIds(x) = {} \/ R = {})
  <2>1. FutureReconciled(d, x) \in {Done(m), Refused(d)}
    BY <1>4 DEF FutureReconciled, FutureIds, Rivals
  <2>2. e = m
    BY <2>1 DEF Done, Refused
  <2> QED
    BY <1>1, <1>4, <2>2
<1> QED
  BY <1>3, <1>4

LEMMA IssuesStage ==
  ASSUME NEW d, NEW x, NEW e, NEW merge \in BOOLEAN, IsTables(d), IssuesImported(d, x, merge) = Done(e)
  PROVE  /\ SameButIssues(d, e)
         /\ e.issues = d.issues \cup {ImportedIssue(i) : i \in {j \in x.issues : j.id \notin Ids(d.issues)}}
<1> DEFINE N == {ImportedIssue(i) : i \in {j \in x.issues : j.id \notin Ids(d.issues)}}
           m == [d EXCEPT !.issues = @ \cup N]
<1>1. SameButIssues(d, m) /\ m.issues = d.issues \cup N
  <2> HIDE DEF N
  <2> QED
    BY DEF IsTables, SameButIssues
<1>2. IssuesImported(d, x, merge) \in {Done(m), Refused(d)}
  BY DEF IssuesImported
<1>3. e = m
  BY <1>2 DEF Done, Refused
<1> QED
  BY <1>1, <1>3

LEMMA NewFileTable ==
  ASSUME NEW d, IsTables(d), NEW N, NEW m, m = [d EXCEPT !.files = N]
  PROVE  /\ IsTables(m) /\ m.files = N
         /\ m.issues = d.issues /\ m.findings = d.findings /\ m.notes = d.notes
         /\ m.events = d.events /\ m.annexes = d.annexes
<1>1. d = [issues |-> d.issues, files |-> d.files, findings |-> d.findings,
           notes |-> d.notes, events |-> d.events, annexes |-> d.annexes]
  BY DEF IsTables
<1>2. m = [issues |-> d.issues, files |-> N, findings |-> d.findings,
           notes |-> d.notes, events |-> d.events, annexes |-> d.annexes]
  BY <1>1
<1> QED
  BY <1>2 DEF IsTables

LEMMA NewNoteTable ==
  ASSUME NEW d, IsTables(d), NEW N, NEW m, m = [d EXCEPT !.notes = N]
  PROVE  /\ IsTables(m) /\ m.notes = N
         /\ m.issues = d.issues /\ m.files = d.files /\ m.findings = d.findings
         /\ m.events = d.events /\ m.annexes = d.annexes
<1>1. d = [issues |-> d.issues, files |-> d.files, findings |-> d.findings,
           notes |-> d.notes, events |-> d.events, annexes |-> d.annexes]
  BY DEF IsTables
<1>2. m = [issues |-> d.issues, files |-> d.files, findings |-> d.findings,
           notes |-> N, events |-> d.events, annexes |-> d.annexes]
  BY <1>1
<1> QED
  BY <1>2 DEF IsTables

\* Files: a path the target has keeps its file, and no id names two paths.
LEMMA FilesStage ==
  ASSUME NEW d, NEW x, NEW e, NEW merge \in BOOLEAN, IsTables(d), FilesImported(d, x, merge) = Done(e)
  PROVE  /\ IsTables(e) /\ e.issues = d.issues /\ e.findings = d.findings /\ e.notes = d.notes
         /\ e.events = d.events /\ e.annexes = d.annexes
         /\ e.files = d.files \cup {f \in x.files : ~\E g \in d.files : g.path = f.path}
         /\ \A f \in x.files, g \in d.files : f.id = g.id => f.path = g.path
<1> DEFINE N == {f \in x.files : ~\E g \in d.files : g.path = f.path}
           m == [d EXCEPT !.files = d.files \cup N]
<1>1. /\ IsTables(m) /\ m.issues = d.issues /\ m.findings = d.findings /\ m.notes = d.notes
      /\ m.events = d.events /\ m.annexes = d.annexes
      /\ m.files = d.files \cup N
  <2> DEFINE K == d.files \cup N
  <2>1. m = [d EXCEPT !.files = K]
    OBVIOUS
  <2>2. K = d.files \cup N
    OBVIOUS
  <2> HIDE DEF K, N, m
  <2> QED
    BY <2>1, <2>2, NewFileTable
<1>2. FilesImported(d, x, merge) = Refused(d) \/
        (FilesImported(d, x, merge) = Done(m) /\ ~\E f \in x.files, g \in d.files : f.id = g.id /\ f.path # g.path)
  BY DEF FilesImported
<1>3. e = m /\ ~\E f \in x.files, g \in d.files : f.id = g.id /\ f.path # g.path
  BY <1>2 DEF Done, Refused
<1> QED
  BY <1>1, <1>3

Taken(rows, d, x, g) == g.id \in Ids(rows) \/ SameSite(rows, FileIn(d, x, g.file)) # {}
FirstAtSite(rows, d, x, g) ==
    \A h \in x.findings :
       FileIn(d, x, h.file) = FileIn(d, x, g.file) /\ ~Taken(rows, d, x, h) => g.id <= h.id
NewFindings(rows, d, x) == {g \in x.findings : ~Taken(rows, d, x, g) /\ FirstAtSite(rows, d, x, g)}
Landed(d, x, g) == [g EXCEPT !.file = FileIn(d, x, g.file), !.print = NoPrint]
LandedFindings(rows, d, x) == {Landed(d, x, g) : g \in NewFindings(rows, d, x)}

\* Findings: the first at each new site lands, under the target's file.
LEMMA FindingsStage ==
  ASSUME NEW d, NEW x, NEW e, NEW merge \in BOOLEAN, IsTables(d), FindingsImported(d, x, merge) = Done(e)
  PROVE  /\ IsTables(e) /\ e.issues = d.issues /\ e.files = d.files /\ e.notes = d.notes
         /\ e.events = d.events /\ e.annexes = d.annexes
         /\ e.findings = d.findings \cup LandedFindings(d.findings, d, x)
<1> DEFINE N == LandedFindings(d.findings, d, x)
           m == [d EXCEPT !.findings = d.findings \cup N]
<1>1. /\ IsTables(m) /\ m.issues = d.issues /\ m.files = d.files /\ m.notes = d.notes
      /\ m.events = d.events /\ m.annexes = d.annexes
      /\ m.findings = d.findings \cup N
  <2> HIDE DEF N
  <2> QED
    BY DEF IsTables
<1>2. FindingsImported(d, x, merge) = Refused(d) \/ FindingsImported(d, x, merge) = Done(m)
  BY DEF FindingsImported, LandedFindings, NewFindings, Taken, FirstAtSite, Landed
<1>3. e = m
  BY <1>2 DEF Done, Refused
<1> QED
  BY <1>1, <1>3

LEMMA AnnexesStage ==
  ASSUME NEW d, NEW x, NEW e, NEW merge \in BOOLEAN, IsTables(d), AnnexesImported(d, x, merge) = Done(e)
  PROVE  /\ IsTables(e) /\ e.issues = d.issues /\ e.files = d.files /\ e.notes = d.notes
         /\ e.events = d.events /\ e.findings = d.findings /\ e.annexes = d.annexes \cup x.annexes
<1> DEFINE m == [d EXCEPT !.annexes = d.annexes \cup x.annexes]
<1>1. /\ IsTables(m) /\ m.issues = d.issues /\ m.files = d.files /\ m.notes = d.notes
      /\ m.events = d.events /\ m.findings = d.findings /\ m.annexes = d.annexes \cup x.annexes
  BY DEF IsTables
<1>2. AnnexesImported(d, x, merge) = Refused(d) \/ AnnexesImported(d, x, merge) = Done(m)
  BY DEF AnnexesImported
<1>3. e = m
  BY <1>2 DEF Done, Refused
<1> QED
  BY <1>1, <1>3

SameButId(n, v) == \E id : n = [v EXCEPT !.id = id]
EventsGrow(d, x, e) ==
    \E new : /\ e.events = d.events \cup new
             /\ \A n \in new : \E v \in x.events : SameButId(n, v)
             /\ \A v \in NewEvents(d, x) : \E n \in new : SameButId(n, v)

\* Events: those with new columns are added, under ids of the target.
LEMMA EventsStage ==
  ASSUME NEW d, NEW x, NEW e, NEW merge \in BOOLEAN, IsTables(d), EventsImported(d, x, merge) = Done(e)
  PROVE  /\ IsTables(e) /\ e.issues = d.issues /\ e.files = d.files /\ e.notes = d.notes
         /\ e.annexes = d.annexes /\ e.findings = d.findings
         /\ EventsGrow(d, x, e)
<1> DEFINE Rank(v) == Cardinality({f \in NewEvents(d, x) : f.key < v.key})
           N == {[v EXCEPT !.id = NewerId(d.events) + Rank(v)] : v \in NewEvents(d, x)}
           m == [d EXCEPT !.events = d.events \cup N]
<1>1. /\ IsTables(m) /\ m.issues = d.issues /\ m.files = d.files /\ m.notes = d.notes
      /\ m.annexes = d.annexes /\ m.findings = d.findings /\ m.events = d.events \cup N
  <2> HIDE DEF N
  <2> QED
    BY DEF IsTables
<1>2. EventsImported(d, x, merge) = Refused(d) \/ EventsImported(d, x, merge) = Done(m)
  BY DEF EventsImported
<1>3. e = m
  <2> HIDE DEF m
  <2> QED
    BY <1>2 DEF Done, Refused
<1>4. \A n \in N : \E v \in x.events : SameButId(n, v)
  BY DEF NewEvents, SameButId
<1>5. \A v \in NewEvents(d, x) : \E n \in N : SameButId(n, v)
  BY DEF SameButId
<1> HIDE DEF N
<1> QED
  BY <1>1, <1>3, <1>4, <1>5 DEF EventsGrow

Here(d, x, n) == [n EXCEPT !.file = FileIn(d, x, n.file), !.finding = FindingIn(d, x, n.finding)]
NewNotes(rows, d, x) == {n \in x.notes : n.id \notin Ids(rows)
                                         /\ ~\E m \in rows : m.file = FileIn(d, x, n.file)}
HereNotes(rows, d, x) == {Here(d, x, n) : n \in NewNotes(rows, d, x)}
Lacking(d, x) == \E n \in x.notes : n.of \in Annotations /\ Here(d, x, n).finding \notin Ids(d.findings)

\* Notes: they land under the target's file and finding, unless an annotation
\* lacks its.
LEMMA NotesStage ==
  ASSUME NEW d, NEW x, NEW e, NEW merge \in BOOLEAN, IsTables(d), NotesImported(d, x, merge) = Done(e)
  PROVE  /\ IsTables(e) /\ e.issues = d.issues /\ e.files = d.files /\ e.events = d.events
         /\ e.annexes = d.annexes /\ e.findings = d.findings
         /\ e.notes = d.notes \cup HereNotes(d.notes, d, x)
         /\ ~Lacking(d, x)
<1> DEFINE N == HereNotes(d.notes, d, x)
           m == [d EXCEPT !.notes = d.notes \cup N]
<1>1. /\ IsTables(m) /\ m.issues = d.issues /\ m.files = d.files /\ m.events = d.events
      /\ m.annexes = d.annexes /\ m.findings = d.findings /\ m.notes = d.notes \cup N
  <2> DEFINE K == d.notes \cup N
  <2>1. m = [d EXCEPT !.notes = K]
    OBVIOUS
  <2>2. K = d.notes \cup N
    OBVIOUS
  <2> HIDE DEF K, N, m
  <2> QED
    BY <2>1, <2>2, NewNoteTable
<1>2. NotesImported(d, x, merge) = Refused(d) \/ (NotesImported(d, x, merge) = Done(m) /\ ~Lacking(d, x))
  BY DEF NotesImported, HereNotes, NewNotes, Here, Lacking
<1>3. e = m /\ ~Lacking(d, x)
  BY <1>2 DEF Done, Refused
<1> QED
  BY <1>1, <1>3
\* Where an import has put what.
Kept(d, x) == IF FutureIds(x) = {} \/ Rivals(d, x) = {} THEN d.issues ELSE d.issues \ Rivals(d, x)
Imported(d, x, e) ==
    /\ IsTables(e)
    /\ e.issues = Kept(d, x) \cup {ImportedIssue(i) : i \in {j \in x.issues : j.id \notin Ids(Kept(d, x))}}
    /\ e.files = d.files \cup {f \in x.files : ~\E g \in d.files : g.path = f.path}
    /\ \A f \in x.files, g \in d.files : f.id = g.id => f.path = g.path
    /\ e.findings = d.findings \cup LandedFindings(d.findings, e, x)
    /\ e.annexes = d.annexes \cup x.annexes
    /\ EventsGrow(d, x, e)
    /\ e.notes = d.notes \cup HereNotes(d.notes, e, x)
    /\ ~Lacking(e, x)

\* Which file stands for an imported one depends on the files alone.
LEMMA FileInSame ==
  ASSUME NEW d, NEW e, NEW x, d.files = e.files
  PROVE  \A id : FileIn(d, x, id) = FileIn(e, x, id)
BY DEF FileIn

LEMMA FindingInSame ==
  ASSUME NEW d, NEW e, NEW x, d.files = e.files, d.findings = e.findings
  PROVE  \A id : FindingIn(d, x, id) = FindingIn(e, x, id)
<1>1. \A id : FileIn(d, x, id) = FileIn(e, x, id)
  BY FileInSame
<1> SUFFICES ASSUME NEW id PROVE FindingIn(d, x, id) = FindingIn(e, x, id)
  OBVIOUS
<1>2. FileIn(d, x, RowOf(x.findings, id).file) = FileIn(e, x, RowOf(x.findings, id).file)
  BY <1>1
<1> QED
  BY <1>2 DEF FindingIn

LEMMA FindingsSame ==
  ASSUME NEW x, NEW rows, NEW d, NEW e, d.files = e.files
  PROVE  LandedFindings(rows, d, x) = LandedFindings(rows, e, x)
<1>1. \A id : FileIn(d, x, id) = FileIn(e, x, id)
  BY FileInSame
<1>2. \A g : Taken(rows, d, x, g) = Taken(rows, e, x, g)
  BY <1>1 DEF Taken
<1>3. \A g : FirstAtSite(rows, d, x, g) = FirstAtSite(rows, e, x, g)
  BY <1>1, <1>2 DEF FirstAtSite
<1>4. NewFindings(rows, d, x) = NewFindings(rows, e, x)
  BY <1>2, <1>3 DEF NewFindings
<1>5. \A g : Landed(d, x, g) = Landed(e, x, g)
  BY <1>1 DEF Landed
<1> QED
  BY <1>4, <1>5 DEF LandedFindings

LEMMA NotesSame ==
  ASSUME NEW d, NEW e, NEW x, NEW rows, d.files = e.files, d.findings = e.findings
  PROVE  /\ HereNotes(rows, d, x) = HereNotes(rows, e, x)
         /\ Lacking(d, x) = Lacking(e, x)
<1>1. \A id : FileIn(d, x, id) = FileIn(e, x, id)
  BY FileInSame
<1>2. \A id : FindingIn(d, x, id) = FindingIn(e, x, id)
  BY FindingInSame
<1>3. \A n : Here(d, x, n) = Here(e, x, n)
  BY <1>1, <1>2 DEF Here
<1>4. NewNotes(rows, d, x) = NewNotes(rows, e, x)
  BY <1>1 DEF NewNotes
<1>5. Lacking(d, x) = Lacking(e, x)
  BY <1>3 DEF Lacking
<1> QED
  BY <1>3, <1>4, <1>5 DEF HereNotes

\* What an import that went through leaves behind, all stages taken together.
LEMMA ImportGives ==
  ASSUME NEW d, NEW x, NEW merge \in BOOLEAN, IsTables(d), ImportJsonl(d, x, merge).ok
  PROVE  \E e : ImportJsonl(d, x, merge) = Done(e) /\ Imported(d, x, e)
<1>0. PICK d7 : Staged(d, x, merge, d7) /\ ImportJsonl(d, x, merge) = Done(d7)
  BY ImportIs
<1>1. PICK d1, d2, d3, d4, d5, d6 :
            /\ FutureReconciled(d, x) = Done(d1) /\ IssuesImported(d1, x, merge) = Done(d2)
            /\ FilesImported(d2, x, merge) = Done(d3) /\ FindingsImported(d3, x, merge) = Done(d4)
            /\ AnnexesImported(d4, x, merge) = Done(d5) /\ EventsImported(d5, x, merge) = Done(d6)
            /\ NotesImported(d6, x, merge) = Done(d7)
  BY <1>0 DEF Staged
<1>2. SameButIssues(d, d1) /\ d1.issues = Kept(d, x) /\ IsTables(d1)
  <2>1. /\ SameButIssues(d, d1)
        /\ d1.issues = IF FutureIds(x) = {} \/ Rivals(d, x) = {} THEN d.issues ELSE d.issues \ Rivals(d, x)
    BY <1>1, FutureStage, Zenon
  <2> QED
    BY <2>1 DEF Kept, SameButIssues
<1>3. /\ SameButIssues(d1, d2) /\ IsTables(d2)
      /\ d2.issues = d1.issues \cup {ImportedIssue(i) : i \in {j \in x.issues : j.id \notin Ids(d1.issues)}}
  BY <1>1, <1>2, IssuesStage DEF SameButIssues
<1>4. /\ IsTables(d3) /\ d3.issues = d2.issues /\ d3.findings = d2.findings /\ d3.notes = d2.notes
      /\ d3.events = d2.events /\ d3.annexes = d2.annexes
      /\ d3.files = d2.files \cup {f \in x.files : ~\E g \in d2.files : g.path = f.path}
      /\ \A f \in x.files, g \in d2.files : f.id = g.id => f.path = g.path
  BY <1>1, <1>3, FilesStage
<1>5. /\ IsTables(d4) /\ d4.issues = d3.issues /\ d4.files = d3.files /\ d4.notes = d3.notes
      /\ d4.events = d3.events /\ d4.annexes = d3.annexes
      /\ d4.findings = d3.findings \cup LandedFindings(d3.findings, d3, x)
  BY <1>1, <1>4, FindingsStage
<1>6. /\ IsTables(d5) /\ d5.issues = d4.issues /\ d5.files = d4.files /\ d5.notes = d4.notes
      /\ d5.events = d4.events /\ d5.findings = d4.findings /\ d5.annexes = d4.annexes \cup x.annexes
  BY <1>1, <1>5, AnnexesStage
<1>7. /\ IsTables(d6) /\ d6.issues = d5.issues /\ d6.files = d5.files /\ d6.notes = d5.notes
      /\ d6.annexes = d5.annexes /\ d6.findings = d5.findings
      /\ EventsGrow(d5, x, d6)
  <2>1. EventsImported(d5, x, merge) = Done(d6) /\ IsTables(d5)
    BY <1>1, <1>6
  <2> QED
    BY <2>1, EventsStage
<1>8. /\ IsTables(d7) /\ d7.issues = d6.issues /\ d7.files = d6.files /\ d7.events = d6.events
      /\ d7.annexes = d6.annexes /\ d7.findings = d6.findings
      /\ d7.notes = d6.notes \cup HereNotes(d6.notes, d6, x)
      /\ ~Lacking(d6, x)
  BY <1>1, <1>7, NotesStage
<1>9. /\ d2.files = d.files /\ d3.findings = d.findings /\ d5.events = d.events /\ d6.notes = d.notes
      /\ d4.annexes = d.annexes /\ d3.files = d7.files /\ d6.files = d7.files /\ d6.findings = d7.findings
  BY <1>2, <1>3, <1>4, <1>5, <1>6, <1>7, <1>8 DEF SameButIssues
<1>10. d7.issues = Kept(d, x) \cup {ImportedIssue(i) : i \in {j \in x.issues : j.id \notin Ids(Kept(d, x))}}
  BY <1>2, <1>3, <1>4, <1>5, <1>6, <1>7, <1>8
<1>11. d7.findings = d.findings \cup LandedFindings(d.findings, d7, x)
  <2>1. LandedFindings(d.findings, d3, x) = LandedFindings(d.findings, d7, x)
    <3>1. d3.files = d7.files
      BY <1>9
    <3> QED
      BY <3>1, FindingsSame
  <2> QED
    BY <1>5, <1>6, <1>7, <1>8, <1>9, <2>1
<1>12. d7.annexes = d.annexes \cup x.annexes
  BY <1>6, <1>7, <1>8, <1>9
<1>13. NewEvents(d5, x) = NewEvents(d, x)
  BY <1>9 DEF NewEvents
<1>14. EventsGrow(d, x, d7)
  BY <1>7, <1>8, <1>9, <1>13 DEF EventsGrow
<1>15. d7.notes = d.notes \cup HereNotes(d.notes, d7, x) /\ ~Lacking(d7, x)
  <2>1. d6.files = d7.files /\ d6.findings = d7.findings
    BY <1>9
  <2>2. /\ HereNotes(d.notes, d6, x) = HereNotes(d.notes, d7, x)
        /\ Lacking(d6, x) = Lacking(d7, x)
    BY <2>1, NotesSame
  <2> QED
    BY <1>8, <1>9, <2>2
<1>16. /\ d7.files = d.files \cup {f \in x.files : ~\E g \in d.files : g.path = f.path}
       /\ \A f \in x.files, g \in d.files : f.id = g.id => f.path = g.path
  BY <1>4, <1>9
<1>17. Imported(d, x, d7)
  BY <1>8, <1>10, <1>11, <1>12, <1>14, <1>15, <1>16 DEF Imported
<1> QED
  BY <1>0, <1>17

-----------------------------------------------------------------------------
(* An import repeated finds everything there                                     *)

\* Every finding of the file finds its row, or one of its site, after an import: of
\* those that found none, the one with the least id was inserted.
LEMMA AllTaken ==
  ASSUME NEW d, NEW x, NEW e, Imported(d, x, e), x.findings \subseteq FindingRow
  PROVE  \A g \in x.findings : Taken(e.findings, e, x, g)
<1> SUFFICES ASSUME NEW g \in x.findings PROVE Taken(e.findings, e, x, g)
  OBVIOUS
<1>1. e.findings = d.findings \cup LandedFindings(d.findings, e, x)
  BY DEF Imported
<1>2. CASE Taken(d.findings, e, x, g)
  BY <1>1, <1>2 DEF Taken, Ids, SameSite
<1>3. CASE ~Taken(d.findings, e, x, g)
  <2> DEFINE K == {h \in x.findings : FileIn(e, x, h.file) = FileIn(e, x, g.file)
                                      /\ ~Taken(d.findings, e, x, h)}
             I == {h.id : h \in K}
  <2>1. I \subseteq Nat /\ I # {}
    <3>1. \A h \in K : h.id \in Nat
      BY DEF FindingRow
    <3>2. g \in K
      BY <1>3
    <3> QED
      BY <3>1, <3>2
  <2>2. PICK least \in I : \A n \in I : least <= n
    <3> HIDE DEF I
    <3> QED
      BY <2>1, LeastNumber
  <2>3. PICK h \in K : h.id = least
    BY <2>2
  <2>4. FirstAtSite(d.findings, e, x, h)
    BY <2>2, <2>3 DEF FirstAtSite
  <2>5. h \in NewFindings(d.findings, e, x)
    BY <2>3, <2>4 DEF NewFindings
  <2>6. Landed(e, x, h) \in e.findings
    BY <1>1, <2>5 DEF LandedFindings
  <2>7. Landed(e, x, h).file = FileIn(e, x, g.file) /\ Landed(e, x, h).print = NoPrint
    <3>1. h \in FindingRow /\ FileIn(e, x, h.file) = FileIn(e, x, g.file)
      OBVIOUS
    <3> HIDE DEF K
    <3> QED
      BY <3>1 DEF Landed, FindingRow
  <2> QED
    BY <2>6, <2>7 DEF Taken, SameSite
<1> QED
  BY <1>2, <1>3

LEMMA ImportedIssueIs ==
  ASSUME NEW i \in IssueRow
  PROVE  ImportedIssue(i) \in IssueRow /\ ImportedIssue(i).id = i.id /\ ImportedIssue(i).future = i.future
BY DEF ImportedIssue, IssueRow

\* A second import finds the release it brought.
LEMMA FutureThere ==
  ASSUME NEW d, NEW x, NEW e, Imported(d, x, e), x.issues \subseteq IssueRow
  PROVE  FutureReconciled(e, x) = Done(e)
<1>1. FutureIds(x) = {} \/ Rivals(e, x) = {}
  <2> SUFFICES ASSUME FutureIds(x) # {}, NEW i \in Rivals(e, x) PROVE FALSE
    OBVIOUS
  <2>1. i \in e.issues /\ i.future /\ i.id \notin FutureIds(x)
    BY DEF Rivals, IsFuture
  <2>2. i \notin Kept(d, x)
    <3>1. CASE Rivals(d, x) = {}
      BY <2>1, <3>1 DEF Kept, Rivals, IsFuture
    <3>2. CASE Rivals(d, x) # {}
      BY <2>1, <3>2 DEF Kept, Rivals, IsFuture
    <3> QED
      BY <3>1, <3>2
  <2>3. PICK j \in x.issues : i = ImportedIssue(j)
    BY <2>1, <2>2 DEF Imported
  <2>4. i.id = j.id /\ i.future = j.future
    BY <2>3, ImportedIssueIs
  <2> QED
    BY <2>1, <2>4 DEF FutureIds, IsFuture
<1> QED
  BY <1>1 DEF FutureReconciled, FutureIds, Rivals

LEMMA IssuesThere ==
  ASSUME NEW d, NEW x, NEW e, Imported(d, x, e), x.issues \subseteq IssueRow
  PROVE  IssuesImported(e, x, TRUE) = Done(e)
<1>1. \A j \in x.issues : j.id \in Ids(e.issues)
  <2> SUFFICES ASSUME NEW j \in x.issues, j.id \notin Ids(Kept(d, x)) PROVE j.id \in Ids(e.issues)
    BY DEF Imported, Ids
  <2>1. ImportedIssue(j) \in e.issues /\ ImportedIssue(j).id = j.id
    BY ImportedIssueIs DEF Imported
  <2> QED
    BY <2>1 DEF Ids
<1> DEFINE N == {ImportedIssue(i) : i \in {j \in x.issues : j.id \notin Ids(e.issues)}}
<1>2. N = {}
  BY <1>1
<1>3. IssuesImported(e, x, TRUE) = Done([e EXCEPT !.issues = e.issues \cup N])
  BY DEF IssuesImported, Clash
<1>4. e.issues \cup N = e.issues
  BY <1>2
<1>5. [e EXCEPT !.issues = e.issues] = e
  BY DEF Imported, IsTables
<1> HIDE DEF N
<1> QED
  BY <1>3, <1>4, <1>5

LEMMA FilesThere ==
  ASSUME NEW d, NEW x, NEW e, Imported(d, x, e), Agree(x, x)
  PROVE  FilesImported(e, x, TRUE) = Done(e)
<1> DEFINE N == {f \in x.files : ~\E g \in e.files : g.path = f.path}
<1>1. N = {}
  BY DEF Imported
<1>2. ~\E f \in x.files, g \in e.files : f.id = g.id /\ f.path # g.path
  BY DEF Imported, Agree
<1>3. FilesImported(e, x, TRUE) = Done([e EXCEPT !.files = e.files \cup N])
  BY <1>2 DEF FilesImported
<1>4. e.files \cup N = e.files
  BY <1>1
<1>5. [e EXCEPT !.files = e.files] = e
  BY DEF Imported, IsTables
<1> HIDE DEF N
<1> QED
  BY <1>3, <1>4, <1>5

LEMMA FindingsThere ==
  ASSUME NEW d, NEW x, NEW e, Imported(d, x, e), x.findings \subseteq FindingRow
  PROVE  FindingsImported(e, x, TRUE) = Done(e)
<1> DEFINE N == LandedFindings(e.findings, e, x)
<1>1. N = {}
  BY AllTaken DEF LandedFindings, NewFindings
<1>3. FindingsImported(e, x, TRUE) = Done([e EXCEPT !.findings = e.findings \cup N])
  BY DEF FindingsImported, LandedFindings, NewFindings, Taken, FirstAtSite, Landed
<1>4. e.findings \cup N = e.findings
  BY <1>1
<1>5. [e EXCEPT !.findings = e.findings] = e
  BY DEF Imported, IsTables
<1> HIDE DEF N
<1> QED
  BY <1>3, <1>4, <1>5

LEMMA AnnexesThere ==
  ASSUME NEW d, NEW x, NEW e, Imported(d, x, e)
  PROVE  AnnexesImported(e, x, TRUE) = Done(e)
<1>3. AnnexesImported(e, x, TRUE) = Done([e EXCEPT !.annexes = e.annexes \cup x.annexes])
  BY DEF AnnexesImported, Clash
<1>4. e.annexes \cup x.annexes = e.annexes
  BY DEF Imported
<1>5. [e EXCEPT !.annexes = e.annexes] = e
  BY DEF Imported, IsTables
<1> QED
  BY <1>3, <1>4, <1>5

LEMMA EventsThere ==
  ASSUME NEW d, NEW x, NEW e, Imported(d, x, e), \A v \in x.events : IsEvent(v)
  PROVE  EventsImported(e, x, TRUE) = Done(e)
<1> DEFINE Rank(v) == Cardinality({f \in NewEvents(e, x) : f.key < v.key})
           N == {[v EXCEPT !.id = NewerId(e.events) + Rank(v)] : v \in NewEvents(e, x)}
<1>1. NewEvents(e, x) = {}
  <2> SUFFICES ASSUME NEW v \in x.events PROVE \E f \in e.events : f.key = v.key
    BY DEF NewEvents
  <2>1. PICK new : /\ e.events = d.events \cup new
                   /\ \A w \in NewEvents(d, x) : \E n \in new : SameButId(n, w)
    BY DEF Imported, EventsGrow
  <2>2. CASE v \in NewEvents(d, x)
    <3>1. PICK n \in new : SameButId(n, v)
      BY <2>1, <2>2
    <3>2. n.key = v.key
      BY <3>1 DEF SameButId, IsEvent
    <3> QED
      BY <2>1, <3>2
  <2>3. CASE v \notin NewEvents(d, x)
    BY <2>1, <2>3 DEF NewEvents
  <2> QED
    BY <2>2, <2>3
<1>2. N = {}
  BY <1>1
<1>3. EventsImported(e, x, TRUE) = Done([e EXCEPT !.events = e.events \cup N])
  BY DEF EventsImported
<1>4. e.events \cup N = e.events
  BY <1>2
<1>5. [e EXCEPT !.events = e.events] = e
  BY DEF Imported, IsTables
<1> HIDE DEF N
<1> QED
  BY <1>3, <1>4, <1>5

\* A note is put at the same place by the import and by its repetition.
LEMMA HereIs ==
  ASSUME NEW d, NEW x, NEW n \in NoteRow
  PROVE  /\ Here(d, x, n).id = n.id /\ Here(d, x, n).of = n.of
         /\ Here(d, x, n).file = FileIn(d, x, n.file)
         /\ Here(d, x, n).finding = FindingIn(d, x, n.finding)
         /\ Here(d, x, n) = [id |-> n.id, file |-> FileIn(d, x, n.file),
                             finding |-> FindingIn(d, x, n.finding), of |-> n.of]
<1> DEFINE a == FileIn(d, x, n.file)
           b == FindingIn(d, x, n.finding)
           m == [id |-> n.id, file |-> a, finding |-> b, of |-> n.of]
<1>1. n = [id |-> n.id, file |-> n.file, finding |-> n.finding, of |-> n.of]
  BY DEF NoteRow
<1>2. Here(d, x, n) = [n EXCEPT !.file = a, !.finding = b]
  BY DEF Here
<1> HIDE DEF a, b
<1>3. Here(d, x, n) = m
  BY <1>1, <1>2
<1> QED
  BY <1>3 DEF a, b

LEMMA NotesThere ==
  ASSUME NEW d, NEW x, NEW e, Imported(d, x, e), x.notes \subseteq NoteRow
  PROVE  NotesImported(e, x, TRUE) = Done(e)
<1> DEFINE N == HereNotes(e.notes, e, x)
<1>1. e.notes = d.notes \cup HereNotes(d.notes, e, x) /\ ~Lacking(e, x)
  BY DEF Imported
<1>2. \A n \in x.notes : n.id \in Ids(e.notes) \/ \E m \in e.notes : m.file = FileIn(e, x, n.file)
  <2> SUFFICES ASSUME NEW n \in x.notes, n \in NewNotes(d.notes, e, x) PROVE n.id \in Ids(e.notes)
    BY <1>1 DEF NewNotes, Ids
  <2>1. Here(e, x, n) \in e.notes /\ Here(e, x, n).id = n.id
    BY <1>1, HereIs DEF HereNotes
  <2> QED
    BY <2>1 DEF Ids
<1>3. N = {}
  BY <1>2 DEF HereNotes, NewNotes
<1>4. NotesImported(e, x, TRUE) = Done([e EXCEPT !.notes = e.notes \cup N])
  BY <1>1 DEF NotesImported, HereNotes, NewNotes, Here, Lacking
<1>5. e.notes \cup N = e.notes
  BY <1>3
<1>6. [e EXCEPT !.notes = e.notes] = e
  BY DEF Imported, IsTables
<1> HIDE DEF N
<1> QED
  BY <1>4, <1>5, <1>6

\* An import repeated changes nothing.
LEMMA ImportedAgain ==
  ASSUME NEW d, NEW x, NEW e, Imported(d, x, e), TablesOK(x), Agree(x, x)
  PROVE  ImportJsonl(e, x, TRUE) = Done(e)
<1>1. /\ x.issues \subseteq IssueRow /\ x.findings \subseteq FindingRow /\ x.notes \subseteq NoteRow
      /\ \A v \in x.events : IsEvent(v)
  BY DEF TablesOK
<1>2. FutureReconciled(e, x) = Done(e) /\ IssuesImported(e, x, TRUE) = Done(e)
  BY <1>1, FutureThere, IssuesThere
<1>3. FilesImported(e, x, TRUE) = Done(e) /\ AnnexesImported(e, x, TRUE) = Done(e)
  BY FilesThere, AnnexesThere
<1>4. FindingsImported(e, x, TRUE) = Done(e)
  BY <1>1, FindingsThere
<1>5. EventsImported(e, x, TRUE) = Done(e)
  BY <1>1, EventsThere
<1>6. NotesImported(e, x, TRUE) = Done(e)
  BY <1>1, NotesThere
<1>7. Done(e).ok = TRUE /\ Done(e).db = e
  BY DEF Done
<1> QED
  BY <1>2, <1>3, <1>4, <1>5, <1>6, <1>7 DEF ImportJsonl
-----------------------------------------------------------------------------
(* An import keeps what rows are about                                           *)

\* Two databases that agree with themselves and each other, and an import of one.
Exchange(d, x, e) ==
    /\ Whole(d) /\ Whole(x) /\ Imported(d, x, e)
    /\ Agree(d, d) /\ Agree(x, x) /\ Agree(d, x) /\ Agree(x, d)

\* Every row of a table was in one of two databases, under its id and about the same.
Descends(e, d, x) ==
    /\ \A i \in e.issues : \E j \in d.issues \cup x.issues : j.id = i.id /\ j.future = i.future
    /\ \A f \in e.files : \E g \in d.files \cup x.files : g.id = f.id /\ g.path = f.path
    /\ \A g \in e.findings : \E h \in d.findings \cup x.findings : h.id = g.id /\ h.of = g.of

\* Files come from one side or the other, and a path goes on having one.
LEMMA FilesKept ==
  ASSUME NEW d, NEW x, NEW e, Exchange(d, x, e)
  PROVE  /\ e.files \subseteq FileRow /\ \A f, g \in e.files : f.path = g.path => f = g
         /\ e.files \subseteq d.files \cup x.files
         /\ \A f, g \in e.files : f.id = g.id => f.path = g.path
         /\ \A f \in x.files : \E g \in e.files : g.path = f.path
<1>1. e.files = d.files \cup {f \in x.files : ~\E g \in d.files : g.path = f.path}
  BY DEF Exchange, Imported
<1>2. d.files \subseteq FileRow /\ x.files \subseteq FileRow
  BY DEF Exchange, Whole, TablesOK
<1>3. /\ \A f, g \in d.files : f.path = g.path => f = g
      /\ \A f, g \in x.files : f.path = g.path => f = g
  BY DEF Exchange, Whole, IdsName
<1>4. \A f, g \in d.files \cup x.files : f.id = g.id => f.path = g.path
  BY DEF Exchange, Agree
<1>5. \A f, g \in e.files : f.path = g.path => f = g
  BY <1>1, <1>3
<1>6. \A f \in x.files : \E g \in e.files : g.path = f.path
  BY <1>1
<1> QED
  BY <1>1, <1>2, <1>4, <1>5, <1>6

\* The file that stands for an imported one is there, and has the same path.
LEMMA FileFound ==
  ASSUME NEW d, NEW x, NEW e, Exchange(d, x, e), NEW id, NEW of, FileAbout(x, id, of)
  PROVE  FileAbout(e, FileIn(e, x, id), of) /\ FileIn(e, x, id) \in Nat
<1>1. PICK f \in x.files : f.id = id /\ f.path = of
  BY DEF FileAbout
<1>2. RowOf(x.files, id) \in x.files /\ RowOf(x.files, id).id = id
  BY <1>1 DEF RowOf
<1>3. PathOf(x, id) = of
  BY <1>1, <1>2 DEF PathOf, Exchange, Agree
<1> DEFINE same == {g \in e.files : g.path = of}
<1>4. same # {}
  BY <1>1, FilesKept
<1>5. FileIn(e, x, id) = (CHOOSE g \in same : TRUE).id
  BY <1>3, <1>4 DEF FileIn
<1>6. PICK g \in same : FileIn(e, x, id) = g.id
  BY <1>4, <1>5
<1>7. g \in e.files /\ g.path = of /\ g \in FileRow
  BY FilesKept
<1> QED
  BY <1>6, <1>7 DEF FileAbout, FileRow

\* A finding that lands keeps its id and what it is about.
LEMMA LandedIs ==
  ASSUME NEW e, NEW x, NEW g \in FindingRow
  PROVE  /\ Landed(e, x, g) = [id |-> g.id, file |-> FileIn(e, x, g.file), print |-> NoPrint, of |-> g.of]
         /\ Landed(e, x, g).id = g.id /\ Landed(e, x, g).of = g.of
         /\ Landed(e, x, g).file = FileIn(e, x, g.file) /\ Landed(e, x, g).print = NoPrint
<1> DEFINE a == FileIn(e, x, g.file)
           m == [id |-> g.id, file |-> a, print |-> NoPrint, of |-> g.of]
<1>1. g = [id |-> g.id, file |-> g.file, print |-> g.print, of |-> g.of]
  BY DEF FindingRow
<1>2. Landed(e, x, g) = [g EXCEPT !.file = a, !.print = NoPrint]
  BY DEF Landed
<1> HIDE DEF a
<1>3. Landed(e, x, g) = m
  BY <1>1, <1>2
<1> QED
  BY <1>3 DEF a

\* A row of the findings after an import is of the target, or a row of the file on a
\* file of the same path.
LEMMA FindingsKept ==
  ASSUME NEW d, NEW x, NEW e, Exchange(d, x, e)
  PROVE  /\ e.findings \subseteq FindingRow /\ \A g, h \in e.findings : g.id = h.id => g = h
         /\ \A g \in e.findings : FileAbout(e, g.file, g.of)
         /\ \A g \in e.findings : \E h \in d.findings \cup x.findings : h.id = g.id /\ h.of = g.of
<1>1. e.findings = d.findings \cup LandedFindings(d.findings, e, x) /\ d.files \subseteq e.files
  BY DEF Exchange, Imported
<1>2. d.findings \subseteq FindingRow /\ x.findings \subseteq FindingRow
  BY DEF Exchange, Whole, TablesOK
<1>3. ASSUME NEW r \in LandedFindings(d.findings, e, x)
      PROVE  \E g \in x.findings : /\ r \in FindingRow /\ r.id = g.id /\ r.of = g.of
                                   /\ r.id \notin Ids(d.findings) /\ FileAbout(e, r.file, r.of)
                                   /\ r = Landed(e, x, g)
  <2>1. PICK g \in x.findings : r = Landed(e, x, g) /\ g.id \notin Ids(d.findings)
    BY <1>3 DEF LandedFindings, NewFindings, Taken
  <2>2. /\ r = [id |-> g.id, file |-> FileIn(e, x, g.file), print |-> NoPrint, of |-> g.of]
        /\ r.id = g.id /\ r.of = g.of /\ r.file = FileIn(e, x, g.file) /\ g \in FindingRow
    BY <1>2, <2>1, LandedIs
  <2>3. FileAbout(x, g.file, g.of)
    BY DEF Exchange, Whole, AboutTheirs
  <2>4. FileAbout(e, FileIn(e, x, g.file), g.of) /\ FileIn(e, x, g.file) \in Nat
    BY <2>3, FileFound
  <2>5. r \in FindingRow
    BY <2>2, <2>4 DEF FindingRow
  <2> QED
    BY <2>1, <2>2, <2>4, <2>5
<1>4. e.findings \subseteq FindingRow
  BY <1>1, <1>2, <1>3
<1>5. ASSUME NEW g \in e.findings, NEW h \in e.findings, g.id = h.id PROVE g = h
  <2>1. /\ \A a, b \in d.findings : a.id = b.id => a = b
        /\ \A a, b \in x.findings : a.id = b.id => a = b
    BY DEF Exchange, Whole, IdsName
  <2>2. CASE g \in d.findings /\ h \in d.findings
    BY <1>5, <2>1, <2>2
  <2>3. CASE g \in LandedFindings(d.findings, e, x) /\ h \in LandedFindings(d.findings, e, x)
    BY <1>3, <1>5, <2>1, <2>3
  <2>4. \A r \in LandedFindings(d.findings, e, x) : \A b \in d.findings : r.id # b.id
    BY <1>3 DEF Ids
  <2> QED
    BY <1>1, <1>5, <2>2, <2>3, <2>4
<1>6. ASSUME NEW g \in e.findings PROVE FileAbout(e, g.file, g.of)
  <2>1. CASE g \in d.findings
    <3>1. FileAbout(d, g.file, g.of)
      BY <2>1 DEF Exchange, Whole, AboutTheirs
    <3> QED
      BY <1>1, <3>1 DEF FileAbout
  <2> QED
    BY <1>1, <1>3, <1>6, <2>1
<1>7. ASSUME NEW g \in e.findings PROVE \E h \in d.findings \cup x.findings : h.id = g.id /\ h.of = g.of
  BY <1>1, <1>3
<1> QED
  BY <1>4, <1>5, <1>6, <1>7
\* The finding that stands for an imported one is there, and about the same.
LEMMA FindingFound ==
  ASSUME NEW d, NEW x, NEW e, Exchange(d, x, e), NEW id, NEW of, FindingAbout(x, id, of)
  PROVE  FindingAbout(e, FindingIn(e, x, id), of) /\ FindingIn(e, x, id) \in Nat
<1>1. PICK h \in x.findings : h.id = id /\ h.of = of
  BY DEF FindingAbout
<1>2. e.findings \subseteq FindingRow
  BY FindingsKept
<1>3. CASE id \in Ids(e.findings)
  <2>1. PICK g \in e.findings : g.id = id
    BY <1>3 DEF Ids
  <2>2. PICK k \in d.findings \cup x.findings : k.id = g.id /\ k.of = g.of
    BY FindingsKept
  <2>3. k.of = h.of
    BY <1>1, <2>1, <2>2 DEF Exchange, Agree
  <2>4. g.of = of /\ g.id \in Nat
    BY <1>1, <1>2, <2>2, <2>3 DEF FindingRow
  <2> QED
    BY <1>3, <2>1, <2>4 DEF FindingIn, FindingAbout
<1>4. CASE id \notin Ids(e.findings)
  <2>1. RowOf(x.findings, id) \in x.findings /\ RowOf(x.findings, id).id = id
    BY <1>1 DEF RowOf
  <2>2. RowOf(x.findings, id) = h
    BY <1>1, <2>1 DEF Exchange, Whole, IdsName
  <2> DEFINE file == FileIn(e, x, h.file)
             near == {g \in e.findings : g.file = file}
  <2>3. Taken(e.findings, e, x, h)
    BY AllTaken DEF Exchange, Whole, TablesOK
  <2>4. near # {}
    BY <1>1, <1>4, <2>3 DEF Taken, SameSite
  <2>5. FindingIn(e, x, id) = (CHOOSE g \in e.findings : g.file = file).id
    BY <1>4, <2>2 DEF FindingIn
  <2>6. PICK g \in e.findings : g.file = file /\ FindingIn(e, x, id) = g.id
    <3>1. \E g \in e.findings : g.file = file
      BY <2>4
    <3> HIDE DEF file
    <3> QED
      BY <2>5, <3>1
  <2>7. FileAbout(e, g.file, g.of)
    BY FindingsKept
  <2>8. FileAbout(e, file, h.of)
    <3>1. FileAbout(x, h.file, h.of)
      BY <1>1 DEF Exchange, Whole, AboutTheirs
    <3> QED
      BY <3>1, FileFound
  <2>9. \A f, k \in e.files : f.id = k.id => f.path = k.path
    BY FilesKept
  <2> HIDE DEF file
  <2>10. g.of = of
    BY <1>1, <2>6, <2>7, <2>8, <2>9 DEF FileAbout
  <2>11. g.id \in Nat
    BY <1>2, <2>6 DEF FindingRow
  <2> QED
    BY <2>6, <2>10, <2>11 DEF FindingAbout
<1> QED
  BY <1>3, <1>4

\* Notes stay about their file and finding, through an import.
LEMMA NotesKept ==
  ASSUME NEW d, NEW x, NEW e, Exchange(d, x, e)
  PROVE  /\ e.notes \subseteq NoteRow
         /\ \A n \in e.notes : FileAbout(e, n.file, n.of) /\ FindingAbout(e, n.finding, n.of)
<1>1. /\ e.notes = d.notes \cup HereNotes(d.notes, e, x)
      /\ d.files \subseteq e.files /\ d.findings \subseteq e.findings
  BY DEF Exchange, Imported
<1>2. d.notes \subseteq NoteRow /\ x.notes \subseteq NoteRow
  BY DEF Exchange, Whole, TablesOK
<1>3. ASSUME NEW n \in d.notes
      PROVE  FileAbout(e, n.file, n.of) /\ FindingAbout(e, n.finding, n.of)
  <2>1. FileAbout(d, n.file, n.of) /\ FindingAbout(d, n.finding, n.of)
    BY DEF Exchange, Whole, AboutTheirs
  <2> QED
    BY <1>1, <2>1 DEF FileAbout, FindingAbout
<1>4. ASSUME NEW r \in HereNotes(d.notes, e, x)
      PROVE  r \in NoteRow /\ FileAbout(e, r.file, r.of) /\ FindingAbout(e, r.finding, r.of)
  <2>1. PICK n \in x.notes : r = Here(e, x, n)
    BY DEF HereNotes, NewNotes
  <2>2. /\ r = [id |-> n.id, file |-> FileIn(e, x, n.file), finding |-> FindingIn(e, x, n.finding), of |-> n.of]
        /\ r.file = FileIn(e, x, n.file) /\ r.finding = FindingIn(e, x, n.finding) /\ r.of = n.of
    BY <1>2, <2>1, HereIs
  <2>3. FileAbout(x, n.file, n.of) /\ FindingAbout(x, n.finding, n.of)
    BY DEF Exchange, Whole, AboutTheirs
  <2>4. FileAbout(e, r.file, r.of) /\ FileIn(e, x, n.file) \in Nat
    BY <2>2, <2>3, FileFound
  <2>5. FindingAbout(e, r.finding, r.of) /\ FindingIn(e, x, n.finding) \in Nat
    BY <2>2, <2>3, FindingFound
  <2>6. r \in NoteRow
    BY <1>2, <2>2, <2>4, <2>5 DEF NoteRow
  <2> QED
    BY <2>4, <2>5, <2>6
<1> QED
  BY <1>1, <1>2, <1>3, <1>4

\* The seeded Future release of the target gives way to that of the file, unless the two
\* are one.
LEMMA IssuesKept ==
  ASSUME NEW d, NEW x, NEW e, Exchange(d, x, e)
  PROVE  /\ e.issues \subseteq IssueRow /\ OneFuture(e)
         /\ \A i \in e.issues : \E j \in d.issues \cup x.issues : j.id = i.id /\ j.future = i.future
<1> DEFINE N == {ImportedIssue(i) : i \in {j \in x.issues : j.id \notin Ids(Kept(d, x))}}
<1>1. e.issues = Kept(d, x) \cup N /\ Kept(d, x) \subseteq d.issues
  BY DEF Exchange, Imported, Kept
<1>2. d.issues \subseteq IssueRow /\ x.issues \subseteq IssueRow
  BY DEF Exchange, Whole, TablesOK
<1>3. ASSUME NEW r \in N
      PROVE  \E i \in x.issues : /\ r = ImportedIssue(i) /\ r \in IssueRow /\ r.id = i.id /\ r.future = i.future
                                 /\ i.id \notin Ids(Kept(d, x))
  BY <1>2, ImportedIssueIs
<1>4. PICK f \in d.issues : {j \in d.issues : IsFuture(j)} = {f}
  BY DEF Exchange, Whole, OneFuture
<1>5. PICK h \in x.issues : {j \in x.issues : IsFuture(j)} = {h}
  BY DEF Exchange, Whole, OneFuture
<1>6. FutureIds(x) = {h.id}
  BY <1>5 DEF FutureIds
<1>7. f.future /\ h.future
  BY <1>4, <1>5 DEF IsFuture
<1>8. ASSUME f.id = h.id PROVE OneFuture(e)
  <2>1. Rivals(d, x) = {}
    BY <1>4, <1>6, <1>8 DEF Rivals
  <2>2. Kept(d, x) = d.issues
    BY <2>1 DEF Kept
  <2>3. \A r \in N : ~r.future
    <3> SUFFICES ASSUME NEW r \in N, r.future PROVE FALSE
      OBVIOUS
    <3>1. PICK i \in x.issues : i.id \notin Ids(d.issues) /\ r.future = i.future
      BY <1>3, <2>2
    <3>2. i = h
      BY <1>5, <3>1 DEF IsFuture
    <3> QED
      BY <1>8, <3>1, <3>2 DEF Ids
  <2> HIDE DEF N
  <2>4. {j \in e.issues : IsFuture(j)} = {f}
    BY <1>1, <1>4, <2>2, <2>3 DEF IsFuture
  <2> QED
    BY <1>1, <2>2, <2>4 DEF OneFuture
<1>9. ASSUME f.id # h.id PROVE OneFuture(e)
  <2>1. Rivals(d, x) = {f}
    BY <1>4, <1>6, <1>9 DEF Rivals
  <2>2. Kept(d, x) = d.issues \ {f}
    BY <1>6, <2>1 DEF Kept
  <2>3. h.id \notin Ids(Kept(d, x))
    <3> SUFFICES ASSUME NEW j \in d.issues, j # f, j.id = h.id PROVE FALSE
      BY <2>2 DEF Ids
    <3>1. j.future
      BY <1>7 DEF Exchange, Agree
    <3> QED
      BY <1>4, <3>1 DEF IsFuture
  <2> DEFINE k == ImportedIssue(h)
  <2>4. k \in N /\ k.future
    BY <1>2, <1>7, <2>3, ImportedIssueIs
  <2>5. \A r \in N : r.future => r = k
    <3> SUFFICES ASSUME NEW r \in N, r.future PROVE r = k
      OBVIOUS
    <3>1. PICK i \in x.issues : r = ImportedIssue(i) /\ r.future = i.future
      BY <1>3
    <3>2. i = h
      BY <1>5, <3>1 DEF IsFuture
    <3> QED
      BY <3>1, <3>2
  <2> HIDE DEF N, k
  <2>6. {j \in e.issues : IsFuture(j)} = {k}
    BY <1>1, <1>4, <2>2, <2>4, <2>5 DEF IsFuture
  <2> QED
    BY <1>1, <2>4, <2>6 DEF OneFuture
<1>10. e.issues \subseteq IssueRow
  BY <1>1, <1>2, <1>3
<1>11. ASSUME NEW i \in e.issues PROVE \E j \in d.issues \cup x.issues : j.id = i.id /\ j.future = i.future
  BY <1>1, <1>3
<1> QED
  BY <1>8, <1>9, <1>10, <1>11

\* An import of one whole database into another leaves it whole.
LEMMA ImportWhole ==
  ASSUME NEW d, NEW x, NEW e, Exchange(d, x, e)
  PROVE  Whole(e) /\ Descends(e, d, x)
<1>1. IsTables(e)
  BY DEF Exchange, Imported
<1>2. \A v \in e.events : IsEvent(v)
  <2>1. PICK new : /\ e.events = d.events \cup new
                   /\ \A n \in new : \E v \in x.events : SameButId(n, v)
    BY DEF Exchange, Imported, EventsGrow
  <2>2. (\A v \in d.events : IsEvent(v)) /\ (\A v \in x.events : IsEvent(v))
    BY DEF Exchange, Whole, TablesOK
  <2>3. ASSUME NEW n, NEW v, IsEvent(v), SameButId(n, v) PROVE IsEvent(n)
    BY <2>3 DEF IsEvent, SameButId
  <2> QED
    BY <2>1, <2>2, <2>3
<1>3. TablesOK(e)
  BY <1>1, <1>2, IssuesKept, FilesKept, FindingsKept, NotesKept DEF TablesOK
<1>4. IdsName(e)
  BY FilesKept, FindingsKept DEF IdsName
<1>5. AboutTheirs(e)
  BY FindingsKept, NotesKept DEF AboutTheirs
<1>6. OneFuture(e)
  BY IssuesKept
<1>7. Descends(e, d, x)
  BY IssuesKept, FilesKept, FindingsKept DEF Descends
<1> QED
  BY <1>3, <1>4, <1>5, <1>6, <1>7 DEF Whole
-----------------------------------------------------------------------------
(* The writes                                                                    *)

\* A row that somebody has, or a new one with the id drawn last.
IssueKnown(i, t, n) ==
    \/ \E u \in DBs : \E j \in db[u].issues : j.id = i.id /\ j.future = i.future
    \/ i.id = n /\ n > born /\ \A j \in t.issues : j.id = n => j.future = i.future
FileKnown(f, t, n) ==
    \/ \E u \in DBs : \E g \in db[u].files : g.id = f.id /\ g.path = f.path
    \/ f.id = n /\ n > born /\ \A g \in t.files : g.id = n => g.path = f.path
FindingKnown(g, t, n) ==
    \/ \E u \in DBs : \E h \in db[u].findings : h.id = g.id /\ h.of = g.of
    \/ g.id = n /\ n > born /\ \A h \in t.findings : h.id = n => h.of = g.of
Traced(t, n) ==
    /\ \A i \in t.issues : IssueKnown(i, t, n)
    /\ \A f \in t.files : FileKnown(f, t, n)
    /\ \A g \in t.findings : FindingKnown(g, t, n)

\* Tables made of known rows and one new id agree with every database.
LEMMA KnownAgrees ==
  ASSUME TransferInv, NEW t, NEW n \in {born, born + 1}, Traced(t, n)
  PROVE  /\ IdsUpTo(t, n) /\ Agree(t, t)
         /\ \A u \in DBs : Agree(t, db[u]) /\ Agree(db[u], t)
<1>1. born \in Nat /\ n \in Nat /\ born =< n
  BY DEF TransferInv
<1>2. \A u \in DBs : /\ \A i \in db[u].issues : i.id \in Nat /\ i.id =< born
                     /\ \A f \in db[u].files : f.id \in Nat /\ f.id =< born
                     /\ \A g \in db[u].findings : g.id \in Nat /\ g.id =< born
  BY DEF TransferInv, Whole, TablesOK, IssueRow, FileRow, FindingRow, IdsUpTo
<1>3. \A u, v \in DBs :
         /\ \A i \in db[u].issues, j \in db[v].issues : i.id = j.id => i.future = j.future
         /\ \A f \in db[u].files, g \in db[v].files : f.id = g.id => f.path = g.path
         /\ \A g \in db[u].findings, h \in db[v].findings : g.id = h.id => g.of = h.of
  BY DEF TransferInv, Agree
<1>4. IdsUpTo(t, n)
  BY <1>1, <1>2 DEF Traced, IssueKnown, FileKnown, FindingKnown, IdsUpTo
<1>5. \A u \in DBs : \A i \in t.issues, j \in db[u].issues : i.id = j.id => i.future = j.future
  BY <1>1, <1>2, <1>3 DEF Traced, IssueKnown
<1>6. \A u \in DBs : \A f \in t.files, g \in db[u].files : f.id = g.id => f.path = g.path
  BY <1>1, <1>2, <1>3 DEF Traced, FileKnown
<1>7. \A u \in DBs : \A g \in t.findings, h \in db[u].findings : g.id = h.id => g.of = h.of
  BY <1>1, <1>2, <1>3 DEF Traced, FindingKnown
<1>8. \A i, j \in t.issues : i.id = j.id => i.future = j.future
  BY <1>1, <1>2, <1>3, <1>5 DEF Traced, IssueKnown
<1>9. \A f, g \in t.files : f.id = g.id => f.path = g.path
  BY <1>1, <1>2, <1>3, <1>6 DEF Traced, FileKnown
<1>10. \A g, h \in t.findings : g.id = h.id => g.of = h.of
  BY <1>1, <1>2, <1>3, <1>7 DEF Traced, FindingKnown
<1> QED
  BY <1>4, <1>5, <1>6, <1>7, <1>8, <1>9, <1>10 DEF Agree

\* A write of whole tables with known rows keeps the invariant.
LEMMA WriteKeeps ==
  ASSUME TransferInv, NEW d \in DBs, NEW t, NEW n \in {born, born + 1},
         Becomes(d, t), born' = n, Whole(t), Traced(t, n)
  PROVE  TransferInv'
<1>1. db' = [db EXCEPT ![d] = t] /\ db = [u \in DBs |-> db[u]]
  BY DEF Becomes, TransferInv
<1>2. db' = [u \in DBs |-> db'[u]] /\ db'[d] = t /\ \A u \in DBs \ {d} : db'[u] = db[u]
  BY <1>1
<1>3. born' \in Nat /\ born =< born' /\ born \in Nat
  BY DEF TransferInv
<1>4. ASSUME NEW u \in DBs PROVE Whole(db'[u]) /\ IdsUpTo(db'[u], born')
  <2>1. CASE u = d
    BY <1>2, <2>1, KnownAgrees
  <2>2. CASE u # d
    <3>1. Whole(db[u]) /\ IdsUpTo(db[u], born)
      BY DEF TransferInv
    <3>2. IdsUpTo(db[u], born')
      BY <1>3, <3>1 DEF IdsUpTo, Whole, TablesOK, IssueRow, FileRow, FindingRow
    <3> QED
      BY <1>2, <2>2, <3>1, <3>2
  <2> QED
    BY <2>1, <2>2
<1>5. ASSUME NEW u \in DBs, NEW v \in DBs PROVE Agree(db'[u], db'[v])
  <2>1. Agree(t, t) /\ Agree(t, db[v]) /\ Agree(db[u], t)
    BY KnownAgrees
  <2>2. Agree(db[u], db[v])
    BY DEF TransferInv
  <2> QED
    BY <1>2, <2>1, <2>2
<1>6. \A u \in DBs : Whole(db[u])' /\ IdsUpTo(db[u], born)'
  BY <1>4 DEF Whole, TablesOK, IsTables, IsEvent, IdsName, AboutTheirs, FileAbout, FindingAbout, OneFuture, IdsUpTo
<1>7. \A u, v \in DBs : Agree(db[u], db[v])'
  BY <1>5 DEF Agree
<1> QED
  BY <1>2, <1>3, <1>6, <1>7 DEF TransferInv

\* The rows that are there are known.
LEMMA OldKnown ==
  ASSUME TransferInv, NEW d \in DBs, NEW t, NEW n
  PROVE  /\ \A i \in db[d].issues : IssueKnown(i, t, n)
         /\ \A f \in db[d].files : FileKnown(f, t, n)
         /\ \A g \in db[d].findings : FindingKnown(g, t, n)
BY DEF IssueKnown, FileKnown, FindingKnown

\* An import keeps the invariant: its rows are known, and it leaves whole tables.
LEMMA TransferredKeeps ==
  ASSUME TransferInv, NEW from \in DBs, NEW to \in DBs, NEW merge \in BOOLEAN,
         Transferred(from, to, merge)
  PROVE  TransferInv'
<1>1. Whole(db[from]) /\ Whole(db[to]) /\ IsTables(db[to])
  BY DEF TransferInv, Whole, TablesOK
<1>2. PICK e : ImportJsonl(db[to], db[from], merge) = Done(e) /\ Imported(db[to], db[from], e)
  <2>1. ImportJsonl(db[to], db[from], merge).ok
    BY DEF Transferred
  <2> QED
    BY <1>1, <2>1, ImportGives
<1>3. Becomes(to, e) /\ born' = born
  <2>1. Done(e).db = e
    BY DEF Done
  <2> QED
    BY <1>2, <2>1 DEF Transferred
<1>4. Exchange(db[to], db[from], e)
  BY <1>1, <1>2 DEF Exchange, TransferInv
<1>5. Whole(e) /\ Descends(e, db[to], db[from])
  BY <1>4, ImportWhole
<1>6. Traced(e, born)
  BY <1>5 DEF Descends, Traced, IssueKnown, FileKnown, FindingKnown
<1> QED
  BY <1>3, <1>5, <1>6, WriteKeeps
\* The tables of a database after one of them is written.
LEMMA TablesAfter ==
  ASSUME NEW r, IsTables(r), NEW N
  PROVE  /\ [r EXCEPT !.issues = N] = [issues |-> N, files |-> r.files, findings |-> r.findings,
                                      notes |-> r.notes, events |-> r.events, annexes |-> r.annexes]
         /\ [r EXCEPT !.files = N] = [issues |-> r.issues, files |-> N, findings |-> r.findings,
                                      notes |-> r.notes, events |-> r.events, annexes |-> r.annexes]
         /\ [r EXCEPT !.findings = N] = [issues |-> r.issues, files |-> r.files, findings |-> N,
                                      notes |-> r.notes, events |-> r.events, annexes |-> r.annexes]
         /\ [r EXCEPT !.notes = N] = [issues |-> r.issues, files |-> r.files, findings |-> r.findings,
                                      notes |-> N, events |-> r.events, annexes |-> r.annexes]
         /\ [r EXCEPT !.annexes = N] = [issues |-> r.issues, files |-> r.files, findings |-> r.findings,
                                      notes |-> r.notes, events |-> r.events, annexes |-> N]
<1>1. r = [issues |-> r.issues, files |-> r.files, findings |-> r.findings,
           notes |-> r.notes, events |-> r.events, annexes |-> r.annexes]
  BY DEF IsTables
<1> QED
  BY <1>1

\* An id drawn is nobody's yet.
LEMMA DrawnIsNew ==
  ASSUME TransferInv, Drawn
  PROVE  /\ born' = born + 1 /\ born' \in {born, born + 1} /\ born' \in Nat /\ born' > born
         /\ \A d \in DBs : /\ \A i \in db[d].issues : i.id \in Nat /\ i.id < born'
                           /\ \A f \in db[d].files : f.id \in Nat /\ f.id < born'
                           /\ \A g \in db[d].findings : g.id \in Nat /\ g.id < born'
<1>1. born \in Nat /\ born' = born + 1
  BY DEF Drawn, TransferInv
<1>2. \A d \in DBs : /\ \A i \in db[d].issues : i.id \in Nat /\ i.id =< born
                     /\ \A f \in db[d].files : f.id \in Nat /\ f.id =< born
                     /\ \A g \in db[d].findings : g.id \in Nat /\ g.id =< born
  BY DEF TransferInv, Whole, TablesOK, IssueRow, FileRow, FindingRow, IdsUpTo
<1> QED
  BY <1>1, <1>2

\* The ordinary writes keep the invariant.
LEMMA CreateIssueKeeps ==
  ASSUME TransferInv, NEW d \in DBs, CreateIssue(d)
  PROVE  TransferInv'
<1> DEFINE r == db[d]
           new == [id |-> born', future |-> FALSE, held |-> FALSE, lease |-> FALSE]
           N == r.issues \cup {new}
           t == [r EXCEPT !.issues = N]
<1>1. Whole(r) /\ IsTables(r)
  BY DEF TransferInv, Whole, TablesOK
<1>2. Drawn /\ Becomes(d, t)
  BY DEF CreateIssue
<1>3. /\ IsTables(t) /\ t.issues = N /\ t.files = r.files /\ t.findings = r.findings
      /\ t.notes = r.notes /\ t.events = r.events /\ t.annexes = r.annexes
  <2> HIDE DEF r, N
  <2> QED
    BY <1>1, TablesAfter DEF IsTables
<1>4. /\ born' \in {born, born + 1} /\ born' > born /\ born' \in Nat
      /\ \A i \in r.issues : i.id \in Nat /\ i.id < born'
  BY <1>2, DrawnIsNew
<1>5. new \in IssueRow /\ new.id = born' /\ new.future = FALSE /\ N = r.issues \cup {new}
  BY <1>4 DEF IssueRow
<1> HIDE DEF t, N, new
<1>6. TablesOK(t)
  BY <1>1, <1>3, <1>5 DEF Whole, TablesOK
<1>7. OneFuture(t)
  <2>1. PICK i \in r.issues : {j \in r.issues : IsFuture(j)} = {i}
    BY <1>1 DEF Whole, OneFuture
  <2>2. {j \in N : IsFuture(j)} = {i} /\ i \in N
    BY <2>1, <1>5 DEF IsFuture
  <2> QED
    BY <2>2, <1>3 DEF OneFuture
<1>8. Whole(t)
  BY <1>1, <1>3, <1>6, <1>7 DEF Whole, IdsName, AboutTheirs, FileAbout, FindingAbout
<1>9. IssueKnown(new, t, born')
  BY <1>3, <1>4, <1>5 DEF IssueKnown
<1>10. Traced(t, born')
  BY <1>3, <1>5, <1>9, OldKnown DEF Traced
<1> QED
  BY <1>2, <1>4, <1>8, <1>10, WriteKeeps

LEMMA LabelIssueKeeps ==
  ASSUME TransferInv, NEW d \in DBs, LabelIssue(d)
  PROVE  TransferInv'
<1> DEFINE r == db[d]
<1>1. Whole(r) /\ IsTables(r) /\ born \in Nat
  BY DEF TransferInv, Whole, TablesOK
<1>2. PICK i \in r.issues : Becomes(d, [r EXCEPT !.annexes = r.annexes \cup {i.id}]) /\ born' = born
  BY DEF LabelIssue
<1> DEFINE N == r.annexes \cup {i.id}
           t == [r EXCEPT !.annexes = N]
<1>3. /\ IsTables(t) /\ t.issues = r.issues /\ t.files = r.files /\ t.findings = r.findings
      /\ t.notes = r.notes /\ t.events = r.events
  <2> HIDE DEF r, N
  <2> QED
    BY <1>1, TablesAfter DEF IsTables
<1>4. Becomes(d, t)
  BY <1>2
<1> HIDE DEF t
<1>5. Whole(t)
  BY <1>1, <1>3 DEF Whole, TablesOK, IdsName, AboutTheirs, FileAbout, FindingAbout, OneFuture
<1>6. Traced(t, born)
  BY <1>3, OldKnown DEF Traced
<1> QED
  BY <1>2, <1>4, <1>5, <1>6, WriteKeeps

LEMMA RegisterFileKeeps ==
  ASSUME TransferInv, NEW d \in DBs, NEW p \in Paths, RegisterFile(d, p)
  PROVE  TransferInv'
<1> DEFINE r == db[d]
           new == [id |-> born', path |-> p]
           N == r.files \cup {new}
           t == [r EXCEPT !.files = N]
<1>1. Whole(r) /\ IsTables(r)
  BY DEF TransferInv, Whole, TablesOK
<1>2. Drawn /\ Becomes(d, t) /\ ~\E f \in r.files : f.path = p
  BY DEF RegisterFile
<1>3. /\ IsTables(t) /\ t.issues = r.issues /\ t.files = N /\ t.findings = r.findings
      /\ t.notes = r.notes /\ t.events = r.events /\ t.annexes = r.annexes
  <2> HIDE DEF r, N
  <2> QED
    BY <1>1, TablesAfter DEF IsTables
<1>4. /\ born' \in {born, born + 1} /\ born' > born /\ born' \in Nat
      /\ \A f \in r.files : f.id \in Nat /\ f.id < born'
  BY <1>2, DrawnIsNew
<1>5. new \in FileRow /\ new.id = born' /\ new.path = p /\ N = r.files \cup {new}
  BY <1>4 DEF FileRow
<1> HIDE DEF t, N, new
<1>6. TablesOK(t)
  BY <1>1, <1>3, <1>5 DEF Whole, TablesOK
<1>7. IdsName(t)
  BY <1>1, <1>2, <1>3, <1>5 DEF Whole, IdsName
<1>8. AboutTheirs(t)
  <2>1. \A id, of : (FileAbout(r, id, of) => FileAbout(t, id, of))
                    /\ (FindingAbout(r, id, of) => FindingAbout(t, id, of))
    BY <1>3, <1>5 DEF FileAbout, FindingAbout
  <2> QED
    BY <2>1, <1>1, <1>3 DEF Whole, AboutTheirs
<1>9. Whole(t)
  BY <1>1, <1>3, <1>6, <1>7, <1>8 DEF Whole, OneFuture
<1>10. FileKnown(new, t, born')
  BY <1>3, <1>4, <1>5 DEF FileKnown
<1>11. Traced(t, born')
  BY <1>3, <1>5, <1>10, OldKnown DEF Traced
<1> QED
  BY <1>2, <1>4, <1>9, <1>11, WriteKeeps

LEMMA ReportFindingKeeps ==
  ASSUME TransferInv, NEW d \in DBs, NEW f \in db[d].files, NEW print \in Prints \cup {NoPrint},
         ReportFinding(d, f, print)
  PROVE  TransferInv'
<1> DEFINE r == db[d]
           new == [id |-> born', file |-> f.id, print |-> print, of |-> f.path]
           N == r.findings \cup {new}
           t == [r EXCEPT !.findings = N]
<1>1. Whole(r) /\ IsTables(r) /\ f.id \in Nat /\ f.path \in Paths /\ f \in r.files
  BY DEF TransferInv, Whole, TablesOK, FileRow
<1>2. Drawn /\ Becomes(d, t)
  BY DEF ReportFinding
<1>3. /\ IsTables(t) /\ t.issues = r.issues /\ t.files = r.files /\ t.findings = N
      /\ t.notes = r.notes /\ t.events = r.events /\ t.annexes = r.annexes
  <2> HIDE DEF r, N
  <2> QED
    BY <1>1, TablesAfter DEF IsTables
<1>4. /\ born' \in {born, born + 1} /\ born' > born /\ born' \in Nat
      /\ \A g \in r.findings : g.id \in Nat /\ g.id < born'
  BY <1>2, DrawnIsNew
<1>5. /\ new \in FindingRow /\ new.id = born' /\ new.file = f.id /\ new.of = f.path
      /\ N = r.findings \cup {new}
  BY <1>1, <1>4 DEF FindingRow
<1> HIDE DEF t, N, new
<1>6. TablesOK(t)
  BY <1>1, <1>3, <1>5 DEF Whole, TablesOK
<1>7. IdsName(t)
  BY <1>1, <1>3, <1>4, <1>5 DEF Whole, IdsName
<1>8. AboutTheirs(t)
  <2>1. \A id, of : (FileAbout(r, id, of) => FileAbout(t, id, of))
                    /\ (FindingAbout(r, id, of) => FindingAbout(t, id, of))
    BY <1>3, <1>5 DEF FileAbout, FindingAbout
  <2>2. FileAbout(t, new.file, new.of)
    BY <1>1, <1>3, <1>5 DEF FileAbout
  <2> QED
    BY <2>1, <2>2, <1>1, <1>3, <1>5 DEF Whole, AboutTheirs
<1>9. Whole(t)
  BY <1>1, <1>3, <1>6, <1>7, <1>8 DEF Whole, OneFuture
<1>10. FindingKnown(new, t, born')
  BY <1>3, <1>4, <1>5 DEF FindingKnown
<1>11. Traced(t, born')
  BY <1>3, <1>5, <1>10, OldKnown DEF Traced
<1> QED
  BY <1>2, <1>4, <1>9, <1>11, WriteKeeps

LEMMA NoteFindingKeeps ==
  ASSUME TransferInv, NEW d \in DBs, NEW g \in db[d].findings, NoteFinding(d, g)
  PROVE  TransferInv'
<1> DEFINE r == db[d]
           new == [id |-> born', file |-> g.file, finding |-> g.id, of |-> g.of]
           N == r.notes \cup {new}
           t == [r EXCEPT !.notes = N]
<1>1. Whole(r) /\ IsTables(r) /\ g \in FindingRow /\ g \in r.findings
  BY DEF TransferInv, Whole, TablesOK
<1>2. Drawn /\ Becomes(d, t)
  BY DEF NoteFinding
<1>3. /\ IsTables(t) /\ t.issues = r.issues /\ t.files = r.files /\ t.findings = r.findings
      /\ t.notes = N /\ t.events = r.events /\ t.annexes = r.annexes
  <2> HIDE DEF r, N
  <2> QED
    BY <1>1, TablesAfter DEF IsTables
<1>4. born' \in {born, born + 1} /\ born' \in Nat
  BY <1>2, DrawnIsNew
<1>5. /\ new \in NoteRow /\ new.file = g.file /\ new.finding = g.id /\ new.of = g.of
      /\ N = r.notes \cup {new}
  BY <1>1, <1>4 DEF NoteRow, FindingRow
<1> HIDE DEF t, N, new
<1>6. TablesOK(t)
  BY <1>1, <1>3, <1>5 DEF Whole, TablesOK
<1>7. AboutTheirs(t)
  <2>1. \A id, of : (FileAbout(r, id, of) => FileAbout(t, id, of))
                    /\ (FindingAbout(r, id, of) => FindingAbout(t, id, of))
    BY <1>3 DEF FileAbout, FindingAbout
  <2>2. FileAbout(r, new.file, new.of) /\ FindingAbout(r, new.finding, new.of)
    BY <1>1, <1>5 DEF Whole, AboutTheirs, FindingAbout
  <2> QED
    BY <2>1, <2>2, <1>1, <1>3, <1>5 DEF Whole, AboutTheirs
<1>8. Whole(t)
  BY <1>1, <1>3, <1>6, <1>7 DEF Whole, IdsName, OneFuture
<1>9. Traced(t, born')
  BY <1>3, OldKnown DEF Traced
<1> QED
  BY <1>2, <1>4, <1>8, <1>9, WriteKeeps
\* The issues are the same but for what a claim changes.
SameIssues(N, rows) ==
    /\ N \subseteq IssueRow
    /\ \A j \in N : \E k \in rows : k.id = j.id /\ k.future = j.future
    /\ \E i \in N : {j \in N : IsFuture(j)} = {i}

\* The tables after issues and events are written.
LEMMA TwoTablesAfter ==
  ASSUME NEW r, IsTables(r), NEW N, NEW V
  PROVE  [r EXCEPT !.issues = N, !.events = V] =
            [issues |-> N, files |-> r.files, findings |-> r.findings,
             notes |-> r.notes, events |-> V, annexes |-> r.annexes]
<1> DEFINE u == [r EXCEPT !.issues = N]
<1>1. u = [issues |-> N, files |-> r.files, findings |-> r.findings,
           notes |-> r.notes, events |-> r.events, annexes |-> r.annexes]
  BY TablesAfter
<1>2. [r EXCEPT !.issues = N, !.events = V] = [u EXCEPT !.events = V]
  OBVIOUS
<1> HIDE DEF u
<1>3. [u EXCEPT !.events = V] = [issues |-> N, files |-> r.files, findings |-> r.findings,
                                notes |-> r.notes, events |-> V, annexes |-> r.annexes]
  BY <1>1
<1> QED
  BY <1>2, <1>3

\* A claim or its undo keeps the invariant.
LEMMA IssuesWritten ==
  ASSUME TransferInv, NEW d \in DBs, NEW N, NEW v, Drawn, IsEvent(v),
         SameIssues(N, db[d].issues),
         Becomes(d, [db[d] EXCEPT !.issues = N, !.events = db[d].events \cup {v}])
  PROVE  TransferInv'
<1> DEFINE r == db[d]
           V == r.events \cup {v}
           m == [r EXCEPT !.issues = N, !.events = V]
<1>1. Whole(r) /\ IsTables(r)
  BY DEF TransferInv, Whole, TablesOK
<1>2. Becomes(d, m)
  OBVIOUS
<1>3. /\ IsTables(m) /\ m.issues = N /\ m.files = r.files /\ m.findings = r.findings
      /\ m.notes = r.notes /\ m.events = V /\ m.annexes = r.annexes
  <2> HIDE DEF r, V
  <2>1. m = [issues |-> N, files |-> r.files, findings |-> r.findings,
             notes |-> r.notes, events |-> V, annexes |-> r.annexes]
    BY <1>1, TwoTablesAfter
  <2> HIDE DEF m
  <2> QED
    BY <2>1 DEF IsTables
<1>4. born' \in {born, born + 1}
  BY DrawnIsNew
<1>5. V = r.events \cup {v}
  OBVIOUS
<1> HIDE DEF m, V
<1>6. TablesOK(m)
  BY <1>1, <1>3, <1>5 DEF Whole, TablesOK, SameIssues
<1>7. OneFuture(m)
  BY <1>3 DEF OneFuture, SameIssues
<1>8. Whole(m)
  BY <1>1, <1>3, <1>6, <1>7 DEF Whole, IdsName, AboutTheirs, FileAbout, FindingAbout
<1>9. ASSUME NEW i \in N PROVE IssueKnown(i, m, born')
  BY <1>9 DEF SameIssues, IssueKnown
<1>10. Traced(m, born')
  BY <1>3, <1>9, OldKnown DEF Traced
<1> QED
  BY <1>2, <1>4, <1>8, <1>10, WriteKeeps

LEMMA ChangeIssueKeeps ==
  ASSUME TransferInv, NEW d \in DBs, ChangeIssue(d)
  PROVE  TransferInv'
<1> DEFINE rows == db[d].issues
<1>1. PICK i \in rows :
        /\ Drawn
        /\ Becomes(d, [db[d] EXCEPT
              !.issues = (rows \ {i}) \cup {[i EXCEPT !.held = TRUE, !.lease = TRUE]},
              !.events = db[d].events \cup {[id |-> NewerId(db[d].events), issue |-> i.id, key |-> born', undoes |-> 0]}])
  BY DEF ChangeIssue
<1> DEFINE c == [i EXCEPT !.held = TRUE, !.lease = TRUE]
           N == (rows \ {i}) \cup {c}
           v == [id |-> NewerId(db[d].events), issue |-> i.id, key |-> born', undoes |-> 0]
<1>2. IsEvent(v)
  BY DEF IsEvent
<1>3. rows \subseteq IssueRow /\ \E k \in rows : {j \in rows : IsFuture(j)} = {k}
  BY DEF TransferInv, Whole, TablesOK, OneFuture
<1>4. c \in IssueRow /\ c.id = i.id /\ c.future = i.future /\ N = (rows \ {i}) \cup {c}
  BY <1>3 DEF IssueRow
<1>5. Becomes(d, [db[d] EXCEPT !.issues = N, !.events = db[d].events \cup {v}])
  BY <1>1
<1> HIDE DEF c, N, v, rows
<1>6. \E k \in N : {j \in N : IsFuture(j)} = {k}
  <2>1. PICK k \in rows : {j \in rows : IsFuture(j)} = {k}
    BY <1>3
  <2>2. CASE k = i
    <3>1. {j \in N : IsFuture(j)} = {c} /\ c \in N
      BY <2>1, <2>2, <1>4 DEF IsFuture
    <3> QED
      BY <3>1
  <2>3. CASE k # i
    <3>1. {j \in N : IsFuture(j)} = {k} /\ k \in N
      BY <2>1, <2>3, <1>1, <1>4 DEF IsFuture
    <3> QED
      BY <3>1
  <2> QED
    BY <2>2, <2>3
<1>7. SameIssues(N, rows)
  BY <1>3, <1>4, <1>6 DEF SameIssues
<1> QED
  BY <1>1, <1>2, <1>5, <1>7, IssuesWritten DEF rows

LEMMA UndoChangeKeeps ==
  ASSUME TransferInv, NEW d \in DBs, UndoChange(d)
  PROVE  TransferInv'
<1> DEFINE rows == db[d].issues
           Freed(e, i) == IF i.id = e.issue THEN [i EXCEPT !.held = FALSE, !.lease = FALSE] ELSE i
<1>1. PICK e \in db[d].events :
        /\ Drawn
        /\ Becomes(d, [db[d] EXCEPT
              !.issues = {Freed(e, i) : i \in rows},
              !.events = db[d].events \cup {[id |-> NewerId(db[d].events), issue |-> e.issue, key |-> born', undoes |-> e.id]}])
  BY DEF UndoChange
<1> DEFINE N == {Freed(e, i) : i \in rows}
           v == [id |-> NewerId(db[d].events), issue |-> e.issue, key |-> born', undoes |-> e.id]
<1>2. IsEvent(v)
  BY DEF IsEvent
<1>3. rows \subseteq IssueRow /\ \E k \in rows : {j \in rows : IsFuture(j)} = {k}
  BY DEF TransferInv, Whole, TablesOK, OneFuture
<1>4. \A i \in rows : Freed(e, i) \in IssueRow /\ Freed(e, i).id = i.id /\ Freed(e, i).future = i.future
  BY <1>3 DEF IssueRow
<1>5. Becomes(d, [db[d] EXCEPT !.issues = N, !.events = db[d].events \cup {v}])
  BY <1>1
<1>6. N = {Freed(e, i) : i \in rows}
  OBVIOUS
<1> HIDE DEF Freed, N, v, rows
<1>7. \E k \in N : {j \in N : IsFuture(j)} = {k}
  <2>1. PICK k \in rows : {j \in rows : IsFuture(j)} = {k}
    BY <1>3
  <2>2. {j \in N : IsFuture(j)} = {Freed(e, k)} /\ Freed(e, k) \in N
    BY <2>1, <1>4, <1>6 DEF IsFuture
  <2> QED
    BY <2>2
<1>8. SameIssues(N, rows)
  BY <1>4, <1>6, <1>7 DEF SameIssues
<1> QED
  BY <1>1, <1>2, <1>5, <1>8, IssuesWritten DEF rows

LEMMA TransferStarts ==
  ASSUME TransferInit
  PROVE  TransferInv
<1>1. PICK f \in [DBs -> 1..Cardinality(DBs)] : db = [d \in DBs |-> Seeded(f[d])]
  BY DEF TransferInit
<1>2. born = Cardinality(DBs) /\ Cardinality(DBs) \in Nat
  BY TransferAssumption, FS_CardinalityType DEF TransferInit
<1>3. ASSUME NEW n \in 1..Cardinality(DBs)
      PROVE  Whole(Seeded(n)) /\ IdsUpTo(Seeded(n), born)
  <2> DEFINE i == [id |-> n, future |-> TRUE, held |-> FALSE, lease |-> FALSE]
             t == Seeded(n)
  <2>1. /\ IsTables(t) /\ t.issues = {i} /\ t.files = {} /\ t.findings = {} /\ t.notes = {} /\ t.events = {}
    BY DEF Seeded, IsTables
  <2>2. i \in IssueRow /\ i.id = n /\ n =< born /\ i.future
    BY <1>2 DEF IssueRow
  <2> HIDE DEF i, t
  <2>3. TablesOK(t) /\ IdsName(t) /\ AboutTheirs(t) /\ IdsUpTo(t, born)
    BY <2>1, <2>2 DEF TablesOK, IdsName, AboutTheirs, IdsUpTo
  <2>4. OneFuture(t)
    BY <2>1, <2>2 DEF OneFuture, IsFuture
  <2> QED
    BY <2>3, <2>4 DEF Whole, t
<1>4. ASSUME NEW n, NEW m PROVE Agree(Seeded(n), Seeded(m))
  <2>1. ASSUME NEW k
        PROVE  Seeded(k).files = {} /\ Seeded(k).findings = {} /\ \A i \in Seeded(k).issues : i.future = TRUE
    BY DEF Seeded
  <2> QED
    BY <2>1 DEF Agree
<1>5. \A d \in DBs : db[d] = Seeded(f[d]) /\ f[d] \in 1..Cardinality(DBs)
  BY <1>1
<1>6. db = [d \in DBs |-> db[d]]
  BY <1>1
<1> QED
  BY <1>2, <1>3, <1>4, <1>5, <1>6 DEF TransferInv

LEMMA TransferStep ==
  ASSUME TransferInv, [TransferNext]_transferVars
  PROVE  TransferInv'
<1>1. CASE UNCHANGED transferVars
  BY <1>1 DEF transferVars, TransferInv, Whole, TablesOK, IsTables, IsEvent, IdsName, AboutTheirs,
              FileAbout, FindingAbout, OneFuture, IdsUpTo, Agree
<1>2. ASSUME NEW d \in DBs, CreateIssue(d) PROVE TransferInv'
  BY <1>2, CreateIssueKeeps
<1>3. ASSUME NEW d \in DBs, ChangeIssue(d) PROVE TransferInv'
  BY <1>3, ChangeIssueKeeps
<1>4. ASSUME NEW d \in DBs, UndoChange(d) PROVE TransferInv'
  BY <1>4, UndoChangeKeeps
<1>5. ASSUME NEW d \in DBs, LabelIssue(d) PROVE TransferInv'
  BY <1>5, LabelIssueKeeps
<1>6. ASSUME NEW d \in DBs, NEW p \in Paths, RegisterFile(d, p) PROVE TransferInv'
  BY <1>6, RegisterFileKeeps
<1>7. ASSUME NEW d \in DBs, NEW f \in db[d].files, NEW print \in Prints \cup {NoPrint},
             ReportFinding(d, f, print)
      PROVE  TransferInv'
  BY <1>7, ReportFindingKeeps
<1>8. ASSUME NEW d \in DBs, NEW g \in db[d].findings, NoteFinding(d, g) PROVE TransferInv'
  BY <1>8, NoteFindingKeeps
<1>9. ASSUME NEW from \in DBs, NEW to \in DBs, NEW merge \in BOOLEAN, Transferred(from, to, merge)
      PROVE  TransferInv'
  BY <1>9, TransferredKeeps
<1> QED
  BY <1>1, <1>2, <1>3, <1>4, <1>5, <1>6, <1>7, <1>8, <1>9 DEF TransferNext

\* The property follows: a row named by its id is about what it was, and an
\* import repeated finds everything there.
LEMMA TransferHolds ==
  ASSUME TransferInv
  PROVE  MergesSettle
<1>1. ASSUME NEW d \in DBs, NEW g \in db[d].findings
      PROVE  g.file \in Ids(db[d].files) /\ PathOf(db[d], g.file) = g.of
  <2>1. PICK f \in db[d].files : f.id = g.file /\ f.path = g.of
    BY DEF TransferInv, Whole, AboutTheirs, FileAbout
  <2>2. \A h \in db[d].files : h.id = f.id => h.path = f.path
    BY DEF TransferInv, Agree
  <2> QED
    BY <2>1, <2>2 DEF PathOf, RowOf, Ids
<1>2. ASSUME NEW d \in DBs, NEW n \in db[d].notes
      PROVE  /\ n.file \in Ids(db[d].files) /\ PathOf(db[d], n.file) = n.of
             /\ n.finding \in Ids(db[d].findings) /\ RowOf(db[d].findings, n.finding).of = n.of
  <2>1. PICK f \in db[d].files : f.id = n.file /\ f.path = n.of
    BY DEF TransferInv, Whole, AboutTheirs, FileAbout
  <2>2. \A h \in db[d].files : h.id = f.id => h.path = f.path
    BY DEF TransferInv, Agree
  <2>3. PICK g \in db[d].findings : g.id = n.finding /\ g.of = n.of
    BY DEF TransferInv, Whole, AboutTheirs, FindingAbout
  <2>4. \A h \in db[d].findings : h.id = g.id => h.of = g.of
    BY DEF TransferInv, Agree
  <2> QED
    BY <2>1, <2>2, <2>3, <2>4 DEF PathOf, RowOf, Ids
<1>3. ASSUME NEW d \in DBs PROVE Cardinality({i \in db[d].issues : IsFuture(i)}) = 1
  BY FS_Singleton DEF TransferInv, Whole, OneFuture
<1>4. ImportsKeepTheirSubject
  BY <1>1, <1>2, <1>3 DEF ImportsKeepTheirSubject
<1>5. ASSUME NEW from \in DBs, NEW to \in DBs, ImportJsonl(db[to], db[from], TRUE).ok
      PROVE  ImportJsonl(ImportJsonl(db[to], db[from], TRUE).db, db[from], TRUE)
                = ImportJsonl(db[to], db[from], TRUE)
  <2>1. IsTables(db[to]) /\ TablesOK(db[from]) /\ Agree(db[from], db[from])
    BY DEF TransferInv, Whole, TablesOK
  <2>2. PICK e : ImportJsonl(db[to], db[from], TRUE) = Done(e) /\ Imported(db[to], db[from], e)
    BY <2>1, <1>5, ImportGives
  <2>3. Done(e).db = e
    BY DEF Done
  <2>4. ImportJsonl(e, db[from], TRUE) = Done(e)
    BY <2>1, <2>2, ImportedAgain
  <2> QED
    BY <2>2, <2>3, <2>4
<1>6. MergesOnce
  BY <1>5 DEF MergesOnce
<1> QED
  BY <1>4, <1>6 DEF MergesSettle

\* However many databases, ids and imports: findings and notes stay about the file and
\* the finding they were written for, every database has one Future release, and merging
\* an export a second time changes nothing (import_jsonl, its id maps, OR IGNORE).
THEOREM MergesAlwaysSettle == TransferSpec => []MergesSettle
<1>1. TransferInit => TransferInv
  BY TransferStarts
<1>2. TransferInv /\ [TransferNext]_transferVars => TransferInv'
  BY TransferStep
<1>3. TransferInv => MergesSettle
  BY TransferHolds
<1> QED
  BY <1>1, <1>2, <1>3, PTL DEF TransferSpec
===============================================================================
