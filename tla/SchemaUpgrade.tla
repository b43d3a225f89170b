---------------------------- MODULE SchemaUpgrade ----------------------------
(***************************************************************************)
(* Opening a project database (FiligreeDB.initialize): the file is         *)
(* classified by application_id and user_version, then created, upgraded   *)
(* one hop at a time, or used as it is.  A hop is one transaction with its *)
(* own version stamp; what lies between two hops, and between the          *)
(* classification and the first of them, is open to other processes.       *)
(***************************************************************************)
EXTENDS Naturals, FiniteSets, Sequences, TLC

CONSTANTS
    Openers,     \* the processes that open the database
    FirstSeen,   \* the versions that a database may have at the start; 0: no database
    Contents     \* the contents an entity binding may be attached at

CurrentVersion == 29

\* A file that a newer program wrote is refused, and not modelled.
ASSUME FirstSeenAssumption == FirstSeen \subseteq 0..CurrentVersion

VARIABLES
    stamp,     \* PRAGMA user_version
    appId,     \* PRAGMA application_id is filigree's
    schema,    \* the tables, columns and constraints of the file
    opener,    \* per process: what it does, and the version its loop is at
    binding    \* one governed entity association

schemaVars == <<stamp, appId, schema, opener, binding>>

(***************************************************************************)
(* What each hop adds.  The hops that only make indexes add nothing here.  *)
(***************************************************************************)
SchemaV1 ==
    {"issues", "dependencies", "events", "comments", "labels", "type_templates", "packs",
     "issues_fts"}
ToV2 == {"file_records", "scan_findings", "file_associations"}
ToV3 == {"scan_findings.suggestion", "scan_findings.scan_run_id"}
ToV4 == {"file_events"}
ToV5 == {}    \* release versions rewritten in place
ToV6 == {"issues.parent_id.set_null"}
ToV7 == {"observations", "dismissed_observations"}
ToV8 == {"scan_runs"}
ToV9 == {}
ToV10 ==
    {"annotations", "annotation_provenance", "annotation_links", "annotation_events",
     "annotation_closeout_acknowledgements"}
ToV11 == {"issues.claimed_at", "issues.last_heartbeat_at", "issues.claim_expires_at"}
ToV12 == {"observations.source_finding_id"}
ToV13 == {"observation_links"}
ToV14 ==
    {"file_records.created_by", "file_records.updated_by", "scan_findings.created_by",
     "scan_findings.updated_by", "file_associations.actor", "file_events.actor"}
ToV15 == {"entity_associations", "entity_associations.clarion_entity_id"}
ToV16 == {"events.event_seq"}
ToV17 == {"file_records.content_hash", "file_records.registry_backend"}
ToV18 == {}   \* stamps application_id
ToV19 == {"scan_findings.fingerprint"}
ToV20 == {"deleted_issues"}
ToV21 == {"deleted_issues.entity_ids"}
ToV22 == {"entity_associations.migration_orphaned_at"}
ToV23 == {"entity_associations.entity_kind"}
ToV24 ==
    {"events.verified_actor", "file_events.verified_actor",
     "annotation_events.verified_actor", "comments.verified_author",
     "observations.verified_actor"}
ToV25 == {"entity_associations.signature", "entity_associations.signoff_seq"}
ToV26 == {"entity_associations.loomweave_entity_id"}   \* a renamed column
ToV27 == {"entity_associations.signed_content_hash"}
ToV28 == {"scan_source_schemes"}
ToV29 == {"issues.claim_commit", "issues.close_commit"}

\* MIGRATIONS: the additions of the hop from version v.
MIGRATIONS ==
    <<ToV2, ToV3, ToV4, ToV5, ToV6, ToV7, ToV8, ToV9, ToV10, ToV11, ToV12, ToV13, ToV14,
      ToV15, ToV16, ToV17, ToV18, ToV19, ToV20, ToV21, ToV22, ToV23, ToV24, ToV25, ToV26,
      ToV27, ToV28, ToV29>>

OldName == "entity_associations.clarion_entity_id"
NewName == "entity_associations.loomweave_entity_id"

\* The schema of version v, but for the name of the renamed column.
UpTo(v) == (SchemaV1 \cup UNION {MIGRATIONS[n] : n \in 1..(v - 1)})
SchemaAt(v) == IF v < 26 THEN UpTo(v) ELSE UpTo(v) \ {OldName}

\* db_schema.SCHEMA_SQL
FullSchema == SchemaAt(CurrentVersion)

\* The columns that issues had before lease and commit columns came: rebuild_table
\* keeps no other.
LaterIssueColumns == {c \in FullSchema : c \in ToV11 \cup ToV29}

\* Mistake: the rebuild does not ask whether it is needed.
RebuiltAnyway(s) == (s \ LaterIssueColumns) \cup ToV6

(***************************************************************************)
(* One hop on whatever schema it finds: CREATE ... IF NOT EXISTS,          *)
(* add_column and rename_column leave alone what is there already, and the *)
(* table rebuild of v5 -> v6 asks for its foreign key first.               *)
(***************************************************************************)
Rebuilt(s) ==
    IF ToV6 \subseteq s THEN s ELSE (s \ LaterIssueColumns) \cup ToV6

Renamed(s) == (s \ {OldName}) \cup ToV26

Added(v, s) ==
    IF v = 14 /\ NewName \in s THEN s ELSE s \cup MIGRATIONS[v]

Hopped(v, s) ==
    IF v = 5 THEN Rebuilt(s) ELSE IF v = 25 THEN Renamed(s) ELSE Added(v, s)

\* v26 -> v27 also fills signed_content_hash in: what is attached counts as signed.
Backfilled(v, b) ==
    IF v = 26 /\ b.signature THEN [b EXCEPT !.signed = b.content] ELSE b

NoBinding == [signature |-> FALSE, content |-> 0, signed |-> 0, agreed |-> 0]
NotOpen == [is |-> "closed", at |-> 0]

SchemaInit ==
    /\ stamp \in FirstSeen
    /\ appId = (stamp >= 18)
    /\ schema = IF stamp = 0 THEN {} ELSE SchemaAt(stamp)
    /\ opener = [p \in Openers |-> NotOpen]
    /\ \E governed \in BOOLEAN :
          /\ governed => stamp \in 25..26
          /\ binding = [NoBinding EXCEPT !.signature = governed]

Becomes(p, is, at) == opener' = [opener EXCEPT ![p] = [is |-> is, at |-> at]]

(***************************************************************************)
(* classify_and_stamp_filigree_db.  A file of neither stamp is fresh, and  *)
(* its application_id is written at once.                                  *)
(***************************************************************************)
Classify(p) ==
    /\ opener[p].is = "closed"
    /\ IF stamp = 0 /\ ~appId
       THEN Becomes(p, "creating", 0) /\ appId' = TRUE
       ELSE /\ Becomes(p, IF stamp = CurrentVersion THEN "open" ELSE "pending", 0)
            /\ UNCHANGED appId
    /\ UNCHANGED <<stamp, schema, binding>>

\* SCHEMA_SQL runs as a script, and the version is stamped after it.
CreateTables(p) ==
    /\ opener[p].is = "creating"
    /\ schema' = schema \cup FullSchema
    /\ Becomes(p, "created", 0)
    /\ UNCHANGED <<stamp, appId, binding>>

StampFresh(p) ==
    /\ opener[p].is = "created"
    /\ stamp' = CurrentVersion
    /\ Becomes(p, "open", 0)
    /\ UNCHANGED <<appId, schema, binding>>

\* apply_pending_migrations reads the version again, once, and outside any
\* transaction.  From version 0 there is no migration: the open fails.
BeginUpgrade(p) ==
    /\ opener[p].is = "pending"
    /\ opener' = [opener EXCEPT ![p] =
          IF stamp = CurrentVersion THEN [is |-> "open", at |-> 0]
          ELSE IF stamp = 0 THEN NotOpen
          ELSE [is |-> "upgrading", at |-> stamp]]
    /\ UNCHANGED <<stamp, appId, schema, binding>>

\* BEGIN IMMEDIATE, the migration, the stamp, COMMIT.
ApplyHop(p) ==
    LET v == opener[p].at IN
    /\ opener[p].is = "upgrading"
    /\ schema' = Hopped(v, schema)
    /\ binding' = Backfilled(v, binding)
    /\ stamp' = v + 1
    /\ appId' = (appId \/ v = 17)
    /\ IF v + 1 = CurrentVersion THEN Becomes(p, "open", 0)
       ELSE Becomes(p, "upgrading", v + 1)

\* MigrationError (a lock that stays busy, a foreign key violation) rolls the hop
\* back and ends the open; a kill ends anything.
Leave(p) ==
    /\ opener[p].is # "closed"
    /\ opener' = [opener EXCEPT ![p] = NotOpen]
    /\ UNCHANGED <<stamp, appId, schema, binding>>

(***************************************************************************)
(* A process at work attaches the entity again: with a sign-off, or at     *)
(* new content without one, which keeps the signature and what it covers   *)
(* (agreed is what was signed; the file knows it as signed).               *)
(***************************************************************************)
Attach(p, content, signing) ==
    /\ opener[p].is = "open" /\ binding.signature
    /\ binding' = [binding EXCEPT !.content = content,
                                  !.signed = IF signing THEN content ELSE @,
                                  !.agreed = IF signing THEN content ELSE @]
    /\ UNCHANGED <<stamp, appId, schema, opener>>

SchemaNext ==
    \E p \in Openers :
        \/ Classify(p) \/ CreateTables(p) \/ StampFresh(p)
        \/ BeginUpgrade(p) \/ ApplyHop(p) \/ Leave(p)
        \/ \E content \in Contents, signing \in BOOLEAN : Attach(p, content, signing)
SchemaSpec == SchemaInit /\ [][SchemaNext]_schemaVars

\* Whoever opens, upgrades or dies when, the stamp never promises more than the
\* file holds, and a process at work finds every table and column it uses - also
\* while a late upgrader runs old hops again under it and takes the stamp back.
StampIsHonest ==
    /\ stamp > 0 => SchemaAt(stamp) \ {OldName} \subseteq schema
    /\ (\E p \in Openers : opener[p].is = "open") => schema = FullSchema

\* A sign-off that the content has drifted away from stays drifted: the file
\* never calls content signed that nobody signed (the closure gate trusts it).
DriftRemembered ==
    (binding.signature /\ stamp >= 27) => binding.signed = binding.agreed
=============================================================================
