----------------------------- MODULE Transfer ------------------------------
(***************************************************************************)
(* Projects exchanged as JSONL files: export_jsonl writes every row of a   *)
(* database, import_jsonl inserts them into another one in stages, each of *)
(* which may refuse the whole file, in one transaction.  Files, findings   *)
(* and their notes get the identity of what the target already holds.      *)
(*                                                                         *)
(* Data: every file has one site, so that a finding is identified by its   *)
(* file and its fingerprint, and a note (observation, observation link or  *)
(* annotation link) names a finding of its file.  Rows that hang on an     *)
(* issue and are copied as they are (labels, comments, dependencies,       *)
(* associations) are `annexes'.  Ids are drawn from one counter where the  *)
(* code draws random ones.                                                 *)
(***************************************************************************)
EXTENDS Naturals, FiniteSets, FiniteSetsExt, Functions

CONSTANTS DBs,        \* databases of copies of one project
          Paths,      \* project-relative paths
          Prints,     \* fingerprints scanners supply
          NoPrint,    \* the empty fingerprint
          Annotations, \* the notes that are links of annotations, by path
          MaxBorn     \* bound: ids ever drawn

ASSUME TransferAssumption == /\ NoPrint \notin Prints /\ MaxBorn \in Nat
                             /\ Annotations \subseteq Paths /\ IsFiniteSet(DBs)

VARIABLES db,         \* the tables of each database
          born        \* the last id drawn

transferVars == <<db, born>>

(* issues   [id, future, held, lease]: future is the Future release that   *)
(*          every new database is seeded with; lease the claim columns     *)
(* files    [id, path]          findings [id, file, print, of]             *)
(* notes    [id, file, finding, of]                                        *)
(* events   [id, issue, key, undoes]: key stands for the columns of    *)
(*          idx_events_dedup, undoes is new_value of an `undone' marker    *)
(* annexes  ids of issues with a label                                     *)
(* The component `of' is what the row was first about: a path, a key.      *)

Seeded(future) == [issues |-> {[id |-> future, future |-> TRUE, held |-> FALSE, lease |-> FALSE]},
                   files |-> {}, findings |-> {}, notes |-> {}, events |-> {}, annexes |-> {}]

Ids(rows)          == {r.id : r \in rows}
RowOf(rows, id)    == CHOOSE r \in rows : r.id = id
PathOf(d, file)    == RowOf(d.files, file).path
NewerId(rows)      == IF rows = {} THEN 1 ELSE Max(Ids(rows)) + 1

(* Ordinary writes *********************************************************)

Drawn == born < MaxBorn /\ born' = born + 1

Becomes(d, row) == db' = [db EXCEPT ![d] = row]

CreateIssue(d) ==
    /\ Drawn
    /\ Becomes(d, [db[d] EXCEPT
          !.issues = @ \cup {[id |-> born', future |-> FALSE, held |-> FALSE, lease |-> FALSE]}])

\* A claim: somebody holds the issue, with a lease, and the log says so.
ChangeIssue(d) == \E i \in db[d].issues :
    /\ Drawn
    /\ Becomes(d, [db[d] EXCEPT
          !.issues = (@ \ {i}) \cup {[i EXCEPT !.held = TRUE, !.lease = TRUE]},
          !.events = @ \cup {[id |-> NewerId(@), issue |-> i.id, key |-> born', undoes |-> 0]}])

\* undo_last takes the newest event that no marker names.
UndoChange(d) == \E e \in db[d].events :
    LET undoable == {f \in db[d].events :
                        /\ f.issue = e.issue /\ f.undoes = 0
                        /\ ~\E m \in db[d].events : m.issue = f.issue /\ m.undoes = f.id}
    IN  /\ e \in undoable /\ \A f \in undoable : f.key =< e.key
        /\ Drawn
        /\ Becomes(d, [db[d] EXCEPT
              !.issues = {IF i.id = e.issue THEN [i EXCEPT !.held = FALSE, !.lease = FALSE] ELSE i : i \in @},
              !.events = @ \cup {[id |-> NewerId(@), issue |-> e.issue, key |-> born', undoes |-> e.id]}])

LabelIssue(d) == \E i \in db[d].issues :
    /\ i.id \notin db[d].annexes
    /\ Becomes(d, [db[d] EXCEPT !.annexes = @ \cup {i.id}])
    /\ UNCHANGED born

RegisterFile(d, p) ==
    /\ ~\E f \in db[d].files : f.path = p
    /\ Drawn
    /\ Becomes(d, [db[d] EXCEPT !.files = @ \cup {[id |-> born', path |-> p]}])

\* Ingest: one finding per site without a fingerprint, else one per print.
ReportFinding(d, f, print) ==
    /\ ~\E g \in db[d].findings : g.print = print /\ (print = NoPrint => g.file = f.id)
    /\ Drawn
    /\ Becomes(d, [db[d] EXCEPT !.findings =
          @ \cup {[id |-> born', file |-> f.id, print |-> print, of |-> f.path]}])

NoteFinding(d, g) ==
    /\ ~\E n \in db[d].notes : n.file = g.file
    /\ Drawn
    /\ Becomes(d, [db[d] EXCEPT !.notes =
          @ \cup {[id |-> born', file |-> g.file, finding |-> g.id, of |-> g.of]}])

(* The stages of an import: each takes the target and gives [ok, db], and  *)
(* the maps of ids it made                                                 *)

IsFuture(i) == i.future
Refused(d)  == [ok |-> FALSE, db |-> d]
Done(d)     == [ok |-> TRUE, db |-> d]

\* A seeded Future release that nothing refers to.
Untouched(d, i) == /\ ~i.held /\ i.id \notin d.annexes
                   /\ ~\E e \in d.events : e.issue = i.id

\* Mistake: the imported release is inserted beside the seeded one.
FutureIgnored(d, x) == Done(d)

\* The seeded Future release gives way to the imported one.
FutureReconciled(d, x) ==
    LET imported == {i.id : i \in {j \in x.issues : IsFuture(j)}}
        rivals   == {i \in d.issues : IsFuture(i) /\ i.id \notin imported}
    IN  IF imported = {} \/ rivals = {} THEN Done(d)
        ELSE IF Cardinality(imported) = 1 /\ \A i \in rivals : Untouched(d, i)
             THEN Done([d EXCEPT !.issues = @ \ rivals])
             ELSE Refused(d)

\* OR ABORT, or OR IGNORE when merging.
Clash(merge, rows, ids) == ~merge /\ rows \cap ids # {}

\* The columns of a claim beside the assignee are not among those inserted.
ImportedIssue(i) == [i EXCEPT !.lease = FALSE]

IssuesImported(d, x, merge) ==
    IF Clash(merge, Ids(x.issues), Ids(d.issues)) THEN Refused(d)
    ELSE Done([d EXCEPT !.issues =
                  @ \cup {ImportedIssue(i) : i \in {j \in x.issues : j.id \notin Ids(d.issues)}}])

\* Mistake: the id of the file in the export is kept.
FileAsExported(d, x, id) == id

\* _resolve_imported_file_id: the target's record of the same path.
FileIn(d, x, id) ==
    LET same == {f \in d.files : f.path = PathOf(x, id)}
    IN  IF same = {} THEN id ELSE (CHOOSE f \in same : TRUE).id

FilesImported(d, x, merge) ==
    IF \/ \E f \in x.files, g \in d.files : f.id = g.id /\ f.path # g.path
       \/ ~merge /\ \E f \in x.files, g \in d.files : f.path = g.path
    THEN Refused(d)
    ELSE Done([d EXCEPT !.files =
                  @ \cup {f \in x.files : ~\E g \in @ : g.path = f.path}])

\* The fingerprint is not among the columns inserted, so that every imported
\* finding falls under idx_scan_findings_dedup.
SameSite(rows, file) == {g \in rows : g.file = file /\ g.print = NoPrint}

FindingsImported(d, x, merge) ==
    LET Target(g)  == FileIn(d, x, g.file)
        taken(g)   == g.id \in Ids(d.findings) \/ SameSite(d.findings, Target(g)) # {}
        \* of several findings at one new site only the first is inserted
        first(g)   == \A h \in x.findings : Target(h) = Target(g) /\ ~taken(h) => g.id =< h.id
        new        == {g \in x.findings : ~taken(g) /\ first(g)}
    IN  IF ~merge /\ new # x.findings THEN Refused(d)
        ELSE Done([d EXCEPT !.findings =
                      @ \cup {[g EXCEPT !.file = Target(g), !.print = NoPrint] : g \in new}])

\* Mistake: the note goes on naming the exporter's finding.
FindingAsExported(d, x, id) == id

\* finding_id_map, once the findings are in: _resolve_imported_scan_finding_id.
FindingIn(d, x, id) ==
    IF id \in Ids(d.findings) THEN id
    ELSE LET file == FileIn(d, x, RowOf(x.findings, id).file)
         IN  (CHOOSE g \in d.findings : g.file = file).id

AnnexesImported(d, x, merge) ==
    IF Clash(merge, x.annexes, d.annexes) THEN Refused(d)
    ELSE Done([d EXCEPT !.annexes = @ \cup x.annexes])

\* idx_events_dedup: events that differ in no column are the same.
NewEvents(d, x) == {e \in x.events : ~\E f \in d.events : f.key = e.key}

\* Events keep their columns and get new ids, in the order of creation.
EventsImported(d, x, merge) ==
    LET new == NewEvents(d, x)
        Rank(e) == Cardinality({f \in new : f.key < e.key})
    IN  IF ~merge /\ new # x.events THEN Refused(d)
        ELSE Done([d EXCEPT !.events = @ \cup {[e EXCEPT !.id = NewerId(d.events) + Rank(e)] : e \in new}])

\* A link of an annotation must find its target in the database.
NotesImported(d, x, merge) ==
    LET Here(n) == [n EXCEPT !.file = FileIn(d, x, n.file), !.finding = FindingIn(d, x, n.finding)]
        new     == {n \in x.notes : n.id \notin Ids(d.notes)
                                    /\ ~\E m \in d.notes : m.file = FileIn(d, x, n.file)}
    IN  IF \/ ~merge /\ new # x.notes
           \/ \E n \in x.notes : n.of \in Annotations /\ Here(n).finding \notin Ids(d.findings)
        THEN Refused(d)
        ELSE Done([d EXCEPT !.notes = @ \cup {Here(n) : n \in new}])

\* One transaction: a refused stage rolls everything back.
ImportJsonl(d, x, merge) ==
    LET r0 == FutureReconciled(d, x)
        r1 == IssuesImported(r0.db, x, merge)
        r2 == FilesImported(r1.db, x, merge)
        r3 == FindingsImported(r2.db, x, merge)
        r4 == AnnexesImported(r3.db, x, merge)
        r5 == EventsImported(r4.db, x, merge)
        r6 == NotesImported(r5.db, x, merge)
    IN  IF r0.ok /\ r1.ok /\ r2.ok /\ r3.ok /\ r4.ok /\ r5.ok /\ r6.ok
        THEN r6 ELSE Refused(d)

Transferred(from, to, merge) ==
    LET r == ImportJsonl(db[to], db[from], merge)
    IN  r.ok /\ Becomes(to, r.db) /\ UNCHANGED born

TransferInit ==
    /\ \E f \in [DBs -> 1..Cardinality(DBs)] : IsInjective(f) /\ db = [d \in DBs |-> Seeded(f[d])]
    /\ born = Cardinality(DBs)

TransferNext ==
    \/ \E d \in DBs :
        \/ CreateIssue(d) \/ ChangeIssue(d) \/ UndoChange(d) \/ LabelIssue(d)
        \/ \E p \in Paths : RegisterFile(d, p)
        \/ \E f \in db[d].files, print \in Prints \cup {NoPrint} : ReportFinding(d, f, print)
        \/ \E g \in db[d].findings : NoteFinding(d, g)
    \/ \E from, to \in DBs, merge \in BOOLEAN : from # to /\ Transferred(from, to, merge)

TransferSpec == TransferInit /\ [][TransferNext]_transferVars

(* Properties **************************************************************)

\* Findings and notes stay about the file they were written for, and a note
\* about a finding names a finding of that file, however often databases are
\* merged into each other under different ids (file_id_map, finding_id_map);
\* and no database ends up with two Future releases.
ImportsKeepTheirSubject == \A d \in DBs :
    /\ \A g \in db[d].findings : g.file \in Ids(db[d].files) /\ PathOf(db[d], g.file) = g.of
    /\ \A n \in db[d].notes :
        /\ n.file \in Ids(db[d].files) /\ PathOf(db[d], n.file) = n.of
        /\ n.finding \in Ids(db[d].findings) /\ RowOf(db[d].findings, n.finding).of = n.of
    /\ Cardinality({i \in db[d].issues : IsFuture(i)}) = 1

\* Merging one export a second time adds nothing (import_jsonl with
\* merge=True; test_import_merge_returns_zero_for_duplicates).
MergesOnce == \A from, to \in DBs :
    LET once == ImportJsonl(db[to], db[from], TRUE)
    IN  once.ok => ImportJsonl(once.db, db[from], TRUE) = once

\* Together: merging databases, in any order and again, mixes nothing up and
\* doubles nothing.
MergesSettle == ImportsKeepTheirSubject /\ MergesOnce

\* An export can be restored into a new database.
ExportRestores == \A d \in DBs :
    ImportJsonl(Seeded(0), db[d], FALSE).ok
============================================================================
