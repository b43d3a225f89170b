# A verification model of filigree

filigree is an issue tracker for coding agents: one SQLite database per
project, written by many short-lived processes (command line, MCP server, HTTP
dashboard) that share it. This directory holds TLA+ models of the parts of
`src/filigree` whose correctness depends on order: who holds a claim, what undo
reverses, which calls may interleave, what survives a crash, and what a call may
say of what it did. TLC checks them on small instances; TLAPS proves the central
results for every instance.

## The system

| Component | Source | State it keeps | Operations | What is hard |
|---|---|---|---|---|
| Workflow templates | `templates.py`, `templates_data.py`, `db_workflow.py` | per issue type: states with a category, forward and reverse edges, required fields | validate a transition, release target, the walk to a working status | cyclic and branching workflows, soft and hard edges |
| Issue store | `db_issues.py` | `issues` rows with status, four claim columns, closing columns, fields | create, update, close, reopen, claim, release, heartbeat, reclaim, delete | claim and closing columns are set by hand in a dozen places; checks before the lock |
| Work picking | `db_issues.py` | none of its own | `start_work`, `start_next_work`, `claim_next` | discovery without a lock, retries that overlap the call they retry |
| Audit log and undo | `db_events.py` | `events`, `undone` markers, tombstones | `undo_last`, `archive_closed`, `compact_events`, the changes feed | walking back over a log that grows and is compacted; two sources merged page by page |
| Dependencies and plans | `db_planning.py` | `dependencies`, `parent_id` | add, remove, retarget, reparent, plans, ready queue | undo re-inserts edges that were legal once |
| Database base | `db_base.py`, `mcp_server.py` | connection, transaction state | immediate transactions, busy retries, nested calls | a crash, an interrupt or a lock error in mid-write |
| Metadata, transfer | `db_meta.py` | comments, labels | export and import as JSONL | new ids against old references, stages that refuse |
| Files and findings | `db_files.py`, `finding_issue_cascade.py` | file records, findings, links | ingest, promote, dismiss, cascade to issues | two stores moved by one call, each step may fail |
| Scan runs | `db_scans.py`, `scanner_runtime.py`, `scanner_callback.py` | `scan_runs` with a status | reserve, start, complete, fail, watch the process | three writers finish one run; cooldown against reservation |
| Observations | `db_observations.py` | pending notes with an expiry, an audit trail | record, link, promote, dismiss, sweep | promotion against sweep and dismissal |
| Annotations | `db_annotations.py` | notes on code ranges, links to issues | create, refresh, resolve, link, carry | an anchor in a file that changes; carrying from issue to issue |
| Entity associations, closure governance | `db_entity_associations.py`, `sei_backfill.py`, `governance.py` | issue to code-entity bindings with sign-offs | bind, refresh, remove, backfill, the closure gate | rows merged under a new identity; the gate is asked by each surface |
| Core, configuration | `core.py`, `paths.py`, `cli_commands/admin.py` | conf file, store directories | discovery, the one-time move of the store | a move that dies between two steps and is run again |
| Migrations | `migrations.py`, `db_schema.py` | schema version, tables and columns | create, upgrade hop by hop | several openers at once, a crash between two hops |
| Ephemeral dashboard | `hooks.py`, `ephemeral.py`, `dashboard.py` | PID and port files of one project | ensure, spawn, adopt, clean up, exit | files removed without the lock |
| Server daemon | `server.py`, `cli_commands/admin.py` | `server.pid`, `server.json` | start, stop, claim, release, register | stale records, two starts at once |
| Project store | `dashboard.py` | project map, open handles, evicted handles | look up, open, reload, evict, close | a request that outlives a reload |
| Surfaces | `mcp_tools/`, `cli_commands/`, `dashboard_routes/`, `generations/` | `context.md` | tools, commands, routes over the stores | several transactions under one answer |
| Registry client, installation, reports, scanner scripts, front end | `registry.py`, `install*`, `summary.py`, ... | caches | adapters and I/O | not modelled, see below |

Components share state only through the database and, for daemons, files; there
are no messages between processes other than HTTP requests and MCP calls, each of
which becomes one or more calls on `FiligreeDB`. Nearly every public write of
`FiligreeDB` runs in `BEGIN IMMEDIATE ... COMMIT` with a rollback on any
exception, so a write is one atomic step of the models and a refused write
changes nothing. That this is so is itself modelled (`WriterLock`) and proved. The
interesting interleavings are those of calls that look first and lock later
(`close_issue`, the pickers, imports, pages of the feed), of handlers that make
several calls, and of files changed without a lock; the interesting sequences are
long ones of legal writes, undo among them.

What makes each component correct:

* **Issue store.** Claim columns stand or fall together; a commit anchor belongs
  to the holder, or to the closure, it was recorded for; a closed issue has
  exactly one closing date until it is reopened; a live claim moves only by a
  step that names its loser.
* **Audit log and undo.** For every reversible column the newest entry that is
  not undone names the row's value; nothing is undone twice, compaction included;
  every move against the forward table is announced; a consumer of the feed believes
  in no issue that is gone.
* **Work picking.** A request is served once; an identity that only starts work
  through the picker has one recent piece of work; a call that returns a started
  issue started it; every call returns.
* **Dependencies.** No cycle of dependencies or parents ever closes, by any path;
  the log accounts for every edge; unfinished work never waits on itself.
* **Database base.** A call takes effect as a whole, once, and only if it does not
  raise; every call is answered.
* **Scan runs and findings.** One active run per scanner and file; the first outcome
  stands; a failed run leaves no scanner behind; the cascade closes only finished work
  and forgets no defect that came back; a finding becomes one issue.
* **Records.** Merging databases mixes nothing up and doubles nothing; every observation
  comes to one recorded end; sign-offs are neither lost nor stretched; an annotation is
  where it says it is and is not lost when carried.
* **Templates.** The advance walk takes soft edges only and is shortest; no built-in
  workflow is a trap.
* **Services.** A running dashboard or daemon is on record unless one of the known
  unlocked steps took the record away; no connection leaks or is pulled away; the
  schema stamp never promises more than the file holds; the store is found again
  after a move.
* **Surfaces.** An answer never misleads: what it lists was done, what it reports as
  failed was not, a refusal changed nothing; what was closed had passed the gate.

The hazards this code is exposed to, with the line where each bites and the
property that covers it, are in `PROJECT.json`.

## The modules

```
 Workflow      SoftPath (pure) ---- TemplateAuthoring     BuiltinTemplates
     |         /      \                                          |
 IssueStore --/--------+--------- WorkflowPacks -----------------+
  |     |    /
  |   StartWork        Dependencies               WriterLock --> AtomicWrites
  |                         |                         |     (refines)
  IssueStoreProofs     DependenciesProofs         WriterLockProofs
    IssueStoreExplained
    WorkPickingProofs   (of StartWork and TemplateAuthoring)
 ScanRuns  Findings
     ScanningProofs
 ChangesFeed  Observations  EntityBindings  Annotations  StoreMove  Transfer
     RecordsProofs
 EphemeralDashboard  ServerDaemon  ProjectStore  SchemaUpgrade
     ServicesProofs
 Surfaces --- McpHandlers, CliHandlers, HttpHandlers --- Handlers
     ServicesProofs

 MCStore  MCStartWork  MCDependencies  MCScanning  MCLiveness  MCRecords  MCServices
```

### The store

* **`Workflow`** is one issue type's template as constants, and the registry's
  queries over it: `ForwardAllowed`/`BackwardAllowed` are `validate_transition`
  in its two modes, `ReleaseTarget` is `get_release_target`. Two facts are assumed:
  those registration validates (`TemplateAssumption`), and that the initial state is
  not done (`InitialAssumption`), which holds of every built-in template but is not
  validated: with a done initial state `create_issue` leaves a done issue without
  `closed_at`, and `ClosedColumnsAgree` fails at once. `DonesApart` says that no declared
  edge joins two done statuses; one theorem needs it, registration does not ask for it, and
  `WorkflowPacks` assumes it of every built-in type, so that TLC evaluates it.
* **`SoftPath`** is the two resolvers of a working status as fold-based functions.
  **`TemplateAuthoring`** is an author adding edges one by one, so that TLC visits
  every small workflow. **`WorkflowPacks`** holds every type of every built-in pack
  and one issue walking each of them; **`BuiltinTemplates`** gives two of them, task and
  bug, in the form the store's constants take.
* **`IssueStore`** is the `issues` and `events` tables. `row` is a function on the
  live issues, `log` their events oldest first, `lastId` the AUTOINCREMENT counter,
  `tombstones` the deleted ids, `now` the clock. There is one action per public
  write; a `...Row` operator gives the row after the UPDATE and a `...Events` operator
  the events in the order the handler appends them, and `Write` commits both.
  `priority` stands for every scalar column written and undone alike; `fields` is
  the *set* of populated field names, so a change of the value of a populated field
  is not told apart; a claim anchor is identified by the holder it was recorded
  for and a close anchor by the closing time it was recorded with; `leaseEnd`
  stands for `last_heartbeat_at` and `claim_expires_at`, always written together.
  `Close` may run whatever its caller saw before: its look is not repeated under
  the lock.
* **`StartWork`** is the three pickers as calls in flight: an unlocked look that
  queues candidates, then one transaction per candidate that repeats the held-claim
  check, claims and walks. `HeldAnswer` returns a set because SQL may order rows
  of equal timestamps either way.
* **`Dependencies`** is the dependency table, the parent column and the part of the
  log undo needs for them, with every write that shapes either: creation with
  dependencies, plan creation and extension, add, remove, retarget, reparent
  (`move_plan_step` included), undo and deletion with its guards.
* **`WriterLock`** is the layer under all of these: the transaction decorator and
  `_retry_busy`, the hand-written transactions beside them, connections shared by the
  tool calls of one server, nested calls, interrupts, lock errors and crashes. A
  call's write is one row, a part per statement, in a version per attempt.
  **`AtomicWrites`** is what it promises: a call's parts appear together, of one
  version, and its caller is told the truth. `WritesAreAtomic` instantiates the second
  in the first.

### Scanning

* **`ScanRuns`** is the `scan_runs` table with the calls and processes around it. A row
  keeps the age of `updated_at` instead of a time, capped where no window reaches;
  `trigger` is how far the call that reserved a run has come, `process` its scanner,
  `arrived` the results posted and not yet used. `update_scan_run_status` is two steps: a
  read that validates and leaves an entry in `updating`, and the compare-and-swap
  (`Commit`, or `Refuse` when the status moved). `Failing` is `_mark_scan_run_failed`,
  whose own failure is swallowed.
* **`Findings`** is `scan_findings` of one source in one file, and as much of the issues
  as the cascade reads: done or not, who closed last, held, origin and reconciliation
  debts. An ingest or a stale cleanup commits and leaves its reopens and closes in
  `call[c]`; they are worked off one by one, a look or a gate first, then a
  transaction. The verdict of the closure gate is an input. A promotion is three writes
  (look, create, link). People triage, link, close, reopen, claim and delete between any
  two steps, and a call may die at any. Two history variables serve the properties:
  `regressed`, findings an ingest turned open again and nobody has touched since, and
  `forgotten`, issues whose reopen died with its call.

### Records

* **`ChangesFeed`**: writers that commit records stamped when their transaction began, and
  a consumer whose page is two SELECTs (events, tombstones) that a commit may fall between.
* **`Transfer`**: two databases, export files, and an import in the stages of
  `import_jsonl`, each of which may refuse the file; files, findings and notes take over
  ids the target already has.
* **`Observations`**: notes by id, callers that look, lock, write and link, an expiry
  sweep, the race of two creations of one note, promotion alone and of several.
* **`EntityBindings`**: bindings of issues to one entity under old locators and its new
  identity, sign-offs, content that changes, the closure gate with its look, and the
  commands that close without it. The backfill reads what it will do, opens a transaction
  with its first row, rewrites row by row in it (`BackfillRewrites`, on a draft of the table
  nobody else sees), and commits or rolls back; meanwhile other writers wait (`MayWrite`).
* **`Annotations`**: a file as a sequence of lines, an annotation's captured text and its
  relocation, links, the carrying from issue to issue and the warning at closing.
* **`StoreMove`**: the six steps of the move from `.filigree/` to `.weft/filigree/`, the
  init around it, and the rule by which sessions find the store.

### Services

* **`EphemeralDashboard`**: session hooks (probe, lock, probe again, clean up, spawn,
  record), dashboards and the two files they leave and remove.
* **`ServerDaemon`**: start, stop and claim under `server.lock`, and the two steps that
  are not under it: the health check of a start and the release at a daemon's end.
* **`ProjectStore`**: request threads that open handles outside the lock, reloads that
  evict, the grace of an evicted handle, hooks that register a project and reload.
* **`SchemaUpgrade`**: openers that classify a file, create it or apply hops, each with
  what it adds (`ToV2` to `ToV29`), and may die or be late.
* **`Surfaces`** runs one call of a tool, command or route. A handler is a *plan*, the
  sequence of its steps: checks that may refuse (`check`, `find`, `prefix`), the gate
  (`gate`, `statusgate`), reads, writes each in a transaction of its own, and
  `refresh`, which writes `context.md`. A batch plan runs part of itself per
  subject. Between two steps anybody may remove a subject, claim it, finish it or keep
  the database busy, so that any store call may be refused or fail.
  **`McpHandlers`**, **`CliHandlers`** and **`HttpHandlers`** name the plans of the tools, the
  commands and the routes, one definition per handler, in the order of its calls.
  **`Handlers`** joins them, states what an answer promises, and says of a plan what that
  rests on: who is reported for its subject had nothing written, the whole call is refused
  before the first write or for an absence, every write that shows is followed by
  a refresh, every closing write comes after the gate (`ReportsUnwritten`, `ShownStay`,
  `RefusesFirst`, `Refreshes`, `AsksFirst`). `HandlersAssumption` says that the plans of
  the code keep these rules; they are literal sequences, and TLC evaluates it of each.

The `...Proofs` modules and `IssueStoreExplained` hold the theorems. An
MC module names small instances and, where a run covers several *scenes*, starts in
each of them: `scene` is chosen initially, never changes, and selects which part
moves. A scene restricts who calls what; it never changes what a write does.

## What the runs check

| Run | Instance | Shows |
|---|---|---|
| `store` | task workflow, one issue, two agents, one clock tick; *history* and *claims* to 6 events, *all* writes with all inputs to 2 | row, columns and log agree; claims, closures and the archive change only as recorded; undo is exact |
| `start_calls` | bug workflow (two hops to work); *pick*: two issues, two sessions, a retried request id, to 6 events; *named*: one issue, to 7 events | one claim per request, one recent start, a start ends in work |
| `dependencies` | five issues (milestone, phase, three steps); *edges* to 5 events, *tree* to 4, *plan* of at most two steps | both graphs stay acyclic and explained by the log; the backlog always moves |
| `scanning` | *runs*: three runs of one scanner and file, a stale limit of one tick and no cooldown; *cascade*: two calls and people on one issue that two open findings are linked to; *promote*: two findings, two issue ids, promotions that may die | the properties of scan runs and findings |
| `waiting` | *writing*: two tool calls on one connection and a command on another, two attempts each, errors, interrupts and crashes; *picking*: sessions whose candidates others snatch | the locks implement atomic writes; every call is answered; every picker returns |
| `records` | eight scenes: *feed* (two issues, pages of one, three ticks), *transfer* (two databases, a file, two fingerprints), *observations* (two callers, two notes), *bindings* (one issue, two locators, two contents), *anchors* (a file of up to three lines), *carrying* (three issues), *authoring* (four statuses, up to four edges), *move* (up to four inits, three commits, three tokens) | the properties of the records modules |
| `services` | six scenes: *packs* (every built-in type), *dashboards* (three dashboards, two sessions), *daemon* (three daemons, two commands), *projects* (two requests, two hooks, three handles), *schema* (three openers; files new, v1, v14 and v24 to v26), *surfaces* (any handler, up to two subjects) | the properties of the services modules |
| `feed_gap`, `restore`, `gate_skipped`, `store_move`, `migrate_rerun` | one scene of `records` or `services` alone | a counterexample each, see Findings |

Why the bounds are enough: one issue suffices for the store because no write but
`archive_closed` and `compact_events` touches two, and those treat each row alike;
two agents are a holder and a rival; six events reach a second closure or a claim
handed on twice, then undone. Two sessions are the call and the call it overlaps;
two issues are the claim made and the one stranded. Three steps are the shortest
graph where an undone removal closes a cycle through edges added since. Two scan runs
contend for a file and a third finds what they left; windows matter only by whether
an age is within them. One issue with two findings is the least where one finding's
resolution is not the issue's. Three tasks over two connections have a neighbour on
the same connection and a rival on another, and two attempts are a failure and its
repetition. A page of one puts every record behind a page boundary. Three dashboards,
daemons, handles or openers are one that is on record, one that replaces it and one
whose late step meets neither; the files at the start of *schema* are the new one, the
oldest, one in the middle and the last three, where the hops differ in kind. Two subjects
are one that is done and one that fails. Every bound is a constant of a cfg, used in a
guard; in the component modules these are `MaxEvents`, `MaxNow` and the `Max...` and
limit constants declared beside the sets they bound. The *promote* scene keeps
promotions from overlapping (`NobodyPromotes`): with overlap `PromotedOnce` fails, see below.

Deadlock is not checked: with its bounds reached, a call answered or a process gone, each
of these instances really stops. That nobody waits for ever is a property of its own
where there is waiting (`CallsAnswered`, `CallsReturn`, `BacklogNeverDeadlocks`).

Each property has a mutation of the code's logic under which the same run finds it
violated (`PROJECT.json`, "mutants"; the mutated forms are the definitions commented
*Mistake* in the modules).

**Fairness.** Only `waiting` assumes any. Each picker call is scheduled, `WF(Attempt(c))`:
a call in flight is a thread in a loop over a finite list, every iteration commits, hands
back or moves on, and nothing blocks it for ever. Each task at the writer lock is
scheduled, `WF(Step(t))`: the lock is held for one transaction, with a busy timeout and a
bounded number of retries. Errors, interrupts and crashes are nobody's debt, and nothing is
assumed of other callers: they may snatch every candidate. Each scene schedules its own
callers only.

**Time.** In `ScanRuns`, `Tick` waits while a run under way would outlive the stale limit
(`InTime`): a trigger takes well under a second from reservation to running, the limit is
a quarter of an hour. A machine suspended in between could break the assumption, and with it
`OneActiveScan`. In `ChangesFeed` the clock does not go back, and a deletion is not
stamped and committed within one microsecond. `StoreMove` takes UPGRADING.md at its word,
"Stop ALL writers": nobody has the store open while init runs.

**Exceptions in the properties** are named where they are made. `AnswersTrue`: the two
promote-and-attach handlers keep the issue when the attachment is refused, as documented,
and the command `clean-stale-findings` closes issues and leaves `context.md` alone.
`ClosedWereCleared`: undo and the two batch commands never ask the gate. `LeaksExplained`,
`ServingOnRecord` and `MoveKeepsTo` list the ways by which the code does lose a record or
a store, so that every other way is excluded.

## Findings

Each violation run states a sentence of the code's documentation and shows a
behaviour of the code that departs from it.

* `feed_gap`: a deletion that commits between the two SELECTs of a page carries the cursor
  past events the page does not hold.
* `restore`: the import drops the fingerprint column, so the export of a project with two
  findings at one site cannot be imported into a new database.
* `gate_skipped`: `batch-close` and `batch-update --status` close an issue whose sign-off
  has drifted, although every closing surface is said to ask the gate. Undo does so, too.
* `store_move`: `init` on a project whose conf keeps the database elsewhere retires the
  conf, and sessions open a new, empty database.
* `migrate_rerun`: an opener that read the schema version before another upgraded the
  database runs a hop again, and a drifted sign-off passes for fresh.

Seen while modelling, without a run of their own; lines are of `src/filigree`.

*Store.* `start_work(advance=True)` may return an issue that is claimed but not in work,
when a release that reverts the status commits between its look and its lock. The
held-claim scan stops at the first row, because "if this one is outside the retry window
every older one is too" (`db_issues.py:2383`); that is not so when an older piece was claimed
again, because the rows are ordered by `claimed_at`, which a repeated claim does not renew,
and the window is measured from the newest claim event. `OneRecentStart` therefore
measures by `claimed_at`. `reopen_issue` reads undone closures, so after undo it may
restore a status older than the last live one. Of two overlapping closes the second returns
normally on a closed issue (`FirstClosureStands` shows that the first date and anchor
stay). A picker may claim an issue that was blocked after its look (`db_issues.py:2440`).
`release_my_claims` (`db_issues.py:1921`) looks first and may clear an issue closed since.

*Scanning.* A scanner that dies after the trigger's poll, or posts before the trigger has
marked its run running, leaves the row running, and a running row blocks its scanner and
file without a window; nothing calls `reconcile_scan_status` (`db_scans.py:255`). Two
overlapping promotions of a finding look before either creates, and create two issues;
repetition after a crash is safe. `reopen_regressed_finding` asks who closed an issue before
`reopen_issue` takes the lock; a person who reopens and closes it between the two has that
decision reverted.

*Records.* Undone markers name the old event ids after an import. One observation may end
up in two issues when it is linked while it is promoted. Carrying an annotation back to an
issue it had left silences it there. The gate is asked before the closing transaction, so a
drift between the two is not seen.

*Services.* A process that dies while it creates a database leaves a file later openers
refuse (`core.py:1830`). Two inits at once, or a crash in the move of a project without a
conf, can leave sessions on the older store. A dashboard started by hand removes the
records of another at its end. The health check of a start removes the record of another
start's daemon. A project registered while the daemon boots is not served until the next
reload.

*Surfaces.* README.md:34 and docs/architecture.md:20,81 say that every mutation regenerates
`context.md`; no route but the one for scan results does, nor does the command
`clean-stale-findings`, nor `update_finding` when it dismisses observations. The tool that
labels a plan answers NOT_FOUND after labels were written if a labelled issue vanished
(`planning.py:758`). A batch dismissal in full detail may list an observation as done and as
failed. Promoting observations reads the issue back after the write; if that fails the
error hides the write. A reported finding that vanishes after its ingest is answered with an
error. `context.md` may be written from an older read than one already written.

## What is proved

All proofs are for every value of the constants that satisfies the named assumptions, every
history and every bound.

**`IssueStoreProofs`** (`TemplateAssumption`, `InitialAssumption`, `StoreAssumption`):
`TypeCorrect`, `ClaimColumnsAlwaysAgree`, `ClaimAnchorAlwaysHolders`,
`ClosedColumnsAlwaysAgree` and, from these, `ColumnsAlwaysAgree`. The inductive invariant is
the conjunction `Inv`; none but the first part is inductive alone: undo writes columns
from values recorded in the log, so the row invariants need `TypeOK`'s account of what the
log holds (`PayloadOK`: an undone claim restores a holder, never a status), and the log's
payloads are columns of well-typed rows. Each row operator (`HeldBy`, `Released`,
`Reverted`, ...) has a lemma saying it preserves the row invariants; each action then needs
only its log appended in id order.

It goes on with what a step may never do: `ClaimsNeverStolen`,
`ArchivedStays`, `EventsUndoneOnce` and `UndoSurvivesCompaction`. A write is described by one
predicate, `Explains`: the events it appends name the holder it takes the claim from, and
only an undo revives an archived row; one lemma shows it of each write and one that it
implies the action properties. Undo's own properties rest on `Marked`: an
`undone` marker names an earlier event of its issue, and no two name the same; compaction
keeps a suffix of the log, so no marker goes before its event.

It also proves `ShortcutsAlwaysAudited`. `Audited` says of a log that each status
change in it is declared by the workflow or stands right after its announcement. A write's
events are `Announced` as a sequence, with lemmas for concatenation and for the first
place, and compaction may cut only in front of the first event kept.

**`IssueStoreExplained`** proves `LogExplainsRow`. That the newest entry of a column which no
undo reversed tells its value is not inductive: an undo makes the entry before it the newest.
The invariant (`Explained`) is a chain per column (`ChainOn`): among the entries not undone,
each starts from the value the one before it left, and the row shows what the last left.
`ChainGrows`, `ChainShrinks` and `ChainCut` are an append, an undo and a compaction. A write
has to show only that its own events account for the difference of two rows (`Accounts`): at most one
event per column, which starts from what the row showed and leaves what it shows next. Undo
takes the newest reversible entry of all columns, so it takes a chain's last link or leaves
that chain alone. The holder needs no chain, because the marker of an undone claim names the
event whose old value came back, and ids are unique.

`FirstClosuresStand` has a hypothesis: `DonesApart`. In a template with an edge from one done
status to another, a move along it redates the closure by design, so the property is one of
templates without such edges, which all built-in ones are. The invariant it needs is about the
log: no event that stands there leads from a done status to a done one (`DatedOnce`), or else an
undo could put back a status under another closure's date. A write to a done issue then
is `Steady`: it leaves status and date, or reopens.

**`WorkPickingProofs`** (the assumptions of the store, `AuthoringAssumption`,
`SessionAssumption`):

* `WalksAlwaysRight`. The search of `SoftPath` is a loop over a loop, both recursive functions
  of the number of turns. The loops have invariants (`Waiting` between two nodes, `Scanning` within
  one): every queued walk is soft and shortest, walks stand in the queue by
  length, and whatever was seen is queued or has all its soft successors seen. Each
  turn takes a node off the queue, and no more nodes than edges and the start are ever
  seen, so the turns suffice (by counting). It holds of templates of any size.
* `CallsKeepTheStore`, `StartsStealNothing`. A candidate's claim and its walk are one write of the
  store (`GoodStart`), to which the parts of `IssueStoreProofs`' invariant apply as to any
  other, however old the look is that queued it.
* `StartsEndWorking`. The calls of `WorkSpec` ask for work: the target they name is a working
  status, and an issue that `start_work` is to advance by itself is not at work yet. A
  queued walk ends at work (`QueuesLead`, by the walks' theorem), and either every hop is
  taken under the lock or the transaction fails.
* `PicksAreOnce`. Its hypotheses are those under which the code promises it: each identity retries
  with one request id or none and comes to work by picking (`PickBegin`), and what is
  written beside gives nobody work (`PickStore`: creations without a holder, edits,
  closures, releases, heartbeats, archiving, compaction, deletion; no claims by hand, reopens
  or undos). Every claim event carries the request of its identity (`ClaimsNoted`), and the newest one of
  a holder is not older than the row's `claimed_at` (`ClaimsDated`), so that the held-claim
  check made again under the lock sees every piece of work that would be doubled.

**`DependenciesProofs`** (`DependenciesAssumption`): `TypeCorrect`,
`DependenciesStayAcyclic`, `ParentsStayATree`, `GraphsStayAcyclic` and `BacklogAlwaysMoves`.
Acyclicity is stated by "every non-empty set of issues has a member with no edge into the
set", so adding an edge is an argument about one set (the nodes that reach the new target)
instead of about paths, and the backlog theorem is an instance of it.
`GraphsAlwaysExplained` carries the chains of `IssueStoreExplained` to graphs: of each live
issue's log, the entries on one edge (or on the parent) that no undo reversed each start from
what the one before left, and the last left what the graph has (`Accounts`). There are two
differences. A deletion takes an issue out of every chain at once, which works because a value is
read as "that issue, if it is still there". And a plan or a creation starts a log with several
entries, which account for its edges because a list names nobody twice.

**`ScanningProofs`** (`ScanAssumption`, `FindingAssumption`). Of `ScanRuns`: `TypeCorrect`,
`ActiveScansAlone`, `FailedScannersGone` and `OutcomesStand`. `OneActiveScan` is not inductive: a pending row that
went stale could become running beside its successor. `WorkedRunsFresh` (the row of a
trigger at work is pending and fresh, by `InTime`) and `UpdatesInOrder` (only the trigger
moves a pending row, one update at a time; a failure is written once the scanner is gone)
exclude it; `ScannersSpawned` ties processes to their triggers.
Of `Findings`: `RegressionsAlwaysRemembered`, `CascadesAlwaysJustified` and
`PromotionsApartPromoteOnce`. A regressed finding is open (`RegressedOpen`), so that no close
of the cascade's passes the look at the issue's findings that its transaction takes; what is left is
that every way to have a regressed finding under a closure of the cascade's leaves a reopening
owed, in debt or recorded as lost (`RegressionsCovered`). `PromotedOnce` has the
hypothesis `[]OnePromotion`, without which it is false (see Findings): a promotion about to create
found no issue, and nobody else makes one (`SearchStillTrue`), through deaths and repetitions.

**`RecordsProofs`** (`LayoutAssumption`, `ObsAssumption`, `ConcernsAssumption`, `FeedAssumption`,
`TransferAssumption`):

* `MoveAlwaysKeeps`. The invariant says, per stage of the move, which database has everything
  and which directory the newest token: one formula each for a project whose conf names
  a custom place, the legacy or the new one, and for one without a conf before and after the
  copy (`ConfNames...`, `NoConf...`), and the two exempt cases, which no step leaves.
* `ObservationsAlwaysSettled`. Ids are drawn once and whoever is queued was neither dismissed nor
  linked (`QueuedNotEnded`); a promotion that deletes or audits does so for notes its issue
  names (`PromotedNamed`). The lock makes look and delete one step; the rest of a call may die.
* `AnchorsAlwaysHonest`. A snippet is cut out of the text whose checksum was kept, where the row
  says (`CutFrom`); that every relocation is right is then a case analysis of `AnchorState`
  for files of every length.
* `CarriedNeverLost`. Each hop leads from an issue to one other and leaves a link there
  (`CarryInv`). If no issue of the chain warned, every one of them would have a hop to
  another, none back to the start and no two to the same: an injection of a finite
  set into itself without one of its members, which counting excludes.
* `PhantomsNeverStay`. Everything committed is before everything that will be (`EventsInOrder`,
  `TombsInOrder`), a cursor is behind what is still to be read (`CursorInOrder`), and of whatever
  is gone and still believed in a tombstone is to come (`DeletionsTold`). The page operator has
  lemmas of its own: a page of any size takes the first rows of the order.
* `SignoffsAlwaysHold`. Of a table of bindings, `TableHolds` says that every sign-off has a row
  with its number or a higher one, and every signed row holds the version signed under its number. It
  holds of the committed table and of the draft of an open backfill, so a
  rollback after any row keeps it, too; `MergedIs` says why a merged row has number and version
  of one and the same sign-off.
* `MergesAlwaysSettle`. Ids are shared between databases, so the invariant (`TransferInv`) is
  about pairs of them: rows that share an id agree on what they are about (`Agree`), and each
  database is `Whole`, that is, a path has one file, a finding its file, a note its finding,
  and one release is the Future one. `Imported` says of all seven stages together where each row went.
  A row of the result comes from one side or the other under its id (`Descends`), which keeps the
  invariant. A merge repeated finds each row it looks for; of several findings at one new
  site only the one with the least id was inserted, and that one the others find (`AllTaken`).

**`ServicesProofs`** (`NoDaemonAssumption`, `NobodyAssumption`, `NoneAssumption`,
`FirstSeenAssumption`, `HandlersAssumption`):

* `ServingAlwaysOnRecord` and `LeaksAlwaysExplained` are lock arguments. A command or session
  between its look and its write holds the lock (`LockIsHeld`, `LockIsTheirs`); what it
  read stays true except for what the unlocked steps may take (`StillSeen`); and while it may still
  write, nobody relies on the record (`NobodyRelies`, `OnlyChild`).
* `HandlesAlwaysAccounted`. Each handle has one owner: a key of the cache, the evicted list or the
  thread that opens it (`OneKey`, `OpeningIsApart`, `OpenIsOwned`). `ToldAlwaysServed` needs that a reload
  under way has read what was promised (`FreshIsTrue`), and that registration withdraws both.
* `StampAlwaysHonest`. A file has nothing or all of a new schema before its first stamp
  (`FreshFile`), the renamed column is there under one name (`ColumnOnce`), and every opener
  between two hops has what its next hop starts from (`HopsReady`), even while another runs
  old hops again.
* `AnswersAlwaysTrue`, `ClosuresAlwaysCleared`. Of a request in flight (`InFlight`): what is left
  of its plan is the end of its handler's (`OnCourse`); every subject left in the request has
  earned each step it has passed, be it a clearance or a write (`Passed`, `Earned`); no subject
  that was written on is given up (`WrittenLeft`); and a refresh owed is still ahead (`Owes`).
  With these, each way a request ends is one lemma, which uses a rule or two of
  `HandlersAssumption`. The number of subjects is arbitrary.

**`WriterLockProofs`** (`WriterAssumption`): `LocksImplementAtomicWrites`, that
`WriterLock` implements `AtomicWrites` for any number of tasks, connections, calls and
attempts, and `OpenTxAlwaysOwned`. The invariant ties each task to the version it writes:
what is committed of a call is nothing or all of one version, parts not yet committed
belong to the open transaction of the task's connection, and at most one task is inside a
connection's lock (`Inside`, `Asked`, `Attempt`, `Committed`, `Owned`). Every step then maps
to a step of `AtomicWrites` or leaves what it sees unchanged, one lemma per kind of step.

The invariants that are not parts of the specification were checked by TLC on the scenes of the
runs before they were proved.

**Only model-checked.** Liveness (`CallsAnswered`, `CallsReturn`), which the prover does not
do. `WorkNeverStuck` is about the built-in workflows, fixed and finite tables without a
parameter, which TLC exhausts. Where an argument is by induction over data, it is carried by sets and
recursive functions instead: `Climb` is induction up to a number from the least element of a
set, `IterationExists` the existence of a function defined one value from the last.

## What is not modelled

* A database that was imported into, as far as the store's own properties go:
  `import_jsonl` writes rows and events other writers never produce. `Transfer` has the
  import itself.
* In `IssueStore`: labels, comments, scalar columns beyond one, commit reachability
  verdicts (an input). Batch calls are repeated single ones, see `Surfaces`.
* In `StartWork`: filters and the skip of container types, which shorten the list of
  candidates, and open blockers, which `get_ready` filters.
* In `Dependencies`: the dependency type, holder checks (those of `IssueStore`),
  compaction, plans of more than one phase; critical path and plan views are reads.
* In `ScanRuns`: a scanner that posts in several batches, the status `timeout` (declared,
  written by nothing), process ids that are reused, `create_scan_run` (called by tests only).
* In `Findings`: file records, observations made by an ingest, the suppression guard,
  telemetry rows, fingerprint schemes, the entity link of a promotion, and what the
  issue's own workflow says of a close or reopen (a refusal is a choice).
* In the records: filters of the feed, validation of single records of an import, the
  pruning of the observations' trail, an annotation's provenance, the reverse lookup of
  entities.
* In the services: the text of the DDL, the snapshot a session hook prints, the MCP server's
  own port, authentication. In the surfaces: argument parsing, paging, the
  conversion of payloads between generations.
* The registry client (`registry.py`): an HTTP client with a health latch and a capability
  cache, local to a process; its only effect on the store is a name that is or is not
  resolved, which is an input of the models.
* Scanner scripts, installation, reports and the browser front end: text, files on the
  user's machine and read-only views.

## What could follow

1. The pickers over a store with dependencies, where a blocker arrives between the look and
   the claim.
2. The registry client's latch and cache, with lost and late answers.
