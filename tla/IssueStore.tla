----------------------------- MODULE IssueStore -----------------------------
(* The issues table and its audit log, with one action per public write of    *)
(* FiligreeDB that touches a single issue's lifecycle: create, update, close,  *)
(* reopen, claim, release, heartbeat, reclaim (db_issues.py), undo, archive    *)
(* and compact (db_events.py) and delete.                                      *)
(* Each write runs inside BEGIN IMMEDIATE ... COMMIT, and every refusal rolls   *)
(* back, so a write is one atomic step and a refusal changes nothing.          *)
(*                                                                             *)
(* A row operator (UpdatedRow, Released, ...) is the value of the row after the *)
(* UPDATE; the matching ...Events operator lists the events the handler         *)
(* appends, in order.  priority stands for the scalar columns that are written  *)
(* and undone alike (title, priority, description, notes); leaseEnd stands for  *)
(* the pair last_heartbeat_at/claim_expires_at, which every write sets or       *)
(* clears together; fields is the set of populated field names.                 *)
EXTENDS Workflow, FiniteSets

CONSTANTS
    Issue,           \* issue ids (random, never issued twice)
    Agent,           \* identities that act and hold claims
    NoOne,           \* the blank identity: unassigned, or an actorless call
    Priority,        \* values of the scalar column
    CloseReason,     \* the field name "close_reason"
    LeaseLength,     \* claim lease in ticks
    RequestId,       \* client_request_id values
    UpdateRequest,   \* the update_issue payloads callers send
    CreateRequest,   \* the create_issue payloads callers send
    ArchiveAge,      \* days_old values passed to archive_closed, in ticks
    KeepRecent,      \* keep_recent values passed to compact_events
    MaxNow,          \* bound: clock ticks
    MaxEvents        \* bound: events ever recorded per issue

Holder == Agent \cup {NoOne}
Updates == [status : StateSet \cup {Nil}, assignee : Holder \cup {Nil},
            fields : {Nil} \cup SUBSET Field, priority : Priority \cup {Nil},
            commit : BOOLEAN]
Creates == [assignee : Holder, fields : SUBSET Field, priority : Priority]

ASSUME StoreAssumption ==
    /\ NoOne \notin Agent
    /\ Nil \notin Agent \cup {NoOne} \cup Nat \cup Priority
    /\ \A F \in SUBSET Field : F # Nil
    /\ LeaseLength \in Nat /\ MaxNow \in Nat /\ MaxEvents \in Nat
    /\ ArchiveAge \subseteq Nat /\ KeepRecent \subseteq Nat
    /\ UpdateRequest \subseteq Updates
    /\ CreateRequest \subseteq Creates
    /\ CloseReason \in Field

VARIABLES
    row,         \* issues table: a function on the live issues
    log,         \* events table: the live issue's events, oldest first
    lastId,      \* last event id handed out for the issue (AUTOINCREMENT)
    tombstones,  \* deleted_issues
    now          \* the clock behind every timestamp

vars == <<row, log, lastId, tombstones, now>>

Live == DOMAIN row
Time == Nat \cup {Nil}
Row == [status : Status, assignee : Holder, claimedAt : Time,
        claimCommit : Holder \cup {Nil}, leaseEnd : Time, closedAt : Time,
        closeCommit : Time, fields : SUBSET Field, priority : Priority]

-----------------------------------------------------------------------------
(* Events                                                                      *)

ReversibleKinds ==
    {"status_changed", "priority_changed", "assignee_changed", "claimed",
     "fields_changed"}

Event(kind, actor, old, new) ==
    [kind |-> kind, actor |-> actor, old |-> old, new |-> new, note |-> Nil]

(* An optional event: the one given when the condition holds.                  *)
When(condition, event) == IF condition THEN <<event>> ELSE <<>>

(* Mistake: every event of one write gets the same id.                         *)
SameIdStamp(i, events) ==
    [k \in DOMAIN events |->
        [id |-> lastId[i] + 1, at |-> now, kind |-> events[k].kind,
         actor |-> events[k].actor, old |-> events[k].old,
         new |-> events[k].new, note |-> events[k].note]]

(* _record_event: the payload gets the next id and the current time.           *)
Stamp(i, events) ==
    [k \in DOMAIN events |->
        [id |-> lastId[i] + k, at |-> now, kind |-> events[k].kind,
         actor |-> events[k].actor, old |-> events[k].old,
         new |-> events[k].new, note |-> events[k].note]]

(* The commit of a write to one live issue: new row, events appended.          *)
Write(i, newRow, events) ==
    /\ lastId[i] + Len(events) <= MaxEvents
    /\ row' = [row EXCEPT ![i] = newRow]
    /\ log' = [log EXCEPT ![i] = @ \o Stamp(i, events)]
    /\ lastId' = [lastId EXCEPT ![i] = @ + Len(events)]
    /\ UNCHANGED <<tombstones, now>>

IsUndone(events, id) ==
    \E k \in DOMAIN events : events[k].kind = "undone" /\ events[k].new = id

(* Mistake: an event that was undone can be undone again.                      *)
UndoableAgain(events) == {k \in DOMAIN events : events[k].kind \in ReversibleKinds}

(* _undo_candidate_row: positions of reversible events without an undone       *)
(* marker; the newest of them is what undo_last reverses.                      *)
Undoable(events) ==
    {k \in DOMAIN events : /\ events[k].kind \in ReversibleKinds
                           /\ ~IsUndone(events, events[k].id)}

Newest(K) == CHOOSE k \in K : \A j \in K : j <= k

-----------------------------------------------------------------------------
(* Row operators                                                               *)

(* Mistake: a new holder inherits the anchor of the last one.                  *)
HeldByKeepingAnchor(r, a, commit) ==
    [r EXCEPT !.assignee = a, !.claimedAt = now, !.leaseEnd = now + LeaseLength,
              !.claimCommit = IF commit THEN a ELSE @]

(* A claim written afresh: holder, claim time, anchor and lease together.  The *)
(* anchor (claim_commit) is identified by the holder it was recorded for.      *)
HeldBy(r, a, commit) ==
    [r EXCEPT !.assignee = a, !.claimedAt = now, !.leaseEnd = now + LeaseLength,
              !.claimCommit = IF commit THEN a ELSE Nil]

Unheld(r) ==
    [r EXCEPT !.assignee = NoOne, !.claimedAt = Nil, !.leaseEnd = Nil,
              !.claimCommit = Nil]

Assigned(r, a, commit) == IF a = NoOne THEN Unheld(r) ELSE HeldBy(r, a, commit)

(* claim_issue's COALESCE: a repeated claim by the holder renews the lease and *)
(* keeps the first claim time and anchor.                                      *)
Claimed(r, a, commit) ==
    [r EXCEPT !.assignee = a,
              !.claimedAt = IF r.claimedAt = Nil THEN now ELSE @,
              !.claimCommit = IF r.claimCommit = Nil /\ commit THEN a ELSE @,
              !.leaseEnd = now + LeaseLength]

(* The anchor of a closure (close_commit) is identified by its closing time.   *)
Closed(r, s, commit) ==
    [r EXCEPT !.status = s, !.closedAt = now,
              !.closeCommit = IF commit THEN now ELSE Nil]

(* Mistake: a status that leaves done keeps closed_at.                         *)
NotClosedKeepingDate(r, s) == [r EXCEPT !.status = s]

NotClosed(r, s) ==
    [r EXCEPT !.status = s, !.closedAt = Nil, !.closeCommit = Nil]

StatusSet(r, s, commit) ==
    IF IsDone(s) THEN Closed(r, s, commit)
    ELSE IF IsDone(r.status) THEN NotClosed(r, s)
    ELSE [r EXCEPT !.status = s]

Released(r, target) ==
    IF target = Nil THEN Unheld(r) ELSE NotClosed(Unheld(r), target)

(* Mistake: a scalar is "restored" to the value the event recorded as new.     *)
RevertedToNew(r, e) ==
    CASE e.kind = "status_changed" ->
            IF IsDone(e.old) THEN Closed(r, e.old, FALSE)
            ELSE [NotClosed(r, e.old) EXCEPT !.fields = @ \ {CloseReason}]
      [] e.kind \in {"assignee_changed", "claimed"} -> Assigned(r, e.old, FALSE)
      [] e.kind = "priority_changed" -> [r EXCEPT !.priority = e.new]
      [] OTHER -> [r EXCEPT !.fields = e.old]

(* The reversal undo_last applies for each kind of event.                      *)
Reverted(r, e) ==
    CASE e.kind = "status_changed" ->
            IF IsDone(e.old) THEN Closed(r, e.old, FALSE)
            ELSE [NotClosed(r, e.old) EXCEPT !.fields = @ \ {CloseReason}]
      [] e.kind \in {"assignee_changed", "claimed"} -> Assigned(r, e.old, FALSE)
      [] e.kind = "priority_changed" -> [r EXCEPT !.priority = e.old]
      [] OTHER -> [r EXCEPT !.fields = e.old]

-----------------------------------------------------------------------------
(* update_issue, shared by update, close, reopen and start_work                *)

Changes(value, current) == value # Nil /\ value # current

MergedFields(r, q) == IF q.fields = Nil THEN r.fields ELSE q.fields

(* _check_expected_assignee: an explicit expected_assignee must name the live  *)
(* holder; otherwise a named actor must be the holder of a held issue, and an  *)
(* actorless write is let through.                                             *)
HolderCheck(r, actor, expected) ==
    IF expected # Nil THEN r.assignee = expected
    ELSE actor = NoOne \/ r.assignee = NoOne \/ r.assignee = actor

(* Mistake: a caller in FORWARD mode may take an escape edge.                  *)
EitherDirection(r, q, backward) ==
    Changes(q.status, r.status) =>
        \/ BackwardAllowed(r.status, q.status, MergedFields(r, q))
        \/ ForwardAllowed(r.status, q.status, MergedFields(r, q))

(* Mistake: BACKWARD mode skips validation instead of consulting its table.    *)
BackwardUnchecked(r, q, backward) ==
    Changes(q.status, r.status) =>
        backward \/ ForwardAllowed(r.status, q.status, MergedFields(r, q))

TransitionAllowed(r, q, backward) ==
    Changes(q.status, r.status) =>
        IF backward THEN BackwardAllowed(r.status, q.status, MergedFields(r, q))
        ELSE ForwardAllowed(r.status, q.status, MergedFields(r, q))

(* Mistake: the status columns are written whenever a status is given.          *)
UpdatedAsGiven(r, q) ==
    LET s == IF q.status # Nil THEN StatusSet(r, q.status, q.commit) ELSE r
        a == IF Changes(q.assignee, r.assignee)
             THEN Assigned(s, q.assignee, q.commit) ELSE s
    IN  [a EXCEPT !.priority = IF q.priority = Nil THEN @ ELSE q.priority,
                  !.fields = MergedFields(r, q)]

UpdatedRow(r, q) ==
    LET s == IF Changes(q.status, r.status)
             THEN StatusSet(r, q.status, q.commit) ELSE r
        a == IF Changes(q.assignee, r.assignee)
             THEN Assigned(s, q.assignee, q.commit) ELSE s
    IN  [a EXCEPT !.priority = IF q.priority = Nil THEN @ ELSE q.priority,
                  !.fields = MergedFields(r, q)]

(* Mistake: any close swallows its field changes.                              *)
AnyClose(r, q) == Changes(q.status, r.status) /\ IsDone(q.status)

(* A close whose only field change is close_reason is one event: the reason    *)
(* rides on status_changed and no fields_changed is recorded.                  *)
CloseReasonOnly(r, q) ==
    LET delta == (MergedFields(r, q) \ r.fields) \cup (r.fields \ MergedFields(r, q))
    IN  /\ Changes(q.status, r.status) /\ IsDone(q.status)
        /\ delta # {} /\ delta \subseteq {CloseReason}

UpdateEvents(r, q, actor, backward, checked) ==
    LET moves == Changes(q.status, r.status)
        warns == IF backward
                 THEN BackwardWarns(r.status, q.status, MergedFields(r, q))
                 ELSE ForwardWarns(r.status, q.status, MergedFields(r, q))
    IN     When(moves /\ warns,
                Event("transition_warning", actor, r.status, q.status))
        \o When(moves /\ backward,
                Event("transition_forced", actor, r.status, q.status))
        \o When(moves, Event("status_changed", actor, r.status, q.status))
        \o When(moves /\ IsDone(q.status) /\ q.commit /\ checked,
                Event("close_commit_checked", actor, Nil, Nil))
        \o When(Changes(q.priority, r.priority),
                Event("priority_changed", actor, r.priority, q.priority))
        \o When(Changes(q.assignee, r.assignee),
                Event("assignee_changed", actor, r.assignee, q.assignee))
        \o When(Changes(q.fields, r.fields) /\ ~CloseReasonOnly(r, q),
                Event("fields_changed", actor, r.fields, q.fields))

StatusRequest(s) ==
    [status |-> s, assignee |-> Nil, fields |-> Nil, priority |-> Nil,
     commit |-> FALSE]

-----------------------------------------------------------------------------
(* Writes                                                                      *)

Init ==
    /\ row = <<>> /\ log = <<>>
    /\ lastId = [i \in Issue |-> 0]
    /\ tombstones = {} /\ now = 0

NewRow(q) ==
    LET blank == [status |-> InitialState, assignee |-> NoOne,
                  claimedAt |-> Nil, claimCommit |-> Nil, leaseEnd |-> Nil,
                  closedAt |-> Nil, closeCommit |-> Nil, fields |-> q.fields,
                  priority |-> q.priority]
    IN  Assigned(blank, q.assignee, FALSE)

(* create_issue                                                                *)
Create(i, actor, q) ==
    /\ i \notin Live \cup tombstones
    /\ MaxEvents > 0
    /\ row' = [j \in Live \cup {i} |-> IF j = i THEN NewRow(q) ELSE row[j]]
    /\ log' = [j \in Live \cup {i} |->
                  IF j = i THEN Stamp(i, <<Event("created", actor, Nil, Nil)>>)
                  ELSE log[j]]
    /\ lastId' = [lastId EXCEPT ![i] = @ + 1]
    /\ UNCHANGED <<tombstones, now>>

(* update_issue; transition mode is FORWARD for every outside caller.          *)
Update(i, actor, expected, q) ==
    /\ i \in Live
    /\ HolderCheck(row[i], actor, expected)
    /\ TransitionAllowed(row[i], q, FALSE)
    /\ Write(i, UpdatedRow(row[i], q), UpdateEvents(row[i], q, actor, FALSE, FALSE))

(* close_issue: the target is a done state, the first declared one by default;   *)
(* force takes the escape edge.  A reason is merged into the fields of the one    *)
(* update.  "Already closed" is asked before the writer lock:                     *)
(* under it the update runs whatever has become of the issue since.               *)
CloseTarget(target) == IF target = Nil THEN FirstStateOf("done") ELSE target

CloseRequest(r, target, reason, commit) ==
    [StatusRequest(CloseTarget(target)) EXCEPT
        !.fields = IF reason THEN r.fields \cup {CloseReason} ELSE Nil,
        !.commit = commit]

Closable(i, actor, expected, target, reason, force, commit) ==
    /\ i \in Live
    /\ CloseTarget(target) \in StateSet /\ IsDone(CloseTarget(target))
    /\ HolderCheck(row[i], actor, expected)
    /\ TransitionAllowed(row[i], CloseRequest(row[i], target, reason, commit), force)

Close(i, actor, expected, target, reason, force, commit) ==
    LET q == CloseRequest(row[i], target, reason, commit)
    IN  /\ Closable(i, actor, expected, target, reason, force, commit)
        /\ Write(i, UpdatedRow(row[i], q),
                 UpdateEvents(row[i], q, actor, force, TRUE))

(* _reopen_target_status: the old status of the newest status_changed event     *)
(* from a non-done to a done state, undone or not; else the initial state.      *)
ReopenTarget(events) ==
    LET K == {k \in DOMAIN events :
                 /\ events[k].kind = "status_changed"
                 /\ events[k].old \in StateSet
                 /\ ~IsDone(events[k].old) /\ IsDone(events[k].new)}
    IN  IF K = {} THEN InitialState ELSE events[Newest(K)].old

(* reopen_issue: anyone may reopen (the holder it names is the one it read);    *)
(* close_reason is cleared with a fields_changed event of its own.              *)
Reopen(i, actor) ==
    LET r == row[i]
        s == ReopenTarget(log[i])
        q == StatusRequest(s)
        kept == r.fields \ {CloseReason}
    IN  /\ i \in Live
        /\ IsDone(r.status)
        /\ TransitionAllowed(r, q, TRUE)
        /\ Write(i, [UpdatedRow(r, q) EXCEPT !.fields = kept],
                 UpdateEvents(r, q, actor, TRUE, FALSE)
                 \o When(kept # r.fields,
                         Event("fields_changed", actor, r.fields, kept))
                 \o <<Event("reopened", actor, r.status, s)>>)

(* Mistake: the claim's WHERE clause does not look at the assignee.            *)
ClaimableFromAnyone(r, a) == r.status \in StateSet /\ ~IsDone(r.status)

(* claim_issue's UPDATE ... WHERE: an open or wip state, and nobody else's.     *)
Claimable(r, a) ==
    /\ r.status \in StateSet /\ ~IsDone(r.status)
    /\ r.assignee \in {NoOne, a}

Claim(i, a, actor, commit, request) ==
    /\ i \in Live
    /\ Claimable(row[i], a)
    /\ Write(i, Claimed(row[i], a, commit),
             <<[Event("claimed", actor, row[i].assignee, a) EXCEPT !.note = request]>>)

(* release_claim and heartbeat_work: expected_assignee is an extra guard; the   *)
(* actor must be the holder unless a coordinator overrides.                    *)
HoldsOrOverrides(r, actor, expected, override) ==
    /\ r.assignee # NoOne
    /\ expected # Nil => r.assignee = expected
    /\ override \/ r.assignee = actor

ReleaseTo(r, revert) ==
    IF revert /\ ReleaseTarget(r.status) # r.status
    THEN ReleaseTarget(r.status) ELSE Nil

ReleaseEvents(r, actor, target) ==
    <<Event(IF r.assignee = actor THEN "released" ELSE "released_by_override",
            actor, r.assignee, Nil)>>
    \o When(target # Nil, Event("transition_forced", actor, r.status, target))
    \o When(target # Nil, Event("status_changed", actor, r.status, target))

Release(i, actor, expected, override, revert) ==
    LET target == ReleaseTo(row[i], revert)
    IN  /\ i \in Live
        /\ HoldsOrOverrides(row[i], actor, expected, override)
        /\ ~IsDone(row[i].status)
        /\ target # Nil => BackwardAllowed(row[i].status, target, row[i].fields)
        /\ Write(i, Released(row[i], target), ReleaseEvents(row[i], actor, target))

Heartbeat(i, actor, expected, override) ==
    /\ i \in Live
    /\ HoldsOrOverrides(row[i], actor, expected, override)
    /\ ~IsDone(row[i].status)
    /\ Write(i, [row[i] EXCEPT !.leaseEnd = now + LeaseLength],
             <<Event(IF row[i].assignee = actor THEN "heartbeat"
                     ELSE "heartbeat_by_override", actor, row[i].assignee, Nil)>>)

(* reclaim_issue: a compare-and-swap on the named holder.                       *)
Reclaim(i, a, expected, actor, commit) ==
    /\ i \in Live
    /\ expected # NoOne /\ row[i].assignee = expected
    /\ ~IsDone(row[i].status)
    /\ Write(i, HeldBy(row[i], a, commit),
             <<Event("reclaimed", actor, expected, a)>>)

(* Mistake: the oldest reversible event is undone first.                       *)
OldestUndoTarget(i) ==
    log[i][CHOOSE k \in Undoable(log[i]) : \A j \in Undoable(log[i]) : k <= j]

UndoTarget(i) == log[i][Newest(Undoable(log[i]))]

(* undo_last: a compare-and-swap on the event to reverse; on a live claim only  *)
(* the holder may undo, or a coordinator by override.                           *)
MayUndo(r, actor, override) ==
    r.assignee \in {NoOne, actor} \/ IsDone(r.status) \/ override

Undo(i, actor, expectedEvent, override) ==
    /\ i \in Live
    /\ Undoable(log[i]) # {}
    /\ UndoTarget(i).id = expectedEvent
    /\ MayUndo(row[i], actor, override)
    /\ Write(i, Reverted(row[i], UndoTarget(i)),
             <<[Event("undone", actor, UndoTarget(i).kind, expectedEvent)
                   EXCEPT !.note = IF MayUndo(row[i], actor, FALSE) THEN Nil
                                   ELSE row[i].assignee]>>)

(* archive_closed: every workflow-done issue closed before the cutoff gets the  *)
(* synthetic status; closed_at stays.                                           *)
Archivable(age) ==
    {i \in Live : /\ row[i].status \in StateSet /\ IsDone(row[i].status)
                  /\ row[i].closedAt # Nil /\ row[i].closedAt + age < now}

ArchiveClosed(actor, age) ==
    LET S == Archivable(age)
    IN  /\ S # {}
        /\ \A i \in S : lastId[i] < MaxEvents
        /\ row' = [i \in Live |-> IF i \in S
                       THEN [row[i] EXCEPT !.status = Archived] ELSE row[i]]
        /\ log' = [i \in Live |-> IF i \in S
                       THEN log[i] \o Stamp(i, <<Event("archived", actor, Nil, Nil)>>)
                       ELSE log[i]]
        /\ lastId' = [i \in Issue |-> lastId[i] + (IF i \in S THEN 1 ELSE 0)]
        /\ UNCHANGED <<tombstones, now>>

(* Mistake: compaction keeps the oldest events.                                *)
KeptOldest(events, keep) ==
    IF Len(events) <= keep THEN events ELSE SubSeq(events, 1, keep)

(* compact_events: an archived issue keeps its newest events only.              *)
Kept(events, keep) ==
    IF Len(events) <= keep THEN events
    ELSE SubSeq(events, Len(events) - keep + 1, Len(events))

CompactEvents(keep) ==
    /\ log' = [i \in Live |-> IF row[i].status = Archived
                              THEN Kept(log[i], keep) ELSE log[i]]
    /\ UNCHANGED <<row, lastId, tombstones, now>>

(* delete_issue's terminal guard and cascade; the guards on children and        *)
(* dependents are in module Dependencies.                                       *)
Delete(i, force) ==
    /\ i \in Live
    /\ force \/ IsDone(row[i].status)
    /\ row' = [j \in Live \ {i} |-> row[j]]
    /\ log' = [j \in Live \ {i} |-> log[j]]
    /\ tombstones' = tombstones \cup {i}
    /\ UNCHANGED <<lastId, now>>

Tick == now < MaxNow /\ now' = now + 1 /\ UNCHANGED <<row, log, lastId, tombstones>>

-----------------------------------------------------------------------------
(* The system: any caller may issue any write at any time.                      *)

Expected == Holder \cup {Nil}

StatusWrite(i) ==
    \/ \E actor \in Holder, expected \in Expected, q \in UpdateRequest :
          Update(i, actor, expected, q)
    \/ \E actor \in Holder, expected \in Expected, s \in StateSet \cup {Nil},
          reason, force, commit \in BOOLEAN :
          Close(i, actor, expected, s, reason, force, commit)
    \/ \E actor \in Holder : Reopen(i, actor)

ClaimWrite(i) ==
    \/ \E a \in Agent, actor \in Holder, commit \in BOOLEAN,
          request \in RequestId \cup {Nil} : Claim(i, a, actor, commit, request)
    \/ \E actor \in Holder, expected \in Agent \cup {Nil}, override, revert \in BOOLEAN :
          Release(i, actor, expected, override, revert)
    \/ \E actor \in Holder, expected \in Agent \cup {Nil}, override \in BOOLEAN :
          Heartbeat(i, actor, expected, override)
    \/ \E a, expected \in Agent, actor \in Holder, commit \in BOOLEAN :
          Reclaim(i, a, expected, actor, commit)

Maintenance ==
    \/ \E actor \in Holder, age \in ArchiveAge : ArchiveClosed(actor, age)
    \/ \E keep \in KeepRecent : CompactEvents(keep)
    \/ \E i \in Issue, force \in BOOLEAN : Delete(i, force)
    \/ Tick

Next ==
    \/ \E i \in Issue, actor \in Holder, q \in CreateRequest : Create(i, actor, q)
    \/ \E i \in Issue : StatusWrite(i) \/ ClaimWrite(i)
    \/ \E i \in Issue, actor \in Holder, id \in 1..MaxEvents, override \in BOOLEAN :
          Undo(i, actor, id, override)
    \/ Maintenance

Spec == Init /\ [][Next]_vars

-----------------------------------------------------------------------------
(* Type correctness                                                             *)

Kinds == ReversibleKinds \cup
    {"created", "transition_warning", "transition_forced",
     "close_commit_checked", "reopened", "released", "released_by_override",
     "heartbeat", "heartbeat_by_override", "reclaimed", "archived", "undone"}

PayloadOK(e) ==
    /\ e.kind \in Kinds /\ e.actor \in Holder
    /\ e.kind = "status_changed" => {e.old, e.new} \subseteq StateSet
    /\ e.kind \in {"claimed", "assignee_changed"} => {e.old, e.new} \subseteq Holder
    /\ e.kind = "priority_changed" => {e.old, e.new} \subseteq Priority
    /\ e.kind = "fields_changed" => {e.old, e.new} \subseteq SUBSET Field

IsSequence(s) == Len(s) \in Nat /\ DOMAIN s = 1..Len(s)

(* A log: well-typed events whose ids were handed out in log order.             *)
LogOK(events, last) ==
    /\ IsSequence(events)
    /\ \A k \in DOMAIN events :
          /\ PayloadOK(events[k])
          /\ events[k].id \in 1..last /\ events[k].at \in Nat
    /\ \A j, k \in DOMAIN events : j < k => events[j].id < events[k].id

(* Every live issue has a well-typed row and a well-formed log.                 *)
TypeOK ==
    /\ Live \subseteq Issue /\ DOMAIN log = Live
    /\ lastId \in [Issue -> Nat] /\ tombstones \subseteq Issue /\ now \in Nat
    /\ \A i \in Live : row[i] \in Row /\ LogOK(log[i], lastId[i])

-----------------------------------------------------------------------------
(* Safety: the columns of a row agree                                           *)

ClaimColumnsOK(r) ==
    /\ r.assignee = NoOne <=> r.claimedAt = Nil
    /\ r.assignee = NoOne <=> r.leaseEnd = Nil

ClaimAnchorOK(r) == r.claimCommit \in {Nil, r.assignee} \ {NoOne}

ClosedColumnsOK(r) ==
    /\ IsDone(r.status) <=> r.closedAt # Nil
    /\ r.closeCommit \in {Nil, r.closedAt}

(* The four claim columns stand or fall together: whatever mix of claims,       *)
(* updates, releases, reclaims and undos ran, an issue has a claim time and a   *)
(* lease exactly when somebody holds it.                                        *)
ClaimColumnsAgree == \A i \in Live : ClaimColumnsOK(row[i])

(* A claim anchor (claim_commit) is the current holder's: handing the issue on  *)
(* by reclaim, reassignment or undo never leaves the former holder's commit.    *)
ClaimAnchorIsHolders == \A i \in Live : ClaimAnchorOK(row[i])

(* Together: every claim column is the current holder's, or empty.              *)
HolderColumnsAgree == ClaimColumnsAgree /\ ClaimAnchorIsHolders

(* closed_at is set exactly on done and archived issues, on every path in and   *)
(* out of done, and a close anchor belongs to the closure that closed_at dates. *)
ClosedColumnsAgree == \A i \in Live : ClosedColumnsOK(row[i])

(* Together: the columns that a dozen writers set by hand, one by one, agree.    *)
ColumnsAgree == HolderColumnsAgree /\ ClosedColumnsAgree

-----------------------------------------------------------------------------
(* Safety: the log explains the row                                             *)

NewestDone(events, kind) ==
    {k \in DOMAIN events : events[k].kind = kind /\ ~IsUndone(events, events[k].id)}

(* The value the log leaves a column with: that of its newest change that no    *)
(* undo reversed, when the (possibly compacted) log still has one.              *)
ExplainedBy(events, kind, Holds(_)) ==
    LET K == NewestDone(events, kind)
    IN  K # {} => Holds(events[Newest(K)].new)

(* The status of an issue is the one its newest not-undone status_changed       *)
(* records, or archived: undo, reopen, release, archive and compaction never    *)
(* let row and audit log drift apart.                                           *)
StatusExplained ==
    \A i \in Live :
        LET Holds(s) == row[i].status = s \/ (row[i].status = Archived /\ IsDone(s))
        IN  ExplainedBy(log[i], "status_changed", Holds)

(* The same for a scalar column: undoing priority changes one by one walks the  *)
(* column back through exactly the values the log recorded.                     *)
PriorityExplained ==
    \A i \in Live :
        LET Holds(p) == row[i].priority = p
        IN  ExplainedBy(log[i], "priority_changed", Holds)

(* The same for fields, up to close_reason, which closing and undoing a close   *)
(* write without a fields_changed event.                                        *)
FieldsExplained ==
    \A i \in Live :
        LET Holds(F) == row[i].fields \ {CloseReason} = F \ {CloseReason}
        IN  ExplainedBy(log[i], "fields_changed", Holds)

(* No event is reversed twice, however many callers undo.                       *)
UndoneOnce ==
    \A i \in Live : \A j, k \in DOMAIN log[i] :
        /\ log[i][j].kind = "undone" /\ log[i][k].kind = "undone"
        /\ log[i][j].new = log[i][k].new
        => j = k

(* Every status change that is not a declared forward edge is announced by a    *)
(* transition_forced event right before it ("reviewers can find every workflow  *)
(* shortcut", update_issue).                                                    *)
ShortcutsAudited ==
    \A i \in Live : \A k \in DOMAIN log[i] :
        LET e == log[i][k] IN
        e.kind = "status_changed" /\ k > 1 =>
            \/ \E t \in ForwardEdges : t.from = e.old /\ t.to = e.new
            \/ /\ log[i][k - 1].kind = "transition_forced"
               /\ log[i][k - 1].old = e.old /\ log[i][k - 1].new = e.new

-----------------------------------------------------------------------------
(* Safety: who holds a claim                                                    *)

HolderKinds == {"claimed", "assignee_changed", "reclaimed"}
ReleaseKinds == {"released", "released_by_override"}

(* Positions of the log entries that set the assignee.                          *)
HolderEntries(events) ==
    {k \in DOMAIN events :
        \/ events[k].kind \in HolderKinds \cup ReleaseKinds
        \/ events[k].kind = "undone" /\ events[k].old \in HolderKinds}

(* What the entry at position k set the assignee to, as a reader of the log     *)
(* tells; an undone marker whose event was compacted away tells nothing.        *)
TellsHolder(events, k, holder) ==
    LET e == events[k] IN
    \/ e.kind \in HolderKinds /\ e.new = holder
    \/ e.kind \in ReleaseKinds /\ holder = NoOne
    \/ /\ e.kind = "undone"
       /\ \A j \in DOMAIN events : events[j].id = e.new => events[j].old = holder

(* A reader who follows the change feed knows the holder of every issue: the    *)
(* newest claim, assignment, reclaim, release or undo in the log names it.      *)
HolderExplained ==
    \A i \in Live :
        LET K == HolderEntries(log[i])
        IN  K # {} => TellsHolder(log[i], Newest(K), row[i].assignee)

(* Together: the log explains the row, whatever was undone, compacted, claimed  *)
(* or taken back.                                                               *)
RowExplained == StatusExplained /\ PriorityExplained /\ FieldsExplained /\ HolderExplained

Appended(i) == {k \in DOMAIN log'[i] : log'[i][k].id > lastId[i]}

(* A live claim leaves its holder only in a way the same commit records against *)
(* the holder's name: its own release or undo, a release or undo marked as an   *)
(* override, a reclaim or a reassignment.  A plain claim never displaces it.    *)
LosesClaim(i) ==
    LET h == row[i].assignee
        Lost(e) ==
            \/ e.kind = "released" /\ e.actor = h
            \/ e.kind = "released_by_override" /\ e.actor # h /\ e.old = h
            \/ e.kind \in {"reclaimed", "assignee_changed"} /\ e.old = h
            \/ e.kind = "undone" /\ (e.actor = h \/ e.note = h)
    IN  \E k \in Appended(i) : Lost(log'[i][k])

ClaimsNotStolen ==
    [][\A i \in Live \cap DOMAIN row' :
          /\ row[i].assignee \notin {NoOne, row'[i].assignee}
          /\ ~IsDone(row[i].status)
          => LosesClaim(i)]_vars

(* An archived issue comes back to life only by an undo.                        *)
ArchivedUntilUndone ==
    [][\A i \in Live \cap DOMAIN row' :
          row[i].status = Archived /\ row'[i].status # Archived
          => \E k \in Appended(i) : log'[i][k].kind = "undone"]_vars

(* A closure is dated and anchored once: as long as an issue stays done, a late   *)
(* close, an archiving or any other write leaves closed_at and close_commit.      *)
FirstClosureStands ==
    [][\A i \in Live \cap DOMAIN row' :
          IsDone(row[i].status) /\ IsDone(row'[i].status)
          => /\ row'[i].closedAt = row[i].closedAt
             /\ row'[i].closeCommit = row[i].closeCommit]_vars

(* Compaction never changes what undo would reverse next, except to nothing:    *)
(* dropping an undone marker before its event would reverse that event twice.   *)
CompactionKeepsUndo ==
    [][(\E keep \in KeepRecent : CompactEvents(keep)) =>
          \A i \in Live :
              \/ Undoable(log'[i]) = {}
              \/ log'[i][Newest(Undoable(log'[i]))].id = UndoTarget(i).id]_vars

=============================================================================
