---------------------------- MODULE ChangesFeed ----------------------------
(***************************************************************************)
(* The feed of changes that another tool follows to mirror the issues: the *)
(* log of events and the tombstones of deleted issues, merged into one     *)
(* order and read page by page with a cursor (db_events.get_events_since). *)
(*                                                                         *)
(* Writers are serialised by SQLite, but a record carries the time its     *)
(* transaction asked the clock, which is before it commits.  A page is two *)
(* SELECTs in no transaction: writers may commit between them.             *)
(*                                                                         *)
(* Assumptions: the clock does not go back, and a deletion (a dozen        *)
(* statements) is not stamped and committed within one tick of it, which   *)
(* is a microsecond.  The cursor is followed without filters; imports      *)
(* bring back an issue but not its old events.                             *)
(***************************************************************************)
EXTENDS Naturals, FiniteSets, FiniteSetsExt

CONSTANTS FeedIssues,   \* issue ids
          PageLimit,    \* the limit a consumer asks for
          TombBase,     \* _TOMBSTONE_EVENT_ID_BASE, above every event id
          MaxClock,     \* bound: ticks of the clock
          MaxFeedIds    \* bound: rows ever written to either table

ASSUME FeedAssumption == /\ PageLimit \in Nat \ {0}
                         /\ MaxFeedIds \in Nat /\ TombBase \in Nat
                         /\ TombBase > MaxFeedIds

VARIABLES clock,      \* what _now_iso would return
          live,       \* rows of issues
          log,        \* rows of events: [id, issue, at]
          tombs,      \* rows of deleted_issues: [id (its seq), issue, at]
          ids,        \* sqlite_sequence of both tables: [event, tomb]
          writing,    \* the open transaction, {} or {[kind, issue, at]}
          cursor,     \* next_since and next_event_id of the consumer
          fetched,    \* {} or {rows}: the events of the page being read
          seen,       \* records the consumer was ever given
          mirror      \* the issues the consumer believes to exist

tables   == <<live, log, tombs, ids>>
consumer == <<cursor, fetched, seen, mirror>>
feedVars == <<clock, tables, writing, consumer>>

(* Records of the merged order ********************************************)

EventRecord(e) == [id |-> e.id, issue |-> e.issue, at |-> e.at, gone |-> FALSE]

\* An issue_deleted record sorts above every event of the same time.
TombRecord(d) == [id |-> TombBase + d.id, issue |-> d.issue, at |-> d.at, gone |-> TRUE]

Earlier(r, s) == r.at < s.at \/ (r.at = s.at /\ r.id < s.id)

\* ORDER BY created_at, id LIMIT n
FirstOf(n, rows) == {r \in rows : Cardinality({s \in rows : Earlier(s, r)}) < n}

EventsAfter(c) == {e \in log : e.at > c.at \/ (e.at = c.at /\ e.id > c.id)}

\* The cursor moved into the numbering of tombstones, d.seq > after - BASE.
TombsAfter(c) == {d \in tombs : d.at > c.at \/ (d.at = c.at /\ TombBase + d.id > c.id)}

\* The overfetch by one tells has_more and is trimmed.
Overfetch == PageLimit + 1

PageOf(events, deletions) ==
    LET merged == {EventRecord(e) : e \in events} \cup {TombRecord(d) : d \in deletions}
    IN  FirstOf(PageLimit, FirstOf(Overfetch, merged))

(* Writers *****************************************************************)

Tick == /\ clock < MaxClock
        /\ clock' = clock + 1
        /\ UNCHANGED <<tables, writing, consumer>>

\* A decorated write holds the writer lock and has asked the clock.
BeginWrite(kind, i) ==
    /\ writing = {}
    /\ \/ kind = "delete" /\ i \in live
       \/ kind = "change" /\ i \in live
       \/ kind = "create" /\ i \notin live /\ ~\E d \in tombs : d.issue = i
    /\ writing' = {[kind |-> kind, issue |-> i, at |-> clock]}
    /\ UNCHANGED <<clock, tables, consumer>>

\* create_issue and every later write of an issue: one event (_record_event).
CommitEvent(w) ==
    /\ w.kind # "delete"
    /\ ids.event < MaxFeedIds
    /\ live' = live \cup {w.issue}
    /\ log' = log \cup {[id |-> ids.event + 1, issue |-> w.issue, at |-> w.at]}
    /\ ids' = [ids EXCEPT !.event = @ + 1]
    /\ UNCHANGED tombs

\* Mistake: INSERT OR IGNORE.
TombsKept(d) == IF \E t \in tombs : t.issue = d.issue THEN tombs ELSE tombs \cup {d}

\* INSERT OR REPLACE: an issue that was brought back is reported again.
TombsWith(d) == {t \in tombs : t.issue # d.issue} \cup {d}

CommitDeletion(w) ==
    /\ w.kind = "delete"
    /\ ids.tomb < MaxFeedIds
    /\ clock > w.at
    /\ live' = live \ {w.issue}
    /\ log' = {e \in log : e.issue # w.issue}
    /\ tombs' = TombsWith([id |-> ids.tomb + 1, issue |-> w.issue, at |-> w.at])
    /\ ids' = [ids EXCEPT !.tomb = @ + 1]

CommitWrite == \E w \in writing :
    /\ CommitEvent(w) \/ CommitDeletion(w)
    /\ writing' = {}
    /\ UNCHANGED <<clock, consumer>>

\* An import of an export taken before the deletion.
BringBack(i) ==
    /\ writing = {}
    /\ i \notin live
    /\ \E d \in tombs : d.issue = i
    /\ live' = live \cup {i}
    /\ UNCHANGED <<clock, log, tombs, ids, writing, consumer>>

(* The consumer ************************************************************)

FetchEvents ==
    /\ fetched = {}
    /\ fetched' = {FirstOf(Overfetch, EventsAfter(cursor))}
    /\ UNCHANGED <<clock, tables, writing, cursor, seen, mirror>>

LastOf(page) == CHOOSE r \in page : \A s \in page : s = r \/ Earlier(s, r)

\* An issue is believed to exist unless its last record says otherwise.
Mirrored(page) ==
    {i \in FeedIssues :
        LET about == {r \in page : r.issue = i}
        IN  IF about = {} THEN i \in mirror ELSE ~LastOf(about).gone}

\* The second SELECT, the merge, and the consumer's turn.
FetchTombs == \E events \in fetched :
    LET page == PageOf(events, FirstOf(Overfetch, TombsAfter(cursor)))
    IN  /\ fetched' = {}
        /\ cursor' = IF page = {} THEN cursor
                     ELSE [at |-> LastOf(page).at, id |-> LastOf(page).id]
        /\ seen' = seen \cup page
        /\ mirror' = Mirrored(page)
        /\ UNCHANGED <<clock, tables, writing>>

FeedInit ==
    /\ clock = 1 /\ live = {} /\ log = {} /\ tombs = {}
    /\ ids = [event |-> 0, tomb |-> 0]
    /\ writing = {}
    /\ cursor = [at |-> 0, id |-> 0]
    /\ fetched = {} /\ seen = {} /\ mirror = {}

FeedNext ==
    \/ Tick
    \/ \E i \in FeedIssues :
        \/ \E kind \in {"create", "change", "delete"} : BeginWrite(kind, i)
        \/ BringBack(i)
    \/ CommitWrite
    \/ FetchEvents
    \/ FetchTombs
FeedSpec == FeedInit /\ [][FeedNext]_feedVars

(* Properties **************************************************************)

CaughtUp == fetched = {} /\ EventsAfter(cursor) = {} /\ TombsAfter(cursor) = {}

\* A consumer that has read to the end of the feed believes in no issue that
\* is gone: no deletion falls between two pages, behind a page boundary, or
\* under another record of its time (get_events_since, "must learn of
\* deletions exactly once").
NoPhantomIssues == CaughtUp => mirror \subseteq live

\* A record at or below the cursor was given to the consumer, so that "the
\* caller's has_more / next_event_id cursor math stays correct across both
\* sources" (get_events_since).
NothingSkipped ==
    fetched = {} =>
        /\ \A e \in log : e \in EventsAfter(cursor) \/ EventRecord(e) \in seen
        /\ \A d \in tombs : d \in TombsAfter(cursor) \/ TombRecord(d) \in seen
============================================================================
