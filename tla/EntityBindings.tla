--------------------------- MODULE EntityBindings ---------------------------
(***************************************************************************)
(* Associations of issues with Loomweave entities (db_entity_associations),*)
(* the backfill that rewrites their locators to stable entity identities   *)
(* (sei_backfill), and the closure gate that reads their sign-offs         *)
(* (governance), with governance switched on.                              *)
(*                                                                         *)
(* All locators name one entity, whose code changes: `content' is its      *)
(* version.  A sign-off comes from Legis, which numbers them as it sends   *)
(* them.  The history of an issue holds its changes of status alone.       *)
(***************************************************************************)
EXTENDS Naturals, Sequences, SequencesExt

CONSTANTS Governed,   \* issues
          Locators, Identity,   \* ids of the entity: old ones, and its SEI
          Closers,    \* callers that close issues
          MaxContent, \* bound: versions of the entity's content
          MaxAttach,  \* bound: writes of an association
          MaxTrail    \* bound: undoable changes of status of an issue

VARIABLES bindings,  \* rows of entity_associations
          content,   \* the entity's current version
          attaches,  \* writes so far; the clock of attached_at
          signoffs,  \* what Legis ever signed: [issue, hash, seq]
          closed,    \* issues in a done status
          trail,     \* issue -> what its undoable changes changed from, done or not
          cleared,   \* closer -> issues the gate has let it close
          backfill   \* how far a backfill is, the rows it has read and not yet
                     \* rewritten, what it resolved, its uncommitted table

entityVars == <<bindings, content, attaches, signoffs, closed, trail, cleared, backfill>>

EntityIds == Locators \cup {Identity}
At(rows, i, e) == {b \in rows : b.issue = i /\ b.entity = e}
Signed(b) == b.seq > 0

NoBackfill == [stage |-> "idle", rows |-> {}, found |-> {}, draft |-> {}]

\* Nobody else writes while the transaction of a backfill is open.
MayWrite == backfill.stage # "applying"

EntityInit ==
    /\ bindings = {} /\ content = 1 /\ attaches = 0 /\ signoffs = {}
    /\ closed = {} /\ trail = [i \in Governed |-> <<>>]
    /\ cleared = [c \in Closers |-> {}]
    /\ backfill = NoBackfill

\* The code of the entity changes.
ContentMoves ==
    /\ content < MaxContent
    /\ content' = content + 1
    /\ UNCHANGED <<bindings, attaches, signoffs, closed, trail, cleared, backfill>>

(* Associations ************************************************************)

\* Mistake: a refresh writes what it was given, sign-off or none.
ClobberedBy(old, new) == [new EXCEPT !.orphan = old.orphan]

\* A refresh without a signature keeps the sign-off of the row.
RefreshedBy(old, new) ==
    IF Signed(new) THEN [new EXCEPT !.orphan = old.orphan]
    ELSE [old EXCEPT !.hash = new.hash, !.at = new.at]

\* add_entity_association: the caller may have read an older version; the
\* HTTP route alone takes a signature.
Attach(i, e, hash, signs) ==
    LET old == At(bindings, i, e)
        new == [issue |-> i, entity |-> e, hash |-> hash, at |-> attaches + 1, orphan |-> FALSE,
                seq |-> IF signs THEN attaches + 1 ELSE 0,
                over |-> IF signs THEN hash ELSE 0]
    IN  /\ MayWrite /\ attaches < MaxAttach
        /\ attaches' = attaches + 1
        /\ bindings' = (bindings \ old) \cup
                          IF old = {} THEN {new} ELSE {RefreshedBy(b, new) : b \in old}
        /\ signoffs' = signoffs \cup
                          IF signs THEN {[issue |-> i, hash |-> hash, seq |-> attaches + 1]} ELSE {}
        /\ UNCHANGED <<content, closed, trail, cleared, backfill>>

\* Mistake: any association may be removed.
AnyRemovable(b) == TRUE

Removable(b) == ~Signed(b)

Detach(b) ==
    /\ MayWrite /\ Removable(b)
    /\ bindings' = bindings \ {b}
    /\ UNCHANGED <<content, attaches, signoffs, closed, trail, cleared, backfill>>

(* The backfill ************************************************************)

\* Rows that are not orphaned are read and their locators resolved by the
\* registry, which takes a while.
BackfillReads(found) ==
    LET rows == {<<b.issue, b.entity>> : b \in {r \in bindings : ~r.orphan /\ r.entity # Identity}}
    IN  /\ backfill.stage = "idle" /\ rows # {}
        /\ backfill' = [stage |-> "read", rows |-> rows, found |-> found, draft |-> {}]
        /\ UNCHANGED <<bindings, content, attaches, signoffs, closed, trail, cleared>>

\* Mistake: the survivor of a merge keeps what it has.
SurvivorAlone(survivor, incoming) == survivor

\* _merge_into_survivor: the newest attachment and the newest sign-off.
MergedInto(survivor, incoming) ==
    LET newest == IF incoming.at > survivor.at THEN incoming ELSE survivor
        signer == IF incoming.seq > survivor.seq THEN incoming ELSE survivor
    IN  [survivor EXCEPT !.hash = newest.hash, !.at = newest.at,
                         !.seq = signer.seq, !.over = signer.over]

\* One row read earlier is rewritten as it is by now, if it is still there.
Rewritten(rows, key, found) ==
    LET old       == At(rows, key[1], key[2])
        survivors == At(rows, key[1], Identity)
    IN  IF old = {} THEN rows
        ELSE IF key[2] \notin found THEN (rows \ old) \cup {[b EXCEPT !.orphan = TRUE] : b \in old}
        ELSE (rows \ (old \cup survivors)) \cup
             IF survivors = {} THEN {[b EXCEPT !.entity = Identity] : b \in old}
             ELSE {MergedInto(s, b) : s \in survivors, b \in old}

\* _apply: every row that was read, in one transaction that begins with the first
\* and may fail.
BackfillRewrites(key) ==
    LET rows == IF backfill.stage = "applying" THEN backfill.draft ELSE bindings
    IN  /\ key \in backfill.rows
        /\ backfill' = [backfill EXCEPT !.stage = "applying", !.rows = @ \ {key},
                                       !.draft = Rewritten(rows, key, backfill.found)]
        /\ UNCHANGED <<bindings, content, attaches, signoffs, closed, trail, cleared>>

BackfillEnds ==
    /\ backfill.stage # "idle"
    /\ bindings' = bindings \/ (backfill.rows = {} /\ bindings' = backfill.draft)
    /\ backfill' = NoBackfill
    /\ UNCHANGED <<content, attaches, signoffs, closed, trail, cleared>>

(* Closing *****************************************************************)

Drifted(b) == b.over # b.hash

\* evaluate_closure_gate; the registry may not answer, which holds up nothing.
MayClose(i, answers) == \A b \in bindings : (b.issue = i /\ Signed(b)) =>
    /\ ~Drifted(b)
    /\ answers => b.hash = content

\* The tools, the routes and the command close ask the gate first, a batch for
\* all of its issues.
AskGate(c, issues, answers) ==
    /\ cleared[c] = {} /\ issues # {}
    /\ \A i \in issues : i \notin closed /\ MayClose(i, answers)
    /\ cleared' = [cleared EXCEPT ![c] = issues]
    /\ UNCHANGED <<bindings, content, attaches, signoffs, closed, trail, backfill>>

Turns(i, done) ==
    /\ MayWrite /\ Len(trail[i]) < MaxTrail
    /\ trail' = [trail EXCEPT ![i] = Append(@, i \in closed)]
    /\ closed' = IF done THEN closed \cup {i} ELSE closed \ {i}

\* The write, in a transaction of its own; refused when another was faster.
CloseCleared(c) == \E i \in cleared[c] :
    /\ MayWrite
    /\ IF i \in closed THEN UNCHANGED <<closed, trail>> ELSE Turns(i, TRUE)
    /\ cleared' = [cleared EXCEPT ![c] = @ \ {i}]
    /\ UNCHANGED <<bindings, content, attaches, signoffs, backfill>>

\* The commands batch-close and batch-update hand their issues to the store unasked.
CloseUnasked(i) ==
    /\ i \notin closed
    /\ Turns(i, TRUE)
    /\ UNCHANGED <<bindings, content, attaches, signoffs, cleared, backfill>>

Reopen(i) ==
    /\ i \in closed
    /\ Turns(i, FALSE)
    /\ UNCHANGED <<bindings, content, attaches, signoffs, cleared, backfill>>

\* undo_last restores the status its newest undoable change replaced.
UndoStatus(i) ==
    /\ MayWrite /\ trail[i] # <<>>
    /\ closed' = IF Last(trail[i]) THEN closed \cup {i} ELSE closed \ {i}
    /\ trail' = [trail EXCEPT ![i] = Front(@)]
    /\ UNCHANGED <<bindings, content, attaches, signoffs, cleared, backfill>>

EntityNext ==
    \/ ContentMoves
    \/ \E i \in Governed, e \in EntityIds, hash \in 1..content, signs \in BOOLEAN : Attach(i, e, hash, signs)
    \/ \E b \in bindings : Detach(b)
    \/ \E found \in SUBSET Locators : BackfillReads(found)
    \/ BackfillEnds
    \/ \E key \in backfill.rows : BackfillRewrites(key)
    \/ \E c \in Closers :
         \/ \E issues \in SUBSET Governed, answers \in BOOLEAN : AskGate(c, issues, answers)
         \/ CloseCleared(c)
    \/ \E i \in Governed : CloseUnasked(i) \/ Reopen(i) \/ UndoStatus(i)

(* Properties **************************************************************)

\* A governed issue stays governed: no refresh, removal or merge of locators,
\* in whatever order and from however old a reading, loses its newest
\* sign-off, and with it the need to pass the closure gate.
GovernedStays == \A s \in signoffs :
    \E b \in bindings : b.issue = s.issue /\ b.seq >= s.seq

\* A sign-off vouches for what was signed: an association that passes for
\* fresh holds a version Legis did sign for the issue under that number, also
\* after merges that join the attachment of one row to the sign-off of another.
SignoffVouches == \A b \in bindings : Signed(b) /\ ~Drifted(b) =>
    [issue |-> b.issue, hash |-> b.hash, seq |-> b.seq] \in signoffs

\* Together: sign-offs are neither lost nor extended to what nobody signed.
SignoffsHold == GovernedStays /\ SignoffVouches

\* The gate cannot be bypassed by closing through a different surface: an
\* issue with a drifted sign-off comes to be done only in a call that the gate
\* let close it, before the drift.
StaleNeverCloses ==
    [][\A i \in closed' \ closed :
         (\E b \in bindings : b.issue = i /\ Signed(b) /\ Drifted(b)) =>
            \E c \in Closers : i \in cleared[c] \ cleared'[c]]_entityVars

EntitySpec == EntityInit /\ [][EntityNext]_entityVars
=============================================================================
