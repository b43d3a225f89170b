--------------------------- MODULE Observations ----------------------------
(***************************************************************************)
(* The queue of observations (db_observations): notes with an expiry that  *)
(* are dismissed, linked to an issue, promoted into a new one, alone or    *)
(* several at once, or swept when they expire.  Several callers act on it; *)
(* a call is one action per transaction and may fail or die in between.    *)
(*                                                                         *)
(* An observation is known by its id, drawn in order; `what' stands for    *)
(* the columns of idx_observations_dedup.  Issues stay as they were made:  *)
(* nobody deletes one or edits the source ids in its fields.  The audit    *)
(* trail is below the cap at which a sweep prunes it.                      *)
(***************************************************************************)
EXTENDS Naturals, FiniteSets, Functions

CONSTANTS Callers, Whats,
          MaxObs,   \* bound: observations ever made
          MaxMade   \* bound: issues ever made from them

ASSUME ObsAssumption == MaxObs \in Nat /\ MaxMade \in Nat

VARIABLES queue,    \* rows of observations: [id, what, old]
          lastObs,  \* the last id drawn
          audit,    \* rows of dismissed_observations: [obs, why, n]
          evidence, \* rows of observation_links: [obs, issue]
          made,     \* issues made by promotions: [no, from, alone]
          call      \* what each caller is doing

tablesO == <<queue, lastObs, audit, evidence, made>>
obsVars == <<queue, lastObs, audit, evidence, made, call>>

Idle == [at |-> "idle", obs |-> {}, issue |-> 0, row |-> {}]

InQueue(id) == {o \in queue : o.id = id}
QueueIds    == {o.id : o \in queue}
Without(ids) == {o \in queue : o.id \notin ids}

\* One more row of the audit trail: an observation may get several.
Trailed(ids, why) ==
    audit \cup {[obs |-> id, why |-> why,
                 n |-> 1 + Cardinality({t \in audit : t.obs = id /\ t.why = why})] : id \in ids}

Goes(c, at, ids, issue) ==
    call' = [call EXCEPT ![c] = [at |-> at, obs |-> ids, issue |-> issue, row |-> {}]]
Returns(c) == call' = [call EXCEPT ![c] = Idle]

(* Creating ****************************************************************)

\* The look for a duplicate, in no transaction: a live one is returned.
LookForDuplicate(c, what) ==
    LET existing == {o \in queue : o.what = what}
    IN  /\ call[c] = Idle /\ lastObs < MaxObs
        /\ \A o \in existing : o.old
        /\ call' = [call EXCEPT ![c] = [at |-> "insert", obs |-> {o.id : o \in existing},
                                        issue |-> 0, row |-> {what}]]
        /\ UNCHANGED tablesO

\* The expired duplicate that was seen is replaced in one transaction; the
\* unique index refuses when another caller was faster, and its row is returned.
InsertObservation(c) == \E what \in call[c].row :
    LET rest == Without(call[c].obs)
    IN  /\ call[c].at = "insert"
        /\ IF \E o \in rest : o.what = what
           THEN UNCHANGED tablesO
           ELSE /\ lastObs < MaxObs
                /\ lastObs' = lastObs + 1
                /\ queue' = rest \cup {[id |-> lastObs + 1, what |-> what, old |-> FALSE]}
                /\ audit' = Trailed(call[c].obs, "replaced")
                /\ UNCHANGED <<evidence, made>>
        /\ Returns(c)

\* The time of an observation comes.
Expires == \E o \in queue :
    /\ ~o.old
    /\ queue' = (queue \ {o}) \cup {[o EXCEPT !.old = TRUE]}
    /\ UNCHANGED <<lastObs, audit, evidence, made, call>>

ExpiredIds == {o.id : o \in {p \in queue : p.old}}

\* Every listing sweeps first, in one savepoint.
Sweep ==
    /\ ExpiredIds # {}
    /\ audit' = Trailed(ExpiredIds, "expired")
    /\ queue' = Without(ExpiredIds)
    /\ UNCHANGED <<lastObs, evidence, made, call>>

(* Dismissing and linking: read, audit and delete under the writer lock ****)

\* Mistake: the ids asked for are dismissed, found or not.
FoundOrNot(ids) == ids

\* batch_dismiss_observations, and dismiss_observation for one id: those
\* found under the lock are dismissed, the others reported.
Found(ids) == ids \cap QueueIds

Dismiss(c, ids) ==
    /\ call[c] = Idle /\ Found(ids) # {}
    /\ audit' = Trailed(Found(ids), "dismissed")
    /\ queue' = Without(Found(ids))
    /\ UNCHANGED <<lastObs, evidence, made, call>>

Linkable(id) == \E o \in InQueue(id) : ~o.old

\* link_observation_to_issue: the snapshot goes to observation_links.
Linked(id, issue) ==
    /\ Linkable(id)
    /\ evidence' = evidence \cup {[obs |-> id, issue |-> issue]}
    /\ audit' = Trailed({id}, "linked")
    /\ queue' = Without({id})

LinkToIssue(c, id, i) ==
    /\ call[c] = Idle
    /\ Linked(id, i.no)
    /\ UNCHANGED <<lastObs, made, call>>

(* Promoting one ***********************************************************)

\* The source ids in the fields of an issue are a list, in the caller's order.
NewIssue(list, alone) == [no |-> Cardinality(made) + 1, from |-> list, alone |-> alone]

\* Mistake: a promotion does not look for an earlier one.
NeverPromoted(id) == {}

\* The issue whose source_observation_id names the observation.
AlreadyPromoted(id) == {i \in made : i.alone /\ i.from = <<id>>}

\* A retry cleans up what an earlier promotion left behind.
PromoteAgain(c, id) ==
    /\ call[c] = Idle
    /\ AlreadyPromoted(id) # {} /\ id \in QueueIds
    /\ queue' = Without({id})
    /\ audit' = IF \E t \in audit : t.obs = id /\ t.why = "promoted" THEN audit
                ELSE Trailed({id}, "promoted")
    /\ UNCHANGED <<lastObs, evidence, made, call>>

\* Check and creation under one writer lock; the clean-up comes later.
Promote(c, id) ==
    /\ call[c] = Idle
    /\ AlreadyPromoted(id) = {} /\ Linkable(id)
    /\ Cardinality(made) < MaxMade
    /\ made' = made \cup {NewIssue(<<id>>, TRUE)}
    /\ Goes(c, "delete", {id}, 0)
    /\ UNCHANGED <<queue, lastObs, audit, evidence>>

\* The delete may fail; the audit row is written all the same.
DeletePromoted(c) ==
    /\ call[c].at = "delete"
    /\ queue' = Without(call[c].obs) \/ queue' = queue
    /\ Goes(c, "audit", call[c].obs, 0)
    /\ UNCHANGED <<lastObs, audit, evidence, made>>

AuditPromoted(c) ==
    /\ call[c].at = "audit"
    /\ audit' = Trailed(call[c].obs, "promoted") \/ audit' = audit
    /\ Returns(c)
    /\ UNCHANGED <<queue, lastObs, evidence, made>>

(* Promoting several into one issue ****************************************)

\* Lists of observations without repetitions.
Lists == UNION {{f \in [1..n -> 1..lastObs] : IsInjective(f)} : n \in 1..lastObs}

AlreadyMerged(list) == {i \in made : ~i.alone /\ i.from = list}

\* An existing issue is returned and what lingers of its observations linked.
MergeAgain(c, list) == \E i \in AlreadyMerged(list) :
    /\ call[c] = Idle /\ Found(Range(list)) # {}
    /\ Goes(c, "link", Found(Range(list)), i.no)
    /\ UNCHANGED tablesO

Merge(c, list) ==
    LET issue == NewIssue(list, FALSE)
    IN  /\ call[c] = Idle
        /\ AlreadyMerged(list) = {} /\ \A id \in Range(list) : Linkable(id)
        /\ Cardinality(made) < MaxMade
        /\ made' = made \cup {issue}
        /\ Goes(c, "link", Range(list), issue.no)
        /\ UNCHANGED <<queue, lastObs, audit, evidence>>

\* Each link is a call of its own; one that fails becomes a warning.
LinkMerged(c) == \E id \in call[c].obs :
    /\ call[c].at = "link"
    /\ \A other \in call[c].obs : id =< other
    /\ Linked(id, call[c].issue) \/ UNCHANGED <<evidence, audit, queue>>
    /\ IF call[c].obs = {id} THEN Returns(c)
       ELSE Goes(c, "link", call[c].obs \ {id}, call[c].issue)
    /\ UNCHANGED <<lastObs, made>>

\* A caller dies between two of its transactions.
Dies(c) == call[c] # Idle /\ Returns(c) /\ UNCHANGED tablesO

ObsInit == /\ queue = {} /\ lastObs = 0 /\ audit = {} /\ evidence = {} /\ made = {}
           /\ call = [c \in Callers |-> Idle]

ObsNext ==
    \/ Expires \/ Sweep
    \/ \E c \in Callers :
        \/ \E what \in Whats : LookForDuplicate(c, what)
        \/ InsertObservation(c)
        \/ \E ids \in SUBSET QueueIds : Dismiss(c, ids)
        \/ \E id \in QueueIds, i \in made : LinkToIssue(c, id, i)
        \/ \E id \in QueueIds : PromoteAgain(c, id) \/ Promote(c, id)
        \/ DeletePromoted(c) \/ AuditPromoted(c)
        \/ \E list \in Lists : MergeAgain(c, list) \/ Merge(c, list)
        \/ LinkMerged(c)
        \/ Dies(c)
ObsSpec == ObsInit /\ [][ObsNext]_obsVars

(* Properties **************************************************************)

\* No observation vanishes: one that left the queue is in the audit trail, or
\* an issue made from it names it (promote_observation deletes before it
\* audits and may die in between); and whatever was linked as evidence had
\* its audit row written with it.
ObservationsAccounted ==
    /\ \A id \in 1..lastObs :
          \/ id \in QueueIds
          \/ \E t \in audit : t.obs = id
          \/ \E i \in made : id \in Range(i.from)
    /\ \A e \in evidence : \E t \in audit : t.obs = e.obs /\ t.why = "linked"

\* An observation is disposed of once: two dismissals or links of it do not
\* both write their rows, and promotions of it, or of one list of
\* observations, repeated, concurrent or broken off, make one issue.
DisposedOnce ==
    /\ \A t \in audit : t.why \in {"dismissed", "linked"} =>
          /\ t.n = 1
          /\ ~\E s \in audit : s.obs = t.obs /\ s.why \in {"dismissed", "linked"} \ {t.why}
    /\ \A e, f \in evidence : e.obs = f.obs => e = f
    /\ \A i, j \in made : i.from = j.from /\ i.alone = j.alone => i = j

\* Together: every observation comes to exactly one recorded end.
ObservationsSettled == ObservationsAccounted /\ DisposedOnce
============================================================================
