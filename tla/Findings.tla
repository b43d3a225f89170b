------------------------------- MODULE Findings -------------------------------
(* Scan findings and the issues made from them (src/filigree/db_files.py,         *)
(* finding_issue_cascade.py).  An ingest commits in one transaction; the reopens   *)
(* and closes it causes follow one by one, each a look followed by a transaction   *)
(* of its own, and so do the three writes of a promotion.  Between the steps of    *)
(* one call other calls, and people, may commit.  A call may die at any step.      *)
(* Findings are those of one scan source in one file.                             *)
EXTENDS Naturals, FiniteSets

CONSTANTS
    Finding,    \* fingerprints a scanner may report
    Issue,      \* issue ids, never issued twice
    Call,       \* threads and processes that work on findings
    None        \* no issue, no finding

ASSUME FindingAssumption ==
    /\ None \notin Issue \cup Finding \cup (Finding \X Issue)
    /\ Issue \cap (Finding \X Issue) = {}    \* an id is not a pair

VARIABLES
    finding,    \* scan_findings: status and linked issue, "absent" before the first report
    issue,      \* live issues: done, who closed last, held by an agent, origin, debts
    deleted,    \* ids of deleted issues
    call,       \* what each call still has to do
    regressed,  \* history: findings an ingest turned open again, untouched since
    forgotten   \* history: issues whose reopen died with its call

findingVars == <<finding, issue, deleted, call, regressed, forgotten>>

FindingStatus ==
    {"open", "acknowledged", "fixed", "false_positive", "unseen_in_latest"}
TERMINAL_FINDING_STATUSES == {"fixed", "false_positive"}

Live == DOMAIN issue
Known == {f \in Finding : finding[f].status # "absent"}
Linked(i) == {f \in Finding : finding[f].issue = i}

Undecided(f) ==
    finding[f].status \notin TERMINAL_FINDING_STATUSES \cup {"unseen_in_latest", "absent"}
Resolved(f) == finding[f].status \in {"fixed", "unseen_in_latest"}

Idle == [does |-> "nothing"]
Cascade(reopens, closes) ==
    IF reopens = {} /\ closes = {} THEN Idle
    ELSE [does |-> "cascade", reopens |-> reopens, closes |-> closes, chosen |-> None]
Cascading(c) == call[c].does = "cascade"

(* The call goes on with what is left.                                           *)
Proceed(c) ==
    call' = [call EXCEPT ![c] = Cascade(call[c].reopens, call[c].closes)]

-----------------------------------------------------------------------------
(* Transactions that change many findings and start a cascade                    *)

(* _mark_unseen_findings: what the batch no longer reports, without the decided.  *)
Swept(seen, sweep) ==
    IF sweep THEN {f \in Known \ seen :
                     finding[f].status \notin TERMINAL_FINDING_STATUSES} ELSE {}

Regressing(seen) == {f \in seen : Resolved(f)}

AfterIngest(f, seen, sweep) ==
    IF f \in seen /\ ~(finding[f].status \in {"acknowledged", "false_positive"})
    THEN [finding[f] EXCEPT !.status = "open"]
    ELSE IF f \in Swept(seen, sweep)
    THEN [finding[f] EXCEPT !.status = "unseen_in_latest"] ELSE finding[f]

(* _ingest_resolved_findings; a regression beats a resolution of the same batch.  *)
Ingest(c, seen, sweep) ==
    LET reopens == {finding[f].issue : f \in Regressing(seen)} \ {None}
        resolved == {f \in Swept(seen, sweep) : ~Resolved(f) /\ finding[f].issue # None}
    IN  /\ call[c] = Idle
        /\ finding' = [f \in Finding |-> AfterIngest(f, seen, sweep)]
        /\ call' = [call EXCEPT ![c] = Cascade(reopens,
               {<<f, finding[f].issue>> : f \in {g \in resolved : finding[g].issue \notin reopens}})]
        /\ regressed' = (regressed \ Swept(seen, sweep)) \cup Regressing(seen)
        /\ UNCHANGED <<issue, deleted, forgotten>>

(* clean_stale_findings: the unseen ones that are old enough are fixed.           *)
CleanStale(c, old) ==
    /\ call[c] = Idle /\ old # {}
    /\ \A f \in old : finding[f].status = "unseen_in_latest"
    /\ finding' = [f \in Finding |->
                      IF f \in old THEN [finding[f] EXCEPT !.status = "fixed"] ELSE finding[f]]
    /\ call' = [call EXCEPT ![c] = Cascade({},
           {<<f, finding[f].issue>> : f \in {g \in old : finding[g].issue # None}})]
    /\ UNCHANGED <<issue, deleted, regressed, forgotten>>

-----------------------------------------------------------------------------
(* The reopens of a cascade                                                      *)

(* record_reconciliation_debt_comment: equal comments are not repeated, and an    *)
(* issue that is gone takes none.                                                *)
Indebt(i, kind) ==
    issue' = [j \in Live |-> IF j = i THEN [issue[j] EXCEPT !.debts = @ \cup {kind}]
                             ELSE issue[j]]

(* issue_last_closed_by_cascade, read before reopen_issue takes the lock.         *)
Reopens(i) == i \in Live /\ issue[i].done /\ issue[i].closer = "cascade"

LookToReopen(c, i) ==
    /\ Cascading(c) /\ call[c].chosen = None /\ i \in call[c].reopens
    /\ call' = [call EXCEPT ![c] =
           IF Reopens(i)
           THEN [call[c] EXCEPT !.reopens = @ \ {i}, !.chosen = i]
           ELSE Cascade(call[c].reopens \ {i}, call[c].closes)]
    /\ UNCHANGED <<finding, issue, deleted, regressed, forgotten>>

Reopen(c) ==
    LET i == call[c].chosen IN
    /\ Cascading(c) /\ i \in Issue
    /\ \/ i \in Live /\ issue[i].done /\ issue' = [issue EXCEPT ![i].done = FALSE]
       \/ Indebt(i, "reopen")    \* not closed any more, gone, or a transition refused
    /\ Proceed(c)
    /\ UNCHANGED <<finding, deleted, regressed, forgotten>>

-----------------------------------------------------------------------------
(* The closes of a cascade, after its reopens                                    *)

(* evaluate_closure_gate, outside any transaction.                               *)
Gate(c, pair, allows) ==
    /\ Cascading(c) /\ call[c].chosen = None /\ call[c].reopens = {}
    /\ pair \in call[c].closes
    /\ IF allows
       THEN /\ call' = [call EXCEPT ![c].closes = @ \ {pair}, ![c].chosen = pair]
            /\ UNCHANGED issue
       ELSE /\ call' = [call EXCEPT ![c] = Cascade({}, call[c].closes \ {pair})]
            /\ Indebt(pair[2], "close")
    /\ UNCHANGED <<finding, deleted, regressed, forgotten>>

(* Mistake: the finding was resolved when the sweep committed.                   *)
CloseHoldsAsSwept(f, i) ==
    finding[f].issue = i /\ i \in Live /\ ~issue[i].done

(* Mistake: one resolved finding is enough.                                      *)
CloseHoldsAlone(f, i) ==
    finding[f].issue = i /\ Resolved(f) /\ ~issue[i].done

(* _close_issue_for_fixed_finding_tx, under the lock.                            *)
CloseHolds(f, i) ==
    /\ finding[f].issue = i /\ Resolved(f)
    /\ ~\E g \in Linked(i) \ {f} : Undecided(g)
    /\ ~issue[i].done

CascadeClose(c) ==
    LET f == call[c].chosen[1]
        i == call[c].chosen[2]
    IN  /\ Cascading(c) /\ call[c].chosen \in Finding \X Issue
        /\ IF ~CloseHolds(f, i) THEN UNCHANGED issue
           ELSE \/ /\ ~issue[i].held
                   /\ issue' = [issue EXCEPT ![i].done = TRUE, ![i].closer = "cascade"]
                \/ Indebt(i, "close")    \* held by an agent, or a transition refused
        /\ Proceed(c)
        /\ UNCHANGED <<finding, deleted, regressed, forgotten>>

-----------------------------------------------------------------------------
(* promote_finding_to_issue                                                      *)

Promoting(c, f, stage, i) ==
    call' = [call EXCEPT ![c] = [does |-> "promote", of |-> f, stage |-> stage, issue |-> i]]
At(c, stage) == call[c].does = "promote" /\ call[c].stage = stage

PromoteLook(c, f) ==
    /\ call[c] = Idle /\ f \in Known /\ finding[f].issue = None
    /\ Promoting(c, f, "search", None)
    /\ UNCHANGED <<finding, issue, deleted, regressed, forgotten>>

MadeFrom(f) == {i \in Live : issue[i].origin = f}

(* Mistake: only the link tells that a finding was promoted.                     *)
LinkOnly(f) == MadeFrom(f) \cap {finding[f].issue}

(* fields.source_finding_id                                                     *)
PromotedTo(f) == MadeFrom(f)

PromoteSearch(c) ==
    /\ At(c, "search")
    /\ \/ \E i \in PromotedTo(call[c].of) : Promoting(c, call[c].of, "link", i)
       \/ PromotedTo(call[c].of) = {} /\ Promoting(c, call[c].of, "create", None)
    /\ UNCHANGED <<finding, issue, deleted, regressed, forgotten>>

PromoteCreate(c, i) ==
    /\ At(c, "create") /\ i \notin Live \cup deleted
    /\ issue' = [j \in Live \cup {i} |->
           IF j = i THEN [done |-> FALSE, closer |-> "nobody", held |-> FALSE,
                          origin |-> call[c].of, debts |-> {}] ELSE issue[j]]
    /\ Promoting(c, call[c].of, "link", i)
    /\ UNCHANGED <<finding, deleted, regressed, forgotten>>

(* update_finding with an issue: refused when the issue has gone.                *)
PromoteLink(c) ==
    LET f == call[c].of
        i == call[c].issue
    IN  /\ At(c, "link")
        /\ IF i \in Live
           THEN /\ finding' = [finding EXCEPT ![f].issue = i]
                /\ regressed' = regressed \ {f}
           ELSE UNCHANGED <<finding, regressed>>
        /\ call' = [call EXCEPT ![c] = Idle]
        /\ UNCHANGED <<issue, deleted, forgotten>>

-----------------------------------------------------------------------------
(* People, and crashes                                                           *)

(* update_finding with a status or with an issue; neither moves an issue.         *)
Triage(f, status) ==
    /\ f \in Known
    /\ finding' = [finding EXCEPT ![f].status = status]
    /\ regressed' = regressed \ {f}
    /\ UNCHANGED <<issue, deleted, call, forgotten>>

Link(f, i) ==
    /\ f \in Known /\ i \in Live
    /\ finding' = [finding EXCEPT ![f].issue = i]
    /\ regressed' = regressed \ {f}
    /\ UNCHANGED <<issue, deleted, call, forgotten>>

SetIssue(i, to) ==
    /\ issue' = [issue EXCEPT ![i] = to]
    /\ UNCHANGED <<finding, deleted, call, regressed, forgotten>>

PersonCloses(i) ==
    ~issue[i].done /\ SetIssue(i, [issue[i] EXCEPT !.done = TRUE, !.closer = "person"])
PersonReopens(i) == issue[i].done /\ SetIssue(i, [issue[i] EXCEPT !.done = FALSE])
ClaimOrRelease(i) == ~issue[i].done /\ SetIssue(i, [issue[i] EXCEPT !.held = ~@])

(* ON DELETE SET NULL.                                                           *)
LinkAfter(f, i) == IF finding[f].issue = i THEN None ELSE finding[f].issue

Delete(i) ==
    /\ issue' = [j \in Live \ {i} |-> issue[j]]
    /\ deleted' = deleted \cup {i}
    /\ finding' = [f \in Finding |-> [finding[f] EXCEPT !.issue = LinkAfter(f, i)]]
    /\ UNCHANGED <<call, regressed, forgotten>>

Dies(c) ==
    /\ call[c] # Idle
    /\ forgotten' = forgotten \cup
          (IF Cascading(c) THEN (call[c].reopens \cup {call[c].chosen}) \cap Issue ELSE {})
    /\ call' = [call EXCEPT ![c] = Idle]
    /\ UNCHANGED <<finding, issue, deleted, regressed>>

-----------------------------------------------------------------------------
FindingInit ==
    /\ finding = [f \in Finding |-> [status |-> "absent", issue |-> None]]
    /\ issue = [i \in {} |-> 0] /\ deleted = {}
    /\ call = [c \in Call |-> Idle]
    /\ regressed = {} /\ forgotten = {}

CascadeStep(c) ==
    \/ \E i \in Issue : LookToReopen(c, i)
    \/ Reopen(c)
    \/ \E pair \in Finding \X Issue, allows \in BOOLEAN : Gate(c, pair, allows)
    \/ CascadeClose(c)

PromoteStep(c) ==
    PromoteSearch(c) \/ (\E i \in Issue : PromoteCreate(c, i)) \/ PromoteLink(c)

Starts(c) ==
    \/ \E seen \in SUBSET Finding, sweep \in BOOLEAN : Ingest(c, seen, sweep)
    \/ \E old \in SUBSET Finding : CleanStale(c, old)

PersonStep ==
    \/ \E f \in Finding, status \in FindingStatus : Triage(f, status)
    \/ \E f \in Finding, i \in Issue : Link(f, i)
    \/ \E i \in Live : PersonCloses(i) \/ PersonReopens(i) \/ ClaimOrRelease(i) \/ Delete(i)

CallStep(c) == Starts(c) \/ CascadeStep(c) \/ PromoteStep(c) \/ Dies(c)

FindingNext ==
    \/ \E c \in Call : CallStep(c) \/ \E f \in Finding : PromoteLook(c, f)
    \/ PersonStep
FindingSpec == FindingInit /\ [][FindingNext]_findingVars

-----------------------------------------------------------------------------
(* Properties                                                                    *)

(* A cascade closes only work that is over, whatever happened since the sweep that *)
(* caused it: no finding of the issue is an active defect and no agent holds it.   *)
CascadeCloseJustified ==
    [][\A i \in Live \cap DOMAIN issue' :
          ~issue[i].done /\ issue'[i].done /\ issue'[i].closer = "cascade" =>
              /\ ~issue[i].held /\ \A f \in Linked(i) : ~Undecided(f)
              /\ Linked(i) # {}]_findingVars

(* A defect a scan sees again never stays hidden behind the cascade's own closure: *)
(* while such a finding is untouched, its issue is open, or closed by a person, or *)
(* still to be reopened, or carries the debt of a failed reopen.  Only the death of *)
(* the call between its commit and its reopens loses one.                          *)
RegressionRemembered ==
    \A f \in regressed :
        LET i == finding[f].issue IN
        i # None /\ issue[i].done /\ issue[i].closer = "cascade" =>
            \/ \E c \in Call : Cascading(c) /\ (i \in call[c].reopens \/ i = call[c].chosen)
            \/ "reopen" \in issue[i].debts \/ i \in forgotten

(* A finding becomes one issue, however often its promotion dies half way and is   *)
(* repeated.                                                                     *)
PromotedOnce == \A f \in Finding : Cardinality(MadeFrom(f)) <= 1
=============================================================================
