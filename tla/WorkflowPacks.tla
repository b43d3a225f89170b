---------------------------- MODULE WorkflowPacks ----------------------------
(***************************************************************************)
(* The workflows of the built-in packs (templates_data.py), each a record: *)
(* its states in declaration order, the first one initial; the states of   *)
(* the open and wip categories, the others being done; its forward edges;  *)
(* the fields that are required at a state, as <<state, field>> pairs.     *)
(* Under them, one issue of some type walks as the engine lets it: module  *)
(* Workflow answers what a transition may do, module SoftPath where        *)
(* start_work leads.                                                       *)
(***************************************************************************)
EXTENDS Naturals, Sequences, TLC, SoftPath, BuiltinTemplates

CONSTANT NoStatus    \* the None of the engine's answers

LOCAL Hard(s, t, fields) == [from |-> s, to |-> t, hard |-> TRUE, requires |-> fields]
LOCAL Soft(s, t) == [from |-> s, to |-> t, hard |-> FALSE, requires |-> {}]

Task ==
    [states |-> TaskStates, open |-> {"open"}, wip |-> {"in_progress"},
     forward |-> TaskTransitions, needs |-> {}]

Bug ==
    [states |-> BugStates,
     open |-> {"triage", "confirmed"}, wip |-> {"fixing", "verifying"},
     forward |-> BugTransitions,
     needs |-> {<<"confirmed", "severity">>, <<"fixing", "root_cause">>,
                <<"verifying", "fix_verification">>}]

Feature ==
    [states |-> <<"proposed", "approved", "building", "reviewing", "done", "deferred">>,
     open |-> {"proposed", "approved"}, wip |-> {"building", "reviewing"},
     forward |-> <<Soft("proposed", "approved"), Soft("proposed", "deferred"),
                   Soft("approved", "building"), Soft("approved", "deferred"),
                   Soft("building", "reviewing"), Soft("building", "deferred"),
                   Soft("reviewing", "done"), Soft("reviewing", "building")>>,
     needs |-> {<<"approved", "acceptance_criteria">>}]

Epic ==
    [states |-> <<"open", "in_progress", "closed">>,
     open |-> {"open"}, wip |-> {"in_progress"},
     forward |-> <<Soft("open", "in_progress"), Soft("in_progress", "closed")>>,
     needs |-> {}]

Milestone ==
    [states |-> <<"planning", "active", "closing", "completed", "cancelled">>,
     open |-> {"planning"}, wip |-> {"active", "closing"},
     forward |-> <<Soft("planning", "active"), Soft("planning", "cancelled"),
                   Soft("active", "closing"), Soft("active", "cancelled"),
                   Soft("closing", "completed")>>,
     needs |-> {}]

Phase ==
    [states |-> <<"pending", "active", "completed", "skipped">>,
     open |-> {"pending"}, wip |-> {"active"},
     forward |-> <<Soft("pending", "active"), Soft("pending", "skipped"),
                   Soft("active", "completed"), Soft("active", "skipped")>>,
     needs |-> {}]

Step ==
    [states |-> <<"pending", "in_progress", "completed", "skipped">>,
     open |-> {"pending"}, wip |-> {"in_progress"},
     forward |-> <<Soft("pending", "in_progress"), Soft("pending", "skipped"),
                   Soft("in_progress", "completed"), Soft("in_progress", "skipped")>>,
     needs |-> {}]

WorkPackage ==
    [states |-> <<"defined", "assigned", "executing", "delivered", "cancelled">>,
     open |-> {"defined", "assigned"}, wip |-> {"executing"},
     forward |-> <<Soft("defined", "assigned"), Soft("defined", "cancelled"),
                   Soft("assigned", "executing"), Soft("assigned", "cancelled"),
                   Soft("executing", "delivered"), Soft("executing", "cancelled")>>,
     needs |-> {}]

Deliverable ==
    [states |-> <<"planned", "producing", "reviewing", "accepted", "rejected">>,
     open |-> {"planned"}, wip |-> {"producing", "reviewing"},
     forward |-> <<Soft("planned", "producing"), Soft("producing", "reviewing"),
                   Soft("reviewing", "accepted"), Soft("reviewing", "producing"),
                   Soft("reviewing", "rejected")>>,
     needs |-> {}]

Requirement ==
    [states |-> <<"drafted", "reviewing", "approved", "implementing", "verified", "rejected", "deferred">>,
     open |-> {"drafted", "approved"}, wip |-> {"reviewing", "implementing"},
     forward |-> <<Soft("drafted", "reviewing"), Soft("drafted", "rejected"),
                   Soft("drafted", "deferred"), Soft("reviewing", "approved"),
                   Soft("reviewing", "rejected"), Soft("reviewing", "drafted"),
                   Soft("approved", "implementing"), Soft("approved", "deferred"),
                   Hard("implementing", "verified", {"verification_method"}),
                   Soft("implementing", "drafted")>>,
     needs |-> {<<"verified", "verification_method">>}]

AcceptanceCriterion ==
    [states |-> <<"draft", "validated">>,
     open |-> {"draft"}, wip |-> {},
     forward |-> <<Soft("draft", "validated")>>,
     needs |-> {}]

Risk ==
    [states |-> <<"identified", "assessing", "assessed", "mitigating", "mitigated", "accepted", "escalated", "retired">>,
     open |-> {"identified", "assessed", "escalated"}, wip |-> {"assessing", "mitigating"},
     forward |-> <<Soft("identified", "assessing"), Soft("identified", "retired"),
                   Hard("assessing", "assessed", {"risk_score", "impact"}),
                   Soft("assessed", "mitigating"),
                   Hard("assessed", "accepted", {"risk_owner", "acceptance_rationale"}),
                   Soft("assessed", "escalated"), Soft("mitigating", "mitigated"),
                   Soft("escalated", "mitigating"),
                   Hard("escalated", "accepted", {"risk_owner", "acceptance_rationale"}),
                   Soft("escalated", "retired")>>,
     needs |-> {<<"assessed", "risk_score">>, <<"assessed", "impact">>,
                 <<"accepted", "risk_owner">>,
                 <<"accepted", "acceptance_rationale">>}]

Mitigation ==
    [states |-> <<"planned", "in_progress", "completed", "ineffective", "cancelled">>,
     open |-> {"planned", "ineffective"}, wip |-> {"in_progress"},
     forward |-> <<Soft("planned", "in_progress"), Soft("planned", "cancelled"),
                   Soft("in_progress", "completed"),
                   Soft("in_progress", "ineffective"),
                   Soft("in_progress", "cancelled"), Soft("ineffective", "planned")>>,
     needs |-> {<<"completed", "outcome">>, <<"ineffective", "outcome">>}]

Theme ==
    [states |-> <<"proposed", "active", "achieved", "sunset">>,
     open |-> {"proposed"}, wip |-> {"active"},
     forward |-> <<Soft("proposed", "active"), Soft("proposed", "sunset"),
                   Soft("active", "achieved"), Soft("active", "sunset")>>,
     needs |-> {}]

Objective ==
    [states |-> <<"defined", "pursuing", "achieved", "dropped">>,
     open |-> {"defined"}, wip |-> {"pursuing"},
     forward |-> <<Soft("defined", "pursuing"), Soft("defined", "dropped"),
                   Soft("pursuing", "achieved"), Soft("pursuing", "dropped")>>,
     needs |-> {}]

KeyResult ==
    [states |-> <<"defined", "tracking", "met", "missed">>,
     open |-> {"defined"}, wip |-> {"tracking"},
     forward |-> <<Soft("defined", "tracking"),
                   Hard("tracking", "met", {"current_value"}),
                   Hard("tracking", "missed", {"current_value"})>>,
     needs |-> {<<"met", "current_value">>, <<"missed", "current_value">>}]

Incident ==
    [states |-> <<"reported", "triaging", "investigating", "mitigating", "resolved", "closed">>,
     open |-> {"reported"}, wip |-> {"triaging", "investigating", "mitigating", "resolved"},
     forward |-> <<Hard("reported", "triaging", {"severity"}),
                   Soft("triaging", "investigating"),
                   Soft("investigating", "mitigating"),
                   Soft("mitigating", "resolved"),
                   Soft("investigating", "resolved"),
                   Hard("resolved", "closed", {"root_cause"})>>,
     needs |-> {<<"triaging", "severity">>, <<"closed", "root_cause">>}]

Postmortem ==
    [states |-> <<"drafting", "reviewing", "published">>,
     open |-> {"drafting"}, wip |-> {"reviewing"},
     forward |-> <<Soft("drafting", "reviewing"),
                   Hard("reviewing", "published", {"action_items"}),
                   Soft("reviewing", "drafting")>>,
     needs |-> {<<"published", "action_items">>}]

DebtItem ==
    [states |-> <<"identified", "assessed", "scheduled", "remediating", "resolved", "accepted">>,
     open |-> {"identified", "assessed", "scheduled"}, wip |-> {"remediating"},
     forward |-> <<Hard("identified", "assessed", {"debt_category", "impact"}),
                   Soft("identified", "accepted"), Soft("assessed", "scheduled"),
                   Soft("assessed", "accepted"), Soft("scheduled", "remediating"),
                   Soft("remediating", "resolved"), Soft("remediating", "assessed")>>,
     needs |-> {<<"assessed", "debt_category">>, <<"assessed", "impact">>}]

Remediation ==
    [states |-> <<"planned", "in_progress", "completed", "abandoned">>,
     open |-> {"planned"}, wip |-> {"in_progress"},
     forward |-> <<Soft("planned", "in_progress"), Soft("planned", "abandoned"),
                   Soft("in_progress", "completed"),
                   Soft("in_progress", "abandoned")>>,
     needs |-> {}]

Spike ==
    [states |-> <<"proposed", "investigating", "concluded", "actioned", "abandoned">>,
     open |-> {"proposed"}, wip |-> {"investigating", "concluded"},
     forward |-> <<Soft("proposed", "investigating"),
                   Soft("proposed", "abandoned"),
                   Hard("investigating", "concluded", {"findings"}),
                   Soft("investigating", "abandoned"),
                   Soft("concluded", "actioned")>>,
     needs |-> {<<"concluded", "findings">>, <<"actioned", "recommendation">>}]

Finding ==
    [states |-> <<"draft", "published">>,
     open |-> {"draft"}, wip |-> {},
     forward |-> <<Soft("draft", "published")>>,
     needs |-> {}]

Release ==
    [states |-> <<"planning", "development", "frozen", "testing", "staged", "released", "rolled_back", "retired", "cancelled">>,
     open |-> {"planning"}, wip |-> {"development", "frozen", "testing", "staged", "rolled_back"},
     forward |-> <<Soft("planning", "development"), Soft("planning", "cancelled"),
                   Hard("development", "frozen", {"version"}),
                   Soft("development", "cancelled"), Soft("frozen", "testing"),
                   Soft("frozen", "development"), Soft("testing", "staged"),
                   Soft("testing", "development"), Soft("staged", "released"),
                   Soft("staged", "development"), Soft("released", "rolled_back"),
                   Soft("rolled_back", "development"),
                   Soft("rolled_back", "retired")>>,
     needs |-> {<<"frozen", "version">>}]

ReleaseItem ==
    [states |-> <<"queued", "included", "verified", "excluded">>,
     open |-> {"queued"}, wip |-> {"included"},
     forward |-> <<Soft("queued", "included"), Soft("queued", "excluded"),
                   Soft("included", "verified"), Soft("included", "excluded")>>,
     needs |-> {}]

(* The hops that give work back, by pack.                                    *)
CoreHops ==
    [task |-> {<<"in_progress", "open">>},
     bug |-> {<<"fixing", "confirmed">>, <<"verifying", "triage">>},
     feature |-> {<<"building", "approved">>, <<"reviewing", "proposed">>},
     epic |-> {<<"in_progress", "open">>}]
PlanningHops ==
    [milestone |-> {<<"active", "planning">>, <<"closing", "planning">>},
     phase |-> {<<"active", "pending">>},
     step |-> {<<"in_progress", "pending">>},
     work_package |-> {<<"executing", "assigned">>},
     deliverable |-> {<<"producing", "planned">>, <<"reviewing", "planned">>}]
RequirementsHops ==
    [requirement |-> {<<"reviewing", "drafted">>, <<"implementing", "approved">>},
     acceptance_criterion |-> {}]
RiskHops ==
    [risk |-> {<<"assessing", "identified">>, <<"mitigating", "assessed">>},
     mitigation |-> {<<"in_progress", "planned">>}]
RoadmapHops ==
    [theme |-> {<<"active", "proposed">>},
     objective |-> {<<"pursuing", "defined">>},
     key_result |-> {<<"tracking", "defined">>}]
IncidentHops ==
    [incident |-> {"triaging", "investigating", "mitigating", "resolved"} \X {"reported"},
     postmortem |-> {<<"reviewing", "drafting">>}]
DebtHops ==
    [debt_item |-> {<<"remediating", "scheduled">>},
     remediation |-> {<<"in_progress", "planned">>}]
SpikeHops ==
    [spike |-> {<<"investigating", "proposed">>, <<"concluded", "proposed">>},
     finding |-> {}]
ReleaseHops ==
    [release |-> {"development", "frozen", "testing", "staged", "rolled_back"} \X {"planning"},
     release_item |-> {<<"included", "queued">>}]

Hops == CoreHops @@ PlanningHops @@ RequirementsHops @@ RiskHops @@ RoadmapHops
        @@ IncidentHops @@ DebtHops @@ SpikeHops @@ ReleaseHops

Packs ==
    [task |-> Task, bug |-> Bug, feature |-> Feature, epic |-> Epic,
     milestone |-> Milestone, phase |-> Phase, step |-> Step,
     work_package |-> WorkPackage, deliverable |-> Deliverable,
     requirement |-> Requirement,
     acceptance_criterion |-> AcceptanceCriterion, risk |-> Risk,
     mitigation |-> Mitigation, theme |-> Theme, objective |-> Objective,
     key_result |-> KeyResult, incident |-> Incident,
     postmortem |-> Postmortem, debt_item |-> DebtItem,
     remediation |-> Remediation, spike |-> Spike, finding |-> Finding,
     release |-> Release, release_item |-> ReleaseItem]

IssueType == DOMAIN Packs

CategoryIn(f) ==
    [s \in {f.states[k] : k \in DOMAIN f.states} |->
        IF s \in f.open THEN "open" ELSE IF s \in f.wip THEN "wip" ELSE "done"]
DoneIn(f) == {s \in DOMAIN CategoryIn(f) : CategoryIn(f)[s] = "done"}
FieldsIn(f) == {n[2] : n \in f.needs} \cup UNION {f.forward[k].requires : k \in DOMAIN f.forward}

(* The declared reverse edges: close from anywhere, reopen to anywhere, and  *)
(* the hops that give work back.                                            *)
BackwardIn(t) ==
    LET f == Packs[t]
        notDone == f.open \cup f.wip
    IN  {Soft(e[1], e[2]) : e \in (notDone \X DoneIn(f)) \cup (DoneIn(f) \X notDone) \cup Hops[t]}

Engine(t) == INSTANCE Workflow WITH
    States <- Packs[t].states, Category <- CategoryIn(Packs[t]),
    InitialState <- Head(Packs[t].states), Transitions <- Packs[t].forward,
    ReverseTransitions <- BackwardIn(t), Field <- FieldsIn(Packs[t]),
    RequiredAt <- [s \in DOMAIN CategoryIn(Packs[t]) |->
                     {n[2] : n \in {m \in Packs[t].needs : m[1] = s}}],
    Archived <- "archived", Nil <- NoStatus

(* A closed issue is closed again under another status in no built-in type.  *)
ASSUME DonesApartAssumption == \A t \in IssueType : Engine(t)!DonesApart

VARIABLES kind,     \* the type of the issue
          status,
          filled,   \* fields that hold something
          before    \* the status it was closed from, by its last closing event
packVars == <<kind, status, filled, before>>

PackInit ==
    /\ kind \in IssueType
    /\ status = Head(Packs[kind].states)
    /\ filled = {} /\ before = status

MoveTo(s) ==
    /\ status' = s
    /\ before' = IF status \notin DoneIn(Packs[kind]) /\ s \in DoneIn(Packs[kind])
                 THEN status ELSE before
    /\ UNCHANGED <<kind, filled>>

(* update_issue with fields only; a field may be emptied again.               *)
SetField(t, f) ==
    /\ filled' = IF f \in filled THEN filled \ {f} ELSE filled \cup {f}
    /\ UNCHANGED <<kind, status, before>>

UpdateStatus(t, s) == Engine(t)!ForwardAllowed(status, s, filled) /\ MoveTo(s)

ForceClose(t, s) ==
    /\ status \notin DoneIn(Packs[t]) /\ s \in DoneIn(Packs[t])
    /\ Engine(t)!BackwardAllowed(status, s, filled)
    /\ MoveTo(s)

ReopenIt(t) ==
    /\ status \in DoneIn(Packs[t])
    /\ Engine(t)!BackwardAllowed(status, before, filled)
    /\ MoveTo(before)

ReleaseIt(t) ==
    LET target == Engine(t)!ReleaseTarget(status)
    IN  /\ target # NoStatus /\ Engine(t)!BackwardAllowed(status, target, filled)
        /\ MoveTo(target)

(* start_work with advance: every hop, or none.                               *)
HopsAllowed(t, s, path, fields) ==
    \A k \in DOMAIN path :
        Engine(t)!ForwardAllowed(IF k = 1 THEN s ELSE path[k - 1], path[k], fields)

StartIt(t) ==
    LET walk == SoftPathToWorking(CategoryIn(Packs[t]), Packs[t].forward, status)
    IN  /\ walk.ok /\ walk.path # <<>>
        /\ HopsAllowed(t, status, walk.path, filled)
        /\ MoveTo(Last(walk.path))

PackNext == \E t \in IssueType : kind = t /\
    \/ \E f \in FieldsIn(Packs[t]) : SetField(t, f)
    \/ \E s \in DOMAIN CategoryIn(Packs[t]) : UpdateStatus(t, s) \/ ForceClose(t, s)
    \/ ReopenIt(t) \/ ReleaseIt(t) \/ StartIt(t)

(* Property *****************************************************************)

(* Forward edges lead from s to a done status, whatever they require.        *)
LOCAL Finishable(f, s) ==
    LET Onwards(S) == S \cup {e.to : e \in {f.forward[k] : k \in {j \in DOMAIN f.forward :
                                                     f.forward[j].from \in S}}}
        reach[n \in 0..Len(f.states)] == IF n = 0 THEN {s} ELSE Onwards(reach[n - 1])
    IN  reach[Len(f.states)] \cap DoneIn(f) # {}

(* No built-in workflow is a trap, with what the engine makes of its tables: *)
(* work in progress can be given back to a status that is open and from      *)
(* which it can be started again, whatever is not done can be finished along *)
(* forward edges and closed by force, and what is done can be reopened where *)
(* it was closed.                                                            *)
WorkNeverStuck == \E t \in IssueType : kind = t /\
    LET f == Packs[t]
        target == Engine(t)!ReleaseTarget(status)
        again == SoftPathToWorking(CategoryIn(f), f.forward, target)
    IN  /\ status \in f.wip =>
              /\ target \in f.open /\ Engine(t)!BackwardAllowed(status, target, filled)
              /\ again.ok /\ HopsAllowed(t, target, again.path, FieldsIn(f))
        /\ status \notin DoneIn(f) =>
              /\ Finishable(f, status)
              /\ \A s \in DoneIn(f) : Engine(t)!BackwardAllowed(status, s, filled)
        /\ status \in DoneIn(f) =>
              /\ before \notin DoneIn(f)
              /\ Engine(t)!BackwardAllowed(status, before, filled)
=============================================================================
