------------------------------ MODULE Workflow ------------------------------
(* One issue type's workflow template as the registry holds it               *)
(* (src/filigree/templates.py): states in declaration order with a category, *)
(* the forward transition table in declaration order, the table of reverse   *)
(* (escape) edges, and the fields a state requires.  A transition is          *)
(* [from, to, hard, requires]; "hard" is enforcement == "hard".               *)
(* The operators are the registry's queries: what a transition may do, where  *)
(* a released claim falls back to, and which states count as done.            *)
EXTENDS Naturals, Sequences

CONSTANTS
    States,              \* states in declaration order: Seq(status name)
    Category,            \* [status -> {"open", "wip", "done"}]
    InitialState,
    Transitions,         \* forward edges in declaration order
    ReverseTransitions,  \* set of declared backward/escape edges
    Field,               \* field names of the type's schema
    RequiredAt,          \* [status -> fields required at that state]
    Archived,            \* the synthetic status archive_closed writes
    Nil                  \* SQL NULL / Python None

StateSet == {States[k] : k \in DOMAIN States}
Transition == [from : StateSet, to : StateSet, hard : BOOLEAN,
               requires : SUBSET Field]
ForwardEdges == {Transitions[k] : k \in DOMAIN Transitions}

(* What registration has validated of a template before any issue uses it.   *)
ASSUME TemplateAssumption ==
    /\ InitialState \in StateSet
    /\ Category \in [StateSet -> {"open", "wip", "done"}]
    /\ Transitions \in Seq(Transition)
    /\ ReverseTransitions \subseteq Transition
    /\ RequiredAt \in [StateSet -> SUBSET Field]
    /\ Archived \notin StateSet
    /\ Nil \notin StateSet \cup {Archived}

(* Every built-in template starts in a state that is not done; registration     *)
(* does not check it, and create_issue would leave such an issue without a       *)
(* closed_at.                                                                   *)
ASSUME InitialAssumption == Category[InitialState] # "done"

-----------------------------------------------------------------------------

Status == StateSet \cup {Archived}

(* The category a row's status is shown and filtered by; the synthetic        *)
(* archived status counts as done.                                            *)
CategoryOf(s) ==
    IF s \in StateSet THEN Category[s]
    ELSE IF s = Archived THEN "done" ELSE "open"

IsDone(s) == CategoryOf(s) = "done"

(* No declared edge joins two done statuses: so it is in every built-in template,   *)
(* and registration does not ask for it.                                        *)
DonesApart ==
    \A t \in ForwardEdges \cup ReverseTransitions : ~(IsDone(t.from) /\ IsDone(t.to))

(* First element of a declaration-ordered table that satisfies a test.        *)
FirstWhere(seq, Test(_)) ==
    LET K == {k \in DOMAIN seq : Test(seq[k])}
    IN  IF K = {} THEN Nil
        ELSE seq[CHOOSE k \in K : \A j \in K : k <= j]

(* get_first_state_of_category                                                *)
FirstStateOf(category) ==
    LET InCategory(s) == Category[s] = category
    IN  FirstWhere(States, InCategory)

(* Mistake: the predecessor may be of any category.                           *)
ReleaseToAnyPredecessor(s) ==
    LET Predecessor(t) == t.to = s
        edge == FirstWhere(Transitions, Predecessor)
    IN  IF s \notin StateSet \/ CategoryOf(s) # "wip" THEN Nil
        ELSE IF edge # Nil THEN edge.from
        ELSE IF Category[InitialState] = "open" THEN InitialState
        ELSE Nil

(* get_release_target: the open state whose forward edge leads to s, in       *)
(* declaration order, else an open initial state, else none.                  *)
ReleaseTarget(s) ==
    LET OpenPredecessor(t) == t.to = s /\ Category[t.from] = "open"
        edge == FirstWhere(Transitions, OpenPredecessor)
    IN  IF s \notin StateSet \/ CategoryOf(s) # "wip" THEN Nil
        ELSE IF edge # Nil THEN edge.from
        ELSE IF Category[InitialState] = "open" THEN InitialState
        ELSE Nil

(* Fields a forward edge wants and the row does not have.                     *)
MissingForward(t, filled) == (t.requires \cup RequiredAt[t.to]) \ filled

(* validate_transition, FORWARD: the edge is declared, and a hard edge has    *)
(* every field it and its target state require.                               *)
ForwardAllowed(from, to, filled) ==
    \E t \in ForwardEdges :
        /\ t.from = from /\ t.to = to
        /\ t.hard => MissingForward(t, filled) = {}

(* A soft edge with missing fields is taken, with a warning.                  *)
ForwardWarns(from, to, filled) ==
    \E t \in ForwardEdges :
        /\ t.from = from /\ t.to = to
        /\ ~t.hard /\ MissingForward(t, filled) # {}

(* validate_transition, BACKWARD: only the edge's own fields count.           *)
BackwardAllowed(from, to, filled) ==
    \E t \in ReverseTransitions :
        /\ t.from = from /\ t.to = to
        /\ t.hard => t.requires \subseteq filled

BackwardWarns(from, to, filled) ==
    \E t \in ReverseTransitions :
        /\ t.from = from /\ t.to = to
        /\ ~t.hard /\ ~(t.requires \subseteq filled)
=============================================================================
