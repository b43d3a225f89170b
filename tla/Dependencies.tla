----------------------------- MODULE Dependencies -----------------------------
(* The two graphs over issues -- "depends on" edges and the parent tree -- and   *)
(* every write that shapes them: create_issue, update_issue's parent_id and      *)
(* delete_issue (db_issues.py), add_dependency, remove_dependency,               *)
(* add_plan_step, retarget_plan_dependency and create_plan (db_planning.py), and *)
(* undo_last (db_events.py).  Every write holds the writer lock from its checks   *)
(* to its commit, so it is one step.                                             *)
(*                                                                               *)
(* What is left out of a row is in IssueStore.  log holds an issue's structural   *)
(* events only: undo reverses the newest event not yet undone of any kind, so     *)
(* structural events are undone in this order among themselves.  An event's id    *)
(* is its position.                                                              *)
EXTENDS Naturals, Sequences, FiniteSets, SequencesExt

CONSTANTS Issue,      \* issue ids, never issued twice
          Phase,      \* the ids whose type is "phase"
          Step,       \* the ids whose type is "step"
          NoParent,   \* NULL in parent_id
          MaxEvents   \* bound: structural events per issue

ASSUME DependenciesAssumption ==
    /\ Phase \subseteq Issue /\ Step \subseteq Issue /\ Phase \cap Step = {}
    /\ NoParent \notin Issue /\ MaxEvents \in Nat
    /\ IsFiniteSet(Issue)

VARIABLES
    live,      \* issues table: the ids it has
    used,      \* every id ever handed out
    category,  \* [issue -> category of its status]
    parent,    \* parent_id column
    deps,      \* dependencies table: pairs <<issue_id, depends_on_id>>
    log        \* structural events of each live issue, oldest first

vars == <<live, used, category, parent, deps, log>>

-----------------------------------------------------------------------------
(* Cycle checks                                                                  *)

ClosedUnder(E, S) == \A e \in E : e[1] \in S => e[2] \in S

(* The breadth-first search of _would_create_cycle: from reaches to over E.       *)
Reaches(E, from, to) ==
    \A S \in SUBSET Issue : from \in S /\ ClosedUnder(E, S) => to \in S

(* Mistake: only a self-dependency is refused.                                    *)
OnlySelf(i, j) == i = j

WouldCreateCycle(i, j) == Reaches(deps, j, i)

ParentEdges == {e \in live \X live : parent[e[1]] = e[2]}

(* _would_create_parent_cycle: the chain of ancestors of p meets the child.       *)
WouldCreateParentCycle(i, p) == Reaches(ParentEdges, p, i)

-----------------------------------------------------------------------------
(* Events                                                                        *)

DependencyAdded(j) == [kind |-> "dependency_added", old |-> NoParent, new |-> j]
DependencyRemoved(j) == [kind |-> "dependency_removed", old |-> j, new |-> NoParent]
ParentChanged(p, q) == [kind |-> "parent_changed", old |-> p, new |-> q]
Undone(k) == [kind |-> "undone", old |-> NoParent, new |-> k]
Added(targets) == [k \in DOMAIN targets |-> DependencyAdded(targets[k])]

Reversible == {"dependency_added", "dependency_removed", "parent_changed"}

IsUndone(events, k) ==
    \E m \in DOMAIN events : events[m].kind = "undone" /\ events[m].new = k

(* Positions undo_last may still reverse; it takes the newest.                    *)
Undoable(events) ==
    {k \in DOMAIN events : events[k].kind \in Reversible /\ ~IsUndone(events, k)}

Newest(K) == CHOOSE k \in K : \A j \in K : j <= k

(* Mistake: the oldest event is undone first.                                     *)
OldestFirst(events) ==
    CHOOSE k \in Undoable(events) : \A j \in Undoable(events) : k <= j

NextToUndo(events) == Newest(Undoable(events))

Record(i, events) ==
    /\ Len(log[i]) + Len(events) <= MaxEvents
    /\ log' = [log EXCEPT ![i] = @ \o events]

-----------------------------------------------------------------------------
(* Writes                                                                        *)

Init ==
    /\ live = {} /\ used = {} /\ deps = {}
    /\ category = [i \in Issue |-> "open"]
    /\ parent = [i \in Issue |-> NoParent]
    /\ log = [i \in Issue |-> <<>>]

Insert(ids) ==
    /\ ids \cap used = {}
    /\ live' = live \cup ids
    /\ used' = used \cup ids
    /\ UNCHANGED category

(* create_issue: a new id that depends on D; its edges get no events.              *)
CreateIssue(i, p, D) ==
    /\ p \in live \cup {NoParent} /\ D \subseteq live
    /\ Insert({i})
    /\ parent' = [parent EXCEPT ![i] = p]
    /\ deps' = deps \cup ({i} \X D)
    /\ UNCHANGED log

(* add_plan_step: a new step of a phase, one event per dependency in list order.   *)
AddPlanStep(i, p, order) ==
    /\ i \in Step /\ p \in live \cap Phase
    /\ \A k \in DOMAIN order : order[k] \in live
    /\ Insert({i})
    /\ parent' = [parent EXCEPT ![i] = p]
    /\ deps' = deps \cup ({i} \X {order[k] : k \in DOMAIN order})
    /\ Record(i, Added(order))

(* create_plan, for one phase: a milestone, a phase and its steps at once, with     *)
(* refs[i] the steps that step i names.  Each reference is checked against those    *)
(* wired before it, so a plan is accepted exactly when its references form no       *)
(* cycle; one event per reference.                                                  *)
Acyclic(E) ==
    ~ \E S \in SUBSET Issue : S # {} /\ \A x \in S : \E y \in S : <<x, y>> \in E

CreatePlan(m, p, steps, refs) ==
    LET E == {e \in steps \X steps : \E k \in DOMAIN refs[e[1]] : refs[e[1]][k] = e[2]}
    IN  /\ m \in Issue \ (Phase \cup Step) /\ p \in Phase /\ steps \subseteq Step
        /\ Acyclic(E)
        /\ \A i \in steps : Len(refs[i]) <= MaxEvents
        /\ Insert({m, p} \cup steps)
        /\ parent' = [i \in Issue |-> IF i \in steps THEN p
                                      ELSE IF i = p THEN m ELSE parent[i]]
        /\ deps' = deps \cup E
        /\ log' = [i \in Issue |-> IF i \in steps THEN Added(refs[i]) ELSE log[i]]

(* A status write (close, reopen, update ... of IssueStore).                        *)
SetCategory(i, c) ==
    /\ i \in live /\ c # category[i]
    /\ category' = [category EXCEPT ![i] = c]
    /\ UNCHANGED <<live, used, parent, deps, log>>

(* update_issue with parent_id, move_plan_step included.                            *)
SetParent(i, p) ==
    /\ i \in live /\ p \in live \cup {NoParent} /\ p # parent[i]
    /\ p # NoParent => ~WouldCreateParentCycle(i, p)
    /\ parent' = [parent EXCEPT ![i] = p]
    /\ Record(i, <<ParentChanged(parent[i], p)>>)
    /\ UNCHANGED <<live, used, category, deps>>

(* add_dependency: an existing edge is left alone without an event.                 *)
AddDependency(i, j) ==
    /\ i \in live /\ j \in live
    /\ ~WouldCreateCycle(i, j)
    /\ <<i, j>> \notin deps
    /\ deps' = deps \cup {<<i, j>>}
    /\ Record(i, <<DependencyAdded(j)>>)
    /\ UNCHANGED <<live, used, category, parent>>

RemoveDependency(i, j) ==
    /\ <<i, j>> \in deps
    /\ deps' = deps \ {<<i, j>>}
    /\ Record(i, <<DependencyRemoved(j)>>)
    /\ UNCHANGED <<live, used, category, parent>>

(* Mistake: only the new edge is logged.                                            *)
AdditionOnly(i, j, k) ==
    IF <<i, k>> \in deps THEN <<>> ELSE <<DependencyAdded(k)>>

RetargetEvents(i, j, k) ==
    <<DependencyRemoved(j)>>
    \o (IF <<i, k>> \in deps THEN <<>> ELSE <<DependencyAdded(k)>>)

(* retarget_plan_dependency: the new edge is checked while the old one is in place. *)
Retarget(i, j, k) ==
    /\ {i, j, k} \subseteq live \cap Step
    /\ <<i, j>> \in deps /\ j # k
    /\ ~WouldCreateCycle(i, k)
    /\ deps' = (deps \ {<<i, j>>}) \cup {<<i, k>>}
    /\ Record(i, RetargetEvents(i, j, k))
    /\ UNCHANGED <<live, used, category, parent>>

(* Mistake: the edge undo restores is only looked up, not checked for a cycle.       *)
RestoresAnyDependency(i, j) == j \in live

(* undo_last refuses to restore an edge or a parent that is gone (the foreign key)  *)
(* or that would now close a cycle; the refused event stays the next to undo.        *)
RestoresDependency(i, j) == j \in live /\ ~WouldCreateCycle(i, j)
RestoresParent(i, p) == p \in live /\ ~WouldCreateParentCycle(i, p)

Undo(i) ==
    LET k == NextToUndo(log[i])
        e == log[i][k]
    IN  /\ i \in live /\ Undoable(log[i]) # {}
        /\ Record(i, <<Undone(k)>>)
        /\ \/ /\ e.kind = "dependency_added"
              /\ deps' = deps \ {<<i, e.new>>} /\ UNCHANGED parent
           \/ /\ e.kind = "dependency_removed"
              /\ RestoresDependency(i, e.old)
              /\ deps' = deps \cup {<<i, e.old>>} /\ UNCHANGED parent
           \/ /\ e.kind = "parent_changed"
              /\ e.old = NoParent \/ RestoresParent(i, e.old)
              /\ parent' = [parent EXCEPT ![i] = e.old] /\ UNCHANGED deps
        /\ UNCHANGED <<live, used, category>>

(* Mistake: the edges that point at the deleted issue stay.                         *)
OutboundOnly(i) == {e \in deps : e[1] # i}

EdgesWithout(i) == {e \in deps : e[1] # i /\ e[2] # i}

(* delete_issue: refused unless terminal, childless and blocking nothing; force     *)
(* orphans the children and drops the edges both ways.                              *)
Delete(i, force) ==
    /\ i \in live
    /\ \/ force
       \/ /\ category[i] = "done"
          /\ \A c \in live : parent[c] # i
          /\ \A e \in deps : e[2] # i
    /\ live' = live \ {i}
    /\ parent' = [c \in Issue |-> IF c = i \/ parent[c] = i THEN NoParent ELSE parent[c]]
    /\ deps' = EdgesWithout(i)
    /\ log' = [log EXCEPT ![i] = <<>>]
    /\ UNCHANGED <<used, category>>

(* Plans and lists a caller may send.                                               *)
Lists(S) == SetToAllKPermutations(S)

Edit ==
    \/ \E i, j \in Issue : AddDependency(i, j) \/ RemoveDependency(i, j)
    \/ \E i \in Issue, p \in Issue \cup {NoParent} : SetParent(i, p)
    \/ \E i, j, k \in Step : Retarget(i, j, k)
    \/ \E i \in Issue : Undo(i)

Next ==
    \/ \E i \in Issue \ used, p \in live \cup {NoParent}, D \in SUBSET live :
          CreateIssue(i, p, D)
    \/ \E i \in Step \ used, p \in Phase, order \in Lists(live) : AddPlanStep(i, p, order)
    \/ \E m \in Issue \ used, p \in Phase \ used, steps \in SUBSET (Step \ used) :
          \E refs \in [steps -> Lists(steps)] : CreatePlan(m, p, steps, refs)
    \/ \E i \in Issue, c \in {"open", "wip", "done"} : SetCategory(i, c)
    \/ Edit
    \/ \E i \in Issue, force \in BOOLEAN : Delete(i, force)

Spec == Init /\ [][Next]_vars

-----------------------------------------------------------------------------
(* Type correctness: both graphs stay among live issues, whatever was deleted,     *)
(* orphaned or restored by undo in between (the foreign keys).                     *)
Event == [kind : Reversible \cup {"undone"}, old : Issue \cup {NoParent},
          new : Issue \cup {NoParent} \cup Nat]

TypeOK ==
    /\ live \subseteq used /\ used \subseteq Issue
    /\ category \in [Issue -> {"open", "wip", "done"}]
    /\ parent \in [Issue -> live \cup {NoParent}]
    /\ \A i \in Issue \ live : parent[i] = NoParent
    /\ deps \subseteq live \X live
    /\ log \in [Issue -> Seq(Event)]

-----------------------------------------------------------------------------
(* Safety                                                                          *)

(* No issue waits, over any number of edges, for itself: adds, retargets, plans,   *)
(* deletions and undos in any order never close a cycle.                           *)
DepsAcyclic == Acyclic(deps)

(* The same for parents: reparenting and undoing a reparenting keep a tree.         *)
ParentsAcyclic == Acyclic(ParentEdges)

(* Together: neither graph ever closes a cycle.                                    *)
GraphsAcyclic == DepsAcyclic /\ ParentsAcyclic

(* get_ready's and get_blocked's test: an edge to an unfinished issue.              *)
Blocked(i) == \E e \in deps : e[1] = i /\ category[e[2]] # "done"

(* What the cycle checks are for: while work is unfinished, some of it is not       *)
(* waiting for anything.                                                            *)
BacklogNeverDeadlocks ==
    LET unfinished == {i \in live : category[i] # "done"}
    IN  unfinished # {} => \E i \in unfinished : ~Blocked(i)

Standing(events, Test(_)) ==
    {k \in DOMAIN events : Test(events[k]) /\ ~IsUndone(events, k)}

(* The log accounts for the edges: the newest event about an edge that no undo      *)
(* reversed says whether it is there, unless its target was deleted.                *)
DependencyExplained ==
    \A i, j \in live :
        LET About(e) == e = DependencyAdded(j) \/ e = DependencyRemoved(j)
            K == Standing(log[i], About)
        IN  K # {} => (log[i][Newest(K)] = DependencyAdded(j) <=> <<i, j>> \in deps)

(* The log accounts for the parent, unless that parent was deleted since.           *)
ParentExplained ==
    \A i \in live :
        LET About(e) == e.kind = "parent_changed"
            K == Standing(log[i], About)
            p == log[i][Newest(K)].new
        IN  K # {} => parent[i] = (IF p \in live THEN p ELSE NoParent)

(* Together: the log accounts for both graphs.                                      *)
GraphExplained == DependencyExplained /\ ParentExplained
=============================================================================
