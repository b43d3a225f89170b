--------------------------- MODULE MCDependencies ---------------------------
(* Dependencies among a milestone, a phase and up to three steps, in three       *)
(* scenes explored side by side:                                                 *)
(*   edges  dependencies among three steps, with long histories;                 *)
(*   tree   parents among three steps, with long histories;                      *)
(*   plan   every write on a plan of one phase with two steps.                   *)
EXTENDS Dependencies, TLC

CONSTANTS EdgeEvents, TreeEvents, PlanEvents    \* bounds: log lengths per scene

VARIABLE scene
sceneVars == <<vars, scene>>

Logged(limit) == \A i \in Issue : Len(log'[i]) <= limit

CreateStep == \E i \in Step : CreateIssue(i, NoParent, {})
DeleteAny == \E i \in Issue : Delete(i, TRUE)

EdgeNext ==
    \/ CreateStep \/ DeleteAny
    \/ \E i, j \in Step : AddDependency(i, j) \/ RemoveDependency(i, j)
    \/ \E i, j, k \in Step : Retarget(i, j, k)
    \/ \E i \in Step : Undo(i)

TreeNext ==
    \/ CreateStep \/ DeleteAny
    \/ \E i \in Step, p \in Step \cup {NoParent} : SetParent(i, p)
    \/ \E i \in Step : Undo(i)

(* Steps are added and wired, finished and deleted.                               *)
PlanNext ==
    \/ \E i \in Issue \ used, D \in SUBSET live : CreateIssue(i, NoParent, D)
    \/ \E i \in Step \ used, p \in Phase, order \in Lists(live \cap Step) :
          AddPlanStep(i, p, order)
    \/ \E m \in Issue \ used, p \in Phase \ used, steps \in SUBSET (Step \ used) :
          /\ Cardinality(steps \cup (used \cap Step)) <= 2
          /\ \E refs \in [steps -> Lists(steps)] : CreatePlan(m, p, steps, refs)
    \/ \E i \in Issue : category[i] = "open" /\ SetCategory(i, "done")
    \/ \E i, j \in Step : AddDependency(i, j)
    \/ \E i \in Step, p \in live : SetParent(i, p)
    \/ \E i \in Issue : Undo(i)
    \/ \E i \in Issue, force \in BOOLEAN : Delete(i, force)

SceneInit == Init /\ scene \in {"edges", "tree", "plan"}
SceneNext ==
    /\ UNCHANGED scene
    /\ \/ scene = "edges" /\ EdgeNext /\ Logged(EdgeEvents)
       \/ scene = "tree" /\ TreeNext /\ Logged(TreeEvents)
       \/ /\ scene = "plan" /\ PlanNext /\ Logged(PlanEvents)
          /\ Cardinality(used' \cap Step) <= 2
SceneSpec == SceneInit /\ [][SceneNext]_sceneVars

StepSymmetry == Permutations(Step)
=============================================================================
