-------------------------- MODULE DependenciesProofs --------------------------
(* Both graphs of Dependencies stay acyclic for every set of issues.  The        *)
(* argument is one lemma per way a graph grows: an edge that the search accepts,  *)
(* a new node with outgoing edges only, and a whole new component.               *)
(* Both are what the log says: the entries on an edge or a parent that no undo     *)
(* reversed form a chain, each starting from what the one before left.             *)
EXTENDS Dependencies, FiniteSetTheorems, WellFoundedInduction, TLAPS

-----------------------------------------------------------------------------
(* Graph lemmas                                                                   *)

(* Dropping edges closes no cycle.                                                 *)
LEMMA FewerEdges ==
    ASSUME NEW E, NEW F \in SUBSET E, Acyclic(E)
    PROVE  Acyclic(F)
BY DEF Acyclic

(* An edge whose target does not reach its source closes no cycle: in a set where   *)
(* everybody had a successor, those the target reaches would have one already.      *)
LEMMA AcceptedEdge ==
    ASSUME NEW E \in SUBSET (Issue \X Issue), NEW i \in Issue, NEW j \in Issue,
           Acyclic(E), ~Reaches(E, j, i)
    PROVE  Acyclic(E \cup {<<i, j>>})
<1>1. PICK R \in SUBSET Issue : j \in R /\ ClosedUnder(E, R) /\ i \notin R
  BY DEF Reaches
<1>2. SUFFICES ASSUME NEW S \in SUBSET Issue, S # {},
                      \A x \in S : \E y \in S : <<x, y>> \in E \cup {<<i, j>>}
               PROVE  FALSE
  BY DEF Acyclic
<1>3. PICK x \in S : \A y \in S : <<x, y>> \notin E
  BY <1>2 DEF Acyclic
<1>4. j \in S
  <2>1. PICK y \in S : <<x, y>> \in E \cup {<<i, j>>}
    BY <1>2
  <2>2. QED
    BY <1>3, <2>1
<1>5. S \cap R # {} /\ S \cap R \in SUBSET Issue
  BY <1>1, <1>4
<1>6. PICK z \in S \cap R : \A y \in S \cap R : <<z, y>> \notin E
  BY <1>5 DEF Acyclic
<1>7. PICK y \in S : <<z, y>> \in E \cup {<<i, j>>}
  BY <1>2, <1>6
<1>8. <<z, y>> \in E
  BY <1>1, <1>6, <1>7
<1>9. y \in R
  BY <1>1, <1>6, <1>8 DEF ClosedUnder
<1>10. QED
  BY <1>6, <1>7, <1>8, <1>9

(* A new node that nothing points at closes no cycle.                               *)
LEMMA NewSource ==
    ASSUME NEW L \in SUBSET Issue, NEW E \in SUBSET (L \X L), Acyclic(E),
           NEW i \in Issue \ L, NEW D \in SUBSET L
    PROVE  Acyclic(E \cup ({i} \X D))
<1>1. SUFFICES ASSUME NEW S \in SUBSET Issue, S # {}
               PROVE  \E x \in S : \A y \in S : <<x, y>> \notin E \cup ({i} \X D)
  BY DEF Acyclic
<1>2. CASE S \cap L = {}
  BY <1>1, <1>2
<1>3. CASE S \cap L # {}
  <2>1. S \cap L \in SUBSET Issue
    OBVIOUS
  <2>2. PICK x \in S \cap L : \A y \in S \cap L : <<x, y>> \notin E
    BY <1>3, <2>1 DEF Acyclic
  <2>3. x # i
    BY <2>2
  <2>4. \A y \in S : <<x, y>> \notin E \cup ({i} \X D)
    BY <2>2, <2>3
  <2>5. QED
    BY <2>2, <2>4
<1>4. QED
  BY <1>2, <1>3

(* Two graphs without a node in common close no cycle together.                     *)
LEMMA NewComponent ==
    ASSUME NEW L, NEW N, L \cap N = {},
           NEW E \in SUBSET (L \X L), Acyclic(E),
           NEW F \in SUBSET (N \X N), Acyclic(F)
    PROVE  Acyclic(E \cup F)
<1>1. SUFFICES ASSUME NEW S \in SUBSET Issue, S # {}
               PROVE  \E x \in S : \A y \in S : <<x, y>> \notin E \cup F
  BY DEF Acyclic
<1>2. CASE S \cap L # {}
  <2>1. S \cap L \in SUBSET Issue
    OBVIOUS
  <2>2. PICK x \in S \cap L : \A y \in S \cap L : <<x, y>> \notin E
    BY <1>2, <2>1 DEF Acyclic
  <2>3. \A y \in S : <<x, y>> \notin E \cup F
    BY <2>2
  <2>4. QED
    BY <2>2, <2>3
<1>3. CASE S \cap L = {}
  <2>1. PICK x \in S : \A y \in S : <<x, y>> \notin F
    BY <1>1 DEF Acyclic
  <2>2. \A y \in S : <<x, y>> \notin E \cup F
    BY <1>3, <2>1
  <2>3. QED
    BY <2>2
<1>4. QED
  BY <1>2, <1>3

-----------------------------------------------------------------------------
(* The events a write records are well typed                                        *)

LEMMA ListIsSequence ==
    ASSUME NEW S \in SUBSET Issue, NEW order \in Lists(S)
    PROVE  order \in Seq(S)
<1>1. PICK T \in SUBSET S : order \in SetToSeqs(T)
  BY DEF Lists, SetToAllKPermutations
<1>2. IsFiniteSet(T)
  BY DependenciesAssumption, FS_Subset
<1>3. Cardinality(T) \in Nat
  BY <1>2, FS_CardinalityType
<1>4. order \in [1..Cardinality(T) -> T]
  BY <1>1 DEF SetToSeqs
<1>5. QED
  BY <1>3, <1>4

LEMMA EventTypes ==
    /\ \A j \in Issue : DependencyAdded(j) \in Event /\ DependencyRemoved(j) \in Event
    /\ \A p, q \in Issue \cup {NoParent} : ParentChanged(p, q) \in Event
    /\ \A k \in Nat : Undone(k) \in Event
BY DEF DependencyAdded, DependencyRemoved, ParentChanged, Undone, Event, Reversible

LEMMA AddedType ==
    ASSUME NEW S \in SUBSET Issue, NEW order \in Seq(S)
    PROVE  Added(order) \in Seq(Event)
<1>1. \A k \in 1..Len(order) : DependencyAdded(order[k]) \in Event
  BY EventTypes
<1>2. QED
  BY <1>1 DEF Added

LEMMA RecordType ==
    ASSUME log \in [Issue -> Seq(Event)], NEW i \in Issue,
           NEW events \in Seq(Event), Record(i, events)
    PROVE  log' \in [Issue -> Seq(Event)]
<1>1. log[i] \o events \in Seq(Event)
  OBVIOUS
<1>2. QED
  BY <1>1 DEF Record

LEMMA OneEventType ==
    ASSUME log \in [Issue -> Seq(Event)], NEW i \in Issue,
           NEW e \in Event, Record(i, <<e>>)
    PROVE  log' \in [Issue -> Seq(Event)]
<1>1. <<e>> \in Seq(Event)
  OBVIOUS
<1>2. QED
  BY <1>1, RecordType

-----------------------------------------------------------------------------
(* Every write keeps both graphs acyclic                                             *)

Inv == TypeOK /\ DepsAcyclic /\ ParentsAcyclic

LEMMA InvInit == Init => Inv
BY DEF Init, Inv, TypeOK, DepsAcyclic, ParentsAcyclic, ParentEdges, Acyclic

(* The graphs are relations over the issues.                                         *)
LEMMA GraphTypes ==
    TypeOK => /\ live \in SUBSET Issue
              /\ deps \in SUBSET (live \X live) /\ deps \in SUBSET (Issue \X Issue)
              /\ ParentEdges \in SUBSET (live \X live)
              /\ ParentEdges \in SUBSET (Issue \X Issue)
BY DEF TypeOK, ParentEdges

LEMMA CreateIssueKeepsInv ==
    ASSUME Inv, NEW i \in Issue \ used, NEW p \in live \cup {NoParent},
           NEW D \in SUBSET live, CreateIssue(i, p, D)
    PROVE  Inv'
<1>1. i \notin live /\ i # NoParent
  BY DependenciesAssumption DEF Inv, TypeOK
<1>2. TypeOK'
  BY <1>1 DEF Inv, TypeOK, CreateIssue, Insert
<1>3. DepsAcyclic'
  <2>1. Acyclic(deps \cup ({i} \X D))
    BY <1>1, NewSource, GraphTypes DEF Inv, DepsAcyclic
  <2>2. QED
    BY <2>1 DEF CreateIssue, DepsAcyclic
<1>4. ParentsAcyclic'
  <2>1. Acyclic(ParentEdges \cup ({i} \X ({p} \cap live)))
    BY <1>1, NewSource, GraphTypes DEF Inv, ParentsAcyclic
  <2>2. ParentEdges' \subseteq ParentEdges \cup ({i} \X ({p} \cap live))
    BY <1>1, DependenciesAssumption DEF Inv, TypeOK, ParentEdges, CreateIssue, Insert
  <2>3. QED
    BY <2>1, <2>2, FewerEdges DEF ParentsAcyclic
<1>5. QED
  BY <1>2, <1>3, <1>4 DEF Inv

LEMMA AddPlanStepKeepsInv ==
    ASSUME Inv, NEW i \in Step \ used, NEW p \in Phase,
           NEW order \in Lists(live), AddPlanStep(i, p, order)
    PROVE  Inv'
<1> DEFINE D == {order[k] : k \in DOMAIN order}
<1>1. i \in Issue /\ i \notin live /\ i # NoParent /\ p \in live
  BY DependenciesAssumption DEF Inv, TypeOK, AddPlanStep
<1>2. D \in SUBSET live
  BY DEF AddPlanStep
<1>3. TypeOK'
  <2>1. Added(order) \in Seq(Event)
    BY ListIsSequence, AddedType, GraphTypes DEF Inv
  <2>2. log' \in [Issue -> Seq(Event)]
    BY <1>1, <2>1, RecordType DEF Inv, TypeOK, AddPlanStep
  <2>3. deps' \subseteq live' \X live'
    BY <1>2 DEF Inv, TypeOK, AddPlanStep, Insert
  <2>4. QED
    BY <1>1, <2>2, <2>3 DEF Inv, TypeOK, AddPlanStep, Insert
<1>4. DepsAcyclic'
  <2>1. Acyclic(deps \cup ({i} \X D))
    BY <1>1, <1>2, NewSource, GraphTypes DEF Inv, DepsAcyclic
  <2>2. QED
    BY <2>1 DEF AddPlanStep, DepsAcyclic
<1>5. ParentsAcyclic'
  <2>0. {p} \in SUBSET live
    BY <1>1
  <2>1. Acyclic(ParentEdges \cup ({i} \X {p}))
    BY <1>1, <2>0, NewSource, GraphTypes DEF Inv, ParentsAcyclic
  <2>2. ParentEdges' \subseteq ParentEdges \cup ({i} \X {p})
    <3>1. live' = live \cup {i} /\ parent' = [parent EXCEPT ![i] = p]
      BY DEF AddPlanStep, Insert
    <3>2. QED
      BY <1>1, <3>1, DependenciesAssumption DEF Inv, TypeOK, ParentEdges
  <2>3. QED
    BY <2>1, <2>2, FewerEdges DEF ParentsAcyclic
<1>6. QED
  BY <1>3, <1>4, <1>5 DEF Inv

LEMMA CreatePlanKeepsInv ==
    ASSUME Inv, NEW m \in Issue \ used, NEW p \in Phase \ used,
           NEW steps \in SUBSET (Step \ used), NEW refs \in [steps -> Lists(steps)],
           CreatePlan(m, p, steps, refs)
    PROVE  Inv'
<1> DEFINE N == {m, p} \cup steps
           E == {e \in steps \X steps : \E k \in DOMAIN refs[e[1]] : refs[e[1]][k] = e[2]}
           F == (steps \X {p}) \cup {<<p, m>>}
<1>1. N \in SUBSET Issue /\ live \cap N = {} /\ NoParent \notin N
  BY DependenciesAssumption DEF Inv, TypeOK
<1>2. m # p /\ m \notin steps /\ p \notin steps
  BY DependenciesAssumption DEF CreatePlan
<1>3. Acyclic(E) /\ deps' = deps \cup E
  BY DEF CreatePlan
<1>4. live' = live \cup N /\ used' = used \cup N /\ UNCHANGED category
  BY DEF CreatePlan, Insert
<1>5. parent' = [i \in Issue |-> IF i \in steps THEN p ELSE IF i = p THEN m ELSE parent[i]]
  BY DEF CreatePlan
<1>6. log' \in [Issue -> Seq(Event)]
  <2>1. \A i \in steps : Added(refs[i]) \in Seq(Event)
    BY <1>1, ListIsSequence, AddedType
  <2>2. QED
    BY <2>1 DEF CreatePlan, Inv, TypeOK
<1>7. TypeOK'
  <2>1. parent' \in [Issue -> live' \cup {NoParent}]
    BY <1>1, <1>4, <1>5 DEF Inv, TypeOK
  <2>2. \A i \in Issue \ live' : parent'[i] = NoParent
    BY <1>1, <1>4, <1>5 DEF Inv, TypeOK
  <2>3. QED
    BY <1>1, <1>3, <1>4, <1>6, <2>1, <2>2 DEF Inv, TypeOK
<1>8. DepsAcyclic'
  <2>1. E \in SUBSET (N \X N)
    OBVIOUS
  <2> HIDE DEF E, N
  <2>2. Acyclic(deps \cup E)
    BY <1>1, <1>3, <2>1, NewComponent, GraphTypes DEF Inv, DepsAcyclic
  <2>3. QED
    BY <1>3, <2>2 DEF DepsAcyclic
<1>9. ParentsAcyclic'
  <2>1. Acyclic(F)
    <3>1. SUFFICES ASSUME NEW S \in SUBSET Issue, S # {}
                   PROVE  \E x \in S : \A y \in S : <<x, y>> \notin F
      BY DEF Acyclic
    <3>2. CASE m \in S
      BY <1>2, <3>2
    <3>3. CASE m \notin S /\ p \in S
      BY <1>2, <3>3
    <3>4. CASE m \notin S /\ p \notin S
      BY <3>1, <3>4
    <3>5. QED
      BY <3>2, <3>3, <3>4
  <2>2. Acyclic(ParentEdges \cup F)
    <3>1. F \in SUBSET (N \X N)
      OBVIOUS
    <3>2. QED
      BY <1>1, <2>1, <3>1, NewComponent, GraphTypes DEF Inv, ParentsAcyclic
  <2>3. ParentEdges' \subseteq ParentEdges \cup F
    <3>1. SUFFICES ASSUME NEW e \in live' \X live', parent'[e[1]] = e[2]
                   PROVE  e \in ParentEdges \cup F
      BY DEF ParentEdges
    <3>2. CASE e[1] \in N
      <4>1. parent[m] = NoParent
        BY <1>1 DEF Inv, TypeOK
      <4>2. NoParent \notin live'
        BY <1>1, <1>4, DependenciesAssumption DEF Inv, TypeOK
      <4>3. e[1] # m
        BY <1>1, <1>2, <1>5, <3>1, <4>1, <4>2
      <4>4. QED
        BY <1>1, <1>5, <3>1, <3>2, <4>3
    <3>3. CASE e[1] \in live
      <4>1. parent[e[1]] = e[2]
        BY <1>1, <1>5, <3>1, <3>3, GraphTypes DEF Inv
      <4>2. e[2] \in live
        BY <1>4, <3>1, <3>3, <4>1, DependenciesAssumption, <1>1 DEF Inv, TypeOK
      <4>3. QED
        BY <3>1, <3>3, <4>1, <4>2 DEF ParentEdges
    <3>4. QED
      BY <1>4, <3>2, <3>3
  <2>4. QED
    BY <2>2, <2>3, FewerEdges DEF ParentsAcyclic
<1>10. QED
  BY <1>7, <1>8, <1>9 DEF Inv

LEMMA SetCategoryKeepsInv ==
    ASSUME Inv, NEW i \in Issue, NEW c \in {"open", "wip", "done"}, SetCategory(i, c)
    PROVE  Inv'
<1>1. TypeOK'
  BY DEF Inv, TypeOK, SetCategory
<1>2. UNCHANGED <<deps, ParentEdges>>
  BY DEF SetCategory, ParentEdges
<1>3. QED
  BY <1>1, <1>2 DEF Inv, DepsAcyclic, ParentsAcyclic

(* The parent i gets closes no cycle, and every other parent stays.                   *)
LEMMA NewParentKeepsTree ==
    ASSUME Inv, NEW i \in live, NEW p \in live \cup {NoParent},
           p # NoParent => ~WouldCreateParentCycle(i, p),
           parent' = [parent EXCEPT ![i] = p], live' = live
    PROVE  ParentsAcyclic'
<1>1. CASE p = NoParent
  <2>1. ParentEdges' \subseteq ParentEdges
    BY <1>1, DependenciesAssumption DEF Inv, TypeOK, ParentEdges
  <2>2. QED
    BY <2>1, FewerEdges DEF Inv, ParentsAcyclic
<1>2. CASE p # NoParent
  <2>1. i \in Issue /\ p \in Issue
    BY <1>2 DEF Inv, TypeOK
  <2>2. Acyclic(ParentEdges \cup {<<i, p>>})
    BY <1>2, <2>1, AcceptedEdge, GraphTypes DEF Inv, ParentsAcyclic, WouldCreateParentCycle
  <2>3. ParentEdges' \subseteq ParentEdges \cup {<<i, p>>}
    BY DEF Inv, TypeOK, ParentEdges
  <2>4. QED
    BY <2>2, <2>3, FewerEdges DEF ParentsAcyclic
<1>3. QED
  BY <1>1, <1>2

LEMMA SetParentKeepsInv ==
    ASSUME Inv, NEW i \in Issue, NEW p \in Issue \cup {NoParent}, SetParent(i, p)
    PROVE  Inv'
<1>1. parent[i] \in Issue \cup {NoParent}
  BY DEF Inv, TypeOK
<1>2. log' \in [Issue -> Seq(Event)]
  <2>1. ParentChanged(parent[i], p) \in Event
    BY <1>1, EventTypes
  <2>2. QED
    BY <2>1, OneEventType DEF Inv, TypeOK, SetParent
<1>3. TypeOK'
  BY <1>2 DEF Inv, TypeOK, SetParent
<1>4. ParentsAcyclic'
  BY NewParentKeepsTree DEF SetParent
<1>5. DepsAcyclic'
  BY DEF Inv, DepsAcyclic, SetParent
<1>6. QED
  BY <1>3, <1>4, <1>5 DEF Inv

LEMMA AddDependencyKeepsInv ==
    ASSUME Inv, NEW i \in Issue, NEW j \in Issue, AddDependency(i, j)
    PROVE  Inv'
<1>1. log' \in [Issue -> Seq(Event)]
  BY EventTypes, OneEventType DEF Inv, TypeOK, AddDependency
<1>2. TypeOK'
  BY <1>1 DEF Inv, TypeOK, AddDependency
<1>3. DepsAcyclic'
  <2>1. Acyclic(deps \cup {<<i, j>>})
    BY AcceptedEdge, GraphTypes DEF Inv, DepsAcyclic, AddDependency, WouldCreateCycle
  <2>2. QED
    BY <2>1 DEF AddDependency, DepsAcyclic
<1>4. ParentsAcyclic'
  BY DEF Inv, ParentsAcyclic, ParentEdges, AddDependency
<1>5. QED
  BY <1>2, <1>3, <1>4 DEF Inv

LEMMA RemoveDependencyKeepsInv ==
    ASSUME Inv, NEW i \in Issue, NEW j \in Issue, RemoveDependency(i, j)
    PROVE  Inv'
<1>1. log' \in [Issue -> Seq(Event)]
  BY EventTypes, OneEventType DEF Inv, TypeOK, RemoveDependency
<1>2. TypeOK'
  BY <1>1 DEF Inv, TypeOK, RemoveDependency
<1>3. DepsAcyclic'
  BY FewerEdges DEF Inv, DepsAcyclic, RemoveDependency
<1>4. ParentsAcyclic'
  BY DEF Inv, ParentsAcyclic, ParentEdges, RemoveDependency
<1>5. QED
  BY <1>2, <1>3, <1>4 DEF Inv

LEMMA RetargetKeepsInv ==
    ASSUME Inv, NEW i \in Step, NEW j \in Step, NEW k \in Step, Retarget(i, j, k)
    PROVE  Inv'
<1>1. i \in Issue /\ j \in Issue /\ k \in Issue /\ {i, j, k} \subseteq live
  BY DependenciesAssumption DEF Retarget
<1>2. log' \in [Issue -> Seq(Event)]
  <2>1. DependencyRemoved(j) \in Event /\ DependencyAdded(k) \in Event
    BY <1>1, EventTypes
  <2>2. RetargetEvents(i, j, k) \in Seq(Event)
    BY <2>1 DEF RetargetEvents
  <2>3. QED
    BY <1>1, <2>2, RecordType DEF Inv, TypeOK, Retarget
<1>3. TypeOK'
  BY <1>1, <1>2 DEF Inv, TypeOK, Retarget
<1>4. DepsAcyclic'
  <2>1. Acyclic(deps \cup {<<i, k>>})
    BY <1>1, AcceptedEdge, GraphTypes DEF Inv, DepsAcyclic, Retarget, WouldCreateCycle
  <2>2. deps' \subseteq deps \cup {<<i, k>>}
    BY DEF Retarget
  <2>3. QED
    BY <2>1, <2>2, FewerEdges DEF DepsAcyclic
<1>5. ParentsAcyclic'
  BY DEF Inv, ParentsAcyclic, ParentEdges, Retarget
<1>6. QED
  BY <1>3, <1>4, <1>5 DEF Inv

(* A set of positions has a newest one.                                             *)
LEMMA NewestInSet ==
  ASSUME NEW n \in Nat, NEW K, K \subseteq 1..n, K # {}
  PROVE  \E k \in K : \A j \in K : j <= k
<1> DEFINE M == {n - k : k \in K}
<1>1. M \subseteq Nat /\ M # {}
  <2>1. \A k \in K : n - k \in Nat
    OBVIOUS
  <2> QED
    BY <2>1
<1>2. PICK m \in M : \A i \in M : m <= i
  <2> HIDE DEF M
  <2>1. PICK m \in M : \A i \in M : ~(<<i, m>> \in OpToRel(<, Nat))
    BY <1>1, NatLessThanWellFounded, WFMin
  <2>2. \A i \in M : ~(i < m)
    BY <1>1, <2>1 DEF OpToRel
  <2> QED
    BY <1>1, <2>2
<1>3. PICK k \in K : m = n - k
  BY <1>2
<1>4. ASSUME NEW j \in K PROVE j <= k
  <2>1. n - k <= n - j
    BY <1>2, <1>3
  <2>2. j \in Int /\ k \in Int
    OBVIOUS
  <2> QED
    BY <2>1, <2>2
<1> QED
  BY <1>4

LEMMA NextToUndoIsUndoable ==
    ASSUME TypeOK, NEW i \in Issue, Undoable(log[i]) # {}
    PROVE  NextToUndo(log[i]) \in Undoable(log[i]) /\ NextToUndo(log[i]) \in Nat
<1>1. Len(log[i]) \in Nat /\ Undoable(log[i]) \subseteq 1..Len(log[i])
  BY DEF TypeOK, Undoable
<1>2. \E k \in Undoable(log[i]) : \A j \in Undoable(log[i]) : j <= k
  BY <1>1, NewestInSet
<1>3. NextToUndo(log[i]) \in Undoable(log[i])
  BY <1>2 DEF NextToUndo, Newest
<1>4. QED
  BY <1>1, <1>3

(* undo re-checks what it restores against the graphs as they are now.                *)
LEMMA UndoKeepsInv ==
    ASSUME Inv, NEW i \in Issue, Undo(i)
    PROVE  Inv'
<1> DEFINE k == NextToUndo(log[i])
           e == log[i][k]
<1>1. log' \in [Issue -> Seq(Event)]
  <2>1. Undone(k) \in Event
    BY NextToUndoIsUndoable, EventTypes DEF Inv, Undo
  <2>2. QED
    BY <2>1, OneEventType DEF Inv, TypeOK, Undo
<1>2. live' = live /\ used' = used /\ category' = category /\ i \in live
  BY DEF Undo
<1> HIDE DEF e
<1>3. CASE deps' = deps \ {<<i, e.new>>} /\ UNCHANGED parent
  <2>1. TypeOK'
    BY <1>1, <1>2, <1>3 DEF Inv, TypeOK
  <2>2. DepsAcyclic'
    BY <1>3, FewerEdges DEF Inv, DepsAcyclic
  <2>3. ParentsAcyclic'
    BY <1>2, <1>3 DEF Inv, ParentsAcyclic, ParentEdges
  <2>4. QED
    BY <2>1, <2>2, <2>3 DEF Inv
<1>4. CASE RestoresDependency(i, e.old) /\ deps' = deps \cup {<<i, e.old>>} /\ UNCHANGED parent
  <2>1. e.old \in live /\ e.old \in Issue
    BY <1>4 DEF RestoresDependency, Inv, TypeOK
  <2>2. TypeOK'
    BY <1>1, <1>2, <1>4, <2>1 DEF Inv, TypeOK
  <2>3. Acyclic(deps \cup {<<i, e.old>>})
    BY <1>4, <2>1, AcceptedEdge, GraphTypes
       DEF Inv, DepsAcyclic, RestoresDependency, WouldCreateCycle
  <2>4. DepsAcyclic'
    BY <1>4, <2>3 DEF DepsAcyclic
  <2>5. ParentsAcyclic'
    BY <1>2, <1>4 DEF Inv, ParentsAcyclic, ParentEdges
  <2>6. QED
    BY <2>2, <2>4, <2>5 DEF Inv
<1>5. CASE /\ e.old = NoParent \/ RestoresParent(i, e.old)
           /\ parent' = [parent EXCEPT ![i] = e.old] /\ UNCHANGED deps
  <2>1. e.old \in live \cup {NoParent}
    BY <1>5 DEF RestoresParent
  <2>2. TypeOK'
    BY <1>1, <1>2, <1>5, <2>1 DEF Inv, TypeOK
  <2>3. e.old # NoParent => ~WouldCreateParentCycle(i, e.old)
    BY <1>5 DEF RestoresParent
  <2>4. ParentsAcyclic'
    BY <1>2, <1>5, <2>1, <2>3, NewParentKeepsTree
  <2>5. DepsAcyclic'
    BY <1>5 DEF Inv, DepsAcyclic
  <2>6. QED
    BY <2>2, <2>4, <2>5 DEF Inv
<1>6. QED
  BY <1>3, <1>4, <1>5 DEF Undo, e

LEMMA DeleteKeepsInv ==
    ASSUME Inv, NEW i \in Issue, NEW force \in BOOLEAN, Delete(i, force)
    PROVE  Inv'
<1>1. TypeOK'
  <2>1. log' \in [Issue -> Seq(Event)]
    BY DEF Inv, TypeOK, Delete
  <2>2. deps' \subseteq live' \X live'
    BY DEF Inv, TypeOK, Delete, EdgesWithout
  <2>3. parent' \in [Issue -> live' \cup {NoParent}] /\ \A c \in Issue \ live' : parent'[c] = NoParent
    BY DEF Inv, TypeOK, Delete
  <2>4. QED
    BY <2>1, <2>2, <2>3 DEF Inv, TypeOK, Delete
<1>2. DepsAcyclic'
  <2>1. deps' \subseteq deps
    BY DEF Delete, EdgesWithout
  <2>2. QED
    BY <2>1, FewerEdges DEF Inv, DepsAcyclic
<1>3. ParentsAcyclic'
  <2>1. ParentEdges' \subseteq ParentEdges
    BY DependenciesAssumption DEF Inv, TypeOK, Delete, ParentEdges
  <2>2. QED
    BY <2>1, FewerEdges DEF Inv, ParentsAcyclic
<1>4. QED
  BY <1>1, <1>2, <1>3 DEF Inv

-----------------------------------------------------------------------------
(* The theorems                                                                      *)

LEMMA StepKeepsInv == Inv /\ [Next]_vars => Inv'
<1> SUFFICES ASSUME Inv, [Next]_vars PROVE Inv'
  OBVIOUS
<1>1. CASE UNCHANGED vars
  BY <1>1 DEF vars, Inv, TypeOK, DepsAcyclic, ParentsAcyclic, ParentEdges
<1>2. CASE \E i \in Issue \ used, p \in live \cup {NoParent}, D \in SUBSET live :
              CreateIssue(i, p, D)
  BY <1>2, CreateIssueKeepsInv
<1>3. CASE \E i \in Step \ used, p \in Phase, order \in Lists(live) : AddPlanStep(i, p, order)
  BY <1>3, AddPlanStepKeepsInv
<1>4. CASE \E m \in Issue \ used, p \in Phase \ used, steps \in SUBSET (Step \ used) :
              \E refs \in [steps -> Lists(steps)] : CreatePlan(m, p, steps, refs)
  BY <1>4, CreatePlanKeepsInv
<1>5. CASE \E i \in Issue, c \in {"open", "wip", "done"} : SetCategory(i, c)
  BY <1>5, SetCategoryKeepsInv
<1>6. CASE Edit
  BY <1>6, AddDependencyKeepsInv, RemoveDependencyKeepsInv, SetParentKeepsInv,
     RetargetKeepsInv, UndoKeepsInv DEF Edit
<1>7. CASE \E i \in Issue, force \in BOOLEAN : Delete(i, force)
  BY <1>7, DeleteKeepsInv
<1>8. QED
  BY <1>1, <1>2, <1>3, <1>4, <1>5, <1>6, <1>7 DEF Next

LEMMA Invariance == Spec => []Inv
<1>1. QED
  BY InvInit, StepKeepsInv, PTL DEF Spec

(* Both graphs stay among live issues, and every recorded event is well typed.        *)
THEOREM TypeCorrect == Spec => []TypeOK
<1>1. Inv => TypeOK
  BY DEF Inv
<1>2. QED
  BY <1>1, Invariance, PTL

(* No sequence of dependency edits, plans, deletions and undos makes an issue wait     *)
(* for itself, however many issues there are (_would_create_cycle, undo_last).         *)
THEOREM DependenciesStayAcyclic == Spec => []DepsAcyclic
<1>1. Inv => DepsAcyclic
  BY DEF Inv
<1>2. QED
  BY <1>1, Invariance, PTL

(* No sequence of reparentings, plans, deletions and undos makes an issue its own      *)
(* ancestor (_would_create_parent_cycle, undo_last).                                   *)
THEOREM ParentsStayATree == Spec => []ParentsAcyclic
<1>1. Inv => ParentsAcyclic
  BY DEF Inv
<1>2. QED
  BY <1>1, Invariance, PTL

(* Unfinished work always has an unblocked issue to start with: an unfinished set in   *)
(* which every issue waited for another one of it would be a cycle.                    *)
THEOREM BacklogAlwaysMoves == Spec => []BacklogNeverDeadlocks
<1>1. Inv => BacklogNeverDeadlocks
  <2> DEFINE unfinished == {i \in live : category[i] # "done"}
  <2>1. SUFFICES ASSUME Inv, unfinished # {} PROVE \E i \in unfinished : ~Blocked(i)
    BY DEF BacklogNeverDeadlocks
  <2>2. unfinished \in SUBSET Issue
    BY <2>1 DEF Inv, TypeOK
  <2>3. PICK x \in unfinished : \A y \in unfinished : <<x, y>> \notin deps
    BY <2>1, <2>2 DEF Inv, DepsAcyclic, Acyclic
  <2>4. ~Blocked(x)
    <3>1. SUFFICES ASSUME NEW e \in deps, e[1] = x, category[e[2]] # "done" PROVE FALSE
      BY DEF Blocked
    <3>2. e = <<x, e[2]>> /\ e[2] \in live
      BY <2>1, <3>1 DEF Inv, TypeOK
    <3>3. QED
      BY <2>3, <3>1, <3>2
  <2>5. QED
    BY <2>4
<1>2. QED
  BY <1>1, Invariance, PTL

(* Neither graph ever closes a cycle, however the writes of both are interleaved.      *)
THEOREM GraphsStayAcyclic == Spec => []GraphsAcyclic
  BY DependenciesStayAcyclic, ParentsStayATree, PTL DEF GraphsAcyclic
-----------------------------------------------------------------------------
(* Chains of events                                                                  *)

(* The events N, each of which found a value and left one, account for a value: each  *)
(* found what the one before it left, and the newest left the value as it is.         *)
Chain(N, found, left, value) ==
    /\ \A j, k \in N : j < k /\ (\A m \in N : m <= j \/ k <= m) => left[j] = found[k]
    /\ \A k \in N : (\A j \in N : j <= k) => left[k] = value

(* The newest event of a chain says what the value is.                               *)
LEMMA ChainEnds ==
    ASSUME NEW n \in Nat, NEW N \in SUBSET (1..n), N # {}, NEW found, NEW left, NEW value,
           Chain(N, found, left, value)
    PROVE  Newest(N) \in N /\ left[Newest(N)] = value
<1>1. \E k \in N : \A j \in N : j <= k
  BY NewestInSet
<1>2. Newest(N) \in N /\ \A j \in N : j <= Newest(N)
  BY <1>1 DEF Newest
<1>3. QED
  BY <1>2 DEF Chain

(* What each event found and left may be told in other words.                         *)
LEMMA ChainRetold ==
    ASSUME NEW N, NEW found, NEW left, NEW value, Chain(N, found, left, value),
           NEW found2, NEW left2,
           \A k \in N : found2[k] = found[k] /\ left2[k] = left[k]
    PROVE  Chain(N, found2, left2, value)
BY DEF Chain

(* A new event that found the present value is the new end.                            *)
LEMMA ChainGrows ==
    ASSUME NEW N \in SUBSET Nat, NEW t \in Nat, \A m \in N : m < t,
           NEW found, NEW left, NEW value,
           Chain(N, found, left, value), found[t] = value
    PROVE  Chain(N \cup {t}, found, left, left[t])
<1> DEFINE M == N \cup {t}
<1>1. \A k \in N : k \in Nat /\ k < t
  OBVIOUS
<1>2. ASSUME NEW j \in M, NEW k \in M, j < k, \A m \in M : m <= j \/ k <= m
      PROVE  left[j] = found[k]
  <2>1. j \in N
    BY <1>1, <1>2
  <2>2. CASE k \in N
    BY <1>2, <2>1, <2>2 DEF Chain
  <2>3. CASE k = t
    <3>1. \A m \in N : m <= j
      BY <1>1, <1>2, <2>3
    <3>2. left[j] = value
      BY <2>1, <3>1 DEF Chain
    <3>3. QED
      BY <2>3, <3>2
  <2>4. QED
    BY <2>2, <2>3
<1>3. ASSUME NEW k \in M, \A j \in M : j <= k
      PROVE  left[k] = left[t]
  BY <1>1, <1>3
<1>4. QED
  BY <1>2, <1>3 DEF Chain

(* Without its end a chain accounts for what that event found.                         *)
LEMMA ChainShrinks ==
    ASSUME NEW n \in Nat, NEW N \in SUBSET (1..n), NEW found, NEW left, NEW value,
           Chain(N, found, left, value), NEW t \in N, \A m \in N : m <= t
    PROVE  Chain(N \ {t}, found, left, found[t])
<1> DEFINE M == N \ {t}
<1>1. \A k \in N : k \in Nat /\ k <= t
  OBVIOUS
<1>2. ASSUME NEW j \in M, NEW k \in M, j < k, \A m \in M : m <= j \/ k <= m
      PROVE  left[j] = found[k]
  <2>1. \A m \in N : m <= j \/ k <= m
    BY <1>1, <1>2
  <2>2. QED
    BY <1>2, <2>1 DEF Chain
<1>3. ASSUME NEW k \in M, \A j \in M : j <= k
      PROVE  left[k] = found[t]
  <2>1. k < t /\ \A m \in N : m <= k \/ t <= m
    BY <1>1, <1>3
  <2>2. QED
    BY <1>3, <2>1 DEF Chain
<1>4. QED
  BY <1>2, <1>3 DEF Chain

-----------------------------------------------------------------------------
(* An event that is appended                                                         *)

(* Every event is one a write records, about ids U; an undo names an event of the log. *)
Sound(events, U) ==
    \A m \in DOMAIN events :
        \/ \E k \in DOMAIN events : events[m] = Undone(k)
        \/ \E j \in U : events[m] = DependencyAdded(j) \/ events[m] = DependencyRemoved(j)
        \/ \E p, q \in U \cup {NoParent} : events[m] = ParentChanged(p, q)

(* The standing events about an edge, and those about the parent.                      *)
EdgeLinks(events, j) ==
    {k \in DOMAIN events :
        (events[k] = DependencyAdded(j) \/ events[k] = DependencyRemoved(j))
        /\ ~IsUndone(events, k)}

ParentLinks(events) ==
    {k \in DOMAIN events : events[k].kind = "parent_changed" /\ ~IsUndone(events, k)}

LEMMA Appended ==
    ASSUME NEW T, NEW l \in Seq(T), NEW e \in T
    PROVE  LET l2 == l \o <<e>>
           IN  /\ l2 \in Seq(T) /\ DOMAIN l2 = 1..(Len(l) + 1) /\ Len(l2) = Len(l) + 1
               /\ \A k \in 1..Len(l) : l2[k] = l[k]
               /\ l2[Len(l) + 1] = e
OBVIOUS

(* The kinds of the events.                                                            *)
LEMMA EventKinds ==
    /\ \A j : DependencyAdded(j).kind = "dependency_added" /\ DependencyAdded(j).new = j
    /\ \A j : DependencyRemoved(j).kind = "dependency_removed" /\ DependencyRemoved(j).old = j
    /\ \A p, q : /\ ParentChanged(p, q).kind = "parent_changed"
                 /\ ParentChanged(p, q).old = p /\ ParentChanged(p, q).new = q
    /\ \A k : Undone(k).kind = "undone" /\ Undone(k).new = k
BY DEF DependencyAdded, DependencyRemoved, ParentChanged, Undone

(* An event that undoes nothing leaves what was undone, and is not itself undone: an   *)
(* undo names an event that was there before it.                                       *)
LEMMA RecordedStands ==
    ASSUME NEW l \in Seq(Event), NEW U, Sound(l, U), NEW e \in Event, e.kind # "undone"
    PROVE  /\ \A k \in 1..Len(l) : IsUndone(l \o <<e>>, k) <=> IsUndone(l, k)
           /\ ~IsUndone(l \o <<e>>, Len(l) + 1)
<1> DEFINE l2 == l \o <<e>>
<1>1. /\ DOMAIN l2 = 1..(Len(l) + 1) /\ DOMAIN l = 1..Len(l) /\ Len(l) \in Nat
      /\ \A k \in 1..Len(l) : l2[k] = l[k]
      /\ l2[Len(l) + 1] = e
  BY Appended
<1>2. \A k \in 1..Len(l) : l[k].kind = "undone" => l[k].new \in 1..Len(l)
  BY <1>1, EventKinds DEF Sound
<1> HIDE DEF l2
<1>3. \A k \in 1..Len(l) : IsUndone(l2, k) <=> IsUndone(l, k)
  BY <1>1 DEF IsUndone
<1>4. ~IsUndone(l2, Len(l) + 1)
  BY <1>1, <1>2 DEF IsUndone
<1>5. QED
  BY <1>3, <1>4 DEF l2

LEMMA RecordedLinks ==
    ASSUME NEW l \in Seq(Event), NEW U, Sound(l, U), NEW e \in Event, e.kind # "undone"
    PROVE  /\ \A j : EdgeLinks(l \o <<e>>, j) =
                       IF e = DependencyAdded(j) \/ e = DependencyRemoved(j)
                       THEN EdgeLinks(l, j) \cup {Len(l) + 1} ELSE EdgeLinks(l, j)
           /\ ParentLinks(l \o <<e>>) =
                       IF e.kind = "parent_changed"
                       THEN ParentLinks(l) \cup {Len(l) + 1} ELSE ParentLinks(l)
<1> DEFINE l2 == l \o <<e>>
<1>1. /\ DOMAIN l2 = 1..(Len(l) + 1) /\ DOMAIN l = 1..Len(l) /\ Len(l) \in Nat
      /\ \A k \in 1..Len(l) : l2[k] = l[k]
      /\ l2[Len(l) + 1] = e
  BY Appended
<1>2. /\ \A k \in 1..Len(l) : IsUndone(l2, k) <=> IsUndone(l, k)
      /\ ~IsUndone(l2, Len(l) + 1)
  BY RecordedStands
<1>3. 1..(Len(l) + 1) = 1..Len(l) \cup {Len(l) + 1} /\ Len(l) + 1 \notin 1..Len(l)
  BY <1>1
<1> HIDE DEF l2
<1>4. ASSUME NEW j
      PROVE  EdgeLinks(l2, j) = IF e = DependencyAdded(j) \/ e = DependencyRemoved(j)
                                THEN EdgeLinks(l, j) \cup {Len(l) + 1} ELSE EdgeLinks(l, j)
  BY <1>1, <1>2, <1>3 DEF EdgeLinks
<1>5. ParentLinks(l2) = IF e.kind = "parent_changed"
                        THEN ParentLinks(l) \cup {Len(l) + 1} ELSE ParentLinks(l)
  BY <1>1, <1>2, <1>3 DEF ParentLinks
<1>6. QED
  BY <1>4, <1>5 DEF l2

(* An undo takes the event it names off every chain it is on.                          *)
LEMMA UndoneLinks ==
    ASSUME NEW l \in Seq(Event), NEW t \in 1..Len(l)
    PROVE  /\ \A j : EdgeLinks(l \o <<Undone(t)>>, j) = EdgeLinks(l, j) \ {t}
           /\ ParentLinks(l \o <<Undone(t)>>) = ParentLinks(l) \ {t}
<1> DEFINE e == Undone(t)
           l2 == l \o <<e>>
<1>1. /\ DOMAIN l2 = 1..(Len(l) + 1) /\ DOMAIN l = 1..Len(l) /\ Len(l) \in Nat
      /\ \A k \in 1..Len(l) : l2[k] = l[k]
      /\ l2[Len(l) + 1] = e
  <2>1. e \in Event
    BY EventTypes
  <2>2. QED
    BY <2>1, Appended
<1>2. e.kind = "undone" /\ e.new = t
  BY EventKinds
<1>3. 1..(Len(l) + 1) = 1..Len(l) \cup {Len(l) + 1} /\ Len(l) + 1 \notin 1..Len(l)
  BY <1>1
<1> HIDE DEF l2, e
<1>4. \A k \in 1..Len(l) : IsUndone(l2, k) <=> IsUndone(l, k) \/ k = t
  BY <1>1, <1>2, <1>3 DEF IsUndone
<1>5. ASSUME NEW j PROVE EdgeLinks(l2, j) = EdgeLinks(l, j) \ {t}
  <2>1. e # DependencyAdded(j) /\ e # DependencyRemoved(j)
    BY <1>2, EventKinds
  <2>2. QED
    BY <1>1, <1>3, <1>4, <2>1 DEF EdgeLinks
<1>6. ParentLinks(l2) = ParentLinks(l) \ {t}
  BY <1>1, <1>2, <1>3, <1>4 DEF ParentLinks
<1>7. QED
  BY <1>5, <1>6 DEF l2, e
(* What a log says of an edge: whether it was there before and after each event.        *)
There(yes) == IF yes THEN "there" ELSE "gone"

EdgeChain(events, j, value) ==
    Chain(EdgeLinks(events, j),
          [k \in DOMAIN events |-> There(events[k] = DependencyRemoved(j))],
          [k \in DOMAIN events |-> There(events[k] = DependencyAdded(j))],
          value)

(* What a log says of a parent, as far as the issues L still tell.                       *)
Now(L, p) == IF p \in L THEN p ELSE NoParent

ParentChain(events, L, value) ==
    Chain(ParentLinks(events),
          [k \in DOMAIN events |-> Now(L, events[k].old)],
          [k \in DOMAIN events |-> Now(L, events[k].new)],
          value)

LEMMA LinksArePositions ==
    ASSUME NEW l \in Seq(Event)
    PROVE  /\ Len(l) \in Nat /\ DOMAIN l = 1..Len(l)
           /\ \A j : EdgeLinks(l, j) \in SUBSET (1..Len(l))
           /\ ParentLinks(l) \in SUBSET (1..Len(l))
BY DEF EdgeLinks, ParentLinks

(* An event about the edge that found what the chain left extends it.                    *)
LEMMA EdgeRecorded ==
    ASSUME NEW l \in Seq(Event), NEW U, Sound(l, U), NEW j, NEW e \in Event,
           e = DependencyAdded(j) \/ e = DependencyRemoved(j),
           NEW value, value = There(e = DependencyRemoved(j)), EdgeChain(l, j, value),
           NEW value2, value2 = There(e = DependencyAdded(j))
    PROVE  EdgeChain(l \o <<e>>, j, value2)
<1> DEFINE l2 == l \o <<e>>
           found == [k \in DOMAIN l |-> There(l[k] = DependencyRemoved(j))]
           left == [k \in DOMAIN l |-> There(l[k] = DependencyAdded(j))]
           found2 == [k \in DOMAIN l2 |-> There(l2[k] = DependencyRemoved(j))]
           left2 == [k \in DOMAIN l2 |-> There(l2[k] = DependencyAdded(j))]
           N == EdgeLinks(l, j)
<1>1. /\ DOMAIN l2 = 1..(Len(l) + 1)
      /\ \A k \in 1..Len(l) : l2[k] = l[k]
      /\ l2[Len(l) + 1] = e
  BY Appended
<1>2. Len(l) \in Nat /\ DOMAIN l = 1..Len(l) /\ N \in SUBSET (1..Len(l))
  BY LinksArePositions
<1>3. e.kind # "undone"
  BY EventKinds
<1>4. EdgeLinks(l2, j) = N \cup {Len(l) + 1}
  BY <1>3, RecordedLinks
<1> HIDE DEF l2
<1>5. \A k \in N : found2[k] = found[k] /\ left2[k] = left[k]
  BY <1>1, <1>2
<1>6. found2[Len(l) + 1] = value /\ left2[Len(l) + 1] = value2
  BY <1>1, <1>2
<1>7. Chain(N, found, left, value)
  BY DEF EdgeChain
<1> HIDE DEF found, left, found2, left2, N
<1>8. Chain(N \cup {Len(l) + 1}, found2, left2, left2[Len(l) + 1])
  <2>1. PICK t \in Nat : t = Len(l) + 1
    BY <1>2
  <2>2. N \in SUBSET Nat /\ (\A m \in N : m < t) /\ found2[t] = value
    BY <1>2, <1>6, <2>1
  <2>3. Chain(N, found2, left2, value)
    BY <1>5, <1>7, ChainRetold
  <2>4. Chain(N \cup {t}, found2, left2, left2[t])
    BY <2>2, <2>3, ChainGrows
  <2>5. QED
    BY <2>1, <2>4
<1>9. QED
  BY <1>4, <1>6, <1>8 DEF EdgeChain, l2, found2, left2

(* An event about anything else leaves it.                                               *)
LEMMA EdgeApart ==
    ASSUME NEW l \in Seq(Event), NEW U, Sound(l, U), NEW j, NEW e \in Event, NEW value,
           e.kind # "undone", e # DependencyAdded(j), e # DependencyRemoved(j),
           EdgeChain(l, j, value)
    PROVE  EdgeChain(l \o <<e>>, j, value)
<1> DEFINE l2 == l \o <<e>>
           found == [k \in DOMAIN l |-> There(l[k] = DependencyRemoved(j))]
           left == [k \in DOMAIN l |-> There(l[k] = DependencyAdded(j))]
           found2 == [k \in DOMAIN l2 |-> There(l2[k] = DependencyRemoved(j))]
           left2 == [k \in DOMAIN l2 |-> There(l2[k] = DependencyAdded(j))]
           N == EdgeLinks(l, j)
<1>1. /\ DOMAIN l2 = 1..(Len(l) + 1)
      /\ \A k \in 1..Len(l) : l2[k] = l[k]
  BY Appended
<1>2. Len(l) \in Nat /\ DOMAIN l = 1..Len(l) /\ N \in SUBSET (1..Len(l))
  BY LinksArePositions
<1>3. EdgeLinks(l2, j) = N
  BY RecordedLinks
<1> HIDE DEF l2
<1>4. \A k \in N : found2[k] = found[k] /\ left2[k] = left[k]
  BY <1>1, <1>2
<1>5. Chain(N, found, left, value)
  BY DEF EdgeChain
<1> HIDE DEF found, left, found2, left2, N
<1>6. Chain(N, found2, left2, value)
  BY <1>4, <1>5, ChainRetold
<1>7. QED
  BY <1>3, <1>6 DEF EdgeChain, l2, found2, left2

(* The event undo takes back is the newest of all, so it is the end of its chain.         *)
LEMMA EdgeUndone ==
    ASSUME NEW l \in Seq(Event), NEW j, NEW value, EdgeChain(l, j, value),
           NEW t \in Undoable(l), \A k \in Undoable(l) : k <= t
    PROVE  EdgeChain(l \o <<Undone(t)>>, j,
               IF l[t] = DependencyAdded(j) \/ l[t] = DependencyRemoved(j)
               THEN There(l[t] = DependencyRemoved(j)) ELSE value)
<1> DEFINE l2 == l \o <<Undone(t)>>
           found == [k \in DOMAIN l |-> There(l[k] = DependencyRemoved(j))]
           left == [k \in DOMAIN l |-> There(l[k] = DependencyAdded(j))]
           found2 == [k \in DOMAIN l2 |-> There(l2[k] = DependencyRemoved(j))]
           left2 == [k \in DOMAIN l2 |-> There(l2[k] = DependencyAdded(j))]
           N == EdgeLinks(l, j)
<1>1. Len(l) \in Nat /\ DOMAIN l = 1..Len(l) /\ N \in SUBSET (1..Len(l))
  BY LinksArePositions
<1>2. t \in 1..Len(l) /\ t \in Nat
  BY <1>1 DEF Undoable
<1>3. /\ DOMAIN l2 = 1..(Len(l) + 1)
      /\ \A k \in 1..Len(l) : l2[k] = l[k]
  <2>1. Undone(t) \in Event
    BY <1>2, EventTypes
  <2>2. QED
    BY <2>1, Appended
<1>4. EdgeLinks(l2, j) = N \ {t}
  BY <1>2, UndoneLinks
<1> HIDE DEF l2
<1>5. \A k \in N : found2[k] = found[k] /\ left2[k] = left[k]
  BY <1>1, <1>3
<1>6. Chain(N, found, left, value)
  BY DEF EdgeChain
<1>7. found[t] = There(l[t] = DependencyRemoved(j))
  BY <1>1, <1>2
<1>8. t \in N <=> l[t] = DependencyAdded(j) \/ l[t] = DependencyRemoved(j)
  BY DEF Undoable, EdgeLinks
<1>9. \A m \in N : m <= t
  BY <1>1, EventKinds DEF EdgeLinks, Undoable, Reversible
<1> HIDE DEF found, left, found2, left2, N
<1>10. CASE t \in N
  <2>1. Chain(N \ {t}, found, left, found[t])
    BY <1>1, <1>6, <1>9, <1>10, ChainShrinks
  <2>2. Chain(N \ {t}, found2, left2, found[t])
    BY <1>5, <2>1, ChainRetold
  <2>3. QED
    BY <1>4, <1>7, <1>8, <1>10, <2>2 DEF EdgeChain, l2, found2, left2
<1>11. CASE t \notin N
  <2>1. Chain(N, found2, left2, value) /\ N \ {t} = N
    BY <1>5, <1>6, <1>11, ChainRetold
  <2>2. QED
    BY <1>4, <1>8, <1>11, <2>1 DEF EdgeChain, l2, found2, left2
<1>12. QED
  BY <1>10, <1>11
(* The same for the parent.                                                              *)
LEMMA ParentRecorded ==
    ASSUME NEW l \in Seq(Event), NEW U, Sound(l, U), NEW L, NEW p, NEW q,
           ParentChanged(p, q) \in Event,
           NEW value, value = Now(L, p), ParentChain(l, L, value)
    PROVE  ParentChain(l \o <<ParentChanged(p, q)>>, L, Now(L, q))
<1> DEFINE e == ParentChanged(p, q)
           l2 == l \o <<e>>
           found == [k \in DOMAIN l |-> Now(L, l[k].old)]
           left == [k \in DOMAIN l |-> Now(L, l[k].new)]
           found2 == [k \in DOMAIN l2 |-> Now(L, l2[k].old)]
           left2 == [k \in DOMAIN l2 |-> Now(L, l2[k].new)]
           N == ParentLinks(l)
<1>1. e \in Event /\ e.kind = "parent_changed" /\ e.old = p /\ e.new = q
  BY EventKinds
<1> HIDE DEF e
<1>2. /\ DOMAIN l2 = 1..(Len(l) + 1)
      /\ \A k \in 1..Len(l) : l2[k] = l[k]
      /\ l2[Len(l) + 1] = e
  BY <1>1, Appended
<1>3. Len(l) \in Nat /\ DOMAIN l = 1..Len(l) /\ N \in SUBSET (1..Len(l))
  BY LinksArePositions
<1>4. ParentLinks(l2) = N \cup {Len(l) + 1}
  BY <1>1, RecordedLinks
<1> HIDE DEF l2
<1>5. \A k \in N : found2[k] = found[k] /\ left2[k] = left[k]
  BY <1>2, <1>3
<1>6. found2[Len(l) + 1] = value /\ left2[Len(l) + 1] = Now(L, q)
  BY <1>1, <1>2, <1>3
<1>7. Chain(N, found, left, value)
  BY DEF ParentChain
<1> HIDE DEF found, left, found2, left2, N
<1>8. Chain(N \cup {Len(l) + 1}, found2, left2, left2[Len(l) + 1])
  <2>1. PICK t \in Nat : t = Len(l) + 1
    BY <1>3
  <2>2. N \in SUBSET Nat /\ (\A m \in N : m < t) /\ found2[t] = value
    BY <1>3, <1>6, <2>1
  <2>3. Chain(N, found2, left2, value)
    BY <1>5, <1>7, ChainRetold
  <2>4. Chain(N \cup {t}, found2, left2, left2[t])
    BY <2>2, <2>3, ChainGrows
  <2>5. QED
    BY <2>1, <2>4
<1>9. QED
  BY <1>4, <1>6, <1>8 DEF ParentChain, l2, e, found2, left2

LEMMA ParentApart ==
    ASSUME NEW l \in Seq(Event), NEW U, Sound(l, U), NEW L, NEW e \in Event, NEW value,
           e.kind # "undone", e.kind # "parent_changed", ParentChain(l, L, value)
    PROVE  ParentChain(l \o <<e>>, L, value)
<1> DEFINE l2 == l \o <<e>>
           found == [k \in DOMAIN l |-> Now(L, l[k].old)]
           left == [k \in DOMAIN l |-> Now(L, l[k].new)]
           found2 == [k \in DOMAIN l2 |-> Now(L, l2[k].old)]
           left2 == [k \in DOMAIN l2 |-> Now(L, l2[k].new)]
           N == ParentLinks(l)
<1>1. /\ DOMAIN l2 = 1..(Len(l) + 1)
      /\ \A k \in 1..Len(l) : l2[k] = l[k]
  BY Appended
<1>2. Len(l) \in Nat /\ DOMAIN l = 1..Len(l) /\ N \in SUBSET (1..Len(l))
  BY LinksArePositions
<1>3. ParentLinks(l2) = N
  BY RecordedLinks
<1> HIDE DEF l2
<1>4. \A k \in N : found2[k] = found[k] /\ left2[k] = left[k]
  BY <1>1, <1>2
<1>5. Chain(N, found, left, value)
  BY DEF ParentChain
<1> HIDE DEF found, left, found2, left2, N
<1>6. Chain(N, found2, left2, value)
  BY <1>4, <1>5, ChainRetold
<1>7. QED
  BY <1>3, <1>6 DEF ParentChain, l2, found2, left2

LEMMA ParentUndone ==
    ASSUME NEW l \in Seq(Event), NEW L, NEW value, ParentChain(l, L, value),
           NEW t \in Undoable(l), \A k \in Undoable(l) : k <= t
    PROVE  ParentChain(l \o <<Undone(t)>>, L,
               IF l[t].kind = "parent_changed" THEN Now(L, l[t].old) ELSE value)
<1> DEFINE l2 == l \o <<Undone(t)>>
           found == [k \in DOMAIN l |-> Now(L, l[k].old)]
           left == [k \in DOMAIN l |-> Now(L, l[k].new)]
           found2 == [k \in DOMAIN l2 |-> Now(L, l2[k].old)]
           left2 == [k \in DOMAIN l2 |-> Now(L, l2[k].new)]
           N == ParentLinks(l)
<1>1. Len(l) \in Nat /\ DOMAIN l = 1..Len(l) /\ N \in SUBSET (1..Len(l))
  BY LinksArePositions
<1>2. t \in 1..Len(l) /\ t \in Nat
  BY <1>1 DEF Undoable
<1>3. /\ DOMAIN l2 = 1..(Len(l) + 1)
      /\ \A k \in 1..Len(l) : l2[k] = l[k]
  <2>1. Undone(t) \in Event
    BY <1>2, EventTypes
  <2>2. QED
    BY <2>1, Appended
<1>4. ParentLinks(l2) = N \ {t}
  BY <1>2, UndoneLinks
<1> HIDE DEF l2
<1>5. \A k \in N : found2[k] = found[k] /\ left2[k] = left[k]
  BY <1>1, <1>3
<1>6. Chain(N, found, left, value)
  BY DEF ParentChain
<1>7. found[t] = Now(L, l[t].old)
  BY <1>1, <1>2
<1>8. t \in N <=> l[t].kind = "parent_changed"
  BY DEF Undoable, ParentLinks
<1>9. \A m \in N : m <= t
  BY <1>1 DEF ParentLinks, Undoable, Reversible
<1> HIDE DEF found, left, found2, left2, N
<1>10. CASE t \in N
  <2>1. Chain(N \ {t}, found, left, found[t])
    BY <1>1, <1>6, <1>9, <1>10, ChainShrinks
  <2>2. Chain(N \ {t}, found2, left2, found[t])
    BY <1>5, <2>1, ChainRetold
  <2>3. QED
    BY <1>4, <1>7, <1>8, <1>10, <2>2 DEF ParentChain, l2, found2, left2
<1>11. CASE t \notin N
  <2>1. Chain(N, found2, left2, value) /\ N \ {t} = N
    BY <1>5, <1>6, <1>11, ChainRetold
  <2>2. QED
    BY <1>4, <1>8, <1>11, <2>1 DEF ParentChain, l2, found2, left2
<1>12. QED
  BY <1>10, <1>11

(* New issues have no part in what was recorded before them: ids are never issued twice. *)
LEMMA ParentsOfOld ==
    ASSUME NEW l \in Seq(Event), NEW U \in SUBSET Issue, Sound(l, U),
           NEW L \in SUBSET U, NEW M \in SUBSET (Issue \ U), NEW value,
           ParentChain(l, L, value)
    PROVE  ParentChain(l, L \cup M, value)
<1> DEFINE found == [k \in DOMAIN l |-> Now(L, l[k].old)]
           left == [k \in DOMAIN l |-> Now(L, l[k].new)]
           found2 == [k \in DOMAIN l |-> Now(L \cup M, l[k].old)]
           left2 == [k \in DOMAIN l |-> Now(L \cup M, l[k].new)]
           N == ParentLinks(l)
<1>1. NoParent \notin L \cup M
  BY DependenciesAssumption
<1>2. \A p \in U \cup {NoParent} : Now(L \cup M, p) = Now(L, p)
  BY <1>1 DEF Now
<1>3. \A k \in N : l[k].old \in U \cup {NoParent} /\ l[k].new \in U \cup {NoParent}
  BY EventKinds DEF Sound, ParentLinks
<1>4. \A k \in N : found2[k] = found[k] /\ left2[k] = left[k]
  BY <1>2, <1>3 DEF ParentLinks
<1>5. Chain(N, found, left, value)
  BY DEF ParentChain
<1> HIDE DEF found, left, found2, left2, N
<1>6. Chain(N, found2, left2, value)
  BY <1>4, <1>5, ChainRetold
<1>7. QED
  BY <1>6 DEF ParentChain, found2, left2, N

(* A deleted parent is told as no parent from then on, all along the chain.               *)
LEMMA ParentsWithout ==
    ASSUME NEW l \in Seq(Event), NEW L \in SUBSET Issue, NEW i, NEW value,
           ParentChain(l, L, value)
    PROVE  ParentChain(l, L \ {i}, IF value = i THEN NoParent ELSE value)
<1> DEFINE found == [k \in DOMAIN l |-> Now(L, l[k].old)]
           left == [k \in DOMAIN l |-> Now(L, l[k].new)]
           found2 == [k \in DOMAIN l |-> Now(L \ {i}, l[k].old)]
           left2 == [k \in DOMAIN l |-> Now(L \ {i}, l[k].new)]
           N == ParentLinks(l)
           Out(v) == IF v = i THEN NoParent ELSE v
<1>1. NoParent \notin L
  BY DependenciesAssumption
<1>2. \A p : Now(L \ {i}, p) = Out(Now(L, p))
  BY <1>1 DEF Now
<1>3. \A k \in N : found2[k] = Out(found[k]) /\ left2[k] = Out(left[k])
  BY <1>2 DEF ParentLinks
<1>4. Chain(N, found, left, value)
  BY DEF ParentChain
<1> HIDE DEF found, left, found2, left2, N, Out
<1>5. Chain(N, found2, left2, Out(value))
  BY <1>3, <1>4 DEF Chain
<1>6. QED
  BY <1>5 DEF ParentChain, found2, left2, N, Out
-----------------------------------------------------------------------------
(* The account a log gives of one issue                                                  *)

Edge(S, j) == IF j \in S THEN "there" ELSE "gone"

(* A log whose ids are among U accounts, as far as the issues L still tell, for the edges *)
(* to S and for the parent p.                                                            *)
Accounts(events, U, L, S, p) ==
    /\ events \in Seq(Event)
    /\ Sound(events, U)
    /\ \A j \in L : EdgeChain(events, j, Edge(S, j))
    /\ ParentChain(events, L, p)

LEMMA SoundMore ==
    ASSUME NEW l \in Seq(Event), NEW U, Sound(l, U), NEW V, U \subseteq V
    PROVE  Sound(l, V)
BY DEF Sound

LEMMA SoundRecorded ==
    ASSUME NEW l \in Seq(Event), NEW U, Sound(l, U), NEW e \in Event,
           \/ \E k \in DOMAIN l : e = Undone(k)
           \/ \E j \in U : e = DependencyAdded(j) \/ e = DependencyRemoved(j)
           \/ \E p, q \in U \cup {NoParent} : e = ParentChanged(p, q)
    PROVE  Sound(l \o <<e>>, U)
<1> DEFINE l2 == l \o <<e>>
<1>1. /\ DOMAIN l2 = 1..(Len(l) + 1) /\ DOMAIN l = 1..Len(l) /\ Len(l) \in Nat
      /\ \A k \in 1..Len(l) : l2[k] = l[k]
      /\ l2[Len(l) + 1] = e
  BY Appended
<1> HIDE DEF l2
<1>2. DOMAIN l2 = DOMAIN l \cup {Len(l) + 1}
  BY <1>1
<1>3. Sound(l2, U)
  BY <1>1, <1>2 DEF Sound
<1>4. QED
  BY <1>3 DEF l2

(* An empty chain accounts for anything.                                                  *)
LEMMA NothingRecorded ==
    /\ \A l, j, value : EdgeLinks(l, j) = {} => EdgeChain(l, j, value)
    /\ \A l, L, value : ParentLinks(l) = {} => ParentChain(l, L, value)
BY DEF EdgeChain, ParentChain, Chain

LEMMA EmptyLog ==
    ASSUME NEW U, NEW L, NEW S, NEW p
    PROVE  Accounts(<<>>, U, L, S, p)
<1>1. \A j : EdgeLinks(<<>>, j) = {}
  BY DEF EdgeLinks
<1>2. ParentLinks(<<>>) = {}
  BY DEF ParentLinks
<1>3. <<>> \in Seq(Event) /\ Sound(<<>>, U)
  BY DEF Sound
<1>4. QED
  BY <1>1, <1>2, <1>3, NothingRecorded DEF Accounts

LEMMA AccountAdded ==
    ASSUME NEW U \in SUBSET Issue, NEW L \in SUBSET U, NEW l, NEW S, NEW p,
           Accounts(l, U, L, S, p), NEW j \in L, j \notin S
    PROVE  Accounts(l \o <<DependencyAdded(j)>>, U, L, S \cup {j}, p)
<1> DEFINE e == DependencyAdded(j)
           l2 == l \o <<e>>
<1>1. e \in Event /\ e.kind = "dependency_added" /\ l \in Seq(Event)
  BY EventTypes, EventKinds DEF Accounts
<1>2. l2 \in Seq(Event)
  BY <1>1
<1>3. Sound(l, U) /\ Sound(l2, U)
  BY <1>1, SoundRecorded DEF Accounts
<1>4. ASSUME NEW k \in L PROVE EdgeChain(l2, k, Edge(S \cup {j}, k))
  <2>1. EdgeChain(l, k, Edge(S, k))
    BY DEF Accounts
  <2>2. CASE k = j
    <3>1. e # DependencyRemoved(j)
      BY <1>1, EventKinds
    <3>2. Edge(S, j) = There(e = DependencyRemoved(j))
      BY <3>1 DEF Edge, There
    <3>3. Edge(S \cup {j}, j) = There(e = DependencyAdded(j))
      BY DEF Edge, There
    <3>4. EdgeChain(l2, j, Edge(S \cup {j}, j))
      BY <1>1, <1>3, <2>1, <2>2, <3>2, <3>3, EdgeRecorded
    <3>5. QED
      BY <2>2, <3>4
  <2>3. CASE k # j
    <3>1. e # DependencyRemoved(k) /\ e # DependencyAdded(k) /\ e.kind # "undone"
      BY <1>1, <2>3, EventKinds
    <3>2. Edge(S \cup {j}, k) = Edge(S, k)
      BY <2>3 DEF Edge
    <3>3. QED
      BY <1>1, <1>3, <2>1, <3>1, <3>2, EdgeApart
  <2>4. QED
    BY <2>2, <2>3
<1>5. ParentChain(l2, L, p)
  BY <1>1, <1>3, ParentApart DEF Accounts
<1>6. QED
  BY <1>2, <1>3, <1>4, <1>5 DEF Accounts

LEMMA AccountRemoved ==
    ASSUME NEW U \in SUBSET Issue, NEW L \in SUBSET U, NEW l, NEW S, NEW p,
           Accounts(l, U, L, S, p), NEW j \in L, j \in S
    PROVE  Accounts(l \o <<DependencyRemoved(j)>>, U, L, S \ {j}, p)
<1> DEFINE e == DependencyRemoved(j)
           l2 == l \o <<e>>
<1>1. e \in Event /\ e.kind = "dependency_removed" /\ l \in Seq(Event)
  BY EventTypes, EventKinds DEF Accounts
<1>2. l2 \in Seq(Event)
  BY <1>1
<1>3. Sound(l, U) /\ Sound(l2, U)
  BY <1>1, SoundRecorded DEF Accounts
<1>4. ASSUME NEW k \in L PROVE EdgeChain(l2, k, Edge(S \ {j}, k))
  <2>1. EdgeChain(l, k, Edge(S, k))
    BY DEF Accounts
  <2>2. CASE k = j
    <3>1. e # DependencyAdded(j)
      BY <1>1, EventKinds
    <3>2. Edge(S, j) = There(e = DependencyRemoved(j))
      BY DEF Edge, There
    <3>3. Edge(S \ {j}, j) = There(e = DependencyAdded(j))
      BY <3>1 DEF Edge, There
    <3>4. EdgeChain(l2, j, Edge(S \ {j}, j))
      BY <1>1, <1>3, <2>1, <2>2, <3>2, <3>3, EdgeRecorded
    <3>5. QED
      BY <2>2, <3>4
  <2>3. CASE k # j
    <3>1. e # DependencyRemoved(k) /\ e # DependencyAdded(k) /\ e.kind # "undone"
      BY <1>1, <2>3, EventKinds
    <3>2. Edge(S \ {j}, k) = Edge(S, k)
      BY <2>3 DEF Edge
    <3>3. QED
      BY <1>1, <1>3, <2>1, <3>1, <3>2, EdgeApart
  <2>4. QED
    BY <2>2, <2>3
<1>5. ParentChain(l2, L, p)
  BY <1>1, <1>3, ParentApart DEF Accounts
<1>6. QED
  BY <1>2, <1>3, <1>4, <1>5 DEF Accounts

LEMMA AccountReparented ==
    ASSUME NEW U \in SUBSET Issue, NEW L \in SUBSET U, NEW l, NEW S,
           NEW p \in L \cup {NoParent}, Accounts(l, U, L, S, p), NEW q \in L \cup {NoParent}
    PROVE  Accounts(l \o <<ParentChanged(p, q)>>, U, L, S, q)
<1> DEFINE e == ParentChanged(p, q)
           l2 == l \o <<e>>
<1>1. e \in Event /\ e.kind = "parent_changed" /\ l \in Seq(Event)
  BY EventTypes, EventKinds DEF Accounts
<1>2. l2 \in Seq(Event)
  BY <1>1
<1>3. Sound(l, U) /\ Sound(l2, U)
  BY <1>1, SoundRecorded DEF Accounts
<1>4. ASSUME NEW k \in L PROVE EdgeChain(l2, k, Edge(S, k))
  <2>1. EdgeChain(l, k, Edge(S, k))
    BY DEF Accounts
  <2>2. e # DependencyRemoved(k) /\ e # DependencyAdded(k) /\ e.kind # "undone"
    BY <1>1, EventKinds
  <2>3. QED
    BY <1>1, <1>3, <2>1, <2>2, EdgeApart
<1>5. ParentChain(l2, L, q)
  <2>1. p = Now(L, p) /\ q = Now(L, q)
    BY DEF Now
  <2>2. ParentChain(l, L, p)
    BY DEF Accounts
  <2>3. ParentChain(l2, L, Now(L, q))
    BY <1>1, <1>3, <2>1, <2>2, ParentRecorded
  <2>4. QED
    BY <2>1, <2>3
<1>6. QED
  BY <1>2, <1>3, <1>4, <1>5 DEF Accounts
(* Undo puts back what its event found.                                                   *)
LEMMA AccountUndone ==
    ASSUME NEW U \in SUBSET Issue, NEW L \in SUBSET U, NEW l, NEW S,
           NEW p \in L \cup {NoParent}, Accounts(l, U, L, S, p),
           NEW t \in Undoable(l), \A k \in Undoable(l) : k <= t
    PROVE  /\ l[t].kind = "dependency_added" =>
                Accounts(l \o <<Undone(t)>>, U, L, S \ {l[t].new}, p)
           /\ l[t].kind = "dependency_removed" =>
                Accounts(l \o <<Undone(t)>>, U, L, S \cup {l[t].old}, p)
           /\ l[t].kind = "parent_changed" /\ l[t].old \in L \cup {NoParent} =>
                Accounts(l \o <<Undone(t)>>, U, L, S, l[t].old)
<1> DEFINE e == l[t]
           l2 == l \o <<Undone(t)>>
<1>1. l \in Seq(Event) /\ Sound(l, U) /\ t \in DOMAIN l /\ t \in Nat
  BY DEF Accounts, Undoable
<1>2. Undone(t) \in Event /\ Undone(t).kind = "undone"
  BY <1>1, EventTypes, EventKinds
<1>3. l2 \in Seq(Event)
  BY <1>1, <1>2
<1>4. Sound(l2, U)
  BY <1>1, <1>2, SoundRecorded
<1>5. ASSUME NEW k \in L
      PROVE  EdgeChain(l2, k, IF e = DependencyAdded(k) \/ e = DependencyRemoved(k)
                              THEN There(e = DependencyRemoved(k)) ELSE Edge(S, k))
  <2>1. EdgeChain(l, k, Edge(S, k))
    BY DEF Accounts
  <2>2. QED
    BY <1>1, <2>1, EdgeUndone
<1>6. ParentChain(l2, L, IF e.kind = "parent_changed" THEN Now(L, e.old) ELSE p)
  <2>1. ParentChain(l, L, p)
    BY DEF Accounts
  <2>2. QED
    BY <1>1, <2>1, ParentUndone
<1>7. \/ \E k \in DOMAIN l : e = Undone(k)
      \/ \E j \in U : e = DependencyAdded(j) \/ e = DependencyRemoved(j)
      \/ \E u, q \in U \cup {NoParent} : e = ParentChanged(u, q)
  BY <1>1 DEF Sound
<1> HIDE DEF l2, e
<1>8. CASE e.kind = "dependency_added"
  <2>1. e = DependencyAdded(e.new)
    BY <1>7, <1>8, EventKinds
  <2>2. ASSUME NEW k \in L PROVE EdgeChain(l2, k, Edge(S \ {e.new}, k))
    <3>1. e # DependencyRemoved(k)
      BY <1>8, EventKinds
    <3>2. CASE k = e.new
      <4>1. e = DependencyAdded(k)
        BY <2>1, <3>2
      <4>2. There(e = DependencyRemoved(k)) = Edge(S \ {e.new}, k)
        BY <3>1, <3>2 DEF There, Edge
      <4>3. EdgeChain(l2, k, There(e = DependencyRemoved(k)))
        BY <1>5, <4>1
      <4>4. QED
        BY <4>2, <4>3
    <3>3. CASE k # e.new
      <4>1. e # DependencyAdded(k)
        BY <3>3, EventKinds
      <4>2. Edge(S, k) = Edge(S \ {e.new}, k)
        BY <3>3 DEF Edge
      <4>3. EdgeChain(l2, k, Edge(S, k))
        BY <1>5, <3>1, <4>1
      <4>4. QED
        BY <4>2, <4>3
    <3>4. QED
      BY <3>2, <3>3
  <2>3. ParentChain(l2, L, p)
    BY <1>6, <1>8
  <2>4. QED
    BY <1>3, <1>4, <1>8, <2>2, <2>3 DEF Accounts, l2, e
<1>9. CASE e.kind = "dependency_removed"
  <2>1. e = DependencyRemoved(e.old)
    BY <1>7, <1>9, EventKinds
  <2>2. ASSUME NEW k \in L PROVE EdgeChain(l2, k, Edge(S \cup {e.old}, k))
    <3>1. e # DependencyAdded(k)
      BY <1>9, EventKinds
    <3>2. CASE k = e.old
      <4>1. e = DependencyRemoved(k)
        BY <2>1, <3>2
      <4>2. There(e = DependencyRemoved(k)) = Edge(S \cup {e.old}, k)
        BY <3>2, <4>1 DEF There, Edge
      <4>3. EdgeChain(l2, k, There(e = DependencyRemoved(k)))
        BY <1>5, <4>1
      <4>4. QED
        BY <4>2, <4>3
    <3>3. CASE k # e.old
      <4>1. e # DependencyRemoved(k)
        BY <3>3, EventKinds
      <4>2. Edge(S, k) = Edge(S \cup {e.old}, k)
        BY <3>3 DEF Edge
      <4>3. EdgeChain(l2, k, Edge(S, k))
        BY <1>5, <3>1, <4>1
      <4>4. QED
        BY <4>2, <4>3
    <3>4. QED
      BY <3>2, <3>3
  <2>3. ParentChain(l2, L, p)
    BY <1>6, <1>9
  <2>4. QED
    BY <1>3, <1>4, <1>9, <2>2, <2>3 DEF Accounts, l2, e
<1>10. CASE e.kind = "parent_changed" /\ e.old \in L \cup {NoParent}
  <2>1. ASSUME NEW k \in L PROVE EdgeChain(l2, k, Edge(S, k))
    <3>1. e # DependencyAdded(k) /\ e # DependencyRemoved(k)
      BY <1>10, EventKinds
    <3>2. QED
      BY <1>5, <3>1
  <2>2. ParentChain(l2, L, e.old)
    <3>1. Now(L, e.old) = e.old
      BY <1>10 DEF Now
    <3>2. QED
      BY <1>6, <1>10, <3>1
  <2>3. QED
    BY <1>3, <1>4, <1>10, <2>1, <2>2 DEF Accounts, l2, e
<1>11. QED
  BY <1>8, <1>9, <1>10 DEF e

(* New issues M come with nothing recorded about them.                                      *)
LEMMA AccountOfOld ==
    ASSUME NEW U \in SUBSET Issue, NEW L \in SUBSET U, NEW l, NEW S \in SUBSET L, NEW p,
           Accounts(l, U, L, S, p), NEW M \in SUBSET (Issue \ U)
    PROVE  Accounts(l, U \cup M, L \cup M, S, p)
<1>1. l \in Seq(Event) /\ Sound(l, U) /\ Sound(l, U \cup M)
  BY SoundMore DEF Accounts
<1>2. ASSUME NEW k \in M PROVE EdgeChain(l, k, Edge(S, k))
  <2>1. \A m \in DOMAIN l : l[m] # DependencyAdded(k) /\ l[m] # DependencyRemoved(k)
    BY <1>1, EventKinds DEF Sound
  <2>2. EdgeLinks(l, k) = {}
    BY <2>1 DEF EdgeLinks
  <2>3. QED
    BY <2>2, NothingRecorded
<1>3. \A k \in L : EdgeChain(l, k, Edge(S, k))
  BY DEF Accounts
<1>4. ParentChain(l, L \cup M, p)
  <2>1. ParentChain(l, L, p)
    BY DEF Accounts
  <2>2. QED
    BY <1>1, <2>1, ParentsOfOld
<1>5. QED
  BY <1>1, <1>2, <1>3, <1>4 DEF Accounts

(* What a deletion takes away it takes away all along the log.                              *)
LEMMA AccountWithout ==
    ASSUME NEW U \in SUBSET Issue, NEW L \in SUBSET U, NEW l, NEW S, NEW p,
           Accounts(l, U, L, S, p), NEW i
    PROVE  Accounts(l, U, L \ {i}, S \ {i}, IF p = i THEN NoParent ELSE p)
<1>1. l \in Seq(Event) /\ Sound(l, U) /\ ParentChain(l, L, p) /\ L \in SUBSET Issue
  BY DEF Accounts
<1>2. ASSUME NEW k \in L \ {i} PROVE EdgeChain(l, k, Edge(S \ {i}, k))
  <2>1. Edge(S \ {i}, k) = Edge(S, k)
    BY DEF Edge
  <2>2. QED
    BY <2>1 DEF Accounts
<1>3. ParentChain(l, L \ {i}, IF p = i THEN NoParent ELSE p)
  BY <1>1, ParentsWithout
<1>4. QED
  BY <1>1, <1>2, <1>3 DEF Accounts

(* A list names nobody twice.                                                               *)
LEMMA ListNamesOnce ==
    ASSUME NEW S \in SUBSET Issue, NEW order \in Lists(S)
    PROVE  \A j, k \in DOMAIN order : order[j] = order[k] => j = k
<1>1. PICK T \in SUBSET S : order \in SetToSeqs(T)
  BY DEF Lists, SetToAllKPermutations
<1>2. QED
  BY <1>1 DEF SetToSeqs, IsInjective

(* The events of a list account for its edges.                                              *)
LEMMA AccountListed ==
    ASSUME NEW L \in SUBSET Issue, NEW order \in Lists(L), NEW U \in SUBSET Issue,
           L \subseteq U, NEW p
    PROVE  Accounts(Added(order), U, L, {order[k] : k \in DOMAIN order}, p)
<1> DEFINE l == Added(order)
           S == {order[k] : k \in DOMAIN order}
<1>1. order \in Seq(L) /\ \A j, k \in DOMAIN order : order[j] = order[k] => j = k
  BY ListIsSequence, ListNamesOnce
<1>2. l \in Seq(Event)
  BY <1>1, AddedType
<1>3. DOMAIN l = DOMAIN order /\ DOMAIN order = 1..Len(order) /\ Len(order) \in Nat
  BY <1>1 DEF Added
<1>4. \A k \in DOMAIN l : l[k] = DependencyAdded(order[k]) /\ order[k] \in L
  BY <1>1, <1>3 DEF Added
<1>5. Sound(l, U)
  BY <1>4 DEF Sound
<1>6. \A k \in DOMAIN l : l[k].kind = "dependency_added" /\ l[k].new = order[k]
  BY <1>4, EventKinds
<1> HIDE DEF l
<1>7. ASSUME NEW j \in L PROVE EdgeChain(l, j, Edge(S, j))
  <2> DEFINE N == EdgeLinks(l, j)
             found == [k \in DOMAIN l |-> There(l[k] = DependencyRemoved(j))]
             left == [k \in DOMAIN l |-> There(l[k] = DependencyAdded(j))]
  <2>1. \A k \in N : k \in DOMAIN l /\ order[k] = j
    BY <1>6, EventKinds DEF EdgeLinks
  <2>2. \A k, m \in N : k = m /\ k \in Nat
    BY <1>1, <1>3, <2>1
  <2>3. \A k \in N : left[k] = Edge(S, j)
    BY <1>3, <1>4, <2>1 DEF There, Edge
  <2> HIDE DEF N, found, left
  <2>4. Chain(N, found, left, Edge(S, j))
    BY <2>2, <2>3 DEF Chain
  <2>5. QED
    BY <2>4 DEF EdgeChain, N, found, left
<1>8. ParentChain(l, L, p)
  <2>1. ParentLinks(l) = {}
    BY <1>6 DEF ParentLinks
  <2>2. QED
    BY <2>1, NothingRecorded
<1>9. Accounts(l, U, L, S, p)
  BY <1>2, <1>5, <1>7, <1>8 DEF Accounts, l
<1>10. QED
  BY <1>9 DEF l
-----------------------------------------------------------------------------
(* Every write keeps the account of both graphs                                             *)

Targets(i) == {j \in live : <<i, j>> \in deps}

(* Each log accounts for its issue, and an issue that is not there has none.                *)
LogInv ==
    /\ \A i \in live : Accounts(log[i], used, live, Targets(i), parent[i])
    /\ \A i \in Issue \ live : log[i] = <<>>

LEMMA LogInvInit == Init => LogInv
BY DEF Init, LogInv

LEMMA Domains ==
    ASSUME Inv
    PROVE  /\ live \in SUBSET used /\ used \in SUBSET Issue /\ live \in SUBSET Issue
           /\ NoParent \notin live
           /\ \A i \in live : Targets(i) \in SUBSET live /\ parent[i] \in live \cup {NoParent}
           /\ \A i \in Issue : log[i] \in Seq(Event)
           /\ DOMAIN log = Issue /\ DOMAIN parent = Issue
BY DependenciesAssumption DEF Inv, TypeOK, Targets

(* An issue a write does not touch keeps its account.                                       *)
LEMMA OthersAccount ==
    ASSUME Inv, LogInv, live' = live, used' = used, NEW a \in live, log'[a] = log[a],
           parent'[a] = parent[a], Targets(a)' = Targets(a)
    PROVE  Accounts(log'[a], used', live', Targets(a)', parent'[a])
BY DEF LogInv

(* A write of one issue's edges or parent that records its own account keeps all of them.   *)
LEMMA OneRecords ==
    ASSUME Inv, LogInv, NEW i \in live, NEW events,
           live' = live, used' = used, Record(i, events),
           \A a \in live : a # i => parent'[a] = parent[a] /\ Targets(a)' = Targets(a),
           Accounts(log[i] \o events, used, live, Targets(i)', parent'[i])
    PROVE  LogInv'
<1>1. i \in Issue /\ live \in SUBSET Issue
  BY Domains
<1>2. log'[i] = log[i] \o events /\ \A a \in Issue : a # i => log'[a] = log[a]
  BY <1>1, Domains DEF Record
<1>3. ASSUME NEW a \in live PROVE Accounts(log'[a], used', live', Targets(a)', parent'[a])
  <2>1. CASE a = i
    BY <1>2, <2>1
  <2>2. CASE a # i
    BY <1>1, <1>2, <2>2, OthersAccount
  <2>3. QED
    BY <2>1, <2>2
<1>4. \A a \in Issue \ live' : log'[a] = <<>>
  BY <1>2 DEF LogInv
<1>5. QED
  BY <1>3, <1>4 DEF LogInv

LEMMA SetParentAccounts ==
    ASSUME Inv, LogInv, NEW i \in Issue, NEW p \in Issue \cup {NoParent}, SetParent(i, p)
    PROVE  LogInv'
<1>1. i \in live /\ p \in live \cup {NoParent} /\ live' = live /\ used' = used /\ deps' = deps
  BY DEF SetParent
<1>2. parent'[i] = p /\ \A a \in live : a # i => parent'[a] = parent[a]
  BY <1>1, Domains DEF SetParent
<1>3. \A a \in live : Targets(a)' = Targets(a)
  BY <1>1 DEF Targets
<1>4. Accounts(log[i] \o <<ParentChanged(parent[i], p)>>, used, live, Targets(i), p)
  <2>1. Accounts(log[i], used, live, Targets(i), parent[i])
    BY <1>1 DEF LogInv
  <2>2. QED
    BY <1>1, <2>1, Domains, AccountReparented
<1>5. Record(i, <<ParentChanged(parent[i], p)>>)
  BY DEF SetParent
<1>6. QED
  BY <1>1, <1>2, <1>3, <1>4, <1>5, OneRecords

LEMMA AddDependencyAccounts ==
    ASSUME Inv, LogInv, NEW i \in Issue, NEW j \in Issue, AddDependency(i, j)
    PROVE  LogInv'
<1>1. /\ i \in live /\ j \in live /\ j \notin Targets(i)
      /\ live' = live /\ used' = used /\ parent' = parent
      /\ deps' = deps \cup {<<i, j>>} /\ Record(i, <<DependencyAdded(j)>>)
  BY DEF AddDependency, Targets
<1>2. Targets(i)' = Targets(i) \cup {j} /\ \A a \in live : a # i => Targets(a)' = Targets(a)
  BY <1>1 DEF Targets
<1>3. Accounts(log[i] \o <<DependencyAdded(j)>>, used, live, Targets(i) \cup {j}, parent[i])
  <2>1. Accounts(log[i], used, live, Targets(i), parent[i])
    BY <1>1 DEF LogInv
  <2>2. QED
    BY <1>1, <2>1, Domains, AccountAdded
<1>4. QED
  BY <1>1, <1>2, <1>3, OneRecords

LEMMA RemoveDependencyAccounts ==
    ASSUME Inv, LogInv, NEW i \in Issue, NEW j \in Issue, RemoveDependency(i, j)
    PROVE  LogInv'
<1>1. /\ i \in live /\ j \in live /\ j \in Targets(i)
      /\ live' = live /\ used' = used /\ parent' = parent
      /\ deps' = deps \ {<<i, j>>} /\ Record(i, <<DependencyRemoved(j)>>)
  BY DEF RemoveDependency, Targets, Inv, TypeOK
<1>2. Targets(i)' = Targets(i) \ {j} /\ \A a \in live : a # i => Targets(a)' = Targets(a)
  BY <1>1 DEF Targets
<1>3. Accounts(log[i] \o <<DependencyRemoved(j)>>, used, live, Targets(i) \ {j}, parent[i])
  <2>1. Accounts(log[i], used, live, Targets(i), parent[i])
    BY <1>1 DEF LogInv
  <2>2. QED
    BY <1>1, <2>1, Domains, AccountRemoved
<1>4. QED
  BY <1>1, <1>2, <1>3, OneRecords

(* Both events are recorded, unless the new edge was there already.                         *)
LEMMA RetargetAccounts ==
    ASSUME Inv, LogInv, NEW i \in Step, NEW j \in Step, NEW k \in Step, Retarget(i, j, k)
    PROVE  LogInv'
<1> DEFINE gone == log[i] \o <<DependencyRemoved(j)>>
           S == Targets(i) \ {j}
<1>1. /\ i \in live /\ j \in live /\ k \in live /\ j # k /\ j \in Targets(i)
      /\ live' = live /\ used' = used /\ parent' = parent
      /\ deps' = (deps \ {<<i, j>>}) \cup {<<i, k>>} /\ Record(i, RetargetEvents(i, j, k))
  BY DEF Retarget, Targets
<1>2. Targets(i)' = S \cup {k} /\ \A a \in live : a # i => Targets(a)' = Targets(a)
  BY <1>1 DEF Targets
<1>3. Accounts(gone, used, live, S, parent[i])
  <2>1. Accounts(log[i], used, live, Targets(i), parent[i])
    BY <1>1 DEF LogInv
  <2>2. QED
    BY <1>1, <2>1, Domains, AccountRemoved
<1>4. DependencyRemoved(j) \in Event /\ DependencyAdded(k) \in Event /\ log[i] \in Seq(Event)
  BY <1>1, EventTypes, Domains
<1> HIDE DEF gone, S
<1>5. Accounts(log[i] \o RetargetEvents(i, j, k), used, live, S \cup {k}, parent[i])
  <2>1. CASE <<i, k>> \in deps
    <3>1. S \cup {k} = S
      BY <1>1, <2>1 DEF S, Targets
    <3>2. RetargetEvents(i, j, k) = <<DependencyRemoved(j)>>
      BY <2>1, <1>4 DEF RetargetEvents
    <3>3. QED
      BY <1>3, <3>1, <3>2 DEF gone
  <2>2. CASE <<i, k>> \notin deps
    <3>1. k \notin S
      BY <2>2 DEF S, Targets
    <3>2. Accounts(gone \o <<DependencyAdded(k)>>, used, live, S \cup {k}, parent[i])
      BY <1>1, <1>3, <3>1, Domains, AccountAdded
    <3>3. RetargetEvents(i, j, k) = <<DependencyRemoved(j)>> \o <<DependencyAdded(k)>>
      BY <2>2 DEF RetargetEvents
    <3>4. log[i] \o (<<DependencyRemoved(j)>> \o <<DependencyAdded(k)>>)
            = gone \o <<DependencyAdded(k)>>
      BY <1>4 DEF gone
    <3>5. QED
      BY <3>2, <3>3, <3>4
  <2>3. QED
    BY <2>1, <2>2
<1>6. QED
  BY <1>1, <1>2, <1>5, OneRecords
LEMMA NextToUndoIsNewest ==
    ASSUME TypeOK, NEW i \in Issue, Undoable(log[i]) # {}
    PROVE  /\ NextToUndo(log[i]) \in Undoable(log[i])
           /\ \A k \in Undoable(log[i]) : k <= NextToUndo(log[i])
<1>1. Len(log[i]) \in Nat /\ Undoable(log[i]) \subseteq 1..Len(log[i])
  BY DEF TypeOK, Undoable
<1>2. \E k \in Undoable(log[i]) : \A j \in Undoable(log[i]) : j <= k
  BY <1>1, NewestInSet
<1>3. QED
  BY <1>2 DEF NextToUndo, Newest

(* Undo reverses the newest event, the last on its chain, back to what it found.            *)
LEMMA UndoAccounts ==
    ASSUME Inv, LogInv, NEW i \in Issue, Undo(i)
    PROVE  LogInv'
<1> DEFINE t == NextToUndo(log[i])
           e == log[i][t]
<1>1. /\ i \in live /\ live' = live /\ used' = used
      /\ Record(i, <<Undone(t)>>) /\ Undoable(log[i]) # {}
  BY DEF Undo
<1>2. t \in Undoable(log[i]) /\ \A k \in Undoable(log[i]) : k <= t
  BY <1>1, NextToUndoIsNewest DEF Inv
<1>3. Accounts(log[i], used, live, Targets(i), parent[i])
  BY <1>1 DEF LogInv
<1>4. /\ e.kind = "dependency_added" =>
           Accounts(log[i] \o <<Undone(t)>>, used, live, Targets(i) \ {e.new}, parent[i])
      /\ e.kind = "dependency_removed" =>
           Accounts(log[i] \o <<Undone(t)>>, used, live, Targets(i) \cup {e.old}, parent[i])
      /\ e.kind = "parent_changed" /\ e.old \in live \cup {NoParent} =>
           Accounts(log[i] \o <<Undone(t)>>, used, live, Targets(i), e.old)
  <2> HIDE DEF t
  <2>1. used \in SUBSET Issue /\ live \in SUBSET used /\ parent[i] \in live \cup {NoParent}
    BY <1>1, Domains
  <2>2. QED
    BY <1>2, <1>3, <2>1, AccountUndone
<1>5. \/ e.kind = "dependency_added" /\ deps' = deps \ {<<i, e.new>>} /\ UNCHANGED parent
      \/ /\ e.kind = "dependency_removed" /\ RestoresDependency(i, e.old)
         /\ deps' = deps \cup {<<i, e.old>>} /\ UNCHANGED parent
      \/ /\ e.kind = "parent_changed" /\ (e.old = NoParent \/ RestoresParent(i, e.old))
         /\ parent' = [parent EXCEPT ![i] = e.old] /\ UNCHANGED deps
  BY DEF Undo
<1> HIDE DEF t, e
<1>6. CASE e.kind = "dependency_added" /\ deps' = deps \ {<<i, e.new>>} /\ UNCHANGED parent
  <2>1. /\ Targets(i)' = Targets(i) \ {e.new}
        /\ \A a \in live : a # i => Targets(a)' = Targets(a)
    BY <1>1, <1>6 DEF Targets
  <2>2. QED
    BY <1>1, <1>4, <1>6, <2>1, OneRecords
<1>7. CASE /\ e.kind = "dependency_removed" /\ RestoresDependency(i, e.old)
           /\ deps' = deps \cup {<<i, e.old>>} /\ UNCHANGED parent
  <2>1. /\ Targets(i)' = Targets(i) \cup {e.old}
        /\ \A a \in live : a # i => Targets(a)' = Targets(a)
    BY <1>1, <1>7 DEF Targets, RestoresDependency
  <2>2. QED
    BY <1>1, <1>4, <1>7, <2>1, OneRecords
<1>8. CASE /\ e.kind = "parent_changed" /\ (e.old = NoParent \/ RestoresParent(i, e.old))
           /\ parent' = [parent EXCEPT ![i] = e.old] /\ UNCHANGED deps
  <2>1. \A a \in live : Targets(a)' = Targets(a)
    BY <1>1, <1>8 DEF Targets
  <2>2. parent'[i] = e.old /\ \A a \in live : a # i => parent'[a] = parent[a]
    BY <1>1, <1>8, Domains
  <2>3. e.old \in live \cup {NoParent}
    BY <1>8 DEF RestoresParent
  <2>4. QED
    BY <1>1, <1>4, <1>8, <2>1, <2>2, <2>3, OneRecords
<1>9. QED
  BY <1>5, <1>6, <1>7, <1>8

(* New issues: nobody's log is about them yet.                                               *)
LEMMA NewIssues ==
    ASSUME Inv, LogInv, NEW M \in SUBSET (Issue \ used), live' = live \cup M, used' = used \cup M,
           \A a \in live : /\ log'[a] = log[a] /\ parent'[a] = parent[a]
                           /\ Targets(a)' = Targets(a),
           \A a \in Issue \ (live \cup M) : log'[a] = log[a],
           \A a \in M : Accounts(log'[a], used', live', Targets(a)', parent'[a])
    PROVE  LogInv'
<1>1. ASSUME NEW a \in live PROVE Accounts(log'[a], used', live', Targets(a)', parent'[a])
  <2>1. Accounts(log[a], used, live, Targets(a), parent[a])
    BY DEF LogInv
  <2>2. Accounts(log[a], used \cup M, live \cup M, Targets(a), parent[a])
    BY <2>1, Domains, AccountOfOld
  <2>3. QED
    BY <2>2
<1>2. \A a \in Issue \ live' : log'[a] = <<>>
  BY DEF LogInv
<1>3. QED
  BY <1>1, <1>2 DEF LogInv

LEMMA CreateIssueAccounts ==
    ASSUME Inv, LogInv, NEW i \in Issue \ used, NEW p \in live \cup {NoParent},
           NEW D \in SUBSET live, CreateIssue(i, p, D)
    PROVE  LogInv'
<1>1. /\ live' = live \cup {i} /\ used' = used \cup {i} /\ log' = log
      /\ parent' = [parent EXCEPT ![i] = p] /\ deps' = deps \cup ({i} \X D) /\ i \notin live
  BY Domains DEF CreateIssue, Insert
<1>2. \A a \in live : parent'[a] = parent[a] /\ a # i
  BY <1>1, Domains
<1>3. \A a \in live : Targets(a)' = Targets(a)
  <2>1. deps \subseteq live \X live
    BY DEF Inv, TypeOK
  <2>2. QED
    BY <1>1, <1>2, <2>1 DEF Targets
<1>4. Accounts(log'[i], used', live', Targets(i)', parent'[i])
  <2>1. log'[i] = <<>>
    BY <1>1 DEF LogInv
  <2>2. QED
    BY <2>1, EmptyLog
<1>5. {i} \in SUBSET (Issue \ used)
  OBVIOUS
<1>6. QED
  BY <1>1, <1>2, <1>3, <1>4, <1>5, NewIssues

LEMMA AddPlanStepAccounts ==
    ASSUME Inv, LogInv, NEW i \in Step \ used, NEW p \in Phase,
           NEW order \in Lists(live), AddPlanStep(i, p, order)
    PROVE  LogInv'
<1> DEFINE D == {order[k] : k \in DOMAIN order}
<1>1. /\ live' = live \cup {i} /\ used' = used \cup {i} /\ Record(i, Added(order))
      /\ parent' = [parent EXCEPT ![i] = p] /\ deps' = deps \cup ({i} \X D)
      /\ D \subseteq live
  BY DEF AddPlanStep, Insert
<1>2. i \notin live /\ i \in Issue
  BY Domains, DependenciesAssumption
<1> HIDE DEF D
<1>3. \A a \in live : parent'[a] = parent[a] /\ a # i
  BY <1>1, <1>2, Domains
<1>4. log'[i] = log[i] \o Added(order) /\ \A a \in Issue : a # i => log'[a] = log[a]
  BY <1>1, <1>2, Domains DEF Record
<1>5. (\A a \in live : Targets(a)' = Targets(a)) /\ Targets(i)' = D
  <2>1. deps \subseteq live \X live
    BY DEF Inv, TypeOK
  <2>2. QED
    BY <1>1, <1>2, <1>3, <2>1 DEF Targets
<1>6. Accounts(log'[i], used', live', Targets(i)', parent'[i])
  <2>1. order \in Seq(live)
    BY Domains, ListIsSequence
  <2>2. Added(order) \in Seq(Event)
    BY <2>1, Domains, AddedType
  <2>3. log'[i] = Added(order)
    <3>1. log[i] = <<>>
      BY <1>2 DEF LogInv
    <3>2. <<>> \o Added(order) = Added(order)
      BY <2>2
    <3>3. QED
      BY <1>4, <3>1, <3>2
  <2>4. Accounts(Added(order), used, live, D, p)
    BY Domains, AccountListed DEF D
  <2>5. Accounts(Added(order), used \cup {i}, live \cup {i}, D, p)
    <3>1. {i} \in SUBSET (Issue \ used) /\ D \in SUBSET live
      BY <1>1, <1>2
    <3>2. QED
      BY <2>4, <3>1, Domains, AccountOfOld
  <2>6. parent'[i] = p
    BY <1>1, <1>2, Domains
  <2>7. QED
    BY <1>1, <1>5, <2>3, <2>5, <2>6
<1>7. {i} \in SUBSET (Issue \ used)
  BY <1>2
<1>8. \A a \in live : /\ log'[a] = log[a] /\ parent'[a] = parent[a]
                      /\ Targets(a)' = Targets(a)
  BY <1>3, <1>4, <1>5, Domains
<1>9. \A a \in Issue \ (live \cup {i}) : log'[a] = log[a]
  BY <1>4
<1>10. \A a \in {i} : Accounts(log'[a], used', live', Targets(a)', parent'[a])
  BY <1>6
<1>11. QED
  BY <1>1, <1>7, <1>8, <1>9, <1>10, NewIssues

LEMMA CreatePlanAccounts ==
    ASSUME Inv, LogInv, NEW m \in Issue \ used, NEW p \in Phase \ used,
           NEW steps \in SUBSET (Step \ used), NEW refs \in [steps -> Lists(steps)],
           CreatePlan(m, p, steps, refs)
    PROVE  LogInv'
<1> DEFINE M == {m, p} \cup steps
           E == {e \in steps \X steps : \E k \in DOMAIN refs[e[1]] : refs[e[1]][k] = e[2]}
<1>1. /\ live' = live \cup M /\ used' = used \cup M /\ deps' = deps \cup E
      /\ parent' = [i \in Issue |-> IF i \in steps THEN p ELSE IF i = p THEN m ELSE parent[i]]
      /\ log' = [i \in Issue |-> IF i \in steps THEN Added(refs[i]) ELSE log[i]]
  BY DEF CreatePlan, Insert
<1>2. M \in SUBSET (Issue \ used) /\ steps \subseteq M /\ p \in M /\ m \in M
  BY DependenciesAssumption
<1>3. M \cap live = {} /\ deps \subseteq live \X live
  BY <1>2, Domains DEF Inv, TypeOK
<1>4. E \subseteq steps \X steps
  OBVIOUS
<1>5. \A a \in steps : \A j : <<a, j>> \in E <=> \E k \in DOMAIN refs[a] : refs[a][k] = j
  <2>1. SUFFICES ASSUME NEW a \in steps, NEW j, NEW k \in DOMAIN refs[a], refs[a][k] = j
                 PROVE  j \in steps
    OBVIOUS
  <2>2. refs[a] \in Seq(steps)
    <3>1. steps \in SUBSET Issue
      BY <1>2
    <3>2. QED
      BY <3>1, ListIsSequence
  <2>3. QED
    BY <2>1, <2>2
<1> HIDE DEF M, E
<1>6. ASSUME NEW a \in live
      PROVE  log'[a] = log[a] /\ parent'[a] = parent[a] /\ Targets(a)' = Targets(a)
  <2>1. a \in Issue /\ a \notin steps /\ a # p
    BY <1>2, <1>3, Domains
  <2>2. Targets(a)' = Targets(a)
    BY <1>1, <1>3, <1>4, <2>1 DEF Targets
  <2>3. QED
    BY <1>1, <2>1, <2>2
<1>7. \A a \in Issue \ (live \cup M) : log'[a] = log[a]
  BY <1>1, <1>2
<1>8. ASSUME NEW a \in M PROVE Accounts(log'[a], used', live', Targets(a)', parent'[a])
  <2>1. CASE a \in steps
    <3>1. steps \in SUBSET Issue /\ a \in Issue /\ refs[a] \in Lists(steps)
      BY <1>2, <2>1
    <3>2. log'[a] = Added(refs[a])
      BY <1>1, <2>1, <3>1
    <3> DEFINE D == {refs[a][k] : k \in DOMAIN refs[a]}
    <3>3. D \subseteq steps
      BY <3>1, ListIsSequence
    <3>4. Targets(a)' = D
      <4>1. \A j \in live' : <<a, j>> \in deps' <=> <<a, j>> \in E
        BY <1>1, <1>2, <1>3, <2>1
      <4>2. QED
        BY <1>1, <1>2, <1>5, <2>1, <3>3, <4>1 DEF Targets
    <3>5. \A pp : Accounts(Added(refs[a]), steps, steps, D, pp)
      BY <3>1, AccountListed
    <3> HIDE DEF D
    <3>6. Issue \in SUBSET Issue /\ (live' \ steps) \in SUBSET (Issue \ steps)
          /\ (used' \ steps) \in SUBSET (Issue \ steps)
      BY <1>1, <1>2, Domains
    <3>7. Accounts(Added(refs[a]), used', live', D, parent'[a])
      <4>1. Accounts(Added(refs[a]), steps \cup (live' \ steps), steps \cup (live' \ steps), D, parent'[a])
        BY <3>1, <3>3, <3>5, <3>6, AccountOfOld
      <4>2. steps \cup (live' \ steps) = live' /\ live' \subseteq used'
        BY <1>1, <1>2, Domains
      <4>3. Sound(Added(refs[a]), used')
        BY <4>1, <4>2, SoundMore DEF Accounts
      <4>4. QED
        BY <4>1, <4>2, <4>3 DEF Accounts
    <3>8. QED
      BY <3>2, <3>4, <3>7
  <2>2. CASE a \notin steps
    <3>1. log'[a] = <<>>
      BY <1>1, <1>2, <1>3, <2>2 DEF LogInv
    <3>2. QED
      BY <3>1, EmptyLog
  <2>3. QED
    BY <2>1, <2>2
<1>9. QED
  BY <1>1, <1>2, <1>6, <1>7, <1>8, NewIssues

LEMMA DeleteAccounts ==
    ASSUME Inv, LogInv, NEW i \in Issue, NEW force \in BOOLEAN, Delete(i, force)
    PROVE  LogInv'
<1>1. /\ live' = live \ {i} /\ used' = used /\ deps' = {e \in deps : e[1] # i /\ e[2] # i}
      /\ parent' = [c \in Issue |-> IF c = i \/ parent[c] = i THEN NoParent ELSE parent[c]]
      /\ log' = [log EXCEPT ![i] = <<>>]
  BY DEF Delete, EdgesWithout
<1>2. ASSUME NEW a \in live' PROVE Accounts(log'[a], used', live', Targets(a)', parent'[a])
  <2>1. a \in live /\ a # i /\ a \in Issue
    BY <1>1, Domains
  <2>2. Targets(a)' = Targets(a) \ {i}
    BY <1>1, <2>1 DEF Targets
  <2>3. log'[a] = log[a] /\ parent'[a] = IF parent[a] = i THEN NoParent ELSE parent[a]
    BY <1>1, <2>1, Domains
  <2>4. Accounts(log[a], used, live, Targets(a), parent[a])
    BY <2>1 DEF LogInv
  <2>5. Accounts(log[a], used, live \ {i}, Targets(a) \ {i},
                 IF parent[a] = i THEN NoParent ELSE parent[a])
    BY <2>4, Domains, AccountWithout
  <2>6. QED
    BY <1>1, <2>2, <2>3, <2>5
<1>3. \A a \in Issue \ live' : log'[a] = <<>>
  BY <1>1, Domains DEF LogInv
<1>4. QED
  BY <1>2, <1>3 DEF LogInv
LEMMA SetCategoryAccounts ==
    ASSUME LogInv, NEW i \in Issue, NEW c \in {"open", "wip", "done"}, SetCategory(i, c)
    PROVE  LogInv'
BY DEF LogInv, Targets, SetCategory

LEMMA StepKeepsAccounts == Inv /\ LogInv /\ [Next]_vars => LogInv'
<1> SUFFICES ASSUME Inv, LogInv, [Next]_vars PROVE LogInv'
  OBVIOUS
<1>1. CASE UNCHANGED vars
  BY <1>1 DEF vars, LogInv, Targets
<1>2. CASE \E i \in Issue \ used, p \in live \cup {NoParent}, D \in SUBSET live :
              CreateIssue(i, p, D)
  BY <1>2, CreateIssueAccounts
<1>3. CASE \E i \in Step \ used, p \in Phase, order \in Lists(live) : AddPlanStep(i, p, order)
  BY <1>3, AddPlanStepAccounts
<1>4. CASE \E m \in Issue \ used, p \in Phase \ used, steps \in SUBSET (Step \ used) :
              \E refs \in [steps -> Lists(steps)] : CreatePlan(m, p, steps, refs)
  BY <1>4, CreatePlanAccounts
<1>5. CASE \E i \in Issue, c \in {"open", "wip", "done"} : SetCategory(i, c)
  BY <1>5, SetCategoryAccounts
<1>6. CASE Edit
  BY <1>6, AddDependencyAccounts, RemoveDependencyAccounts, SetParentAccounts,
     RetargetAccounts, UndoAccounts DEF Edit
<1>7. CASE \E i \in Issue, force \in BOOLEAN : Delete(i, force)
  BY <1>7, DeleteAccounts
<1>8. QED
  BY <1>1, <1>2, <1>3, <1>4, <1>5, <1>6, <1>7 DEF Next

(* A chain that accounts for an edge says, with its newest event, whether it is there.        *)
LEMMA EdgeTold ==
    ASSUME NEW l \in Seq(Event), NEW S, NEW j, EdgeChain(l, j, Edge(S, j)),
           EdgeLinks(l, j) # {}
    PROVE  l[Newest(EdgeLinks(l, j))] = DependencyAdded(j) <=> j \in S
<1> DEFINE N == EdgeLinks(l, j)
           found == [k \in DOMAIN l |-> There(l[k] = DependencyRemoved(j))]
           left == [k \in DOMAIN l |-> There(l[k] = DependencyAdded(j))]
           k == Newest(N)
<1>1. Len(l) \in Nat /\ DOMAIN l = 1..Len(l) /\ N \in SUBSET (1..Len(l)) /\ N # {}
  BY LinksArePositions
<1>2. Chain(N, found, left, Edge(S, j))
  BY DEF EdgeChain
<1>3. k \in N /\ left[k] = Edge(S, j)
  <2> HIDE DEF N, found, left
  <2>1. QED
    BY <1>1, <1>2, ChainEnds
<1> HIDE DEF N, k
<1>4. left[k] = There(l[k] = DependencyAdded(j))
  BY <1>1, <1>3
<1>5. There(l[k] = DependencyAdded(j)) = Edge(S, j)
  BY <1>3, <1>4
<1>6. l[k] = DependencyAdded(j) <=> j \in S
  BY <1>5 DEF There, Edge
<1>7. QED
  BY <1>6 DEF k, N

LEMMA ParentTold ==
    ASSUME NEW l \in Seq(Event), NEW L, NEW p, ParentChain(l, L, p), ParentLinks(l) # {}
    PROVE  p = Now(L, l[Newest(ParentLinks(l))].new)
<1> DEFINE N == ParentLinks(l)
           found == [k \in DOMAIN l |-> Now(L, l[k].old)]
           left == [k \in DOMAIN l |-> Now(L, l[k].new)]
           k == Newest(N)
<1>1. Len(l) \in Nat /\ DOMAIN l = 1..Len(l) /\ N \in SUBSET (1..Len(l)) /\ N # {}
  BY LinksArePositions
<1>2. Chain(N, found, left, p)
  BY DEF ParentChain
<1>3. k \in N /\ left[k] = p
  <2> HIDE DEF N, found, left
  <2>1. QED
    BY <1>1, <1>2, ChainEnds
<1> HIDE DEF N, k
<1>4. left[k] = Now(L, l[k].new)
  BY <1>1, <1>3
<1>5. QED
  BY <1>3, <1>4 DEF k, N

(* Whatever was added, removed, retargeted, reparented, planned, deleted and undone, the       *)
(* events that no undo reversed account for every edge and every parent among the issues      *)
(* that are there: undo_last (db_events.py) reverses an issue's newest event, so what it puts  *)
(* back is what the event before on the same edge or parent had left.                          *)
THEOREM GraphsAlwaysExplained == Spec => []GraphExplained
<1>1. Init => Inv /\ LogInv
  BY InvInit, LogInvInit
<1>2. (Inv /\ LogInv) /\ [Next]_vars => (Inv /\ LogInv)'
  BY StepKeepsInv, StepKeepsAccounts
<1>3. Inv /\ LogInv => GraphExplained
  <2> SUFFICES ASSUME Inv, LogInv PROVE DependencyExplained /\ ParentExplained
    BY DEF GraphExplained
  <2>1. DependencyExplained
    <3>1. SUFFICES ASSUME NEW i \in live, NEW j \in live, EdgeLinks(log[i], j) # {}
                   PROVE  log[i][Newest(EdgeLinks(log[i], j))] = DependencyAdded(j)
                            <=> <<i, j>> \in deps
      BY Zenon DEF DependencyExplained, Standing, EdgeLinks
    <3>2. log[i] \in Seq(Event) /\ EdgeChain(log[i], j, Edge(Targets(i), j))
      BY DEF LogInv, Accounts
    <3>3. j \in Targets(i) <=> <<i, j>> \in deps
      BY DEF Targets
    <3>4. QED
      BY <3>1, <3>2, <3>3, EdgeTold
  <2>2. ParentExplained
    <3>1. SUFFICES ASSUME NEW i \in live, ParentLinks(log[i]) # {}
                   PROVE  parent[i] = Now(live, log[i][Newest(ParentLinks(log[i]))].new)
      BY Zenon DEF ParentExplained, Standing, ParentLinks, Now
    <3>2. log[i] \in Seq(Event) /\ ParentChain(log[i], live, parent[i])
      BY DEF LogInv, Accounts
    <3>3. QED
      BY <3>1, <3>2, ParentTold
  <2>3. QED
    BY <2>1, <2>2
<1>4. QED
  BY <1>1, <1>2, <1>3, PTL DEF Spec
=============================================================================
