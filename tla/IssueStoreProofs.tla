-------------------------- MODULE IssueStoreProofs --------------------------
(* Proofs about IssueStore for every workflow template, every set of issues and *)
(* agents and every bound: the type invariant, and that the claim columns, the  *)
(* claim anchor and the closing columns of a row agree after any sequence of     *)
(* writes; and, in a second part, what no write may do.                          *)
(* The argument is by row: each write replaces one row by the value of a row      *)
(* operator, so it is enough that the operators keep RowOK; the log lemmas say     *)
(* that each write appends well-typed events, which is what an undo reads back.    *)
EXTENDS IssueStore, WellFoundedInduction, TLAPS

RowOK(r) ==
    r \in Row /\ ClaimColumnsOK(r) /\ ClaimAnchorOK(r) /\ ClosedColumnsOK(r)

(* The inductive invariant.                                                      *)
RowsOK == \A i \in Live : RowOK(row[i])
Inv == TypeOK /\ RowsOK

PayloadsOK(events) ==
    IsSequence(events) /\ \A k \in DOMAIN events : PayloadOK(events[k])

-----------------------------------------------------------------------------
(* Least and greatest elements of sets of numbers                                *)

LEMMA LeastInSet ==
  ASSUME NEW K, K \subseteq Nat, K # {}
  PROVE  \E k \in K : \A j \in K : k <= j
<1>1. PICK k \in K : \A j \in K : ~(<<j, k>> \in OpToRel(<, Nat))
  BY NatLessThanWellFounded, WFMin
<1>2. \A j \in K : ~(j < k)
  BY <1>1 DEF OpToRel
<1> QED
  BY <1>2

LEMMA GreatestInSet ==
  ASSUME NEW n \in Nat, NEW K, K \subseteq 1..n, K # {}
  PROVE  \E k \in K : \A j \in K : j <= k
<1> DEFINE M == {n - k : k \in K}
<1>1. M \subseteq Nat /\ M # {}
  <2>1. \A k \in K : n - k \in Nat
    OBVIOUS
  <2> QED
    BY <2>1
<1>2. PICK m \in M : \A j \in M : m <= j
  BY <1>1, LeastInSet
<1>3. PICK k \in K : m = n - k
  BY <1>2
<1>4. ASSUME NEW j \in K PROVE j <= k
  <2>1. n - k <= n - j
    BY <1>2, <1>3
  <2>2. j \in Int /\ k \in Int
    OBVIOUS
  <2> QED
    BY <2>1, <2>2
<1> QED
  BY <1>4

-----------------------------------------------------------------------------
(* The workflow template                                                         *)

LEMMA ForwardEdgesTyped == ForwardEdges \subseteq Transition
  BY TemplateAssumption DEF ForwardEdges

LEMMA ArchivedIsDone == Archived \in Status /\ IsDone(Archived)
  BY TemplateAssumption DEF Status, IsDone, CategoryOf

LEMMA InitialNotDone == InitialState \in Status /\ ~IsDone(InitialState)
  BY TemplateAssumption, InitialAssumption DEF Status, IsDone, CategoryOf

(* A declared edge, forward or backward, joins two states of the template.       *)
LEMMA AllowedIsDeclared ==
  ASSUME NEW s, NEW t, NEW F,
         ForwardAllowed(s, t, F) \/ BackwardAllowed(s, t, F)
  PROVE  s \in StateSet /\ t \in StateSet
  BY ForwardEdgesTyped, TemplateAssumption
     DEF ForwardAllowed, BackwardAllowed, Transition

(* A released claim falls back to a state that is not done.                      *)
LEMMA ReleaseTargetOpen ==
  ASSUME NEW s, ReleaseTarget(s) # Nil
  PROVE  ReleaseTarget(s) \in StateSet /\ ~IsDone(ReleaseTarget(s))
<1> DEFINE P(t) == t.to = s /\ Category[t.from] = "open"
           K == {k \in DOMAIN Transitions : P(Transitions[k])}
           m == CHOOSE k \in K : \A j \in K : k <= j
           edge == IF K = {} THEN Nil ELSE Transitions[m]
<1>1. ReleaseTarget(s) =
         IF s \notin StateSet \/ CategoryOf(s) # "wip" THEN Nil
         ELSE IF edge # Nil THEN edge.from
         ELSE IF Category[InitialState] = "open" THEN InitialState ELSE Nil
  BY DEF ReleaseTarget, FirstWhere
<1>2. K # {} => m \in K
  <2> SUFFICES ASSUME K # {} PROVE \E k \in K : \A j \in K : k <= j
    OBVIOUS
  <2>1. K \subseteq Nat
    BY TemplateAssumption
  <2> QED
    BY <2>1, LeastInSet
<1>3. CASE edge # Nil /\ s \in StateSet /\ CategoryOf(s) = "wip"
  <2>1. m \in K /\ edge = Transitions[m]
    BY <1>2, <1>3
  <2> HIDE DEF m
  <2>2. m \in DOMAIN Transitions /\ P(Transitions[m])
    BY <2>1
  <2>3. Transitions[m] \in Transition
    BY <2>2, TemplateAssumption
  <2>4. edge.from \in StateSet /\ Category[edge.from] = "open"
    BY <2>1, <2>2, <2>3 DEF Transition
  <2> QED
    BY <1>1, <1>3, <2>4 DEF IsDone, CategoryOf
<1>4. CASE ~(edge # Nil /\ s \in StateSet /\ CategoryOf(s) = "wip")
  <2>1. ReleaseTarget(s) = InitialState /\ Category[InitialState] = "open"
    BY <1>1, <1>4
  <2> QED
    BY <2>1, TemplateAssumption DEF IsDone, CategoryOf
<1> QED
  BY <1>3, <1>4

-----------------------------------------------------------------------------
(* What a write appends to the log                                               *)

LEMMA NilIsNoHolder == Nil \notin Holder /\ Nil \notin StateSet /\ Nil \notin Nat
  BY StoreAssumption, TemplateAssumption DEF Holder

LEMMA NoOneIsHolder == NoOne \in Holder /\ NoOne \notin Agent
  BY StoreAssumption DEF Holder

LEMMA SingleOK ==
  ASSUME NEW e, PayloadOK(e)
  PROVE  PayloadsOK(<<e>>)
  BY DEF PayloadsOK, IsSequence

LEMMA WhenOK ==
  ASSUME NEW c \in BOOLEAN, NEW e, c => PayloadOK(e)
  PROVE  PayloadsOK(When(c, e))
<1>1. CASE c
  BY <1>1, SingleOK DEF When
<1>2. CASE ~c
  BY <1>2 DEF When, PayloadsOK, IsSequence
<1> QED
  BY <1>1, <1>2

LEMMA FunctionIsSequence ==
  ASSUME NEW n \in Nat, NEW f, f = [k \in 1..n |-> f[k]]
  PROVE  IsSequence(f) /\ Len(f) = n
<1>1. f \in Seq({f[k] : k \in 1..n})
  OBVIOUS
<1>2. DOMAIN f = 1..n
  OBVIOUS
<1> QED
  BY <1>1, <1>2 DEF IsSequence

LEMMA ConcatIs ==
  ASSUME NEW a, NEW b, IsSequence(a), IsSequence(b)
  PROVE  /\ Len(a \o b) = Len(a) + Len(b)
         /\ DOMAIN (a \o b) = 1..(Len(a) + Len(b))
         /\ \A k \in 1..(Len(a) + Len(b)) :
               (a \o b)[k] = IF k <= Len(a) THEN a[k] ELSE b[k - Len(a)]
  BY DEF IsSequence

LEMMA ConcatOK ==
  ASSUME NEW a, NEW b, PayloadsOK(a), PayloadsOK(b)
  PROVE  PayloadsOK(a \o b)
<1>1. /\ Len(a \o b) = Len(a) + Len(b)
      /\ DOMAIN (a \o b) = 1..(Len(a) + Len(b))
      /\ \A k \in 1..(Len(a) + Len(b)) :
            (a \o b)[k] = IF k <= Len(a) THEN a[k] ELSE b[k - Len(a)]
  BY ConcatIs DEF PayloadsOK
<1>2. IsSequence(a \o b)
  BY <1>1 DEF PayloadsOK, IsSequence
<1>3. ASSUME NEW k \in DOMAIN (a \o b) PROVE PayloadOK((a \o b)[k])
  <2>1. CASE k <= Len(a)
    BY <1>1, <2>1 DEF PayloadsOK, IsSequence
  <2>2. CASE ~(k <= Len(a))
    <3>1. k - Len(a) \in DOMAIN b
      BY <1>1, <2>2 DEF PayloadsOK, IsSequence
    <3> QED
      BY <1>1, <2>2, <3>1 DEF PayloadsOK
  <2> QED
    BY <2>1, <2>2
<1> QED
  BY <1>2, <1>3 DEF PayloadsOK

(* Appending stamped payloads to a well-formed log, with the ids counted on.     *)
LEMMA StampedLogOK ==
  ASSUME NEW i, NEW events, NEW last \in Nat, lastId[i] = last, now \in Nat,
         LogOK(log[i], last), PayloadsOK(events)
  PROVE  LogOK(log[i] \o Stamp(i, events), last + Len(events))
<1> DEFINE a == log[i]
           b == Stamp(i, events)
           n == Len(events)
           m == Len(log[i])
<1>1. n \in Nat /\ m \in Nat /\ DOMAIN events = 1..n /\ DOMAIN a = 1..m
  BY DEF PayloadsOK, LogOK, IsSequence
<1>2. /\ DOMAIN b = 1..n
      /\ \A k \in 1..n : /\ PayloadOK(b[k])
                         /\ b[k].id = last + k /\ b[k].at = now
  BY <1>1 DEF Stamp, PayloadsOK, PayloadOK
<1>3. Len(b) = n
  <2>1. b \in Seq({b[k] : k \in 1..n})
    BY <1>1, <1>2 DEF Stamp
  <2> QED
    BY <1>1, <1>2, <2>1
<1> HIDE DEF b
<1>4. /\ Len(a \o b) = m + n
      /\ DOMAIN (a \o b) = 1..(m + n)
      /\ \A k \in 1..(m + n) :
            (a \o b)[k] = IF k <= m THEN a[k] ELSE b[k - m]
  <2>1. IsSequence(a) /\ IsSequence(b)
    BY <1>1, <1>2, <1>3 DEF IsSequence
  <2> QED
    BY <1>3, <2>1, ConcatIs
<1>5. ASSUME NEW k \in 1..(m + n), k <= m
      PROVE  k \in DOMAIN a /\ (a \o b)[k] = a[k]
  BY <1>1, <1>4, <1>5
<1>6. ASSUME NEW k \in 1..(m + n), ~(k <= m)
      PROVE  k - m \in 1..n /\ (a \o b)[k] = b[k - m]
  BY <1>1, <1>4, <1>6
<1>7. IsSequence(a \o b)
  BY <1>1, <1>4 DEF IsSequence
<1>8. ASSUME NEW k \in 1..(m + n)
      PROVE  /\ PayloadOK((a \o b)[k])
             /\ (a \o b)[k].id \in 1..(last + n) /\ (a \o b)[k].at \in Nat
  <2>1. CASE k <= m
    <3>1. PayloadOK(a[k]) /\ a[k].id \in 1..last /\ a[k].at \in Nat
      BY <1>5, <2>1 DEF LogOK
    <3> QED
      BY <1>1, <1>5, <2>1, <3>1
  <2>2. CASE ~(k <= m)
    <3>1. PICK d \in 1..n : d = k - m
      BY <1>6, <2>2
    <3>2. PayloadOK(b[d]) /\ b[d].id = last + d /\ b[d].at = now
      BY <1>2
    <3>3. (a \o b)[k] = b[d]
      BY <1>6, <2>2, <3>1
    <3>4. last + d \in 1..(last + n)
      BY <1>1
    <3> QED
      BY <3>2, <3>3, <3>4
  <2> QED
    BY <2>1, <2>2
<1>9. ASSUME NEW j \in 1..(m + n), NEW k \in 1..(m + n), j < k
      PROVE  (a \o b)[j].id < (a \o b)[k].id
  <2>1. CASE k <= m
    <3>1. j <= m
      BY <1>1, <1>9, <2>1
    <3> QED
      BY <1>5, <1>9, <2>1, <3>1 DEF LogOK
  <2>2. CASE j <= m /\ ~(k <= m)
    <3>1. PICK p \in 1..last : (a \o b)[j].id = p
      BY <1>5, <2>2 DEF LogOK
    <3>2. PICK d \in 1..n : (a \o b)[k].id = last + d
      BY <1>2, <1>6, <2>2
    <3> HIDE DEF n, m, a
    <3>3. p < last + d
      BY <1>1
    <3> QED
      BY <3>1, <3>2, <3>3
  <2>3. CASE ~(j <= m)
    <3>1. ~(k <= m)
      BY <1>1, <1>9, <2>3
    <3>2. /\ (a \o b)[j].id = last + (j - m)
          /\ (a \o b)[k].id = last + (k - m)
      BY <1>2, <1>6, <2>3, <3>1
    <3> HIDE DEF n, m, a
    <3>3. last + (j - m) < last + (k - m)
      BY <1>1, <1>9
    <3> QED
      BY <3>2, <3>3
  <2> QED
    BY <2>1, <2>2, <2>3
<1> HIDE DEF a
<1>10. LogOK(a \o b, last + n)
  BY <1>4, <1>7, <1>8, <1>9 DEF LogOK
<1> QED
  BY <1>10 DEF a, b

-----------------------------------------------------------------------------
(* The row operators keep a row's columns in agreement                           *)

LEMMA HeldByOK ==
  ASSUME NEW r, RowOK(r), NEW a \in Agent, NEW commit \in BOOLEAN, now \in Nat
  PROVE  RowOK(HeldBy(r, a, commit))
<1>1. now \in Time /\ now + LeaseLength \in Time
  BY StoreAssumption DEF Time
<1>2. HeldBy(r, a, commit) \in Row
  BY <1>1 DEF RowOK, Row, HeldBy, Holder
<1>3. ClaimColumnsOK(HeldBy(r, a, commit))
  BY <1>1, NoOneIsHolder, NilIsNoHolder, StoreAssumption
     DEF RowOK, Row, HeldBy, ClaimColumnsOK
<1>4. ClaimAnchorOK(HeldBy(r, a, commit))
  BY NoOneIsHolder, NilIsNoHolder DEF RowOK, Row, HeldBy, ClaimAnchorOK
<1>5. ClosedColumnsOK(HeldBy(r, a, commit))
  BY DEF RowOK, Row, HeldBy, ClosedColumnsOK
<1> QED
  BY <1>2, <1>3, <1>4, <1>5 DEF RowOK

LEMMA UnheldOK ==
  ASSUME NEW r, RowOK(r)
  PROVE  RowOK(Unheld(r)) /\ Unheld(r).status = r.status
<1>1. Unheld(r) \in Row
  BY DEF RowOK, Row, Unheld, Holder, Time
<1>2. ClaimColumnsOK(Unheld(r)) /\ ClaimAnchorOK(Unheld(r))
  BY NilIsNoHolder, NoOneIsHolder
     DEF RowOK, Row, Unheld, ClaimColumnsOK, ClaimAnchorOK
<1>3. ClosedColumnsOK(Unheld(r))
  BY DEF RowOK, Row, Unheld, ClosedColumnsOK
<1> QED
  BY <1>1, <1>2, <1>3 DEF RowOK, Row, Unheld

LEMMA AssignedOK ==
  ASSUME NEW r, RowOK(r), NEW a \in Holder, NEW commit \in BOOLEAN, now \in Nat
  PROVE  RowOK(Assigned(r, a, commit))
<1>1. CASE a = NoOne
  BY <1>1, UnheldOK DEF Assigned
<1>2. CASE a # NoOne
  <2>1. a \in Agent
    BY <1>2 DEF Holder
  <2> QED
    BY <1>2, <2>1, HeldByOK DEF Assigned
<1> QED
  BY <1>1, <1>2

LEMMA ClaimedOK ==
  ASSUME NEW r, RowOK(r), NEW a \in Agent, Claimable(r, a),
         NEW commit \in BOOLEAN, now \in Nat
  PROVE  RowOK(Claimed(r, a, commit))
<1>1. now \in Time /\ now + LeaseLength \in Time /\ a \in Holder
  BY StoreAssumption DEF Time, Holder
<1>2. Claimed(r, a, commit) \in Row
  BY <1>1 DEF RowOK, Row, Claimed
<1>3. ClaimColumnsOK(Claimed(r, a, commit))
  BY <1>1, NoOneIsHolder, NilIsNoHolder, StoreAssumption
     DEF RowOK, Row, Claimed, ClaimColumnsOK
<1>4. ClaimAnchorOK(Claimed(r, a, commit))
  BY NoOneIsHolder, NilIsNoHolder
     DEF RowOK, Row, Claimed, ClaimAnchorOK, Claimable
<1>5. ClosedColumnsOK(Claimed(r, a, commit))
  BY DEF RowOK, Row, Claimed, ClosedColumnsOK
<1> QED
  BY <1>2, <1>3, <1>4, <1>5 DEF RowOK

LEMMA ClosedOK ==
  ASSUME NEW r, RowOK(r), NEW s \in Status, IsDone(s), NEW commit \in BOOLEAN,
         now \in Nat
  PROVE  RowOK(Closed(r, s, commit))
<1>1. Closed(r, s, commit) \in Row
  BY DEF RowOK, Row, Closed, Time
<1>2. ClaimColumnsOK(Closed(r, s, commit)) /\ ClaimAnchorOK(Closed(r, s, commit))
  BY DEF RowOK, Row, Closed, ClaimColumnsOK, ClaimAnchorOK
<1>3. ClosedColumnsOK(Closed(r, s, commit))
  BY NilIsNoHolder DEF RowOK, Row, Closed, ClosedColumnsOK
<1> QED
  BY <1>1, <1>2, <1>3 DEF RowOK

LEMMA NotClosedOK ==
  ASSUME NEW r, RowOK(r), NEW s \in Status, ~IsDone(s)
  PROVE  RowOK(NotClosed(r, s))
<1>1. NotClosed(r, s) \in Row
  BY DEF RowOK, Row, NotClosed, Time
<1>2. ClaimColumnsOK(NotClosed(r, s)) /\ ClaimAnchorOK(NotClosed(r, s))
  BY DEF RowOK, Row, NotClosed, ClaimColumnsOK, ClaimAnchorOK
<1>3. ClosedColumnsOK(NotClosed(r, s))
  BY DEF RowOK, Row, NotClosed, ClosedColumnsOK
<1> QED
  BY <1>1, <1>2, <1>3 DEF RowOK

LEMMA StatusSetOK ==
  ASSUME NEW r, RowOK(r), NEW s \in Status, NEW commit \in BOOLEAN, now \in Nat
  PROVE  RowOK(StatusSet(r, s, commit))
<1>1. CASE IsDone(s)
  BY <1>1, ClosedOK DEF StatusSet
<1>2. CASE ~IsDone(s) /\ IsDone(r.status)
  BY <1>2, NotClosedOK DEF StatusSet
<1>3. CASE ~IsDone(s) /\ ~IsDone(r.status)
  <2> DEFINE t == [r EXCEPT !.status = s]
  <2>1. t \in Row /\ ClaimColumnsOK(t) /\ ClaimAnchorOK(t) /\ ClosedColumnsOK(t)
    BY <1>3 DEF RowOK, Row, ClaimColumnsOK, ClaimAnchorOK, ClosedColumnsOK
  <2> QED
    BY <1>3, <2>1 DEF StatusSet, RowOK
<1> QED
  BY <1>1, <1>2, <1>3

(* Columns outside the two groups may change freely.                             *)
LEMMA DataColumnsOK ==
  ASSUME NEW r, RowOK(r), NEW F \in SUBSET Field, NEW p \in Priority
  PROVE  /\ RowOK([r EXCEPT !.fields = F]) /\ RowOK([r EXCEPT !.priority = p])
         /\ RowOK([r EXCEPT !.priority = p, !.fields = F])
  BY DEF RowOK, Row, ClaimColumnsOK, ClaimAnchorOK, ClosedColumnsOK

LEMMA LeaseRenewedOK ==
  ASSUME NEW r, RowOK(r), r.assignee # NoOne, now \in Nat
  PROVE  RowOK([r EXCEPT !.leaseEnd = now + LeaseLength])
<1> DEFINE t == [r EXCEPT !.leaseEnd = now + LeaseLength]
<1>1. now + LeaseLength \in Nat /\ now + LeaseLength # Nil
  BY StoreAssumption, NilIsNoHolder
<1>2. t \in Row
  BY <1>1 DEF RowOK, Row, Time
<1>3. ClaimColumnsOK(t)
  BY <1>1 DEF RowOK, Row, ClaimColumnsOK
<1>4. ClaimAnchorOK(t) /\ ClosedColumnsOK(t)
  BY DEF RowOK, Row, ClaimAnchorOK, ClosedColumnsOK
<1> QED
  BY <1>2, <1>3, <1>4 DEF RowOK

LEMMA ArchivedOK ==
  ASSUME NEW r, RowOK(r), IsDone(r.status)
  PROVE  RowOK([r EXCEPT !.status = Archived])
  BY ArchivedIsDone
     DEF RowOK, Row, ClaimColumnsOK, ClaimAnchorOK, ClosedColumnsOK

-----------------------------------------------------------------------------
(* update_issue                                                                  *)

LEMMA RequestTyped ==
  ASSUME NEW s \in StateSet \cup {Nil}, NEW F \in {Nil} \cup SUBSET Field,
         NEW commit \in BOOLEAN
  PROVE  [StatusRequest(s) EXCEPT !.fields = F, !.commit = commit] \in Updates
  BY DEF StatusRequest, Updates

LEMMA StatusRequestTyped ==
  ASSUME NEW s \in StateSet \cup {Nil}
  PROVE  StatusRequest(s) \in Updates
  BY DEF StatusRequest, Updates

LEMMA MergedFieldsTyped ==
  ASSUME NEW r \in Row, NEW q \in Updates
  PROVE  MergedFields(r, q) \in SUBSET Field
  BY DEF MergedFields, Row, Updates

(* A status change that passed the transition check joins two states.           *)
LEMMA MovesBetweenStates ==
  ASSUME NEW r, NEW q, NEW backward \in BOOLEAN,
         TransitionAllowed(r, q, backward), Changes(q.status, r.status)
  PROVE  r.status \in StateSet /\ q.status \in StateSet
<1>1. CASE backward
  BY <1>1, AllowedIsDeclared DEF TransitionAllowed
<1>2. CASE ~backward
  BY <1>2, AllowedIsDeclared DEF TransitionAllowed
<1> QED
  BY <1>1, <1>2

LEMMA UpdatedRowOK ==
  ASSUME NEW r, RowOK(r), NEW q \in Updates, now \in Nat
  PROVE  RowOK(UpdatedRow(r, q))
<1> DEFINE s == IF Changes(q.status, r.status)
                THEN StatusSet(r, q.status, q.commit) ELSE r
           a == IF Changes(q.assignee, r.assignee)
                THEN Assigned(s, q.assignee, q.commit) ELSE s
           p == IF q.priority = Nil THEN a.priority ELSE q.priority
<1>1. q.commit \in BOOLEAN
  BY DEF Updates
<1>2. RowOK(s)
  <2>1. Changes(q.status, r.status) => q.status \in Status
    BY DEF Changes, Updates, Status
  <2> QED
    BY <1>1, <2>1, StatusSetOK
<1>3. RowOK(a)
  <2>1. Changes(q.assignee, r.assignee) => q.assignee \in Holder
    BY DEF Changes, Updates
  <2> HIDE DEF s
  <2> QED
    BY <1>1, <1>2, <2>1, AssignedOK
<1> HIDE DEF a
<1>4. p \in Priority /\ MergedFields(r, q) \in SUBSET Field
  BY <1>3, MergedFieldsTyped DEF RowOK, Row, Updates
<1>5. UpdatedRow(r, q) = [a EXCEPT !.priority = p, !.fields = MergedFields(r, q)]
  BY DEF UpdatedRow, a
<1> HIDE DEF p
<1>6. RowOK([a EXCEPT !.priority = p, !.fields = MergedFields(r, q)])
  BY <1>3, <1>4, DataColumnsOK
<1> QED
  BY <1>5, <1>6

LEMMA UpdateEventsOK ==
  ASSUME NEW r \in Row, NEW q \in Updates, NEW actor \in Holder,
         NEW backward \in BOOLEAN, NEW checked \in BOOLEAN,
         TransitionAllowed(r, q, backward)
  PROVE  PayloadsOK(UpdateEvents(r, q, actor, backward, checked))
<1> DEFINE moves == Changes(q.status, r.status)
           warns == IF backward
                    THEN BackwardWarns(r.status, q.status, MergedFields(r, q))
                    ELSE ForwardWarns(r.status, q.status, MergedFields(r, q))
           e1 == Event("transition_warning", actor, r.status, q.status)
           e2 == Event("transition_forced", actor, r.status, q.status)
           e3 == Event("status_changed", actor, r.status, q.status)
           e4 == Event("close_commit_checked", actor, Nil, Nil)
           e5 == Event("priority_changed", actor, r.priority, q.priority)
           e6 == Event("assignee_changed", actor, r.assignee, q.assignee)
           e7 == Event("fields_changed", actor, r.fields, q.fields)
           c1 == moves /\ warns
           c2 == moves /\ backward
           c4 == moves /\ IsDone(q.status) /\ q.commit /\ checked
           c5 == Changes(q.priority, r.priority)
           c6 == Changes(q.assignee, r.assignee)
           c7 == Changes(q.fields, r.fields) /\ ~CloseReasonOnly(r, q)
<1>1. /\ moves \in BOOLEAN /\ c1 \in BOOLEAN /\ c2 \in BOOLEAN
      /\ c4 \in BOOLEAN /\ c5 \in BOOLEAN /\ c6 \in BOOLEAN /\ c7 \in BOOLEAN
  BY DEF Changes
<1>2. PayloadOK(e1) /\ PayloadOK(e2) /\ PayloadOK(e4)
  BY DEF PayloadOK, Event, Kinds
<1>3. moves => PayloadOK(e3)
  BY MovesBetweenStates DEF PayloadOK, Event, Kinds, ReversibleKinds
<1>4. c5 => PayloadOK(e5)
  BY DEF PayloadOK, Event, Kinds, ReversibleKinds, Changes, Row, Updates
<1>5. c6 => PayloadOK(e6)
  BY DEF PayloadOK, Event, Kinds, ReversibleKinds, Changes, Row, Updates
<1>6. c7 => PayloadOK(e7)
  BY DEF PayloadOK, Event, Kinds, ReversibleKinds, Changes, Row, Updates
<1>7. UpdateEvents(r, q, actor, backward, checked)
        = When(c1, e1) \o When(c2, e2) \o When(moves, e3) \o When(c4, e4)
          \o When(c5, e5) \o When(c6, e6) \o When(c7, e7)
  BY DEF UpdateEvents
<1> HIDE DEF moves, c1, c2, c4, c5, c6, c7, e1, e2, e3, e4, e5, e6, e7
<1>8. /\ PayloadsOK(When(c1, e1)) /\ PayloadsOK(When(c2, e2))
      /\ PayloadsOK(When(moves, e3)) /\ PayloadsOK(When(c4, e4))
      /\ PayloadsOK(When(c5, e5)) /\ PayloadsOK(When(c6, e6))
      /\ PayloadsOK(When(c7, e7))
  BY <1>1, <1>2, <1>3, <1>4, <1>5, <1>6, WhenOK
<1> QED
  BY <1>7, <1>8, ConcatOK

-----------------------------------------------------------------------------
(* release_claim, undo_last, create_issue                                        *)

LEMMA ReleasedOK ==
  ASSUME NEW r, RowOK(r), NEW target, target # Nil => target \in StateSet /\ ~IsDone(target)
  PROVE  RowOK(Released(r, target))
<1>1. CASE target = Nil
  BY <1>1, UnheldOK DEF Released
<1>2. CASE target # Nil
  <2>1. target \in Status /\ ~IsDone(target)
    BY <1>2 DEF Status
  <2> QED
    BY <1>2, <2>1, UnheldOK, NotClosedOK DEF Released
<1> QED
  BY <1>1, <1>2

LEMMA RevertedOK ==
  ASSUME NEW r, RowOK(r), NEW e, PayloadOK(e), e.kind \in ReversibleKinds, now \in Nat
  PROVE  RowOK(Reverted(r, e))
<1>1. CASE e.kind = "status_changed"
  <2>1. e.old \in Status
    BY <1>1 DEF PayloadOK, Status
  <2>2. CASE IsDone(e.old)
    BY <1>1, <2>1, <2>2, ClosedOK DEF Reverted
  <2>3. CASE ~IsDone(e.old)
    <3> DEFINE t == NotClosed(r, e.old)
    <3>1. RowOK(t)
      BY <2>1, <2>3, NotClosedOK
    <3>2. t.fields \ {CloseReason} \in SUBSET Field
      BY <3>1 DEF RowOK, Row
    <3> HIDE DEF t
    <3>3. t.priority \in Priority
      BY <3>1 DEF RowOK, Row
    <3>4. RowOK([t EXCEPT !.fields = t.fields \ {CloseReason}])
      BY <3>1, <3>2, <3>3, DataColumnsOK
    <3> QED
      BY <1>1, <2>3, <3>4 DEF Reverted, t
  <2> QED
    BY <2>2, <2>3
<1>2. CASE e.kind \in {"assignee_changed", "claimed"}
  <2>1. e.old \in Holder
    BY <1>2 DEF PayloadOK
  <2> QED
    BY <1>2, <2>1, AssignedOK DEF Reverted
<1>3. CASE e.kind = "priority_changed"
  <2>1. e.old \in Priority
    BY <1>3 DEF PayloadOK
  <2>2. r.fields \in SUBSET Field
    BY DEF RowOK, Row
  <2> QED
    BY <1>3, <2>1, <2>2, DataColumnsOK DEF Reverted
<1>4. CASE e.kind = "fields_changed"
  <2>1. e.old \in SUBSET Field
    BY <1>4 DEF PayloadOK
  <2>2. r.priority \in Priority
    BY DEF RowOK, Row
  <2> QED
    BY <1>4, <2>1, <2>2, DataColumnsOK DEF Reverted
<1> QED
  BY <1>1, <1>2, <1>3, <1>4 DEF ReversibleKinds

LEMMA NewRowOK ==
  ASSUME NEW q \in CreateRequest, now \in Nat
  PROVE  RowOK(NewRow(q))
<1> DEFINE blank ==
        [status |-> InitialState, assignee |-> NoOne,
         claimedAt |-> Nil, claimCommit |-> Nil, leaseEnd |-> Nil,
         closedAt |-> Nil, closeCommit |-> Nil, fields |-> q.fields,
         priority |-> q.priority]
<1>1. q \in Creates
  BY StoreAssumption
<1>2. blank \in Row
  BY <1>1, InitialNotDone, NoOneIsHolder DEF Creates, Row, Time
<1>3. ClaimColumnsOK(blank) /\ ClaimAnchorOK(blank) /\ ClosedColumnsOK(blank)
  BY InitialNotDone, NoOneIsHolder, NilIsNoHolder
     DEF ClaimColumnsOK, ClaimAnchorOK, ClosedColumnsOK
<1>4. RowOK(blank) /\ q.assignee \in Holder
  BY <1>1, <1>2, <1>3 DEF RowOK, Creates
<1> HIDE DEF blank
<1>5. RowOK(Assigned(blank, q.assignee, FALSE))
  BY <1>4, AssignedOK
<1> QED
  BY <1>5 DEF NewRow, blank

-----------------------------------------------------------------------------
(* Picking an event of the log                                                   *)

LEMMA NewestIsMember ==
  ASSUME NEW events, IsSequence(events), NEW K, K \subseteq DOMAIN events, K # {}
  PROVE  Newest(K) \in K
<1> DEFINE n == Len(events)
<1>1. n \in Nat /\ K \subseteq 1..n
  BY DEF IsSequence
<1> HIDE DEF n
<1>2. \E k \in K : \A j \in K : j <= k
  BY <1>1, GreatestInSet
<1> QED
  BY <1>2 DEF Newest

LEMMA ReopenTargetOpen ==
  ASSUME NEW events, NEW last, LogOK(events, last)
  PROVE  ReopenTarget(events) \in StateSet /\ ~IsDone(ReopenTarget(events))
<1> DEFINE K == {k \in DOMAIN events :
                    /\ events[k].kind = "status_changed"
                    /\ events[k].old \in StateSet
                    /\ ~IsDone(events[k].old) /\ IsDone(events[k].new)}
<1>1. CASE K = {}
  BY <1>1, TemplateAssumption, InitialNotDone DEF ReopenTarget
<1>2. CASE K # {}
  <2>1. Newest(K) \in K
    BY <1>2, NewestIsMember DEF LogOK
  <2> QED
    BY <1>2, <2>1 DEF ReopenTarget
<1> QED
  BY <1>1, <1>2

LEMMA UndoTargetOK ==
  ASSUME NEW i, NEW last, LogOK(log[i], last), Undoable(log[i]) # {}
  PROVE  PayloadOK(UndoTarget(i)) /\ UndoTarget(i).kind \in ReversibleKinds
<1>1. Newest(Undoable(log[i])) \in Undoable(log[i])
  <2>1. Undoable(log[i]) \subseteq DOMAIN log[i] /\ IsSequence(log[i])
    BY DEF Undoable, LogOK
  <2> QED
    BY <2>1, NewestIsMember
<1> QED
  BY <1>1 DEF UndoTarget, Undoable, LogOK

(* Compaction keeps a suffix of the log.                                         *)
LEMMA KeptOK ==
  ASSUME NEW events, NEW last, LogOK(events, last), NEW keep \in Nat
  PROVE  LogOK(Kept(events, keep), last)
<1> DEFINE n == Len(events)
           b == SubSeq(events, n - keep + 1, n)
<1>1. n \in Nat /\ DOMAIN events = 1..n
  BY DEF LogOK, IsSequence
<1>2. CASE n <= keep
  BY <1>2 DEF Kept
<1>3. CASE ~(n <= keep)
  <2>1. /\ n - keep \in Nat
        /\ b = [k \in 1..keep |-> events[k + (n - keep)]]
    BY <1>1, <1>3
  <2>2. DOMAIN b = 1..keep /\ \A k \in 1..keep : b[k] = events[k + (n - keep)]
    BY <2>1
  <2> HIDE DEF b
  <2>3. b = [k \in 1..keep |-> b[k]]
    BY <2>1
  <2>4. IsSequence(b) /\ Len(b) = keep
    BY <2>3, FunctionIsSequence
  <2>5. \A k \in 1..keep : k + (n - keep) \in DOMAIN events
    BY <1>1, <1>3
  <2>6. ASSUME NEW k \in 1..keep
        PROVE  PayloadOK(b[k]) /\ b[k].id \in 1..last /\ b[k].at \in Nat
    BY <2>2, <2>5 DEF LogOK
  <2>7. ASSUME NEW j \in 1..keep, NEW k \in 1..keep, j < k
        PROVE  b[j].id < b[k].id
    <3> DEFINE x == j + (n - keep)
               y == k + (n - keep)
    <3>1. x \in DOMAIN events /\ y \in DOMAIN events /\ x < y
      BY <1>1, <1>3, <2>5, <2>7
    <3>2. b[j] = events[x] /\ b[k] = events[y]
      BY <2>2
    <3> HIDE DEF x, y, n
    <3>3. events[x].id < events[y].id
      BY <3>1 DEF LogOK
    <3> QED
      BY <3>2, <3>3
  <2>8. LogOK(b, last)
    BY <2>2, <2>4, <2>6, <2>7 DEF LogOK
  <2> QED
    BY <1>3, <2>8 DEF Kept, b
<1> QED
  BY <1>2, <1>3

-----------------------------------------------------------------------------
(* Every write preserves the invariant                                           *)

LEMMA WritePreserves ==
  ASSUME Inv, NEW i \in Live, NEW newRow, NEW events,
         RowOK(newRow), PayloadsOK(events), Write(i, newRow, events)
  PROVE  Inv'
<1>1. i \in Issue /\ LogOK(log[i], lastId[i]) /\ lastId[i] \in Nat /\ now \in Nat
  BY DEF Inv, TypeOK, Live
<1>2. Len(events) \in Nat /\ lastId[i] + Len(events) \in Nat
  BY <1>1 DEF PayloadsOK, IsSequence
<1>3. LogOK(log[i] \o Stamp(i, events), lastId[i] + Len(events))
  BY <1>1, StampedLogOK
<1>4. /\ row' = [row EXCEPT ![i] = newRow]
      /\ log' = [log EXCEPT ![i] = log[i] \o Stamp(i, events)]
      /\ lastId' = [lastId EXCEPT ![i] = lastId[i] + Len(events)]
      /\ tombstones' = tombstones /\ now' = now
  BY DEF Write
<1>5. DOMAIN row' = DOMAIN row /\ DOMAIN log' = DOMAIN row
  BY <1>4 DEF Inv, TypeOK, Live
<1>6. lastId' \in [Issue -> Nat]
  BY <1>1, <1>2, <1>4 DEF Inv, TypeOK
<1>7. ASSUME NEW j \in DOMAIN row
      PROVE  RowOK(row'[j]) /\ LogOK(log'[j], lastId'[j])
  <2>1. j \in Issue /\ j \in DOMAIN log /\ RowOK(row[j]) /\ LogOK(log[j], lastId[j])
    BY DEF Inv, TypeOK, RowsOK, Live
  <2>2. CASE j = i
    <3>1. row'[i] = newRow /\ log'[i] = log[i] \o Stamp(i, events)
          /\ lastId'[i] = lastId[i] + Len(events)
      BY <1>1, <1>4, <2>1, <2>2 DEF Inv, TypeOK, Live
    <3> QED
      BY <1>3, <2>2, <3>1
  <2>3. CASE j # i
    <3>1. row'[j] = row[j] /\ log'[j] = log[j] /\ lastId'[j] = lastId[j]
      BY <1>4, <2>1, <2>3 DEF Inv, TypeOK
    <3> QED
      BY <2>1, <3>1
  <2> QED
    BY <2>2, <2>3
<1>8. TypeOK'
  BY <1>4, <1>5, <1>6, <1>7 DEF Inv, TypeOK, Live, RowOK
<1>9. RowsOK'
  BY <1>5, <1>7 DEF RowsOK, Live
<1> QED
  BY <1>8, <1>9 DEF Inv

(* What the invariant says of one live issue.                                    *)
LEMMA LiveRow ==
  ASSUME Inv, NEW i \in Live
  PROVE  /\ RowOK(row[i]) /\ row[i] \in Row /\ i \in Issue
         /\ LogOK(log[i], lastId[i]) /\ now \in Nat
  BY DEF Inv, TypeOK, RowsOK, RowOK

LEMMA InitOK == Init => Inv
<1> SUFFICES ASSUME Init PROVE Inv
  OBVIOUS
<1>1. Live = {} /\ DOMAIN log = {}
  BY DEF Init, Live
<1> QED
  BY <1>1 DEF Inv, TypeOK, RowsOK, Init

LEMMA CreatePreserves ==
  ASSUME Inv, NEW i \in Issue, NEW actor \in Holder, NEW q \in CreateRequest,
         Create(i, actor, q)
  PROVE  Inv'
<1> DEFINE events == <<Event("created", actor, Nil, Nil)>>
           r == NewRow(q)
           l == Stamp(i, events)
<1>1. i \notin Live /\ now \in Nat /\ lastId[i] \in Nat
  BY DEF Create, Inv, TypeOK
<1>2. RowOK(r)
  BY <1>1, NewRowOK
<1>3. LogOK(l, lastId[i] + 1)
  <2>1. PayloadsOK(events) /\ Len(events) = 1
    BY SingleOK DEF PayloadOK, Kinds, Event
  <2>2. PayloadOK(Event("created", actor, Nil, Nil))
    BY DEF PayloadOK, Kinds, Event
  <2>3. l = [k \in 1..1 |-> l[k]]
    BY DEF Stamp
  <2>4. IsSequence(l) /\ Len(l) = 1
    BY <2>3, FunctionIsSequence
  <2>5. DOMAIN l = {1} /\ PayloadOK(l[1]) /\ l[1].id = lastId[i] + 1 /\ l[1].at = now
    BY <2>2, <2>3 DEF Stamp, PayloadOK
  <2> HIDE DEF l
  <2> QED
    BY <1>1, <2>4, <2>5 DEF LogOK
<1> HIDE DEF r, l
<1>4. /\ row' = [j \in Live \cup {i} |-> IF j = i THEN r ELSE row[j]]
      /\ log' = [j \in Live \cup {i} |-> IF j = i THEN l ELSE log[j]]
      /\ lastId' = [lastId EXCEPT ![i] = lastId[i] + 1]
      /\ tombstones' = tombstones /\ now' = now
  BY DEF Create, r, l
<1>5. DOMAIN row' = Live \cup {i} /\ DOMAIN log' = Live \cup {i}
  BY <1>4
<1>6. lastId' \in [Issue -> Nat]
  BY <1>1, <1>4 DEF Inv, TypeOK
<1>7. ASSUME NEW j \in Live \cup {i}
      PROVE  RowOK(row'[j]) /\ LogOK(log'[j], lastId'[j])
  <2>1. CASE j = i
    BY <1>2, <1>3, <1>4, <2>1 DEF Inv, TypeOK
  <2>2. CASE j # i
    <3>1. RowOK(row[j]) /\ LogOK(log[j], lastId[j]) /\ j \in Issue
      BY <2>2, LiveRow
    <3>2. row'[j] = row[j] /\ log'[j] = log[j] /\ lastId'[j] = lastId[j]
      BY <1>4, <2>2, <3>1 DEF Inv, TypeOK
    <3> QED
      BY <3>1, <3>2
  <2> QED
    BY <2>1, <2>2
<1>8. TypeOK'
  BY <1>4, <1>5, <1>6, <1>7 DEF Inv, TypeOK, Live, RowOK
<1>9. RowsOK'
  BY <1>5, <1>7 DEF RowsOK, Live
<1> QED
  BY <1>8, <1>9 DEF Inv

LEMMA UpdatePreserves ==
  ASSUME Inv, NEW i, NEW actor \in Holder, NEW expected, NEW q \in UpdateRequest,
         Update(i, actor, expected, q)
  PROVE  Inv'
<1>1. i \in Live /\ q \in Updates
  BY StoreAssumption DEF Update
<1>2. RowOK(UpdatedRow(row[i], q))
  BY <1>1, LiveRow, UpdatedRowOK
<1>3. PayloadsOK(UpdateEvents(row[i], q, actor, FALSE, FALSE))
  BY <1>1, LiveRow, UpdateEventsOK DEF Update
<1> QED
  BY <1>1, <1>2, <1>3, WritePreserves DEF Update

LEMMA ClosePreserves ==
  ASSUME Inv, NEW i, NEW actor \in Holder, NEW expected, NEW target,
         NEW reason \in BOOLEAN, NEW force \in BOOLEAN, NEW commit \in BOOLEAN,
         Close(i, actor, expected, target, reason, force, commit)
  PROVE  Inv'
<1> DEFINE s == CloseTarget(target)
           F == IF reason THEN row[i].fields \cup {CloseReason} ELSE Nil
           q == [StatusRequest(s) EXCEPT !.fields = F, !.commit = commit]
<1>1. i \in Live /\ s \in StateSet
  BY DEF Close, Closable
<1>2. F \in {Nil} \cup SUBSET Field
  BY <1>1, LiveRow, StoreAssumption DEF Row
<1> HIDE DEF s, F
<1>3. q \in Updates
  BY <1>1, <1>2, RequestTyped
<1>4. /\ TransitionAllowed(row[i], q, force)
      /\ Write(i, UpdatedRow(row[i], q), UpdateEvents(row[i], q, actor, force, TRUE))
  BY DEF Close, Closable, CloseRequest, s, F
<1> HIDE DEF q
<1>5. RowOK(UpdatedRow(row[i], q))
  BY <1>1, <1>3, LiveRow, UpdatedRowOK
<1>6. PayloadsOK(UpdateEvents(row[i], q, actor, force, TRUE))
  BY <1>1, <1>3, <1>4, LiveRow, UpdateEventsOK
<1> QED
  BY <1>1, <1>4, <1>5, <1>6, WritePreserves

LEMMA ReopenPreserves ==
  ASSUME Inv, NEW i, NEW actor \in Holder, Reopen(i, actor)
  PROVE  Inv'
<1> DEFINE r == row[i]
           s == ReopenTarget(log[i])
           q == StatusRequest(s)
           kept == r.fields \ {CloseReason}
           u == UpdatedRow(r, q)
           e1 == UpdateEvents(r, q, actor, TRUE, FALSE)
           e2 == When(kept # r.fields, Event("fields_changed", actor, r.fields, kept))
           e3 == <<Event("reopened", actor, r.status, s)>>
<1>1. i \in Live
  BY DEF Reopen
<1>2. r \in Row /\ RowOK(r) /\ s \in StateSet /\ q \in Updates /\ now \in Nat
  BY <1>1, LiveRow, ReopenTargetOpen, StatusRequestTyped
<1>3. /\ TransitionAllowed(r, q, TRUE)
      /\ Write(i, [u EXCEPT !.fields = kept], e1 \o e2 \o e3)
  BY DEF Reopen
<1>4. r.fields \in SUBSET Field /\ kept \in SUBSET Field
  BY <1>2 DEF Row
<1> HIDE DEF r, s, q
<1>5. RowOK(u)
  BY <1>2, UpdatedRowOK
<1>6. PayloadsOK(e1)
  BY <1>2, <1>3, UpdateEventsOK
<1> HIDE DEF u, e1
<1>7. RowOK([u EXCEPT !.fields = kept])
  <2>1. u.priority \in Priority
    BY <1>5 DEF RowOK, Row
  <2> HIDE DEF kept
  <2> QED
    BY <1>4, <1>5, <2>1, DataColumnsOK
<1>8. PayloadsOK(e2)
  <2>1. PayloadOK(Event("fields_changed", actor, r.fields, kept))
    BY <1>4 DEF PayloadOK, Event, Kinds, ReversibleKinds
  <2> QED
    BY <2>1, WhenOK
<1>9. PayloadsOK(e3)
  <2>1. PayloadOK(Event("reopened", actor, r.status, s))
    BY DEF PayloadOK, Event, Kinds
  <2> QED
    BY <2>1, SingleOK
<1> HIDE DEF e2, e3
<1>10. PayloadsOK(e1 \o e2 \o e3)
  BY <1>6, <1>8, <1>9, ConcatOK
<1> QED
  BY <1>1, <1>3, <1>7, <1>10, WritePreserves

LEMMA ClaimPreserves ==
  ASSUME Inv, NEW i, NEW a \in Agent, NEW actor \in Holder,
         NEW commit \in BOOLEAN, NEW request, Claim(i, a, actor, commit, request)
  PROVE  Inv'
<1> DEFINE e == [Event("claimed", actor, row[i].assignee, a) EXCEPT !.note = request]
<1>1. i \in Live
  BY DEF Claim
<1>2. PayloadOK(e)
  BY <1>1, LiveRow DEF Row, PayloadOK, Event, Kinds, ReversibleKinds, Holder
<1>3. RowOK(Claimed(row[i], a, commit))
  BY <1>1, LiveRow, ClaimedOK DEF Claim
<1>4. Write(i, Claimed(row[i], a, commit), <<e>>)
  BY DEF Claim
<1> HIDE DEF e
<1>5. PayloadsOK(<<e>>)
  BY <1>2, SingleOK
<1> QED
  BY <1>1, <1>3, <1>4, <1>5, WritePreserves

LEMMA ReleasePreserves ==
  ASSUME Inv, NEW i, NEW actor \in Holder, NEW expected,
         NEW override \in BOOLEAN, NEW revert \in BOOLEAN,
         Release(i, actor, expected, override, revert)
  PROVE  Inv'
<1> DEFINE r == row[i]
           target == ReleaseTo(r, revert)
           e1 == <<Event(IF r.assignee = actor THEN "released"
                         ELSE "released_by_override", actor, r.assignee, Nil)>>
           e2 == When(target # Nil,
                      Event("transition_forced", actor, r.status, target))
           e3 == When(target # Nil,
                      Event("status_changed", actor, r.status, target))
<1>1. i \in Live /\ RowOK(r)
  BY LiveRow DEF Release
<1>2. target # Nil => target \in StateSet /\ ~IsDone(target)
  BY ReleaseTargetOpen DEF ReleaseTo
<1>3. target # Nil => r.status \in StateSet
  BY AllowedIsDeclared DEF Release
<1>4. Write(i, Released(r, target), e1 \o e2 \o e3)
  BY DEF Release, ReleaseEvents
<1> HIDE DEF r, target
<1>5. RowOK(Released(r, target))
  BY <1>1, <1>2, ReleasedOK
<1>6. PayloadsOK(e1)
  <2>1. PayloadOK(Event(IF r.assignee = actor THEN "released"
                        ELSE "released_by_override", actor, r.assignee, Nil))
    BY DEF PayloadOK, Event, Kinds
  <2> QED
    BY <2>1, SingleOK
<1>7. PayloadsOK(e2)
  <2>1. PayloadOK(Event("transition_forced", actor, r.status, target))
    BY DEF PayloadOK, Event, Kinds
  <2> QED
    BY <2>1, WhenOK
<1>8. PayloadsOK(e3)
  <2>1. target # Nil => PayloadOK(Event("status_changed", actor, r.status, target))
    BY <1>2, <1>3 DEF PayloadOK, Event, Kinds, ReversibleKinds
  <2> QED
    BY <2>1, WhenOK
<1> HIDE DEF e1, e2, e3
<1>9. PayloadsOK(e1 \o e2 \o e3)
  BY <1>6, <1>7, <1>8, ConcatOK
<1> QED
  BY <1>1, <1>4, <1>5, <1>9, WritePreserves DEF r

LEMMA HeartbeatPreserves ==
  ASSUME Inv, NEW i, NEW actor \in Holder, NEW expected, NEW override,
         Heartbeat(i, actor, expected, override)
  PROVE  Inv'
<1> DEFINE e == Event(IF row[i].assignee = actor THEN "heartbeat"
                      ELSE "heartbeat_by_override", actor, row[i].assignee, Nil)
           r == [row[i] EXCEPT !.leaseEnd = now + LeaseLength]
<1>1. i \in Live /\ row[i].assignee # NoOne
  BY DEF Heartbeat, HoldsOrOverrides
<1>2. PayloadOK(e)
  BY DEF PayloadOK, Event, Kinds
<1>3. RowOK(r)
  BY <1>1, LiveRow, LeaseRenewedOK
<1>4. Write(i, r, <<e>>)
  BY DEF Heartbeat
<1> HIDE DEF e, r
<1>5. PayloadsOK(<<e>>)
  BY <1>2, SingleOK
<1> QED
  BY <1>1, <1>3, <1>4, <1>5, WritePreserves

LEMMA ReclaimPreserves ==
  ASSUME Inv, NEW i, NEW a \in Agent, NEW expected, NEW actor \in Holder,
         NEW commit \in BOOLEAN, Reclaim(i, a, expected, actor, commit)
  PROVE  Inv'
<1> DEFINE e == Event("reclaimed", actor, expected, a)
<1>1. i \in Live
  BY DEF Reclaim
<1>2. PayloadOK(e)
  BY DEF PayloadOK, Event, Kinds
<1>3. RowOK(HeldBy(row[i], a, commit))
  BY <1>1, LiveRow, HeldByOK
<1>4. Write(i, HeldBy(row[i], a, commit), <<e>>)
  BY DEF Reclaim
<1> HIDE DEF e
<1>5. PayloadsOK(<<e>>)
  BY <1>2, SingleOK
<1> QED
  BY <1>1, <1>3, <1>4, <1>5, WritePreserves

LEMMA UndoPreserves ==
  ASSUME Inv, NEW i, NEW actor \in Holder, NEW expectedEvent, NEW override,
         Undo(i, actor, expectedEvent, override)
  PROVE  Inv'
<1> DEFINE t == UndoTarget(i)
           e == [Event("undone", actor, t.kind, expectedEvent) EXCEPT
                    !.note = IF MayUndo(row[i], actor, FALSE) THEN Nil
                             ELSE row[i].assignee]
<1>1. i \in Live /\ Undoable(log[i]) # {}
  BY DEF Undo
<1>2. PayloadOK(t) /\ t.kind \in ReversibleKinds
  BY <1>1, LiveRow, UndoTargetOK
<1>3. PayloadOK(e)
  BY DEF PayloadOK, Event, Kinds
<1>4. Write(i, Reverted(row[i], t), <<e>>)
  BY DEF Undo
<1> HIDE DEF t, e
<1>5. RowOK(Reverted(row[i], t))
  BY <1>1, <1>2, LiveRow, RevertedOK
<1>6. PayloadsOK(<<e>>)
  BY <1>3, SingleOK
<1> QED
  BY <1>1, <1>4, <1>5, <1>6, WritePreserves

(* archive_closed writes every archivable issue at once.                         *)
LEMMA ArchivePreserves ==
  ASSUME Inv, NEW actor \in Holder, NEW age, ArchiveClosed(actor, age)
  PROVE  Inv'
<1> DEFINE S == Archivable(age)
           events == <<Event("archived", actor, Nil, Nil)>>
<1>1. /\ row' = [i \in Live |-> IF i \in S
                    THEN [row[i] EXCEPT !.status = Archived] ELSE row[i]]
      /\ log' = [i \in Live |-> IF i \in S THEN log[i] \o Stamp(i, events) ELSE log[i]]
      /\ lastId' = [i \in Issue |-> lastId[i] + (IF i \in S THEN 1 ELSE 0)]
      /\ tombstones' = tombstones /\ now' = now
  BY DEF ArchiveClosed
<1>2. \A i \in S : IsDone(row[i].status)
  BY DEF Archivable
<1>3. PayloadsOK(events) /\ Len(events) = 1
  <2>1. PayloadOK(Event("archived", actor, Nil, Nil))
    BY DEF PayloadOK, Event, Kinds
  <2> QED
    BY <2>1, SingleOK
<1> HIDE DEF S, events
<1>4. ASSUME NEW i \in Live
      PROVE  RowOK(row'[i]) /\ LogOK(log'[i], lastId'[i])
  <2>1. RowOK(row[i]) /\ LogOK(log[i], lastId[i]) /\ i \in Issue /\ now \in Nat
    BY LiveRow
  <2>2. lastId[i] \in Nat
    BY <2>1 DEF Inv, TypeOK
  <2>3. CASE i \in S
    <3>1. RowOK(row'[i])
      BY <1>1, <1>2, <2>1, <2>3, ArchivedOK
    <3>2. LogOK(log[i] \o Stamp(i, events), lastId[i] + 1)
      BY <1>3, <2>1, <2>2, StampedLogOK
    <3> QED
      BY <1>1, <2>1, <2>3, <3>1, <3>2
  <2>4. CASE i \notin S
    <3>1. row'[i] = row[i] /\ log'[i] = log[i] /\ lastId'[i] = lastId[i]
      BY <1>1, <2>1, <2>2, <2>4
    <3> QED
      BY <2>1, <3>1
  <2> QED
    BY <2>3, <2>4
<1>5. DOMAIN row' = Live /\ DOMAIN log' = Live
  BY <1>1
<1>6. lastId' \in [Issue -> Nat]
  BY <1>1 DEF Inv, TypeOK
<1>7. TypeOK'
  BY <1>1, <1>4, <1>5, <1>6 DEF Inv, TypeOK, Live, RowOK
<1>8. RowsOK'
  BY <1>4, <1>5 DEF RowsOK, Live
<1> QED
  BY <1>7, <1>8 DEF Inv

LEMMA CompactPreserves ==
  ASSUME Inv, NEW keep \in KeepRecent, CompactEvents(keep)
  PROVE  Inv'
<1>1. /\ log' = [i \in Live |-> IF row[i].status = Archived
                                THEN Kept(log[i], keep) ELSE log[i]]
      /\ row' = row /\ lastId' = lastId /\ tombstones' = tombstones /\ now' = now
  BY DEF CompactEvents
<1>2. keep \in Nat
  BY StoreAssumption
<1>3. ASSUME NEW i \in Live PROVE LogOK(log'[i], lastId[i])
  BY <1>1, <1>2, LiveRow, KeptOK
<1>4. DOMAIN log' = Live
  BY <1>1
<1>5. TypeOK'
  BY <1>1, <1>3, <1>4 DEF Inv, TypeOK, Live
<1>6. RowsOK'
  BY <1>1 DEF Inv, RowsOK, Live
<1> QED
  BY <1>5, <1>6 DEF Inv

LEMMA DeletePreserves ==
  ASSUME Inv, NEW i, NEW force, Delete(i, force)
  PROVE  Inv'
<1>1. /\ i \in Live
      /\ row' = [j \in Live \ {i} |-> row[j]] /\ log' = [j \in Live \ {i} |-> log[j]]
      /\ tombstones' = tombstones \cup {i} /\ lastId' = lastId /\ now' = now
  BY DEF Delete
<1>2. DOMAIN row' = Live \ {i} /\ DOMAIN log' = Live \ {i}
  BY <1>1
<1>3. TypeOK'
  BY <1>1, <1>2 DEF Inv, TypeOK, Live
<1>4. RowsOK'
  BY <1>1, <1>2 DEF Inv, RowsOK, Live
<1> QED
  BY <1>3, <1>4 DEF Inv

LEMMA TickPreserves ==
  ASSUME Inv, Tick
  PROVE  Inv'
  BY DEF Inv, TypeOK, RowsOK, Live, Tick

LEMMA StutterPreserves ==
  ASSUME Inv, UNCHANGED vars
  PROVE  Inv'
  BY DEF Inv, TypeOK, RowsOK, Live, vars

LEMMA StatusWritePreserves ==
  ASSUME Inv, NEW i \in Issue, StatusWrite(i)
  PROVE  Inv'
<1>1. CASE \E actor \in Holder, expected \in Expected, q \in UpdateRequest :
              Update(i, actor, expected, q)
  BY <1>1, UpdatePreserves
<1>2. CASE \E actor \in Holder, expected \in Expected, s \in StateSet \cup {Nil},
              reason, force, commit \in BOOLEAN :
              Close(i, actor, expected, s, reason, force, commit)
  BY <1>2, ClosePreserves
<1>3. CASE \E actor \in Holder : Reopen(i, actor)
  BY <1>3, ReopenPreserves
<1> QED
  BY <1>1, <1>2, <1>3 DEF StatusWrite

LEMMA ClaimWritePreserves ==
  ASSUME Inv, NEW i \in Issue, ClaimWrite(i)
  PROVE  Inv'
<1>1. CASE \E a \in Agent, actor \in Holder, commit \in BOOLEAN,
              request \in RequestId \cup {Nil} : Claim(i, a, actor, commit, request)
  BY <1>1, ClaimPreserves
<1>2. CASE \E actor \in Holder, expected \in Agent \cup {Nil},
              override, revert \in BOOLEAN :
              Release(i, actor, expected, override, revert)
  BY <1>2, ReleasePreserves
<1>3. CASE \E actor \in Holder, expected \in Agent \cup {Nil}, override \in BOOLEAN :
              Heartbeat(i, actor, expected, override)
  BY <1>3, HeartbeatPreserves
<1>4. CASE \E a, expected \in Agent, actor \in Holder, commit \in BOOLEAN :
              Reclaim(i, a, expected, actor, commit)
  BY <1>4, ReclaimPreserves
<1> QED
  BY <1>1, <1>2, <1>3, <1>4 DEF ClaimWrite

LEMMA NextPreserves ==
  ASSUME Inv, [Next]_vars
  PROVE  Inv'
<1>1. CASE \E i \in Issue, actor \in Holder, q \in CreateRequest : Create(i, actor, q)
  BY <1>1, CreatePreserves
<1>2. CASE \E i \in Issue : StatusWrite(i) \/ ClaimWrite(i)
  BY <1>2, StatusWritePreserves, ClaimWritePreserves
<1>3. CASE \E i \in Issue, actor \in Holder, id \in 1..MaxEvents,
              override \in BOOLEAN : Undo(i, actor, id, override)
  BY <1>3, UndoPreserves
<1>4. CASE Maintenance
  BY <1>4, ArchivePreserves, CompactPreserves, DeletePreserves, TickPreserves
     DEF Maintenance
<1>5. CASE UNCHANGED vars
  BY <1>5, StutterPreserves
<1> QED
  BY <1>1, <1>2, <1>3, <1>4, <1>5 DEF Next

-----------------------------------------------------------------------------
(* The theorems                                                                  *)

LEMMA Invariance == Spec => []Inv
<1>1. Init => Inv
  BY InitOK
<1>2. Inv /\ [Next]_vars => Inv'
  BY NextPreserves
<1> QED
  BY <1>1, <1>2, PTL DEF Spec

(* Every live issue has a well-typed row and a log of well-typed events with      *)
(* increasing ids, after any sequence of writes, undos, archivals and compactions. *)
THEOREM TypeCorrect == Spec => []TypeOK
<1>1. Inv => TypeOK
  BY DEF Inv
<1> QED
  BY <1>1, Invariance, PTL

(* For every template, issue set, agent set and lease: a claim time and a lease   *)
(* are present exactly while somebody holds the issue.                            *)
THEOREM ClaimColumnsAlwaysAgree == Spec => []ClaimColumnsAgree
<1>1. Inv => ClaimColumnsAgree
  BY DEF Inv, RowsOK, RowOK, ClaimColumnsAgree
<1> QED
  BY <1>1, Invariance, PTL

(* A claim anchor never outlives the claim of the holder that recorded it.        *)
THEOREM ClaimAnchorAlwaysHolders == Spec => []ClaimAnchorIsHolders
<1>1. Inv => ClaimAnchorIsHolders
  BY DEF Inv, RowsOK, RowOK, ClaimAnchorIsHolders
<1> QED
  BY <1>1, Invariance, PTL

(* Every claim column is the current holder's, or empty.                          *)
THEOREM HolderColumnsAlwaysAgree == Spec => []HolderColumnsAgree
  BY ClaimColumnsAlwaysAgree, ClaimAnchorAlwaysHolders, PTL DEF HolderColumnsAgree

(* closed_at is set exactly on done and archived issues, on every path.           *)
THEOREM ClosedColumnsAlwaysAgree == Spec => []ClosedColumnsAgree
<1>1. Inv => ClosedColumnsAgree
  BY DEF Inv, RowsOK, RowOK, ClosedColumnsAgree
<1> QED
  BY <1>1, Invariance, PTL

(* Both groups of columns agree in every reachable state, for every template,     *)
(* issue set, agent set and lease.                                                *)
THEOREM ColumnsAlwaysAgree == Spec => []ColumnsAgree
  BY HolderColumnsAlwaysAgree, ClosedColumnsAlwaysAgree, PTL DEF ColumnsAgree

-----------------------------------------------------------------------------
(* What no write may do: take a live claim without a trace, revive an archived   *)
(* issue other than by an undo, undo an event twice, compact a log so that         *)
(* something else would be undone next, or take a shortcut unannounced.            *)
(* A write replaces one row and appends the events that explain it, so the        *)
(* argument is about the row before and after and the events between: what a step *)
(* does to the rows (Conduct) and to the undo markers (Marked) is read off each    *)
(* write at once.                                                                 *)

\* An event that tells how the holder h lost its claim.
TellsLoss(e, h) ==
    \/ e.kind = "released" /\ e.actor = h
    \/ e.kind = "released_by_override" /\ e.actor # h /\ e.old = h
    \/ e.kind \in {"reclaimed", "assignee_changed"} /\ e.old = h
    \/ e.kind = "undone" /\ (e.actor = h \/ e.note = h)

LosesHolder(r, s) == r.assignee \notin {NoOne, s.assignee} /\ ~IsDone(r.status)
Revives(r, s) == r.status = Archived /\ s.status # Archived

\* No two markers name one event.
MarkedOnce(events) == \A j, k \in DOMAIN events :
    events[j].kind = "undone" /\ events[k].kind = "undone" /\ events[j].new = events[k].new => j = k

\* A marker names an event that was recorded before it.
MarksEarlier(events) == \A k \in DOMAIN events :
    events[k].kind = "undone" => events[k].new \in Nat /\ events[k].new < events[k].id

MarksOK(events) == MarkedOnce(events) /\ MarksEarlier(events)

\* The events of a write from row r to row s on an issue with that log: they tell
\* of a loss and of a revival, and mark a logged event that is not marked.
Explains(r, s, events, before) ==
    /\ LosesHolder(r, s) => \E k \in DOMAIN events : TellsLoss(events[k], r.assignee)
    /\ Revives(r, s) => \E k \in DOMAIN events : events[k].kind = "undone"
    /\ \A k \in DOMAIN events : events[k].kind = "undone" =>
          /\ Len(events) = 1 /\ ~IsUndone(before, events[k].new)
          /\ \E j \in DOMAIN before : before[j].id = events[k].new

\* What a step does to the issues that live on.
Conduct == \A i \in Live \cap DOMAIN row' :
    /\ LosesHolder(row[i], row'[i]) => LosesClaim(i)
    /\ Revives(row[i], row'[i]) => \E k \in Appended(i) : log'[i][k].kind = "undone"

-----------------------------------------------------------------------------
(* Events in a concatenation                                                     *)

Has(events, e) == \E k \in DOMAIN events : events[k] = e
Unmarking(events) == \A k \in DOMAIN events : events[k].kind # "undone"

LEMMA HasInConcat ==
  ASSUME NEW a, NEW b, IsSequence(a), IsSequence(b), NEW e, Has(a, e) \/ Has(b, e)
  PROVE  Has(a \o b, e)
<1>1. /\ DOMAIN (a \o b) = 1..(Len(a) + Len(b))
      /\ \A k \in 1..(Len(a) + Len(b)) :
            (a \o b)[k] = IF k <= Len(a) THEN a[k] ELSE b[k - Len(a)]
  BY ConcatIs
<1>2. CASE Has(a, e)
  <2>1. PICK k \in DOMAIN a : a[k] = e
    BY <1>2 DEF Has
  <2>2. k \in 1..(Len(a) + Len(b)) /\ k <= Len(a)
    BY <2>1 DEF IsSequence
  <2> QED
    BY <1>1, <2>1, <2>2 DEF Has
<1>3. CASE Has(b, e)
  <2>1. PICK k \in DOMAIN b : b[k] = e
    BY <1>3 DEF Has
  <2> DEFINE m == Len(a) + k
  <2>2. m \in 1..(Len(a) + Len(b)) /\ ~(m <= Len(a)) /\ m - Len(a) = k
    BY <2>1 DEF IsSequence
  <2> HIDE DEF m
  <2> QED
    BY <1>1, <2>1, <2>2 DEF Has
<1> QED
  BY <1>2, <1>3

LEMMA UnmarkingConcat ==
  ASSUME NEW a, NEW b, IsSequence(a), IsSequence(b), Unmarking(a), Unmarking(b)
  PROVE  IsSequence(a \o b) /\ Unmarking(a \o b)
<1>1. /\ Len(a \o b) = Len(a) + Len(b)
      /\ DOMAIN (a \o b) = 1..(Len(a) + Len(b))
      /\ \A k \in 1..(Len(a) + Len(b)) :
            (a \o b)[k] = IF k <= Len(a) THEN a[k] ELSE b[k - Len(a)]
  BY ConcatIs
<1>2. ASSUME NEW k \in DOMAIN (a \o b) PROVE (a \o b)[k].kind # "undone"
  <2>1. CASE k <= Len(a)
    BY <1>1, <2>1 DEF Unmarking, IsSequence
  <2>2. CASE ~(k <= Len(a))
    <3>1. k - Len(a) \in DOMAIN b
      BY <1>1, <2>2 DEF IsSequence
    <3> QED
      BY <1>1, <2>2, <3>1 DEF Unmarking
  <2> QED
    BY <2>1, <2>2
<1> QED
  BY <1>1, <1>2 DEF Unmarking, IsSequence

LEMMA WhenConduct ==
  ASSUME NEW c \in BOOLEAN, NEW e, e.kind # "undone"
  PROVE  /\ IsSequence(When(c, e)) /\ Unmarking(When(c, e))
         /\ c => Has(When(c, e), e)
<1>1. CASE c
  BY <1>1 DEF When, IsSequence, Unmarking, Has
<1>2. CASE ~c
  BY <1>2 DEF When, IsSequence, Unmarking
<1> QED
  BY <1>1, <1>2

\* A reassignment is among the events of an update, an undo marker is not.
LEMMA UpdateConduct ==
  ASSUME NEW r, NEW q, NEW actor, NEW backward \in BOOLEAN, NEW checked \in BOOLEAN,
         q.commit \in BOOLEAN
  PROVE  LET events == UpdateEvents(r, q, actor, backward, checked)
         IN  /\ IsSequence(events) /\ Unmarking(events)
             /\ Changes(q.assignee, r.assignee) =>
                   Has(events, Event("assignee_changed", actor, r.assignee, q.assignee))
<1> DEFINE moves == Changes(q.status, r.status)
           warns == IF backward
                    THEN BackwardWarns(r.status, q.status, MergedFields(r, q))
                    ELSE ForwardWarns(r.status, q.status, MergedFields(r, q))
           e1 == Event("transition_warning", actor, r.status, q.status)
           e2 == Event("transition_forced", actor, r.status, q.status)
           e3 == Event("status_changed", actor, r.status, q.status)
           e4 == Event("close_commit_checked", actor, Nil, Nil)
           e5 == Event("priority_changed", actor, r.priority, q.priority)
           e6 == Event("assignee_changed", actor, r.assignee, q.assignee)
           e7 == Event("fields_changed", actor, r.fields, q.fields)
           c1 == moves /\ warns
           c2 == moves /\ backward
           c4 == moves /\ IsDone(q.status) /\ q.commit /\ checked
           c5 == Changes(q.priority, r.priority)
           c6 == Changes(q.assignee, r.assignee)
           c7 == Changes(q.fields, r.fields) /\ ~CloseReasonOnly(r, q)
<1>1. /\ moves \in BOOLEAN /\ c1 \in BOOLEAN /\ c2 \in BOOLEAN
      /\ c4 \in BOOLEAN /\ c5 \in BOOLEAN /\ c6 \in BOOLEAN /\ c7 \in BOOLEAN
  BY DEF Changes
<1>2. /\ e1.kind # "undone" /\ e2.kind # "undone" /\ e3.kind # "undone" /\ e4.kind # "undone"
      /\ e5.kind # "undone" /\ e6.kind # "undone" /\ e7.kind # "undone"
  BY DEF Event
<1>3. UpdateEvents(r, q, actor, backward, checked)
        = When(c1, e1) \o When(c2, e2) \o When(moves, e3) \o When(c4, e4)
          \o When(c5, e5) \o When(c6, e6) \o When(c7, e7)
  BY DEF UpdateEvents
<1> HIDE DEF moves, c1, c2, c4, c5, c6, c7, e1, e2, e3, e4, e5, e6, e7
<1> DEFINE s1 == When(c1, e1)
           s2 == When(c2, e2)
           s3 == When(moves, e3)
           s4 == When(c4, e4)
           s5 == When(c5, e5)
           s6 == When(c6, e6)
           s7 == When(c7, e7)
           t5 == s1 \o s2 \o s3 \o s4 \o s5
           t6 == t5 \o s6
<1>4. /\ IsSequence(s1) /\ Unmarking(s1) /\ IsSequence(s2) /\ Unmarking(s2)
      /\ IsSequence(s3) /\ Unmarking(s3) /\ IsSequence(s4) /\ Unmarking(s4)
      /\ IsSequence(s5) /\ Unmarking(s5) /\ IsSequence(s6) /\ Unmarking(s6)
      /\ IsSequence(s7) /\ Unmarking(s7)
      /\ c6 => Has(s6, e6)
  BY <1>1, <1>2, WhenConduct
<1>5. UpdateEvents(r, q, actor, backward, checked) = t6 \o s7
  BY <1>3
<1> HIDE DEF s1, s2, s3, s4, s5, s6, s7
<1>6. IsSequence(t5) /\ Unmarking(t5)
  BY <1>4, UnmarkingConcat
<1> HIDE DEF t5
<1>7. IsSequence(t6) /\ Unmarking(t6) /\ (c6 => Has(t6, e6))
  BY <1>4, <1>6, UnmarkingConcat, HasInConcat
<1> HIDE DEF t6
<1>8. IsSequence(t6 \o s7) /\ Unmarking(t6 \o s7) /\ (c6 => Has(t6 \o s7, e6))
  BY <1>4, <1>7, UnmarkingConcat, HasInConcat
<1> QED
  BY <1>5, <1>8 DEF c6, e6

-----------------------------------------------------------------------------
(* One write                                                                     *)

\* What a commit appends can be found among what it leaves in the log.
LEMMA AppendedEvent ==
  ASSUME Inv, NEW i \in Live, NEW newRow, NEW events, IsSequence(events),
         Write(i, newRow, events), NEW k \in DOMAIN events
  PROVE  \E m \in Appended(i) :
            /\ log'[i][m].kind = events[k].kind /\ log'[i][m].actor = events[k].actor
            /\ log'[i][m].old = events[k].old /\ log'[i][m].note = events[k].note
<1> DEFINE l == log[i]
           s == Stamp(i, events)
           m == Len(l) + k
<1>1. IsSequence(l) /\ lastId[i] \in Nat /\ i \in DOMAIN log
  BY DEF Inv, TypeOK, LogOK, Live
<1>2. log'[i] = l \o s
  BY <1>1 DEF Write
<1>3. s = [j \in 1..Len(events) |-> s[j]] /\ Len(events) \in Nat /\ k \in 1..Len(events)
  BY DEF Stamp, IsSequence
<1>4. /\ s[k].id = lastId[i] + k /\ s[k].kind = events[k].kind /\ s[k].actor = events[k].actor
      /\ s[k].old = events[k].old /\ s[k].note = events[k].note
  BY DEF Stamp
<1> HIDE DEF s, l
<1>5. IsSequence(s) /\ Len(s) = Len(events)
  BY <1>3, FunctionIsSequence
<1>6. m \in DOMAIN (l \o s) /\ (l \o s)[m] = s[k]
  <2>1. m \in 1..(Len(l) + Len(s)) /\ ~(m <= Len(l)) /\ m - Len(l) = k
    BY <1>1, <1>3, <1>5 DEF IsSequence
  <2> HIDE DEF m
  <2> QED
    BY <1>1, <1>5, <2>1, ConcatIs
<1>7. s[k].id > lastId[i]
  <2>1. k \in Nat /\ k > 0
    BY <1>3
  <2> QED
    BY <1>1, <1>4, <2>1
<1> HIDE DEF m
<1>8. m \in Appended(i)
  BY <1>2, <1>6, <1>7 DEF Appended
<1> QED
  BY <1>2, <1>4, <1>6, <1>8

LEMMA WriteConduct ==
  ASSUME Inv, NEW i \in Live, NEW newRow, NEW events, IsSequence(events),
         Explains(row[i], newRow, events, log[i]), Write(i, newRow, events)
  PROVE  Conduct
<1> SUFFICES ASSUME NEW j \in Live \cap DOMAIN row'
    PROVE  /\ LosesHolder(row[j], row'[j]) => LosesClaim(j)
           /\ Revives(row[j], row'[j]) => \E k \in Appended(j) : log'[j][k].kind = "undone"
  BY DEF Conduct
<1>1. row' = [row EXCEPT ![i] = newRow]
  BY DEF Write
<1>2. CASE j # i
  <2>1. row'[j] = row[j]
    BY <1>1, <1>2 DEF Live
  <2> QED
    BY <2>1 DEF LosesHolder, Revives
<1>3. CASE j = i
  <2>1. row'[i] = newRow
    BY <1>1 DEF Live
  <2>2. ASSUME LosesHolder(row[i], newRow) PROVE LosesClaim(i)
    <3>1. PICK k \in DOMAIN events : TellsLoss(events[k], row[i].assignee)
      BY <2>2 DEF Explains
    <3>2. PICK m \in Appended(i) :
             /\ log'[i][m].kind = events[k].kind /\ log'[i][m].actor = events[k].actor
             /\ log'[i][m].old = events[k].old /\ log'[i][m].note = events[k].note
      BY AppendedEvent
    <3>3. TellsLoss(log'[i][m], row[i].assignee)
      BY <3>1, <3>2 DEF TellsLoss
    <3> QED
      BY <3>3 DEF LosesClaim, TellsLoss
  <2>3. ASSUME Revives(row[i], newRow) PROVE \E k \in Appended(i) : log'[i][k].kind = "undone"
    <3>1. PICK k \in DOMAIN events : events[k].kind = "undone"
      BY <2>3 DEF Explains
    <3> QED
      BY <3>1, AppendedEvent
  <2> QED
    BY <1>3, <2>1, <2>2, <2>3
<1> QED
  BY <1>2, <1>3

LEMMA StampMarksOnce ==
  ASSUME NEW i, NEW l, IsSequence(l), MarkedOnce(l), NEW events, IsSequence(events),
         \A k \in DOMAIN events : events[k].kind = "undone" =>
            Len(events) = 1 /\ ~IsUndone(l, events[k].new)
  PROVE  MarkedOnce(l \o Stamp(i, events))
<1> DEFINE s == Stamp(i, events)
<1>3. s = [j \in 1..Len(events) |-> s[j]] /\ Len(events) \in Nat /\ DOMAIN events = 1..Len(events)
  BY DEF Stamp, IsSequence
<1>4. \A k \in DOMAIN events : s[k].kind = events[k].kind /\ s[k].new = events[k].new
  BY DEF Stamp
<1> HIDE DEF s
<1>5. IsSequence(s) /\ Len(s) = Len(events)
  BY <1>3, FunctionIsSequence
<1>6. \A k \in DOMAIN s : s[k].kind = "undone" => Len(s) = 1 /\ ~IsUndone(l, s[k].new)
  BY <1>3, <1>4, <1>5 DEF IsSequence
<1>7. /\ DOMAIN (l \o s) = 1..(Len(l) + Len(s))
      /\ \A k \in 1..(Len(l) + Len(s)) :
            (l \o s)[k] = IF k <= Len(l) THEN l[k] ELSE s[k - Len(l)]
  BY <1>5, ConcatIs
<1>8. Len(l) \in Nat /\ Len(s) \in Nat /\ DOMAIN l = 1..Len(l) /\ DOMAIN s = 1..Len(s)
  BY <1>5 DEF IsSequence
<1>9. ASSUME NEW j \in DOMAIN (l \o s), NEW k \in DOMAIN (l \o s),
             (l \o s)[j].kind = "undone", (l \o s)[k].kind = "undone",
             (l \o s)[j].new = (l \o s)[k].new
      PROVE  j = k
  <2>1. CASE j <= Len(l) /\ k <= Len(l)
    <3>1. j \in DOMAIN l /\ k \in DOMAIN l /\ (l \o s)[j] = l[j] /\ (l \o s)[k] = l[k]
      BY <1>7, <1>8, <2>1
    <3> QED
      BY <1>9, <3>1 DEF MarkedOnce
  <2>2. ASSUME NEW a \in DOMAIN (l \o s), NEW b \in DOMAIN (l \o s),
               a <= Len(l), ~(b <= Len(l)),
               (l \o s)[a].kind = "undone", (l \o s)[b].kind = "undone",
               (l \o s)[a].new = (l \o s)[b].new
        PROVE  FALSE
    <3>1. a \in DOMAIN l /\ (l \o s)[a] = l[a]
      BY <1>7, <1>8, <2>2
    <3>2. b - Len(l) \in DOMAIN s /\ (l \o s)[b] = s[b - Len(l)]
      BY <1>7, <1>8, <2>2
    <3>3. ~IsUndone(l, s[b - Len(l)].new)
      BY <1>6, <2>2, <3>2
    <3> QED
      BY <2>2, <3>1, <3>2, <3>3 DEF IsUndone
  <2>3. CASE ~(j <= Len(l)) /\ ~(k <= Len(l))
    <3>1. j - Len(l) \in DOMAIN s /\ (l \o s)[j] = s[j - Len(l)]
          /\ k - Len(l) \in DOMAIN s /\ (l \o s)[k] = s[k - Len(l)]
      BY <1>7, <1>8, <2>3
    <3>2. Len(s) = 1
      BY <1>6, <1>9, <3>1
    <3> QED
      BY <1>7, <1>8, <2>3, <3>2
  <2> QED
    BY <1>9, <2>1, <2>2, <2>3
<1> QED
  BY <1>9 DEF MarkedOnce, s

LEMMA StampMarksEarlier ==
  ASSUME NEW i, lastId[i] \in Nat, NEW l, LogOK(l, lastId[i]), MarksEarlier(l),
         NEW events, IsSequence(events),
         \A k \in DOMAIN events : events[k].kind = "undone" =>
            \E j \in DOMAIN l : l[j].id = events[k].new
  PROVE  MarksEarlier(l \o Stamp(i, events))
<1> DEFINE s == Stamp(i, events)
<1>1. s = [j \in 1..Len(events) |-> s[j]] /\ Len(events) \in Nat /\ DOMAIN events = 1..Len(events)
  BY DEF Stamp, IsSequence
<1>2. \A k \in DOMAIN events :
         s[k].kind = events[k].kind /\ s[k].new = events[k].new /\ s[k].id = lastId[i] + k
  BY DEF Stamp
<1> HIDE DEF s
<1>3. IsSequence(s) /\ Len(s) = Len(events) /\ IsSequence(l)
  BY <1>1, FunctionIsSequence DEF LogOK
<1>4. ASSUME NEW k \in DOMAIN s, s[k].kind = "undone"
      PROVE  s[k].new \in Nat /\ s[k].new < s[k].id
  <2>1. k \in DOMAIN events /\ k \in Nat /\ k > 0
    BY <1>1, <1>3 DEF IsSequence
  <2>2. PICK j \in DOMAIN l : l[j].id = events[k].new
    BY <1>2, <1>4, <2>1
  <2>3. l[j].id \in 1..lastId[i]
    BY DEF LogOK
  <2> DEFINE a == s[k].new
             b == s[k].id
  <2>4. a \in 1..lastId[i] /\ b = lastId[i] + k
    BY <1>2, <2>1, <2>2, <2>3
  <2> HIDE DEF a, b
  <2>5. a \in Nat /\ a < b
    BY <2>1, <2>4
  <2> QED
    BY <2>5 DEF a, b
<1>5. /\ DOMAIN (l \o s) = 1..(Len(l) + Len(s))
      /\ \A k \in 1..(Len(l) + Len(s)) :
            (l \o s)[k] = IF k <= Len(l) THEN l[k] ELSE s[k - Len(l)]
  BY <1>3, ConcatIs
<1>6. Len(l) \in Nat /\ Len(s) \in Nat /\ DOMAIN l = 1..Len(l) /\ DOMAIN s = 1..Len(s)
  BY <1>3 DEF IsSequence
<1>7. ASSUME NEW k \in DOMAIN (l \o s), (l \o s)[k].kind = "undone"
      PROVE  (l \o s)[k].new \in Nat /\ (l \o s)[k].new < (l \o s)[k].id
  <2>1. CASE k <= Len(l)
    <3>1. k \in DOMAIN l /\ (l \o s)[k] = l[k]
      BY <1>5, <1>6, <2>1
    <3> QED
      BY <1>7, <3>1 DEF MarksEarlier
  <2>2. CASE ~(k <= Len(l))
    <3>1. k - Len(l) \in DOMAIN s /\ (l \o s)[k] = s[k - Len(l)]
      BY <1>5, <1>6, <2>2
    <3> QED
      BY <1>4, <1>7, <3>1
  <2> QED
    BY <2>1, <2>2
<1> QED
  BY <1>7 DEF MarksEarlier, s

\* What a write appends keeps the markers in order.
LEMMA StampMarksOK ==
  ASSUME NEW i, lastId[i] \in Nat, NEW l, LogOK(l, lastId[i]), MarksOK(l),
         NEW events, IsSequence(events),
         \A k \in DOMAIN events : events[k].kind = "undone" =>
            /\ Len(events) = 1 /\ ~IsUndone(l, events[k].new)
            /\ \E j \in DOMAIN l : l[j].id = events[k].new
  PROVE  MarksOK(l \o Stamp(i, events))
<1>1. MarkedOnce(l \o Stamp(i, events))
  BY StampMarksOnce DEF LogOK, MarksOK
<1>2. MarksEarlier(l \o Stamp(i, events))
  BY StampMarksEarlier DEF MarksOK
<1> QED
  BY <1>1, <1>2 DEF MarksOK

-----------------------------------------------------------------------------
(* What each write changes of the columns                                        *)

\* An update leaves the holder and the status unless it is asked to change them.
LEMMA UpdatedColumns ==
  ASSUME NEW r \in Row, NEW q
  PROVE  /\ ~Changes(q.assignee, r.assignee) => UpdatedRow(r, q).assignee = r.assignee
         /\ ~Changes(q.status, r.status) => UpdatedRow(r, q).status = r.status
<1> DEFINE s == IF Changes(q.status, r.status)
                THEN StatusSet(r, q.status, q.commit) ELSE r
           a == IF Changes(q.assignee, r.assignee)
                THEN Assigned(s, q.assignee, q.commit) ELSE s
           Cols == {"status", "assignee", "claimedAt", "claimCommit", "leaseEnd", "closedAt",
                    "closeCommit", "fields", "priority"}
<1>1. r = [c \in Cols |-> r[c]]
  BY DEF Row
<1>2. s = [c \in Cols |-> s[c]] /\ s.assignee = r.assignee
      /\ (~Changes(q.status, r.status) => s.status = r.status)
  BY <1>1 DEF StatusSet, Closed, NotClosed
<1> HIDE DEF s
<1>3. a = [c \in Cols |-> a[c]] /\ a.status = s.status
      /\ (~Changes(q.assignee, r.assignee) => a.assignee = s.assignee)
  BY <1>2 DEF Assigned, Unheld, HeldBy
<1>4. UpdatedRow(r, q) = [a EXCEPT !.priority = IF q.priority = Nil THEN @ ELSE q.priority,
                                   !.fields = MergedFields(r, q)]
  BY DEF UpdatedRow, s
<1> HIDE DEF a
<1>5. UpdatedRow(r, q).assignee = a.assignee /\ UpdatedRow(r, q).status = a.status
  BY <1>3, <1>4
<1> QED
  BY <1>2, <1>3, <1>5

\* An allowed update explains itself, and revives nothing.
LEMMA UpdateExplains ==
  ASSUME NEW r \in Row, NEW q \in Updates, NEW actor \in Holder, NEW backward \in BOOLEAN,
         NEW checked \in BOOLEAN, TransitionAllowed(r, q, backward), NEW before
  PROVE  /\ Explains(r, UpdatedRow(r, q), UpdateEvents(r, q, actor, backward, checked), before)
         /\ IsSequence(UpdateEvents(r, q, actor, backward, checked))
         /\ Unmarking(UpdateEvents(r, q, actor, backward, checked))
<1> DEFINE events == UpdateEvents(r, q, actor, backward, checked)
           e == Event("assignee_changed", actor, r.assignee, q.assignee)
           s == UpdatedRow(r, q)
<1>0. q.commit \in BOOLEAN
  BY DEF Updates
<1>1. IsSequence(events) /\ Unmarking(events) /\ (Changes(q.assignee, r.assignee) => Has(events, e))
  BY <1>0, UpdateConduct
<1>2. ~Revives(r, s)
  <2>1. CASE Changes(q.status, r.status)
    BY <2>1, MovesBetweenStates, TemplateAssumption DEF Revives
  <2>2. CASE ~Changes(q.status, r.status)
    BY <2>2, UpdatedColumns DEF Revives
  <2> QED
    BY <2>1, <2>2
<1>3. TellsLoss(e, r.assignee)
  BY DEF TellsLoss, Event
<1> HIDE DEF events, e, s
<1>4. LosesHolder(r, s) => \E k \in DOMAIN events : TellsLoss(events[k], r.assignee)
  <2> SUFFICES ASSUME LosesHolder(r, s) PROVE \E k \in DOMAIN events : TellsLoss(events[k], r.assignee)
    OBVIOUS
  <2>1. Changes(q.assignee, r.assignee)
    BY UpdatedColumns DEF LosesHolder, s
  <2> QED
    BY <1>1, <1>3, <2>1 DEF Has
<1>5. Explains(r, s, events, before)
  BY <1>1, <1>2, <1>4 DEF Explains, Unmarking
<1> QED
  BY <1>1, <1>5 DEF events, s

-----------------------------------------------------------------------------
(* Every step keeps to the conduct                                               *)

Marked == \A i \in Live : MarksOK(log[i])

LEMMA WriteStep ==
  ASSUME Inv, NEW i \in Live, NEW newRow, NEW events, IsSequence(events),
         Explains(row[i], newRow, events, log[i]), Write(i, newRow, events)
  PROVE  Conduct /\ (Marked => Marked')
<1>1. Conduct
  BY WriteConduct
<1>2. ASSUME Marked, NEW j \in DOMAIN row PROVE MarksOK(log'[j])
  <2>1. DOMAIN log = DOMAIN row /\ LogOK(log[i], lastId[i]) /\ lastId[i] \in Nat
    BY DEF Inv, TypeOK, Live
  <2>2. CASE j = i
    <3>1. log'[i] = log[i] \o Stamp(i, events)
      BY <2>1 DEF Write, Live
    <3>2. MarksOK(log[i] \o Stamp(i, events))
      BY <1>2, <2>1, StampMarksOK DEF Marked, Explains
    <3> QED
      BY <2>2, <3>1, <3>2
  <2>3. CASE j # i
    BY <1>2, <2>1, <2>3 DEF Write, Live, Marked
  <2> QED
    BY <2>2, <2>3
<1>3. DOMAIN row' = DOMAIN row
  BY DEF Write
<1> QED
  BY <1>1, <1>2, <1>3 DEF Marked, Live

LEMMA UpdateStep ==
  ASSUME Inv, NEW i, NEW actor \in Holder, NEW expected, NEW q \in UpdateRequest,
         Update(i, actor, expected, q)
  PROVE  Conduct /\ (Marked => Marked')
<1>1. i \in Live /\ q \in Updates /\ row[i] \in Row
  BY LiveRow, StoreAssumption DEF Update
<1>2. /\ TransitionAllowed(row[i], q, FALSE)
      /\ Write(i, UpdatedRow(row[i], q), UpdateEvents(row[i], q, actor, FALSE, FALSE))
  BY DEF Update
<1>3. /\ Explains(row[i], UpdatedRow(row[i], q), UpdateEvents(row[i], q, actor, FALSE, FALSE), log[i])
      /\ IsSequence(UpdateEvents(row[i], q, actor, FALSE, FALSE))
  BY <1>1, <1>2, UpdateExplains
<1> QED
  BY <1>1, <1>2, <1>3, WriteStep

LEMMA CloseStep ==
  ASSUME Inv, NEW i, NEW actor \in Holder, NEW expected, NEW target, NEW reason \in BOOLEAN,
         NEW force \in BOOLEAN, NEW commit \in BOOLEAN,
         Close(i, actor, expected, target, reason, force, commit)
  PROVE  Conduct /\ (Marked => Marked')
<1> DEFINE q == CloseRequest(row[i], target, reason, commit)
<1>1. i \in Live /\ row[i] \in Row /\ CloseTarget(target) \in StateSet
  BY LiveRow DEF Close, Closable
<1>a. q \in Updates
  <2> DEFINE s == CloseTarget(target)
             F == IF reason THEN row[i].fields \cup {CloseReason} ELSE Nil
  <2>1. F \in {Nil} \cup SUBSET Field
    BY <1>1, StoreAssumption DEF Row
  <2>2. q = [StatusRequest(s) EXCEPT !.fields = F, !.commit = commit]
    BY DEF CloseRequest
  <2> HIDE DEF s, F, q
  <2>3. s \in StateSet
    BY <1>1 DEF s
  <2> QED
    BY <2>1, <2>2, <2>3, RequestTyped
<1>2. /\ TransitionAllowed(row[i], q, force)
      /\ Write(i, UpdatedRow(row[i], q), UpdateEvents(row[i], q, actor, force, TRUE))
  BY DEF Close, Closable
<1> HIDE DEF q
<1>3. /\ Explains(row[i], UpdatedRow(row[i], q), UpdateEvents(row[i], q, actor, force, TRUE), log[i])
      /\ IsSequence(UpdateEvents(row[i], q, actor, force, TRUE))
  BY <1>1, <1>a, <1>2, UpdateExplains
<1> QED
  BY <1>1, <1>2, <1>3, WriteStep

\* Events that mark nothing may follow those of an update.
LEMMA ExplainsMore ==
  ASSUME NEW r, NEW s, NEW a, NEW b, NEW before, IsSequence(a), IsSequence(b),
         Unmarking(a), Unmarking(b), Explains(r, s, a, before)
  PROVE  IsSequence(a \o b) /\ Unmarking(a \o b) /\ Explains(r, s, a \o b, before)
<1>1. IsSequence(a \o b) /\ Unmarking(a \o b)
  BY UnmarkingConcat
<1>2. ASSUME LosesHolder(r, s) PROVE \E k \in DOMAIN (a \o b) : TellsLoss((a \o b)[k], r.assignee)
  <2>1. PICK k \in DOMAIN a : TellsLoss(a[k], r.assignee)
    BY <1>2 DEF Explains
  <2>2. Has(a, a[k])
    BY DEF Has
  <2>3. Has(a \o b, a[k])
    BY <2>2, HasInConcat
  <2> QED
    BY <2>1, <2>3 DEF Has
<1>3. ~Revives(r, s)
  BY DEF Explains, Unmarking
<1> QED
  BY <1>1, <1>2, <1>3 DEF Explains, Unmarking

\* Only the holder and the status of the row count.
LEMMA ExplainsSame ==
  ASSUME NEW r, NEW s, NEW t, NEW events, NEW before, Explains(r, s, events, before),
         t.assignee = s.assignee, t.status = s.status
  PROVE  Explains(r, t, events, before)
  BY DEF Explains, LosesHolder, Revives

LEMMA ReopenStep ==
  ASSUME Inv, NEW i, NEW actor \in Holder, Reopen(i, actor)
  PROVE  Conduct /\ (Marked => Marked')
<1> DEFINE r == row[i]
           s == ReopenTarget(log[i])
           q == StatusRequest(s)
           kept == r.fields \ {CloseReason}
           u == [UpdatedRow(r, q) EXCEPT !.fields = kept]
           e1 == UpdateEvents(r, q, actor, TRUE, FALSE)
           e2 == When(kept # r.fields, Event("fields_changed", actor, r.fields, kept))
           e3 == <<Event("reopened", actor, r.status, s)>>
<1>1. i \in Live /\ r \in Row /\ q \in Updates
  BY LiveRow, ReopenTargetOpen, StatusRequestTyped DEF Reopen
<1>2. TransitionAllowed(r, q, TRUE) /\ Write(i, u, e1 \o e2 \o e3)
  BY DEF Reopen
<1>3. /\ RowOK(UpdatedRow(r, q))
  <2>1. RowOK(r) /\ q \in Updates /\ now \in Nat
    BY <1>1, LiveRow, ReopenTargetOpen, StatusRequestTyped
  <2> HIDE DEF q, r
  <2> QED
    BY <2>1, UpdatedRowOK
<1>4. u.assignee = UpdatedRow(r, q).assignee /\ u.status = UpdatedRow(r, q).status
  BY <1>3 DEF RowOK, Row
<1>5. IsSequence(e2) /\ Unmarking(e2)
  BY WhenConduct DEF Event
<1>6. IsSequence(e3) /\ Unmarking(e3)
  BY DEF Event, IsSequence, Unmarking
<1> HIDE DEF u, q, e2, e3
<1>7. IsSequence(e1) /\ Unmarking(e1) /\ Explains(r, u, e1, log[i])
  <2>1. IsSequence(e1) /\ Unmarking(e1) /\ Explains(r, UpdatedRow(r, q), e1, log[i])
    BY <1>1, <1>2, UpdateExplains
  <2> HIDE DEF e1
  <2> QED
    BY <1>4, <2>1, ExplainsSame
<1> HIDE DEF e1
<1>8. IsSequence(e1 \o e2) /\ Unmarking(e1 \o e2) /\ Explains(r, u, e1 \o e2, log[i])
  BY <1>5, <1>7, ExplainsMore
<1>9. IsSequence(e1 \o e2 \o e3) /\ Explains(r, u, e1 \o e2 \o e3, log[i])
  BY <1>6, <1>8, ExplainsMore
<1> QED
  BY <1>1, <1>2, <1>9, WriteStep DEF r

\* A single event that is not an undo marker.
LEMMA SingleExplains ==
  ASSUME NEW r, NEW s, NEW e, e.kind # "undone", NEW before, ~Revives(r, s),
         LosesHolder(r, s) => TellsLoss(e, r.assignee)
  PROVE  IsSequence(<<e>>) /\ Unmarking(<<e>>) /\ Explains(r, s, <<e>>, before)
<1>1. DOMAIN <<e>> = {1} /\ <<e>>[1] = e
  OBVIOUS
<1>2. IsSequence(<<e>>)
  BY DEF IsSequence
<1> QED
  BY <1>1, <1>2 DEF Unmarking, Explains

LEMMA ClaimStep ==
  ASSUME Inv, NEW i, NEW a \in Agent, NEW actor \in Holder, NEW commit \in BOOLEAN,
         NEW request, Claim(i, a, actor, commit, request)
  PROVE  Conduct /\ (Marked => Marked')
<1> DEFINE r == row[i]
           s == Claimed(r, a, commit)
           e == [Event("claimed", actor, r.assignee, a) EXCEPT !.note = request]
<1>1. i \in Live /\ r \in Row
  BY LiveRow DEF Claim
<1>2. r.status \in StateSet /\ r.assignee \in {NoOne, a} /\ Write(i, s, <<e>>)
  BY DEF Claim, Claimable
<1>3. s.assignee = a
  BY <1>1 DEF Claimed, Row
<1>4. ~Revives(r, s) /\ ~LosesHolder(r, s)
  BY <1>2, <1>3, TemplateAssumption DEF Revives, LosesHolder
<1>5. e.kind # "undone"
  BY DEF Event
<1> HIDE DEF r, s, e
<1>6. IsSequence(<<e>>) /\ Explains(r, s, <<e>>, log[i])
  BY <1>4, <1>5, SingleExplains
<1> QED
  BY <1>1, <1>2, <1>6, WriteStep DEF r

LEMMA ReleaseStep ==
  ASSUME Inv, NEW i, NEW actor \in Holder, NEW expected,
         NEW override \in BOOLEAN, NEW revert \in BOOLEAN,
         Release(i, actor, expected, override, revert)
  PROVE  Conduct /\ (Marked => Marked')
<1> DEFINE r == row[i]
           target == ReleaseTo(r, revert)
           s == Released(r, target)
           e == Event(IF r.assignee = actor THEN "released" ELSE "released_by_override",
                      actor, r.assignee, Nil)
           e2 == When(target # Nil, Event("transition_forced", actor, r.status, target))
           e3 == When(target # Nil, Event("status_changed", actor, r.status, target))
<1>1. i \in Live /\ ~IsDone(r.status) /\ Write(i, s, <<e>> \o e2 \o e3)
  BY DEF Release, ReleaseEvents
<1>2. TellsLoss(e, r.assignee) /\ e.kind # "undone"
  BY DEF TellsLoss, Event
<1>3. ~Revives(r, s)
  BY <1>1, ArchivedIsDone DEF Revives
<1>4. /\ IsSequence(e2) /\ Unmarking(e2)
      /\ IsSequence(e3) /\ Unmarking(e3)
  BY WhenConduct DEF Event
<1> HIDE DEF r, target, s, e, e2, e3
<1>5. IsSequence(<<e>>) /\ Unmarking(<<e>>) /\ Explains(r, s, <<e>>, log[i])
  BY <1>2, <1>3, SingleExplains
<1> DEFINE one == <<e>>
<1> HIDE DEF one
<1>6. IsSequence(one \o e2) /\ Unmarking(one \o e2) /\ Explains(r, s, one \o e2, log[i])
  BY <1>4, <1>5, ExplainsMore DEF one
<1>7. IsSequence(one \o e2 \o e3) /\ Explains(r, s, one \o e2 \o e3, log[i])
  BY <1>4, <1>6, ExplainsMore
<1> QED
  BY <1>1, <1>7, WriteStep DEF one, r

LEMMA HeartbeatStep ==
  ASSUME Inv, NEW i, NEW actor \in Holder, NEW expected, NEW override,
         Heartbeat(i, actor, expected, override)
  PROVE  Conduct /\ (Marked => Marked')
<1> DEFINE r == row[i]
           s == [r EXCEPT !.leaseEnd = now + LeaseLength]
           e == Event(IF r.assignee = actor THEN "heartbeat"
                      ELSE "heartbeat_by_override", actor, r.assignee, Nil)
<1>1. i \in Live /\ r \in Row /\ Write(i, s, <<e>>)
  BY LiveRow DEF Heartbeat
<1>2. s.assignee = r.assignee /\ s.status = r.status
  BY <1>1 DEF Row
<1>3. ~Revives(r, s) /\ ~LosesHolder(r, s)
  BY <1>2 DEF Revives, LosesHolder
<1>4. e.kind # "undone"
  BY DEF Event
<1> HIDE DEF r, s, e
<1>5. IsSequence(<<e>>) /\ Explains(r, s, <<e>>, log[i])
  BY <1>3, <1>4, SingleExplains
<1> QED
  BY <1>1, <1>5, WriteStep DEF r

LEMMA ReclaimStep ==
  ASSUME Inv, NEW i, NEW a \in Agent, NEW expected, NEW actor \in Holder,
         NEW commit \in BOOLEAN, Reclaim(i, a, expected, actor, commit)
  PROVE  Conduct /\ (Marked => Marked')
<1> DEFINE r == row[i]
           s == HeldBy(r, a, commit)
           e == Event("reclaimed", actor, expected, a)
<1>1. i \in Live /\ ~IsDone(r.status) /\ r.assignee = expected /\ Write(i, s, <<e>>)
  BY DEF Reclaim
<1>2. TellsLoss(e, r.assignee) /\ e.kind # "undone"
  BY <1>1 DEF TellsLoss, Event
<1>3. ~Revives(r, s)
  BY <1>1, ArchivedIsDone DEF Revives
<1> HIDE DEF r, s, e
<1>4. IsSequence(<<e>>) /\ Explains(r, s, <<e>>, log[i])
  BY <1>2, <1>3, SingleExplains
<1> QED
  BY <1>1, <1>4, WriteStep DEF r

\* An undo is the one write that marks, and what it marks was not marked yet.
LEMMA UndoStep ==
  ASSUME Inv, NEW i, NEW actor \in Holder, NEW expectedEvent, NEW override,
         Undo(i, actor, expectedEvent, override)
  PROVE  Conduct /\ (Marked => Marked')
<1> DEFINE r == row[i]
           t == UndoTarget(i)
           s == Reverted(r, t)
           e == [Event("undone", actor, t.kind, expectedEvent) EXCEPT
                    !.note = IF MayUndo(r, actor, FALSE) THEN Nil ELSE r.assignee]
<1>1. /\ i \in Live /\ Undoable(log[i]) # {} /\ t.id = expectedEvent
      /\ Write(i, s, <<e>>)
  BY DEF Undo
<1>2. e.kind = "undone" /\ e.actor = actor /\ e.new = expectedEvent
      /\ (~MayUndo(r, actor, FALSE) => e.note = r.assignee)
  BY DEF Event
<1>3. ~IsUndone(log[i], t.id) /\ \E j \in DOMAIN log[i] : log[i][j].id = t.id
  <2>1. Newest(Undoable(log[i])) \in Undoable(log[i])
    <3>1. Undoable(log[i]) \subseteq DOMAIN log[i] /\ IsSequence(log[i])
      BY <1>1, LiveRow DEF Undoable, LogOK
    <3> QED
      BY <1>1, <3>1, NewestIsMember
  <2> QED
    BY <2>1 DEF UndoTarget, Undoable
<1>4. LosesHolder(r, s) => TellsLoss(e, r.assignee)
  BY <1>2 DEF LosesHolder, TellsLoss, MayUndo
<1>5. e.new = t.id
  BY <1>1, <1>2
<1> HIDE DEF r, t, s, e
<1>6. IsSequence(<<e>>) /\ Len(<<e>>) = 1 /\ DOMAIN <<e>> = {1} /\ <<e>>[1] = e
  BY DEF IsSequence
<1>7. Explains(r, s, <<e>>, log[i])
  BY <1>2, <1>3, <1>4, <1>5, <1>6 DEF Explains
<1> QED
  BY <1>1, <1>6, <1>7, WriteStep DEF r

-----------------------------------------------------------------------------
(* Writes of several issues, and those that write no event                       *)

LEMMA CreateStep ==
  ASSUME Inv, NEW i \in Issue, NEW actor \in Holder, NEW q, Create(i, actor, q)
  PROVE  Conduct /\ (Marked => Marked')
<1> DEFINE l == Stamp(i, <<Event("created", actor, Nil, Nil)>>)
<1>1. i \notin Live /\ DOMAIN row' = Live \cup {i}
  BY DEF Create
<1>2. \A j \in Live : row'[j] = row[j] /\ log'[j] = log[j]
  BY <1>1 DEF Create
<1>3. log'[i] = l
  BY DEF Create
<1>4. MarksOK(l)
  <2>1. DOMAIN l = {1} /\ l[1].kind # "undone"
    BY DEF Stamp, Event
  <2> HIDE DEF l
  <2> QED
    BY <2>1 DEF MarksOK, MarkedOnce, MarksEarlier
<1>5. Conduct
  BY <1>2 DEF Conduct, LosesHolder, Revives
<1> HIDE DEF l
<1>6. Marked => Marked'
  BY <1>1, <1>2, <1>3, <1>4 DEF Marked, Live
<1> QED
  BY <1>5, <1>6

LEMMA ArchiveStep ==
  ASSUME Inv, NEW actor \in Holder, NEW age, ArchiveClosed(actor, age)
  PROVE  Conduct /\ (Marked => Marked')
<1> DEFINE S == Archivable(age)
           events == <<Event("archived", actor, Nil, Nil)>>
<1>1. /\ row' = [i \in Live |-> IF i \in S
                    THEN [row[i] EXCEPT !.status = Archived] ELSE row[i]]
      /\ log' = [i \in Live |-> IF i \in S THEN log[i] \o Stamp(i, events) ELSE log[i]]
  BY DEF ArchiveClosed
<1>2. \A i \in S : row[i].status \in StateSet
  BY DEF Archivable
<1>3. IsSequence(events) /\ \A k \in DOMAIN events : events[k].kind # "undone"
  BY DEF IsSequence, Event
<1> HIDE DEF S, events
<1>4. ASSUME NEW i \in Live
      PROVE  ~LosesHolder(row[i], row'[i]) /\ ~Revives(row[i], row'[i])
  <2>1. CASE i \in S
    <3>1. row'[i] = [row[i] EXCEPT !.status = Archived] /\ row[i] \in Row
      BY <1>1, <2>1, LiveRow
    <3>2. row'[i].assignee = row[i].assignee /\ row[i].status # Archived
      BY <1>2, <2>1, <3>1, TemplateAssumption DEF Row
    <3> QED
      BY <3>2 DEF LosesHolder, Revives
  <2>2. CASE i \notin S
    BY <1>1, <2>2 DEF LosesHolder, Revives
  <2> QED
    BY <2>1, <2>2
<1>5. ASSUME Marked, NEW i \in Live PROVE MarksOK(log'[i])
  <2>1. MarksOK(log[i]) /\ LogOK(log[i], lastId[i]) /\ lastId[i] \in Nat
    BY <1>5, LiveRow DEF Marked, Inv, TypeOK
  <2>2. CASE i \in S
    <3>1. MarksOK(log[i] \o Stamp(i, events))
      BY <1>3, <2>1, StampMarksOK
    <3> QED
      BY <1>1, <2>2, <3>1
  <2>3. CASE i \notin S
    BY <1>1, <2>1, <2>3
  <2> QED
    BY <2>2, <2>3
<1>6. DOMAIN row' = Live
  BY <1>1
<1>7. Conduct
  BY <1>4, <1>6 DEF Conduct
<1>8. Marked => Marked'
  BY <1>5, <1>6 DEF Marked, Live
<1> QED
  BY <1>7, <1>8

\* What compaction keeps is a suffix of the log.
LEMMA KeptIsSuffix ==
  ASSUME NEW events, IsSequence(events), NEW keep \in Nat
  PROVE  \E d \in Nat :
            /\ d <= Len(events)
            /\ DOMAIN Kept(events, keep) = 1..(Len(events) - d)
            /\ \A k \in 1..(Len(events) - d) : Kept(events, keep)[k] = events[k + d]
<1> DEFINE n == Len(events)
           b == SubSeq(events, n - keep + 1, n)
<1>1. n \in Nat /\ DOMAIN events = 1..n
  BY DEF IsSequence
<1>2. CASE n <= keep
  <2>1. Kept(events, keep) = events
    BY <1>2 DEF Kept
  <2>2. 0 \in Nat /\ 0 <= n /\ n - 0 = n /\ \A k \in 1..n : k + 0 = k
    BY <1>1
  <2> HIDE DEF n
  <2> QED
    BY <1>1, <2>1, <2>2 DEF n
<1>3. CASE ~(n <= keep)
  <2> DEFINE d == n - keep
  <2>1. d \in Nat /\ d <= n /\ n - d = keep
    BY <1>1, <1>3
  <2>2. b = [k \in 1..keep |-> events[k + d]]
    BY <1>1, <1>3
  <2>3. Kept(events, keep) = b
    BY <1>3 DEF Kept
  <2> HIDE DEF b, d
  <2>4. DOMAIN b = 1..keep /\ \A k \in 1..keep : b[k] = events[k + d]
    BY <2>2
  <2> QED
    BY <2>1, <2>3, <2>4
<1> QED
  BY <1>2, <1>3

LEMMA KeptMarksOK ==
  ASSUME NEW events, IsSequence(events), MarksOK(events), NEW keep \in Nat
  PROVE  MarksOK(Kept(events, keep))
<1> DEFINE n == Len(events)
           b == Kept(events, keep)
<1>1. n \in Nat /\ DOMAIN events = 1..n
  BY DEF IsSequence
<1>2. PICK d \in Nat : /\ d <= n /\ DOMAIN b = 1..(n - d)
                       /\ \A k \in 1..(n - d) : b[k] = events[k + d]
  BY KeptIsSuffix
<1> HIDE DEF n, b
<1>3. ASSUME NEW k \in DOMAIN b PROVE k + d \in DOMAIN events /\ b[k] = events[k + d]
  BY <1>1, <1>2
<1>4. ASSUME NEW j \in DOMAIN b, NEW k \in DOMAIN b,
             b[j].kind = "undone", b[k].kind = "undone", b[j].new = b[k].new
      PROVE  j = k
  <2>1. j + d = k + d
    BY <1>3, <1>4 DEF MarksOK, MarkedOnce
  <2> QED
    BY <1>1, <1>2, <2>1
<1>5. ASSUME NEW k \in DOMAIN b, b[k].kind = "undone"
      PROVE  b[k].new \in Nat /\ b[k].new < b[k].id
  BY <1>3, <1>5 DEF MarksOK, MarksEarlier
<1> QED
  BY <1>4, <1>5 DEF MarksOK, MarkedOnce, MarksEarlier, b

\* The newest position of a set is its greatest element.
LEMMA NewestIs ==
  ASSUME NEW events, IsSequence(events), NEW K, K \subseteq DOMAIN events, K # {}
  PROVE  Newest(K) \in K /\ \A j \in K : j <= Newest(K)
<1> DEFINE n == Len(events)
<1>1. n \in Nat /\ K \subseteq 1..n
  BY DEF IsSequence
<1> HIDE DEF n
<1>2. \E k \in K : \A j \in K : j <= k
  BY <1>1, GreatestInSet
<1> QED
  BY <1>2 DEF Newest

\* In what compaction keeps, the events that may be undone are those that could be
\* before: the marker of an event comes after it, so it is kept with it.
LEMMA KeptUndoable ==
  ASSUME NEW events, NEW last, LogOK(events, last), MarksEarlier(events),
         NEW d \in Nat, d <= Len(events), NEW b, DOMAIN b = 1..(Len(events) - d),
         \A k \in 1..(Len(events) - d) : b[k] = events[k + d]
  PROVE  \A k \in DOMAIN b : k \in Undoable(b) <=> k + d \in Undoable(events)
<1> DEFINE n == Len(events)
<1>1. n \in Nat /\ DOMAIN events = 1..n
  BY DEF LogOK, IsSequence
<1> SUFFICES ASSUME NEW k \in DOMAIN b
             PROVE  k \in Undoable(b) <=> k + d \in Undoable(events)
  OBVIOUS
<1>2. \A m \in DOMAIN b : m \in Nat /\ m + d \in DOMAIN events /\ b[m] = events[m + d]
  BY <1>1
<1>3. IsUndone(b, b[k].id) => IsUndone(events, b[k].id)
  BY <1>2 DEF IsUndone
<1>4. ASSUME IsUndone(events, b[k].id) PROVE IsUndone(b, b[k].id)
  <2>1. PICK m \in DOMAIN events : events[m].kind = "undone" /\ events[m].new = b[k].id
    BY <1>4 DEF IsUndone
  <2> DEFINE x == events[m].id
             y == events[k + d].id
             c == k + d
  <2>2. x \in Nat /\ y \in Nat /\ y < x
    BY <1>2, <2>1 DEF MarksEarlier, LogOK
  <2>3. c \in DOMAIN events /\ c \in Nat /\ m \in Nat
    BY <1>1, <1>2
  <2>4. m < c => x < y
    BY <2>3 DEF LogOK
  <2>5. m = c => x = y
    OBVIOUS
  <2> HIDE DEF x, y
  <2>6. ~(m < c) /\ m # c
    BY <2>2, <2>4, <2>5
  <2>7. m - d \in 1..(n - d) /\ (m - d) + d = m
    BY <1>1, <1>2, <2>3, <2>6
  <2> HIDE DEF n, c
  <2>8. m - d \in DOMAIN b /\ b[m - d] = events[m]
    BY <2>7 DEF n
  <2> QED
    BY <2>1, <2>8 DEF IsUndone
<1> QED
  BY <1>2, <1>3, <1>4 DEF Undoable

LEMMA KeptUndoTarget ==
  ASSUME NEW events, NEW last, LogOK(events, last), MarksEarlier(events), NEW keep \in Nat,
         Undoable(Kept(events, keep)) # {}
  PROVE  Kept(events, keep)[Newest(Undoable(Kept(events, keep)))].id
            = events[Newest(Undoable(events))].id
<1> DEFINE n == Len(events)
           b == Kept(events, keep)
           U == Undoable(b)
           V == Undoable(events)
           u == Newest(U)
           v == Newest(V)
<1>1. IsSequence(events) /\ n \in Nat /\ DOMAIN events = 1..n
  BY DEF LogOK, IsSequence
<1>2. PICK d \in Nat : /\ d <= n /\ DOMAIN b = 1..(n - d)
                       /\ \A k \in 1..(n - d) : b[k] = events[k + d]
  BY <1>1, KeptIsSuffix
<1>3. \A k \in DOMAIN b : k \in U <=> k + d \in V
  BY <1>2, KeptUndoable
<1>4. U \subseteq DOMAIN b /\ V \subseteq DOMAIN events /\ U # {}
  BY DEF Undoable
<1>5. IsSequence(b)
  <2>1. LogOK(b, last)
    BY KeptOK
  <2> QED
    BY <2>1 DEF LogOK
<1> HIDE DEF U, V, b
<1>6. u \in U /\ \A j \in U : j <= u
  BY <1>4, <1>5, NewestIs
<1>7. u \in DOMAIN b /\ u + d \in V
  BY <1>3, <1>4, <1>6
<1>8. v \in V /\ \A j \in V : j <= v
  BY <1>1, <1>4, <1>7, NewestIs
<1> HIDE DEF u, v
<1>9. u \in 1..(n - d) /\ v \in 1..n /\ u + d <= v
  BY <1>1, <1>2, <1>4, <1>7, <1>8
<1>10. v - d \in 1..(n - d) /\ (v - d) + d = v
  BY <1>1, <1>2, <1>9
<1>11. v - d \in U
  BY <1>2, <1>3, <1>8, <1>10
<1>12. v - d <= u
  BY <1>6, <1>11
<1>13. u + d = v
  BY <1>1, <1>2, <1>9, <1>12
<1>14. b[u] = events[v]
  BY <1>2, <1>9, <1>13
<1> QED
  BY <1>14 DEF u, v, U, V, b

LEMMA CompactStep ==
  ASSUME Inv, NEW keep \in KeepRecent, CompactEvents(keep)
  PROVE  Conduct /\ (Marked => Marked')
<1>1. /\ log' = [i \in Live |-> IF row[i].status = Archived
                                THEN Kept(log[i], keep) ELSE log[i]]
      /\ row' = row
  BY DEF CompactEvents
<1>2. keep \in Nat
  BY StoreAssumption
<1>3. ASSUME Marked, NEW i \in Live PROVE MarksOK(log'[i])
  <2>1. MarksOK(log[i]) /\ IsSequence(log[i])
    BY <1>3, LiveRow DEF Marked, LogOK
  <2> QED
    BY <1>1, <1>2, <2>1, KeptMarksOK
<1>4. Conduct
  BY <1>1 DEF Conduct, LosesHolder, Revives
<1> QED
  BY <1>1, <1>3, <1>4 DEF Marked, Live

LEMMA DeleteStep ==
  ASSUME Inv, NEW i, NEW force, Delete(i, force)
  PROVE  Conduct /\ (Marked => Marked')
<1>1. row' = [j \in Live \ {i} |-> row[j]] /\ log' = [j \in Live \ {i} |-> log[j]]
  BY DEF Delete
<1>2. Conduct
  BY <1>1 DEF Conduct, LosesHolder, Revives
<1>3. Marked => Marked'
  BY <1>1 DEF Marked, Live
<1> QED
  BY <1>2, <1>3

LEMMA IdleStep ==
  ASSUME Inv, Tick \/ UNCHANGED vars
  PROVE  Conduct /\ (Marked => Marked')
<1>1. row' = row /\ log' = log
  BY DEF Tick, vars
<1> QED
  BY <1>1 DEF Conduct, LosesHolder, Revives, Marked, Live

LEMMA StatusWriteStep ==
  ASSUME Inv, NEW i \in Issue, StatusWrite(i)
  PROVE  Conduct /\ (Marked => Marked')
<1>1. CASE \E actor \in Holder, expected \in Expected, q \in UpdateRequest :
              Update(i, actor, expected, q)
  BY <1>1, UpdateStep
<1>2. CASE \E actor \in Holder, expected \in Expected, s \in StateSet \cup {Nil},
              reason, force, commit \in BOOLEAN :
              Close(i, actor, expected, s, reason, force, commit)
  BY <1>2, CloseStep
<1>3. CASE \E actor \in Holder : Reopen(i, actor)
  BY <1>3, ReopenStep
<1> QED
  BY <1>1, <1>2, <1>3 DEF StatusWrite

LEMMA ClaimWriteStep ==
  ASSUME Inv, NEW i \in Issue, ClaimWrite(i)
  PROVE  Conduct /\ (Marked => Marked')
<1>1. CASE \E a \in Agent, actor \in Holder, commit \in BOOLEAN,
              request \in RequestId \cup {Nil} : Claim(i, a, actor, commit, request)
  BY <1>1, ClaimStep
<1>2. CASE \E actor \in Holder, expected \in Agent \cup {Nil},
              override, revert \in BOOLEAN :
              Release(i, actor, expected, override, revert)
  BY <1>2, ReleaseStep
<1>3. CASE \E actor \in Holder, expected \in Agent \cup {Nil}, override \in BOOLEAN :
              Heartbeat(i, actor, expected, override)
  BY <1>3, HeartbeatStep
<1>4. CASE \E a, expected \in Agent, actor \in Holder, commit \in BOOLEAN :
              Reclaim(i, a, expected, actor, commit)
  BY <1>4, ReclaimStep
<1> QED
  BY <1>1, <1>2, <1>3, <1>4 DEF ClaimWrite

LEMMA NextStep ==
  ASSUME Inv, [Next]_vars
  PROVE  Conduct /\ (Marked => Marked')
<1>1. CASE \E i \in Issue, actor \in Holder, q \in CreateRequest : Create(i, actor, q)
  BY <1>1, CreateStep
<1>2. CASE \E i \in Issue : StatusWrite(i) \/ ClaimWrite(i)
  BY <1>2, StatusWriteStep, ClaimWriteStep
<1>3. CASE \E i \in Issue, actor \in Holder, id \in 1..MaxEvents,
              override \in BOOLEAN : Undo(i, actor, id, override)
  BY <1>3, UndoStep
<1>4. CASE Maintenance
  BY <1>4, ArchiveStep, CompactStep, DeleteStep, IdleStep DEF Maintenance
<1>5. CASE UNCHANGED vars
  BY <1>5, IdleStep
<1> QED
  BY <1>1, <1>2, <1>3, <1>4, <1>5 DEF Next

-----------------------------------------------------------------------------
(* The theorems                                                                  *)

(* A live claim leaves its holder only by an event that names the holder or is    *)
(* the holder's own: release, reclaim, reassignment or undo; a plain claim, a      *)
(* close or a maintenance run never displaces anyone.                              *)
THEOREM ClaimsNeverStolen == Spec => ClaimsNotStolen
<1>1. ASSUME Inv, [Next]_vars
      PROVE  \A i \in Live \cap DOMAIN row' :
                /\ row[i].assignee \notin {NoOne, row'[i].assignee}
                /\ ~IsDone(row[i].status)
                => LosesClaim(i)
  BY <1>1, NextStep DEF Conduct, LosesHolder
<1>2. Inv /\ [Next]_vars =>
        [\A i \in Live \cap DOMAIN row' :
            /\ row[i].assignee \notin {NoOne, row'[i].assignee}
            /\ ~IsDone(row[i].status)
            => LosesClaim(i)]_vars
  BY <1>1
<1> QED
  BY <1>2, Invariance, PTL DEF Spec, ClaimsNotStolen

(* An archived issue is out of reach of every status change but the undo of its   *)
(* closure.                                                                       *)
THEOREM ArchivedStays == Spec => ArchivedUntilUndone
<1>1. ASSUME Inv, [Next]_vars
      PROVE  \A i \in Live \cap DOMAIN row' :
                row[i].status = Archived /\ row'[i].status # Archived
                => \E k \in Appended(i) : log'[i][k].kind = "undone"
  BY <1>1, NextStep DEF Conduct, Revives
<1>2. Inv /\ [Next]_vars =>
        [\A i \in Live \cap DOMAIN row' :
            row[i].status = Archived /\ row'[i].status # Archived
            => \E k \in Appended(i) : log'[i][k].kind = "undone"]_vars
  BY <1>1
<1> QED
  BY <1>2, Invariance, PTL DEF Spec, ArchivedUntilUndone

\* The markers of every log are in order in every reachable state.
LEMMA MarkedInvariance == Spec => []Marked
<1>1. Init => Marked
  BY DEF Init, Marked, Live
<1>2. Inv /\ Marked /\ [Next]_vars => Marked'
  BY NextStep
<1> QED
  BY <1>1, <1>2, Invariance, PTL DEF Spec

(* However many callers undo, and whatever was compacted, no event is undone twice. *)
THEOREM EventsUndoneOnce == Spec => []UndoneOnce
<1>1. Marked => UndoneOnce
  BY DEF Marked, MarksOK, MarkedOnce, UndoneOnce
<1> QED
  BY <1>1, MarkedInvariance, PTL

(* Whatever keep_recent compaction is given, the event that undo reverses next is  *)
(* the one it would have reversed before, or there is none left.                    *)
THEOREM UndoSurvivesCompaction == Spec => CompactionKeepsUndo
<1>1. ASSUME Inv, Marked, NEW keep \in KeepRecent, CompactEvents(keep), NEW i \in Live
      PROVE  \/ Undoable(log'[i]) = {}
             \/ log'[i][Newest(Undoable(log'[i]))].id = UndoTarget(i).id
  <2>1. keep \in Nat /\ LogOK(log[i], lastId[i]) /\ MarksEarlier(log[i])
    BY <1>1, StoreAssumption, LiveRow DEF Marked, MarksOK
  <2>2. CASE row[i].status = Archived
    <3>1. log'[i] = Kept(log[i], keep)
      BY <1>1, <2>2 DEF CompactEvents
    <3> QED
      BY <2>1, <3>1, KeptUndoTarget DEF UndoTarget
  <2>3. CASE row[i].status # Archived
    <3>1. log'[i] = log[i]
      BY <1>1, <2>3 DEF CompactEvents
    <3> QED
      BY <3>1 DEF UndoTarget
  <2> QED
    BY <2>2, <2>3
<1>2. Inv /\ Marked /\ [Next]_vars =>
        [(\E keep \in KeepRecent : CompactEvents(keep)) =>
            \A i \in Live :
                \/ Undoable(log'[i]) = {}
                \/ log'[i][Newest(Undoable(log'[i]))].id = UndoTarget(i).id]_vars
  BY <1>1
<1> QED
  BY <1>2, Invariance, MarkedInvariance, PTL DEF Spec, CompactionKeepsUndo

-----------------------------------------------------------------------------
(* Shortcuts are announced.  Every status change that is not a declared forward   *)
(* edge is announced in the log.  The events of one write announce their own       *)
(* changes (Announced), so a log of whole writes does, and so does the suffix that *)
(* compaction keeps, but for the first event of it.                               *)

Declared(e) == \E t \in ForwardEdges : t.from = e.old /\ t.to = e.new

Announces(f, e) == f.kind = "transition_forced" /\ f.old = e.old /\ f.new = e.new

AnnouncedAt(events, k) ==
    events[k].kind = "status_changed" =>
        \/ Declared(events[k])
        \/ k > 1 /\ Announces(events[k - 1], events[k])

Announced(events) == \A k \in DOMAIN events : AnnouncedAt(events, k)

\* What ShortcutsAudited says of one log.
Audited(events) == \A k \in DOMAIN events : k > 1 => AnnouncedAt(events, k)

LogsAudited == \A i \in Live : Audited(log[i])

-----------------------------------------------------------------------------
(* Events in a concatenation                                                     *)

LEMMA AnnouncedInConcat ==
  ASSUME NEW a, NEW b, IsSequence(a), IsSequence(b), Announced(b),
         NEW k \in DOMAIN (a \o b), k \in DOMAIN a => AnnouncedAt(a, k)
  PROVE  AnnouncedAt(a \o b, k)
<1>1. /\ DOMAIN (a \o b) = 1..(Len(a) + Len(b))
      /\ \A j \in 1..(Len(a) + Len(b)) :
            (a \o b)[j] = IF j <= Len(a) THEN a[j] ELSE b[j - Len(a)]
  BY ConcatIs
<1>2. Len(a) \in Nat /\ Len(b) \in Nat /\ DOMAIN a = 1..Len(a) /\ DOMAIN b = 1..Len(b)
  BY DEF IsSequence
<1>3. CASE k <= Len(a)
  <2>1. k \in DOMAIN a /\ (a \o b)[k] = a[k]
    BY <1>1, <1>2, <1>3
  <2>2. k > 1 => (a \o b)[k - 1] = a[k - 1]
    BY <1>1, <1>2, <1>3
  <2> QED
    BY <2>1, <2>2 DEF AnnouncedAt
<1>4. CASE ~(k <= Len(a))
  <2> DEFINE m == k - Len(a)
  <2>1. m \in DOMAIN b /\ (a \o b)[k] = b[m]
    BY <1>1, <1>2, <1>4
  <2>2. m > 1 => k > 1 /\ (a \o b)[k - 1] = b[m - 1]
    <3>1. m > 1 => k - 1 \in 1..(Len(a) + Len(b)) /\ ~(k - 1 <= Len(a))
                   /\ (k - 1) - Len(a) = m - 1 /\ k > 1
      BY <1>1, <1>2, <1>4
    <3> HIDE DEF m
    <3> QED
      BY <1>1, <3>1
  <2> HIDE DEF m
  <2>3. AnnouncedAt(b, m)
    BY <2>1 DEF Announced
  <2> QED
    BY <2>1, <2>2, <2>3 DEF AnnouncedAt
<1> QED
  BY <1>3, <1>4

LEMMA AnnouncedConcat ==
  ASSUME NEW a, NEW b, IsSequence(a), IsSequence(b), Announced(a), Announced(b)
  PROVE  IsSequence(a \o b) /\ Announced(a \o b)
<1>1. IsSequence(a \o b)
  BY ConcatIs DEF IsSequence
<1>2. ASSUME NEW k \in DOMAIN (a \o b) PROVE AnnouncedAt(a \o b, k)
  BY AnnouncedInConcat DEF Announced
<1> QED
  BY <1>1, <1>2 DEF Announced

\* A status change right after the event that announces it.
LEMMA ForcedConcat ==
  ASSUME NEW a, IsSequence(a), Announced(a), NEW e, Len(a) > 0, Announces(a[Len(a)], e)
  PROVE  IsSequence(a \o <<e>>) /\ Announced(a \o <<e>>)
<1> DEFINE b == <<e>>
<1>1. IsSequence(b) /\ Len(b) = 1 /\ b[1] = e
  BY DEF IsSequence
<1> HIDE DEF b
<1>2. /\ Len(a \o b) = Len(a) + Len(b)
      /\ DOMAIN (a \o b) = 1..(Len(a) + Len(b))
      /\ \A j \in 1..(Len(a) + Len(b)) :
            (a \o b)[j] = IF j <= Len(a) THEN a[j] ELSE b[j - Len(a)]
  BY <1>1, ConcatIs
<1>3. Len(a) \in Nat /\ DOMAIN a = 1..Len(a)
  BY DEF IsSequence
<1>4. ASSUME NEW k \in DOMAIN (a \o b) PROVE AnnouncedAt(a \o b, k)
  <2>1. CASE k <= Len(a)
    <3>1. k \in DOMAIN a /\ (a \o b)[k] = a[k]
      BY <1>1, <1>2, <1>3, <2>1
    <3>2. k > 1 => (a \o b)[k - 1] = a[k - 1]
      BY <1>1, <1>2, <1>3, <2>1
    <3> QED
      BY <3>1, <3>2 DEF AnnouncedAt, Announced
  <2>2. CASE ~(k <= Len(a))
    <3>1. k = Len(a) + 1 /\ k > 1
      BY <1>1, <1>2, <1>3, <2>2
    <3>2. (a \o b)[k] = e /\ (a \o b)[k - 1] = a[Len(a)]
      BY <1>1, <1>2, <1>3, <3>1
    <3> QED
      BY <3>1, <3>2 DEF AnnouncedAt
  <2> QED
    BY <2>1, <2>2
<1> QED
  BY <1>1, <1>2, <1>3, <1>4 DEF Announced, IsSequence, b

LEMMA WhenAnnounced ==
  ASSUME NEW c \in BOOLEAN, NEW e, c => e.kind # "status_changed" \/ Declared(e)
  PROVE  IsSequence(When(c, e)) /\ Announced(When(c, e))
<1>1. CASE c
  BY <1>1 DEF When, IsSequence, Announced, AnnouncedAt
<1>2. CASE ~c
  BY <1>2 DEF When, IsSequence, Announced
<1> QED
  BY <1>1, <1>2

LEMMA SingleAnnounced ==
  ASSUME NEW e, e.kind # "status_changed"
  PROVE  IsSequence(<<e>>) /\ Announced(<<e>>)
  BY DEF IsSequence, Announced, AnnouncedAt

LEMMA StampAudited ==
  ASSUME NEW i, NEW l, IsSequence(l), Audited(l), NEW events, IsSequence(events),
         Announced(events)
  PROVE  Audited(l \o Stamp(i, events))
<1> DEFINE s == Stamp(i, events)
<1>1. s = [j \in 1..Len(events) |-> s[j]] /\ Len(events) \in Nat /\ DOMAIN events = 1..Len(events)
  BY DEF Stamp, IsSequence
<1>2. \A k \in DOMAIN events :
         s[k].kind = events[k].kind /\ s[k].old = events[k].old /\ s[k].new = events[k].new
  BY DEF Stamp
<1> HIDE DEF s
<1>3. IsSequence(s) /\ DOMAIN s = DOMAIN events
  BY <1>1, FunctionIsSequence DEF IsSequence
<1>4. ASSUME NEW k \in DOMAIN s PROVE AnnouncedAt(s, k)
  <2>1. AnnouncedAt(events, k)
    BY <1>3 DEF Announced
  <2>2. k > 1 => k - 1 \in DOMAIN events
    BY <1>1, <1>3
  <2> QED
    BY <1>2, <1>3, <2>1, <2>2 DEF AnnouncedAt, Announces, Declared
<1>5. Announced(s)
  BY <1>4 DEF Announced
<1>6. ASSUME NEW k \in DOMAIN (l \o s), k > 1 PROVE AnnouncedAt(l \o s, k)
  BY <1>3, <1>5, <1>6, AnnouncedInConcat DEF Audited
<1> QED
  BY <1>6 DEF Audited, s

-----------------------------------------------------------------------------
(* One write                                                                     *)

\* An allowed update takes a declared edge, or an escape edge that it announces.
LEMMA UpdateAnnounced ==
  ASSUME NEW r \in Row, NEW q \in Updates, NEW actor \in Holder, NEW backward \in BOOLEAN,
         NEW checked \in BOOLEAN, TransitionAllowed(r, q, backward)
  PROVE  /\ IsSequence(UpdateEvents(r, q, actor, backward, checked))
         /\ Announced(UpdateEvents(r, q, actor, backward, checked))
<1> DEFINE moves == Changes(q.status, r.status)
           warns == IF backward
                    THEN BackwardWarns(r.status, q.status, MergedFields(r, q))
                    ELSE ForwardWarns(r.status, q.status, MergedFields(r, q))
           e1 == Event("transition_warning", actor, r.status, q.status)
           e2 == Event("transition_forced", actor, r.status, q.status)
           e3 == Event("status_changed", actor, r.status, q.status)
           e4 == Event("close_commit_checked", actor, Nil, Nil)
           e5 == Event("priority_changed", actor, r.priority, q.priority)
           e6 == Event("assignee_changed", actor, r.assignee, q.assignee)
           e7 == Event("fields_changed", actor, r.fields, q.fields)
           c1 == moves /\ warns
           c2 == moves /\ backward
           c4 == moves /\ IsDone(q.status) /\ q.commit /\ checked
           c5 == Changes(q.priority, r.priority)
           c6 == Changes(q.assignee, r.assignee)
           c7 == Changes(q.fields, r.fields) /\ ~CloseReasonOnly(r, q)
<1>1. q.commit \in BOOLEAN
  BY DEF Updates
<1>2. /\ moves \in BOOLEAN /\ c1 \in BOOLEAN /\ c2 \in BOOLEAN
      /\ c4 \in BOOLEAN /\ c5 \in BOOLEAN /\ c6 \in BOOLEAN /\ c7 \in BOOLEAN
  BY <1>1 DEF Changes
<1>3. /\ e1.kind # "status_changed" /\ e2.kind # "status_changed"
      /\ e4.kind # "status_changed" /\ e5.kind # "status_changed"
      /\ e6.kind # "status_changed" /\ e7.kind # "status_changed"
      /\ Announces(e2, e3)
  BY DEF Event, Announces
<1>4. moves /\ ~backward => Declared(e3)
  BY DEF TransitionAllowed, ForwardAllowed, Declared, Event
<1>5. moves /\ backward => c2
  OBVIOUS
<1>6. UpdateEvents(r, q, actor, backward, checked)
        = When(c1, e1) \o When(c2, e2) \o When(moves, e3) \o When(c4, e4)
          \o When(c5, e5) \o When(c6, e6) \o When(c7, e7)
  BY DEF UpdateEvents
<1> HIDE DEF moves, c1, c2, c4, c5, c6, c7, e1, e2, e3, e4, e5, e6, e7
<1> DEFINE s1 == When(c1, e1)
           s2 == When(c2, e2)
           s3 == When(moves, e3)
           s4 == When(c4, e4)
           s5 == When(c5, e5)
           s6 == When(c6, e6)
           s7 == When(c7, e7)
           t2 == s1 \o s2
           t3 == t2 \o s3
           t4 == t3 \o s4
           t5 == t4 \o s5
           t6 == t5 \o s6
<1>7. /\ IsSequence(s1) /\ Announced(s1) /\ IsSequence(s2) /\ Announced(s2)
      /\ IsSequence(s4) /\ Announced(s4) /\ IsSequence(s5) /\ Announced(s5)
      /\ IsSequence(s6) /\ Announced(s6) /\ IsSequence(s7) /\ Announced(s7)
  BY <1>2, <1>3, WhenAnnounced
<1>8. UpdateEvents(r, q, actor, backward, checked) = t6 \o s7
  BY <1>6
<1>9. /\ c2 => s2 = <<e2>>
      /\ moves => s3 = <<e3>>
      /\ ~moves \/ Declared(e3) => IsSequence(s3) /\ Announced(s3)
  BY <1>2, WhenAnnounced DEF When
<1> HIDE DEF s1, s2, s3, s4, s5, s6, s7
<1>10. IsSequence(t2) /\ Announced(t2)
  BY <1>7, AnnouncedConcat
<1>11. c2 => Len(t2) > 0 /\ t2[Len(t2)] = e2
  <2> SUFFICES ASSUME c2 PROVE Len(t2) > 0 /\ t2[Len(t2)] = e2
    OBVIOUS
  <2>1. s2 = <<e2>> /\ Len(s2) = 1 /\ s2[1] = e2
    BY <1>9
  <2>2. /\ Len(t2) = Len(s1) + Len(s2)
        /\ \A k \in 1..(Len(s1) + Len(s2)) :
              t2[k] = IF k <= Len(s1) THEN s1[k] ELSE s2[k - Len(s1)]
    BY <1>7, ConcatIs
  <2>3. Len(s1) \in Nat
    BY <1>7 DEF IsSequence
  <2> HIDE DEF t2
  <2> QED
    BY <2>1, <2>2, <2>3
<1> HIDE DEF t2
<1>12. IsSequence(t3) /\ Announced(t3)
  <2>1. CASE ~moves \/ Declared(e3)
    BY <1>9, <1>10, <2>1, AnnouncedConcat
  <2>2. CASE moves /\ backward
    BY <1>3, <1>5, <1>9, <1>10, <1>11, <2>2, ForcedConcat
  <2> QED
    BY <1>4, <2>1, <2>2
<1> HIDE DEF t3
<1>13. IsSequence(t4) /\ Announced(t4)
  BY <1>7, <1>12, AnnouncedConcat
<1> HIDE DEF t4
<1>14. IsSequence(t5) /\ Announced(t5)
  BY <1>7, <1>13, AnnouncedConcat
<1> HIDE DEF t5
<1>15. IsSequence(t6) /\ Announced(t6)
  BY <1>7, <1>14, AnnouncedConcat
<1> HIDE DEF t6
<1> QED
  BY <1>7, <1>8, <1>15, AnnouncedConcat

LEMMA WriteAudited ==
  ASSUME Inv, LogsAudited, NEW i \in Live, NEW newRow, NEW events, IsSequence(events),
         Announced(events), Write(i, newRow, events)
  PROVE  LogsAudited'
<1>1. DOMAIN row' = DOMAIN row
  BY DEF Write
<1>2. ASSUME NEW j \in DOMAIN row PROVE Audited(log'[j])
  <2>1. DOMAIN log = DOMAIN row /\ LogOK(log[i], lastId[i])
    BY DEF Inv, TypeOK, Live
  <2>2. CASE j = i
    <3>1. log'[i] = log[i] \o Stamp(i, events)
      BY <2>1 DEF Write, Live
    <3>2. Audited(log[i] \o Stamp(i, events))
      BY <2>1, StampAudited DEF LogsAudited, LogOK
    <3> QED
      BY <2>2, <3>1, <3>2
  <2>3. CASE j # i
    BY <2>1, <2>3 DEF Write, Live, LogsAudited
  <2> QED
    BY <2>2, <2>3
<1> QED
  BY <1>1, <1>2 DEF LogsAudited, Live

-----------------------------------------------------------------------------
(* Every write announces its shortcuts                                           *)

LEMMA UpdateAudited ==
  ASSUME Inv, LogsAudited, NEW i, NEW actor \in Holder, NEW expected, NEW q \in UpdateRequest,
         Update(i, actor, expected, q)
  PROVE  LogsAudited'
<1>1. i \in Live /\ q \in Updates /\ row[i] \in Row
  BY LiveRow, StoreAssumption DEF Update
<1>2. /\ TransitionAllowed(row[i], q, FALSE)
      /\ Write(i, UpdatedRow(row[i], q), UpdateEvents(row[i], q, actor, FALSE, FALSE))
  BY DEF Update
<1>3. /\ IsSequence(UpdateEvents(row[i], q, actor, FALSE, FALSE))
      /\ Announced(UpdateEvents(row[i], q, actor, FALSE, FALSE))
  BY <1>1, <1>2, UpdateAnnounced
<1> QED
  BY <1>1, <1>2, <1>3, WriteAudited

LEMMA CloseAudited ==
  ASSUME Inv, LogsAudited, NEW i, NEW actor \in Holder, NEW expected, NEW target,
         NEW reason \in BOOLEAN, NEW force \in BOOLEAN, NEW commit \in BOOLEAN,
         Close(i, actor, expected, target, reason, force, commit)
  PROVE  LogsAudited'
<1> DEFINE q == CloseRequest(row[i], target, reason, commit)
<1>1. i \in Live /\ row[i] \in Row /\ CloseTarget(target) \in StateSet
  BY LiveRow DEF Close, Closable
<1>2. q \in Updates
  <2> DEFINE s == CloseTarget(target)
             F == IF reason THEN row[i].fields \cup {CloseReason} ELSE Nil
  <2>1. F \in {Nil} \cup SUBSET Field
    BY <1>1, StoreAssumption DEF Row
  <2>2. q = [StatusRequest(s) EXCEPT !.fields = F, !.commit = commit]
    BY DEF CloseRequest
  <2> HIDE DEF s, F, q
  <2>3. s \in StateSet
    BY <1>1 DEF s
  <2> QED
    BY <2>1, <2>2, <2>3, RequestTyped
<1>3. /\ TransitionAllowed(row[i], q, force)
      /\ Write(i, UpdatedRow(row[i], q), UpdateEvents(row[i], q, actor, force, TRUE))
  BY DEF Close, Closable
<1> HIDE DEF q
<1>4. /\ IsSequence(UpdateEvents(row[i], q, actor, force, TRUE))
      /\ Announced(UpdateEvents(row[i], q, actor, force, TRUE))
  BY <1>1, <1>2, <1>3, UpdateAnnounced
<1> QED
  BY <1>1, <1>3, <1>4, WriteAudited

LEMMA ReopenAudited ==
  ASSUME Inv, LogsAudited, NEW i, NEW actor \in Holder, Reopen(i, actor)
  PROVE  LogsAudited'
<1> DEFINE r == row[i]
           s == ReopenTarget(log[i])
           q == StatusRequest(s)
           kept == r.fields \ {CloseReason}
           u == [UpdatedRow(r, q) EXCEPT !.fields = kept]
           e1 == UpdateEvents(r, q, actor, TRUE, FALSE)
           e2 == When(kept # r.fields, Event("fields_changed", actor, r.fields, kept))
           e3 == <<Event("reopened", actor, r.status, s)>>
<1>1. i \in Live /\ r \in Row /\ q \in Updates
  BY LiveRow, ReopenTargetOpen, StatusRequestTyped DEF Reopen
<1>2. TransitionAllowed(r, q, TRUE) /\ Write(i, u, e1 \o e2 \o e3)
  BY DEF Reopen
<1>3. IsSequence(e2) /\ Announced(e2)
  BY WhenAnnounced DEF Event
<1>4. IsSequence(e3) /\ Announced(e3)
  BY SingleAnnounced DEF Event
<1> HIDE DEF r, u, q, e2, e3
<1>5. IsSequence(e1) /\ Announced(e1)
  BY <1>1, <1>2, UpdateAnnounced
<1> HIDE DEF e1
<1>6. IsSequence(e1 \o e2) /\ Announced(e1 \o e2)
  BY <1>3, <1>5, AnnouncedConcat
<1>7. IsSequence(e1 \o e2 \o e3) /\ Announced(e1 \o e2 \o e3)
  BY <1>4, <1>6, AnnouncedConcat
<1> QED
  BY <1>1, <1>2, <1>7, WriteAudited

LEMMA ReleaseAudited ==
  ASSUME Inv, LogsAudited, NEW i, NEW actor \in Holder, NEW expected,
         NEW override \in BOOLEAN, NEW revert \in BOOLEAN,
         Release(i, actor, expected, override, revert)
  PROVE  LogsAudited'
<1> DEFINE r == row[i]
           target == ReleaseTo(r, revert)
           e == Event(IF r.assignee = actor THEN "released" ELSE "released_by_override",
                      actor, r.assignee, Nil)
           f == Event("transition_forced", actor, r.status, target)
           g == Event("status_changed", actor, r.status, target)
           moved == target # Nil
           a == <<e>>
           b == a \o When(moved, f)
<1>1. i \in Live /\ Write(i, Released(r, target), b \o When(moved, g))
  BY DEF Release, ReleaseEvents
<1>2. /\ e.kind # "status_changed" /\ f.kind # "status_changed" /\ Announces(f, g)
      /\ moved \in BOOLEAN
  BY DEF Event, Announces
<1> HIDE DEF r, target, e, f, g, moved
<1>3. IsSequence(a) /\ Announced(a) /\ Len(a) = 1
  BY <1>2, SingleAnnounced
<1>4. IsSequence(When(moved, f)) /\ Announced(When(moved, f))
  BY <1>2, WhenAnnounced
<1>5. moved => When(moved, f) = <<f>> /\ When(moved, g) = <<g>>
  BY DEF When
<1> HIDE DEF a
<1>6. IsSequence(b) /\ Announced(b)
  BY <1>3, <1>4, AnnouncedConcat
<1>7. moved => Len(b) > 0 /\ b[Len(b)] = f
  <2> SUFFICES ASSUME moved PROVE Len(b) > 0 /\ b[Len(b)] = f
    OBVIOUS
  <2> DEFINE w == When(moved, f)
  <2>1. Len(w) = 1 /\ w[1] = f
    <3>1. w = <<f>>
      BY <1>5
    <3>2. Len(<<f>>) = 1 /\ <<f>>[1] = f
      OBVIOUS
    <3> HIDE DEF w
    <3> QED
      BY <3>1, <3>2
  <2>2. /\ Len(b) = Len(a) + Len(w)
        /\ \A k \in 1..(Len(a) + Len(w)) :
              b[k] = IF k <= Len(a) THEN a[k] ELSE w[k - Len(a)]
    BY <1>3, <1>4, ConcatIs
  <2> HIDE DEF w, b
  <2> QED
    BY <1>3, <2>1, <2>2
<1> HIDE DEF b
<1>8. IsSequence(b \o When(moved, g)) /\ Announced(b \o When(moved, g))
  <2>1. CASE moved
    BY <1>2, <1>5, <1>6, <1>7, <2>1, ForcedConcat
  <2>2. CASE ~moved
    <3>1. IsSequence(When(moved, g)) /\ Announced(When(moved, g))
      BY <1>2, <2>2, WhenAnnounced
    <3> QED
      BY <1>6, <3>1, AnnouncedConcat
  <2> QED
    BY <2>1, <2>2
<1> QED
  BY <1>1, <1>8, WriteAudited

\* The writes of one event, none of which changes a status by it.
LEMMA SingleAudited ==
  ASSUME Inv, LogsAudited, NEW i \in Live, NEW newRow, NEW e, e.kind # "status_changed",
         Write(i, newRow, <<e>>)
  PROVE  LogsAudited'
<1>1. IsSequence(<<e>>) /\ Announced(<<e>>)
  BY SingleAnnounced
<1> QED
  BY <1>1, WriteAudited

LEMMA ClaimAudited ==
  ASSUME Inv, LogsAudited, NEW i, NEW a, NEW actor, NEW commit, NEW request,
         Claim(i, a, actor, commit, request)
  PROVE  LogsAudited'
<1> DEFINE e == [Event("claimed", actor, row[i].assignee, a) EXCEPT !.note = request]
<1>1. i \in Live /\ Write(i, Claimed(row[i], a, commit), <<e>>) /\ e.kind # "status_changed"
  BY DEF Claim, Event
<1> HIDE DEF e
<1> QED
  BY <1>1, SingleAudited

LEMMA HeartbeatAudited ==
  ASSUME Inv, LogsAudited, NEW i, NEW actor, NEW expected, NEW override,
         Heartbeat(i, actor, expected, override)
  PROVE  LogsAudited'
<1> DEFINE e == Event(IF row[i].assignee = actor THEN "heartbeat"
                      ELSE "heartbeat_by_override", actor, row[i].assignee, Nil)
<1>1. /\ i \in Live /\ e.kind # "status_changed"
      /\ Write(i, [row[i] EXCEPT !.leaseEnd = now + LeaseLength], <<e>>)
  BY DEF Heartbeat, Event
<1> HIDE DEF e
<1> QED
  BY <1>1, SingleAudited

LEMMA ReclaimAudited ==
  ASSUME Inv, LogsAudited, NEW i, NEW a, NEW expected, NEW actor, NEW commit,
         Reclaim(i, a, expected, actor, commit)
  PROVE  LogsAudited'
<1> DEFINE e == Event("reclaimed", actor, expected, a)
<1>1. i \in Live /\ Write(i, HeldBy(row[i], a, commit), <<e>>) /\ e.kind # "status_changed"
  BY DEF Reclaim, Event
<1> HIDE DEF e
<1> QED
  BY <1>1, SingleAudited

LEMMA UndoAudited ==
  ASSUME Inv, LogsAudited, NEW i, NEW actor, NEW expectedEvent, NEW override,
         Undo(i, actor, expectedEvent, override)
  PROVE  LogsAudited'
<1> DEFINE t == UndoTarget(i)
           e == [Event("undone", actor, t.kind, expectedEvent) EXCEPT
                    !.note = IF MayUndo(row[i], actor, FALSE) THEN Nil ELSE row[i].assignee]
<1>1. i \in Live /\ Write(i, Reverted(row[i], t), <<e>>) /\ e.kind # "status_changed"
  BY DEF Undo, Event
<1> HIDE DEF t, e
<1> QED
  BY <1>1, SingleAudited

LEMMA CreateAudited ==
  ASSUME Inv, LogsAudited, NEW i, NEW actor, NEW q, Create(i, actor, q)
  PROVE  LogsAudited'
<1> DEFINE l == Stamp(i, <<Event("created", actor, Nil, Nil)>>)
<1>1. i \notin Live /\ DOMAIN row' = Live \cup {i} /\ log'[i] = l
  BY DEF Create
<1>2. \A j \in Live : log'[j] = log[j]
  BY <1>1 DEF Create
<1>3. Audited(l)
  <2>1. DOMAIN l = {1}
    BY DEF Stamp
  <2> HIDE DEF l
  <2> QED
    BY <2>1 DEF Audited
<1> HIDE DEF l
<1> QED
  BY <1>1, <1>2, <1>3 DEF LogsAudited, Live

LEMMA ArchiveAudited ==
  ASSUME Inv, LogsAudited, NEW actor, NEW age, ArchiveClosed(actor, age)
  PROVE  LogsAudited'
<1> DEFINE S == Archivable(age)
           events == <<Event("archived", actor, Nil, Nil)>>
<1>1. /\ DOMAIN row' = Live
      /\ log' = [i \in Live |-> IF i \in S THEN log[i] \o Stamp(i, events) ELSE log[i]]
  BY DEF ArchiveClosed
<1>2. IsSequence(events) /\ Announced(events)
  BY SingleAnnounced DEF Event
<1> HIDE DEF S, events
<1>3. ASSUME NEW i \in Live PROVE Audited(log'[i])
  <2>1. Audited(log[i]) /\ IsSequence(log[i])
    BY LiveRow DEF LogsAudited, LogOK
  <2>2. Audited(log[i] \o Stamp(i, events))
    BY <1>2, <2>1, StampAudited
  <2> QED
    BY <1>1, <2>1, <2>2
<1> QED
  BY <1>1, <1>3 DEF LogsAudited, Live

LEMMA CompactAudited ==
  ASSUME Inv, LogsAudited, NEW keep \in KeepRecent, CompactEvents(keep)
  PROVE  LogsAudited'
<1>1. /\ log' = [i \in Live |-> IF row[i].status = Archived
                                THEN Kept(log[i], keep) ELSE log[i]]
      /\ row' = row /\ keep \in Nat
  BY StoreAssumption DEF CompactEvents
<1>2. ASSUME NEW i \in Live PROVE Audited(Kept(log[i], keep))
  <2> DEFINE events == log[i]
             n == Len(events)
             b == Kept(events, keep)
  <2>1. IsSequence(events) /\ Audited(events)
    BY LiveRow DEF LogsAudited, LogOK
  <2>2. n \in Nat /\ DOMAIN events = 1..n
    BY <2>1 DEF IsSequence
  <2> HIDE DEF events
  <2>3. PICK d \in Nat : /\ d <= n /\ DOMAIN b = 1..(n - d)
                         /\ \A k \in 1..(n - d) : b[k] = events[k + d]
    BY <1>1, <2>1, KeptIsSuffix
  <2> HIDE DEF n, b
  <2>4. ASSUME NEW k \in DOMAIN b, k > 1 PROVE AnnouncedAt(b, k)
    <3>1. /\ k + d \in DOMAIN events /\ k + d > 1 /\ b[k] = events[k + d]
          /\ k - 1 \in 1..(n - d) /\ (k - 1) + d = (k + d) - 1
      BY <2>2, <2>3, <2>4
    <3>2. b[k - 1] = events[(k + d) - 1]
      BY <2>3, <3>1
    <3>3. AnnouncedAt(events, k + d)
      BY <2>1, <3>1 DEF Audited
    <3> QED
      BY <2>4, <3>1, <3>2, <3>3 DEF AnnouncedAt
  <2> QED
    BY <2>4 DEF Audited, b, events
<1> QED
  BY <1>1, <1>2 DEF LogsAudited, Live

LEMMA OthersAudited ==
  ASSUME LogsAudited, (\E i \in Issue, force \in BOOLEAN : Delete(i, force)) \/ Tick \/ UNCHANGED vars
  PROVE  LogsAudited'
<1>1. CASE \E i \in Issue, force \in BOOLEAN : Delete(i, force)
  <2>1. PICK i \in Issue, force \in BOOLEAN : Delete(i, force)
    BY <1>1
  <2> QED
    BY <2>1 DEF Delete, LogsAudited, Live
<1>2. CASE Tick \/ UNCHANGED vars
  BY <1>2 DEF Tick, vars, LogsAudited, Live
<1> QED
  BY <1>1, <1>2

LEMMA NextAudited ==
  ASSUME Inv, LogsAudited, [Next]_vars
  PROVE  LogsAudited'
<1>1. CASE \E i \in Issue, actor \in Holder, q \in CreateRequest : Create(i, actor, q)
  BY <1>1, CreateAudited
<1>2. ASSUME NEW i \in Issue, StatusWrite(i) PROVE LogsAudited'
  BY <1>2, UpdateAudited, CloseAudited, ReopenAudited DEF StatusWrite
<1>3. ASSUME NEW i \in Issue, ClaimWrite(i) PROVE LogsAudited'
  BY <1>3, ClaimAudited, ReleaseAudited, HeartbeatAudited, ReclaimAudited DEF ClaimWrite
<1>4. CASE \E i \in Issue, actor \in Holder, id \in 1..MaxEvents,
              override \in BOOLEAN : Undo(i, actor, id, override)
  BY <1>4, UndoAudited
<1>5. CASE Maintenance
  BY <1>5, ArchiveAudited, CompactAudited, OthersAudited DEF Maintenance
<1>6. CASE UNCHANGED vars
  BY <1>6, OthersAudited
<1> QED
  BY <1>1, <1>2, <1>3, <1>4, <1>5, <1>6 DEF Next

-----------------------------------------------------------------------------

(* "Reviewers can find every workflow shortcut" (update_issue): in every log, a    *)
(* status change that no forward edge declares stands right after the event that   *)
(* announces it, unless compaction has cut the log between the two.                 *)
THEOREM ShortcutsAlwaysAudited == Spec => []ShortcutsAudited
<1>1. Init => LogsAudited
  BY DEF Init, LogsAudited, Live
<1>2. Inv /\ LogsAudited /\ [Next]_vars => LogsAudited'
  BY NextAudited
<1>3. LogsAudited => ShortcutsAudited
  BY DEF LogsAudited, Audited, AnnouncedAt, Announces, Declared, ShortcutsAudited
<1> QED
  BY <1>1, <1>2, <1>3, Invariance, PTL DEF Spec

=============================================================================
