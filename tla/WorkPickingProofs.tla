-------------------------- MODULE WorkPickingProofs ---------------------------
(* Proofs about how work is picked.  First the walk to work: on every template an   *)
(* author may write, advance finds a soft and shortest one wherever there is one.   *)
(* The search is a loop over a loop, so the argument is the loops' invariant        *)
(* (Waiting, Scanning), and it goes by the number of turns: each takes a node off    *)
(* the queue, and there are no more nodes to see than edges, and the start.          *)
(* Then the calls in flight: what a call looked at may have changed when it gets     *)
(* the lock, and what it does then is right all the same.                            *)
EXTENDS IssueStoreProofs, StartWork, TemplateAuthoring, FiniteSetTheorems

-----------------------------------------------------------------------------
(* Counting                                                                      *)

\* What holds of 0, and of k + 1 where it holds of k, holds up to n.
LEMMA Climb ==
  ASSUME NEW n \in Nat, NEW P, 0 \in P, \A k \in 0..(n - 1) : k \in P => k + 1 \in P
  PROVE  \A k \in 0..n : k \in P
<1> SUFFICES ASSUME ~\A k \in 0..n : k \in P PROVE FALSE
  OBVIOUS
<1> DEFINE K == {k \in 0..n : k \notin P}
<1>1. PICK k \in K : \A j \in K : k =< j
  <2>1. K \subseteq Nat /\ K # {}
    OBVIOUS
  <2> HIDE DEF K
  <2> QED
    BY <2>1, LeastInSet
<1>2. k # 0 /\ k - 1 \in 0..(n - 1) /\ k - 1 \notin K
  BY <1>1
<1>3. k - 1 \in P
  BY <1>2
<1> QED
  BY <1>1, <1>2, <1>3

\* A function that computes its values one from the last, where each has a value.
Iterates(f, n, x, D) == f = [k \in 0..n |-> IF k = 0 THEN x ELSE D[k][f[k - 1]]]

LEMMA IterationExists ==
  ASSUME NEW S, NEW x \in S, NEW n \in Nat, NEW D \in [1..n -> [S -> S]]
  PROVE  \E f \in [0..n -> S] : Iterates(f, n, x, D)
<1> DEFINE P == {k \in 0..n : \E f \in [0..k -> S] : Iterates(f, k, x, D)}
<1>1. 0 \in P
  <2> DEFINE f == [k \in 0..0 |-> x]
  <2>1. f \in [0..0 -> S] /\ Iterates(f, 0, x, D)
    BY DEF Iterates
  <2> QED
    BY <2>1
<1>2. ASSUME NEW k \in 0..(n - 1), k \in P PROVE k + 1 \in P
  <2>1. PICK f \in [0..k -> S] : Iterates(f, k, x, D)
    BY <1>2
  <2> DEFINE v == D[k + 1][f[k]]
             h == [j \in 0..(k + 1) |-> IF j =< k THEN f[j] ELSE v]
  <2>2. v \in S
    <3>1. k + 1 \in 1..n /\ k \in 0..k
      OBVIOUS
    <3>2. D[k + 1] \in [S -> S] /\ f[k] \in S
      BY <3>1
    <3> QED
      BY <3>2
  <2>3. h \in [0..(k + 1) -> S]
    <3> HIDE DEF v
    <3> QED
      BY <2>2
  <2>4. \A j \in 0..(k + 1) : h[j] = IF j = 0 THEN x ELSE D[j][h[j - 1]]
    <3> SUFFICES ASSUME NEW j \in 0..(k + 1) PROVE h[j] = IF j = 0 THEN x ELSE D[j][h[j - 1]]
      OBVIOUS
    <3>1. CASE j =< k
      <4>1. h[j] = f[j] /\ f[j] = IF j = 0 THEN x ELSE D[j][f[j - 1]]
        BY <2>1, <3>1 DEF Iterates
      <4>2. j # 0 => h[j - 1] = f[j - 1]
        BY <3>1
      <4> QED
        BY <4>1, <4>2
    <3>2. CASE j = k + 1
      <4>1. h[j] = v /\ h[j - 1] = f[k] /\ j # 0
        BY <3>2
      <4> QED
        BY <4>1, <3>2
    <3> QED
      BY <3>1, <3>2
  <2>5. Iterates(h, k + 1, x, D)
    <3> HIDE DEF h
    <3> QED
      BY <2>3, <2>4 DEF Iterates
  <2>6. k + 1 \in 0..n
    OBVIOUS
  <2> HIDE DEF h
  <2> QED
    BY <2>3, <2>5, <2>6
<1>3. n \in P
  <2> HIDE DEF P
  <2>1. \A k \in 0..n : k \in P
    BY <1>1, <1>2, Climb
  <2> QED
    BY <2>1
<1> QED
  BY <1>3
-----------------------------------------------------------------------------
(* The search of a workflow                                                      *)

\* A workflow over a set of statuses, whose edges lead from status to status.
IsWorkflow(N, E) ==
    /\ Len(E) \in Nat /\ DOMAIN E = 1..Len(E)
    /\ \A k \in 1..Len(E) : E[k].from \in N /\ E[k].to \in N /\ E[k].hard \in BOOLEAN

\* What the search has between two of its turns.
SearchState(N) == [visited : SUBSET N, queue : Seq(Seq(N)), found : Seq(N)]

Along(c, start, walk, b, edge) == IF edge.from = EndOf(start, walk) THEN Visit(c, walk, b, edge) ELSE b
ScanOf(c, E, start, b, f) ==
    f = [k \in 0..Len(E) |-> IF k = 0 THEN [b EXCEPT !.queue = Tail(@)]
                            ELSE Along(c, start, Head(b.queue), f[k - 1], E[k])]
TurnOf(c, E, s, b) == IF b.found # <<>> \/ b.queue = <<>> THEN b ELSE Expand(c, E, s, b)
AtStart(s) == [visited |-> {s}, queue |-> <<(<<>>)>>, found |-> <<>>]
SearchOf(c, E, s, f) ==
    f = [n \in 0..(Len(E) + 1) |-> IF n = 0 THEN AtStart(s) ELSE TurnOf(c, E, s, f[n - 1])]

LEMMA ExpandIs ==
  ASSUME NEW c, NEW E, NEW start, NEW b
  PROVE  Expand(c, E, start, b) = (CHOOSE f : ScanOf(c, E, start, b, f))[Len(E)]
BY DEF Expand, ScanOf, Along

LEMMA SearchIs ==
  ASSUME NEW c, NEW E, NEW s
  PROVE  SoftSearch(c, E, s) = (CHOOSE f : SearchOf(c, E, s, f))[Len(E) + 1].found
BY DEF SoftSearch, SearchOf, TurnOf, AtStart

IsState(b) == b = [visited |-> b.visited, queue |-> b.queue, found |-> b.found]

LEMMA StateWith ==
  ASSUME NEW b, IsState(b), NEW V, NEW A
  PROVE  /\ [b EXCEPT !.visited = V, !.found = A] = [visited |-> V, queue |-> b.queue, found |-> A]
         /\ [b EXCEPT !.visited = V, !.queue = A] = [visited |-> V, queue |-> A, found |-> b.found]
<1> DEFINE u == [b EXCEPT !.visited = V]
<1>1. u = [visited |-> V, queue |-> b.queue, found |-> b.found]
  BY DEF IsState
<1>2. /\ [b EXCEPT !.visited = V, !.found = A] = [u EXCEPT !.found = A]
      /\ [b EXCEPT !.visited = V, !.queue = A] = [u EXCEPT !.queue = A]
  OBVIOUS
<1> HIDE DEF u
<1>3. /\ [u EXCEPT !.found = A] = [visited |-> V, queue |-> b.queue, found |-> A]
      /\ [u EXCEPT !.queue = A] = [visited |-> V, queue |-> A, found |-> b.found]
  BY <1>1
<1> QED
  BY <1>2, <1>3

\* What the visit of an edge does.
Visits(N, c, b, walk, edge) ==
    /\ Visit(c, walk, b, edge) \in SearchState(N)
    /\ b.found # <<>> \/ edge.hard \/ edge.to \in b.visited => Visit(c, walk, b, edge) = b
    /\ b.found = <<>> /\ ~edge.hard /\ edge.to \notin b.visited =>
          /\ Visit(c, walk, b, edge).visited = b.visited \cup {edge.to}
          /\ c[edge.to] = "wip" => /\ Visit(c, walk, b, edge).queue = b.queue
                                   /\ Visit(c, walk, b, edge).found = Append(walk, edge.to)
          /\ c[edge.to] # "wip" => /\ Visit(c, walk, b, edge).queue = Append(b.queue, Append(walk, edge.to))
                                   /\ Visit(c, walk, b, edge).found = <<>>

LEMMA VisitGives ==
  ASSUME NEW N, NEW c, NEW b \in SearchState(N), NEW walk \in Seq(N), NEW edge,
         edge.to \in N, edge.hard \in BOOLEAN
  PROVE  Visits(N, c, b, walk, edge)
<1> DEFINE V == b.visited \cup {edge.to}
           A == Append(walk, edge.to)
           Q == Append(b.queue, A)
<1>1. /\ b.visited \in SUBSET N /\ b.queue \in Seq(Seq(N)) /\ b.found \in Seq(N)
      /\ IsState(b)
  BY DEF SearchState, IsState
<1>2. V \in SUBSET N /\ A \in Seq(N) /\ Q \in Seq(Seq(N))
  <2>1. A \in Seq(N)
    OBVIOUS
  <2> QED
    BY <1>1, <2>1
<1>3. CASE b.found # <<>> \/ edge.hard \/ edge.to \in b.visited
  <2>1. Visit(c, walk, b, edge) = b
    BY <1>3 DEF Visit
  <2> QED
    BY <1>3, <2>1 DEF Visits
<1>4. CASE b.found = <<>> /\ ~edge.hard /\ edge.to \notin b.visited /\ c[edge.to] = "wip"
  <2>1. Visit(c, walk, b, edge) = [b EXCEPT !.visited = V, !.found = A]
    BY <1>4 DEF Visit
  <2> HIDE DEF V, A, Q
  <2>2. [b EXCEPT !.visited = V, !.found = A] = [visited |-> V, queue |-> b.queue, found |-> A]
    BY <1>1, StateWith
  <2>3. Visit(c, walk, b, edge) = [visited |-> V, queue |-> b.queue, found |-> A]
    BY <2>1, <2>2
  <2>4. /\ Visit(c, walk, b, edge).visited = V /\ Visit(c, walk, b, edge).queue = b.queue
        /\ Visit(c, walk, b, edge).found = A /\ Visit(c, walk, b, edge) \in SearchState(N)
    BY <1>1, <1>2, <2>3 DEF SearchState
  <2> QED
    BY <1>4, <2>4 DEF Visits, V, A
<1>5. CASE b.found = <<>> /\ ~edge.hard /\ edge.to \notin b.visited /\ c[edge.to] # "wip"
  <2>1. Visit(c, walk, b, edge) = [b EXCEPT !.visited = V, !.queue = Q]
    BY <1>5 DEF Visit
  <2> HIDE DEF V, A, Q
  <2>2. [b EXCEPT !.visited = V, !.queue = Q] = [visited |-> V, queue |-> Q, found |-> b.found]
    BY <1>1, StateWith
  <2>3. Visit(c, walk, b, edge) = [visited |-> V, queue |-> Q, found |-> b.found]
    BY <2>1, <2>2
  <2>4. /\ Visit(c, walk, b, edge).visited = V /\ Visit(c, walk, b, edge).queue = Q
        /\ Visit(c, walk, b, edge).found = <<>> /\ Visit(c, walk, b, edge) \in SearchState(N)
    BY <1>1, <1>2, <1>5, <2>3 DEF SearchState
  <2> QED
    BY <1>5, <2>4 DEF Visits, V, A, Q
<1> QED
  BY <1>3, <1>4, <1>5

\* The scan of the edges, when there is something in the queue.
ScanIs(N, c, E, s, b) ==
    \E f \in [0..Len(E) -> SearchState(N)] : ScanOf(c, E, s, b, f) /\ Expand(c, E, s, b) = f[Len(E)]

LEMMA ScanExists ==
  ASSUME NEW N, NEW c, NEW E, IsWorkflow(N, E), NEW s \in N,
         NEW b \in SearchState(N), b.queue # <<>>
  PROVE  ScanIs(N, c, E, s, b)
<1> DEFINE S == SearchState(N)
           x == [b EXCEPT !.queue = Tail(@)]
           walk == Head(b.queue)
           D == [k \in 1..Len(E) |-> [a \in S |-> Along(c, s, walk, a, E[k])]]
<1>1. /\ b.visited \in SUBSET N /\ b.queue \in Seq(Seq(N)) /\ b.found \in Seq(N)
      /\ b = [visited |-> b.visited, queue |-> b.queue, found |-> b.found]
  BY DEF SearchState
<1>2. walk \in Seq(N) /\ Tail(b.queue) \in Seq(Seq(N))
  BY <1>1
<1>3. x \in S
  BY <1>1, <1>2 DEF SearchState
<1>4. ASSUME NEW k \in 1..Len(E), NEW a \in S PROVE Along(c, s, walk, a, E[k]) \in S
  <2>1. E[k].to \in N /\ E[k].hard \in BOOLEAN
    BY DEF IsWorkflow
  <2>2. Visit(c, walk, a, E[k]) \in S
    BY <1>2, <2>1, VisitGives DEF Visits
  <2> QED
    BY <2>2 DEF Along
<1>5. D \in [1..Len(E) -> [S -> S]] /\ Len(E) \in Nat
  BY <1>4 DEF IsWorkflow
<1>6. \A k \in 1..Len(E), a \in S : D[k][a] = Along(c, s, walk, a, E[k])
  OBVIOUS
<1>7. PICK f \in [0..Len(E) -> S] : Iterates(f, Len(E), x, D)
  <2> HIDE DEF S, D, x
  <2> QED
    BY <1>3, <1>5, IterationExists
<1>8. \A k \in 0..Len(E) : f[k] = IF k = 0 THEN x ELSE Along(c, s, walk, f[k - 1], E[k])
  <2> HIDE DEF S, D, x, walk
  <2> SUFFICES ASSUME NEW k \in 0..Len(E)
               PROVE  f[k] = IF k = 0 THEN x ELSE Along(c, s, walk, f[k - 1], E[k])
    OBVIOUS
  <2>1. f[k] = IF k = 0 THEN x ELSE D[k][f[k - 1]]
    BY <1>7 DEF Iterates
  <2>2. k # 0 => k \in 1..Len(E) /\ f[k - 1] \in S
    BY <1>5
  <2> QED
    BY <1>6, <2>1, <2>2
<1>9. ScanOf(c, E, s, b, f)
  <2> HIDE DEF S, D
  <2> QED
    BY <1>8 DEF ScanOf
<1>10. DEFINE g == CHOOSE a : ScanOf(c, E, s, b, a)
<1>11. ScanOf(c, E, s, b, g)
  BY <1>9
<1>12. g = [k \in 0..Len(E) |-> g[k]]
  <2> HIDE DEF g
  <2> QED
    BY <1>11 DEF ScanOf
<1>13. g \in [0..Len(E) -> S]
  <2> DEFINE P == {k \in 0..Len(E) : g[k] \in S}
  <2>0. \A k \in 0..Len(E) : g[k] = IF k = 0 THEN x ELSE Along(c, s, walk, g[k - 1], E[k])
    <3> HIDE DEF g
    <3> QED
      BY <1>11 DEF ScanOf
  <2> HIDE DEF g, S, x, walk
  <2>1. 0 \in P
    BY <1>3, <1>5, <2>0
  <2>2. \A k \in 0..(Len(E) - 1) : k \in P => k + 1 \in P
    <3> SUFFICES ASSUME NEW k \in 0..(Len(E) - 1), g[k] \in S PROVE g[k + 1] \in S
      BY <1>5
    <3>1. k + 1 \in 1..Len(E) /\ k + 1 \in 0..Len(E) /\ k + 1 # 0 /\ (k + 1) - 1 = k
      BY <1>5
    <3>2. Along(c, s, walk, g[k], E[k + 1]) \in S
      BY <1>4, <3>1
    <3> QED
      BY <2>0, <3>1, <3>2
  <2>3. \A k \in 0..Len(E) : k \in P
    <3> HIDE DEF P
    <3> QED
      BY <1>5, <2>1, <2>2, Climb
  <2> QED
    BY <1>12, <2>3
<1>14. Expand(c, E, s, b) = g[Len(E)]
  BY ExpandIs
<1> HIDE DEF g
<1> QED
  BY <1>11, <1>13, <1>14 DEF ScanIs
-----------------------------------------------------------------------------
(* What the search has found out                                                 *)

\* A search g: of a workflow with these nodes, categories and edges, from a start that is
\* not in work; layer[n] are the nodes n soft hops away, none of them out of work.
Soft(g, u, t) == \E k \in 1..Len(g.edges) : g.edges[k].from = u /\ g.edges[k].to = t /\ ~g.edges[k].hard
NextLayer(g, L) == {t \in g.nodes : \E u \in L : g.cat[u] # "wip" /\ Soft(g, u, t)}
Setting(g) ==
    /\ IsWorkflow(g.nodes, g.edges) /\ g.start \in g.nodes /\ g.cat[g.start] # "wip"
    /\ g.depth \in Nat /\ Len(g.edges) =< g.depth
    /\ g.layer[0] = {g.start}
    /\ \A n \in 0..(g.depth - 1) : g.layer[n + 1] = NextLayer(g, g.layer[n])

\* The k-th node of a walk, and its last.
At(g, w, k) == IF k = 0 THEN g.start ELSE w[k]
End(g, w) == At(g, w, Len(w))

\* A walk of soft hops that comes by no node twice, and one that no walk is shorter than.
IsPath(g, w) ==
    /\ w \in Seq(g.nodes)
    /\ \A k \in 1..Len(w) : Soft(g, At(g, w, k - 1), At(g, w, k))
    /\ \A j, k \in 0..Len(w) : At(g, w, j) = At(g, w, k) => j = k
IsShortest(g, w) ==
    /\ Len(w) =< g.depth /\ End(g, w) \in g.layer[Len(w)]
    /\ \A n \in 0..(Len(w) - 1) : End(g, w) \notin g.layer[n]

\* Nodes seen so far: the start and targets of edges, none of them in work.
Noted(g, V) ==
    /\ g.start \in V /\ V \subseteq g.nodes /\ IsFiniteSet(V)
    /\ \A v \in V : v = g.start \/ \E k \in 1..Len(g.edges) : v = g.edges[k].to
Seen(g, V) == Noted(g, V) /\ \A v \in V : g.cat[v] # "wip"

\* A walk in the queue: along nodes seen, as short as can be.
Leads(g, w, V) ==
    /\ IsPath(g, w) /\ IsShortest(g, w)
    /\ \A k \in 0..Len(w) : At(g, w, k) \in V
    /\ Len(w) + 1 =< Cardinality(V)

\* The queue is in order of length, and no two lengths are more than one apart.
InOrder(q) ==
    \A j, k \in 1..Len(q) : j =< k => Len(q[j]) =< Len(q[k]) /\ Len(q[k]) =< Len(q[j]) + 1
Queued(g, q, V) ==
    /\ q \in Seq(Seq(g.nodes)) /\ InOrder(q)
    /\ \A k \in 1..Len(q) : Leads(g, q[k], V)

\* Who was seen waits in the queue, or wherever a soft hop leads from there was seen, too.
Followed(g, V, u) == \A t \in g.nodes : Soft(g, u, t) => t \in V
Awaits(g, q, v) == \E k \in 1..Len(q) : End(g, q[k]) = v
NoneMissed(g, q, V) == \A v \in V : Awaits(g, q, v) \/ Followed(g, V, v)

Waiting(g, b) ==
    /\ b \in SearchState(g.nodes) /\ b.found = <<>>
    /\ Seen(g, b.visited) /\ Queued(g, b.queue, b.visited) /\ NoneMissed(g, b.queue, b.visited)

\* The search has found work, and no walk to work is shorter.
Arrived(g, b) ==
    /\ b \in SearchState(g.nodes) /\ b.found # <<>>
    /\ IsPath(g, b.found) /\ Len(b.found) =< Len(g.edges) /\ End(g, b.found) \in g.layer[Len(b.found)]
    /\ g.cat[End(g, b.found)] = "wip"
    /\ \A k \in 0..(Len(b.found) - 1) : g.cat[At(g, b.found, k)] # "wip"
    /\ \A n \in 0..(Len(b.found) - 1) : \A t \in g.layer[n] : g.cat[t] # "wip"

\* There are no more nodes to see than edges, and the start.
LEMMA NotedAreFew ==
  ASSUME NEW g, Setting(g), NEW V, Noted(g, V)
  PROVE  Cardinality(V) \in Nat /\ Cardinality(V) =< Len(g.edges) + 1
<1> DEFINE I == 1..Len(g.edges)
           T == {g.edges[k].to : k \in I}
<1>1. Len(g.edges) \in Nat
  BY DEF Setting, IsWorkflow
<1>2. IsFiniteSet(I) /\ Cardinality(I) = Len(g.edges)
  <2> HIDE DEF I
  <2> QED
    BY <1>1, FS_Interval DEF I
<1>3. IsFiniteSet(T) /\ Cardinality(T) =< Cardinality(I)
  <2> DEFINE f == [k \in I |-> g.edges[k].to]
  <2>1. f \in Surjection(I, T)
    BY DEF Surjection
  <2> HIDE DEF f, I, T
  <2> QED
    BY <1>2, <2>1, FS_Surjection
<1>4. IsFiniteSet(T \cup {g.start}) /\ Cardinality(T \cup {g.start}) =< Cardinality(T) + 1
  <2> HIDE DEF T
  <2> QED
    <3>1. IsFiniteSet(T) /\ Cardinality(T) \in Nat
      BY <1>3, FS_CardinalityType
    <3>2. /\ IsFiniteSet(T \cup {g.start})
          /\ \/ Cardinality(T \cup {g.start}) = Cardinality(T)
             \/ Cardinality(T \cup {g.start}) = Cardinality(T) + 1
      BY <3>1, FS_AddElement
    <3> QED
      BY <3>1, <3>2
<1>5. V \subseteq T \cup {g.start}
  BY DEF Noted
<1>6. Cardinality(V) =< Cardinality(T \cup {g.start}) /\ Cardinality(V) \in Nat
  <2> HIDE DEF T
  <2> QED
    BY <1>4, <1>5, FS_Subset, FS_CardinalityType
<1>7. Cardinality(T) \in Nat /\ Cardinality(T \cup {g.start}) \in Nat
  <2> HIDE DEF T
  <2> QED
    BY <1>3, <1>4, FS_CardinalityType
<1> HIDE DEF T, I
<1> QED
  BY <1>1, <1>2, <1>3, <1>4, <1>6, <1>7

\* Every node as near as the queue's head was seen; every one there is, if the queue is empty.
LEMMA LayersSeen ==
  ASSUME NEW g, Setting(g), NEW b, Waiting(g, b), NEW n \in 0..g.depth,
         b.queue # <<>> => n =< Len(Head(b.queue))
  PROVE  g.layer[n] \subseteq b.visited
<1> DEFINE P == {k \in 0..n : g.layer[k] \subseteq b.visited}
<1>1. n \in Nat /\ g.depth \in Nat /\ b.queue \in Seq(Seq(g.nodes))
  BY DEF Setting, Waiting, Queued
<1>2. 0 \in P
  BY <1>1 DEF Setting, Waiting, Seen, Noted
<1>3. ASSUME NEW k \in 0..(n - 1), k \in P PROVE k + 1 \in P
  <2>1. g.layer[k] \subseteq b.visited /\ g.layer[k + 1] = NextLayer(g, g.layer[k]) /\ k + 1 \in 0..n
    BY <1>1, <1>3 DEF Setting
  <2>2. ASSUME NEW u \in g.layer[k] PROVE ~Awaits(g, b.queue, u)
    <3> SUFFICES ASSUME NEW i \in 1..Len(b.queue), End(g, b.queue[i]) = u PROVE FALSE
      BY DEF Awaits
    <3>1. b.queue # <<>> /\ Head(b.queue) = b.queue[1] /\ 1 \in 1..Len(b.queue)
      BY <1>1
    <3>2. Len(b.queue[1]) \in Nat /\ Len(b.queue[i]) \in Nat
      BY <1>1, <3>1
    <3>3. Len(b.queue[1]) =< Len(b.queue[i])
      BY <1>1, <3>1 DEF Waiting, Queued, InOrder
    <3>4. n =< Len(b.queue[i]) /\ k \in 0..(Len(b.queue[i]) - 1)
      BY <1>1, <3>1, <3>2, <3>3
    <3>5. End(g, b.queue[i]) \notin g.layer[k]
      BY <3>4 DEF Waiting, Queued, Leads, IsShortest
    <3> QED
      BY <3>5
  <2>3. ASSUME NEW u \in g.layer[k] PROVE Followed(g, b.visited, u)
    BY <2>1, <2>2 DEF Waiting, NoneMissed
  <2>4. g.layer[k + 1] \subseteq b.visited
    BY <2>1, <2>3 DEF NextLayer, Followed
  <2> QED
    BY <2>1, <2>4
<1>4. \A k \in 0..n : k \in P
  <2> HIDE DEF P
  <2> QED
    BY <1>1, <1>2, <1>3, Climb
<1> QED
  BY <1>1, <1>4

\* A path goes on with a soft hop to a node it has not come by.
LEMMA PathGrows ==
  ASSUME NEW g, Setting(g), NEW w, IsPath(g, w), NEW t \in g.nodes, Soft(g, End(g, w), t),
         \A k \in 0..Len(w) : At(g, w, k) # t
  PROVE  /\ IsPath(g, Append(w, t)) /\ Len(Append(w, t)) = Len(w) + 1
         /\ End(g, Append(w, t)) = t /\ \A k \in 0..Len(w) : At(g, Append(w, t), k) = At(g, w, k)
<1> DEFINE v == Append(w, t)
<1>1. /\ w \in Seq(g.nodes) /\ Len(w) \in Nat /\ v \in Seq(g.nodes) /\ Len(v) = Len(w) + 1
      /\ v[Len(w) + 1] = t /\ \A k \in 1..Len(w) : v[k] = w[k]
  BY DEF IsPath
<1> HIDE DEF v
<1>2. \A k \in 0..Len(w) : At(g, v, k) = At(g, w, k)
  BY <1>1 DEF At
<1>3. At(g, v, Len(w) + 1) = t /\ End(g, v) = t
  BY <1>1 DEF At, End
<1>4. ASSUME NEW k \in 1..Len(v) PROVE Soft(g, At(g, v, k - 1), At(g, v, k))
  <2>1. CASE k =< Len(w)
    <3>1. k \in 1..Len(w) /\ k - 1 \in 0..Len(w) /\ k \in 0..Len(w)
      BY <1>1, <2>1
    <3>2. Soft(g, At(g, w, k - 1), At(g, w, k))
      BY <3>1 DEF IsPath
    <3> QED
      BY <1>2, <3>1, <3>2
  <2>2. CASE k = Len(w) + 1
    <3>1. k - 1 = Len(w) /\ Len(w) \in 0..Len(w)
      BY <1>1, <2>2
    <3> QED
      BY <1>2, <1>3, <2>2, <3>1 DEF End
  <2> QED
    BY <1>1, <2>1, <2>2
<1>5. ASSUME NEW j \in 0..Len(v), NEW k \in 0..Len(v), At(g, v, j) = At(g, v, k) PROVE j = k
  <2>1. \A i \in 0..Len(v) : i \in 0..Len(w) \/ i = Len(w) + 1
    BY <1>1
  <2>2. \A i, m \in 0..Len(w) : At(g, w, i) = At(g, w, m) => i = m
    BY DEF IsPath
  <2> QED
    BY <1>2, <1>3, <1>5, <2>1, <2>2
<1>6. IsPath(g, v)
  BY <1>1, <1>4, <1>5 DEF IsPath
<1> QED
  BY <1>1, <1>2, <1>3, <1>6 DEF v
-----------------------------------------------------------------------------
(* A turn of the search: the scan of the edges from the node at the queue's head *)

\* The state a, after the first k edges were looked at in a turn that began in b.
Scanning(g, b, a, k) ==
    LET walk == Head(b.queue)
        u == End(g, walk)
    IN  /\ a \in SearchState(g.nodes) /\ a.found = <<>> /\ b.visited \subseteq a.visited
        /\ Seen(g, a.visited) /\ Queued(g, a.queue, a.visited)
        /\ \A j \in 1..Len(a.queue) : Len(walk) =< Len(a.queue[j]) /\ Len(a.queue[j]) =< Len(walk) + 1
        /\ \A v \in a.visited : v = u \/ Awaits(g, a.queue, v) \/ Followed(g, a.visited, v)
        /\ \A j \in 1..k : g.edges[j].from = u /\ ~g.edges[j].hard => g.edges[j].to \in a.visited
        /\ Cardinality(a.visited) + Len(b.queue) = Cardinality(b.visited) + Len(a.queue) + 1
Scanned(g, b, a, k) == Scanning(g, b, a, k) \/ Arrived(g, a)

LEMMA HeadLeads ==
  ASSUME NEW g, NEW b, Waiting(g, b), b.queue # <<>>
  PROVE  /\ Leads(g, Head(b.queue), b.visited) /\ Head(b.queue) \in Seq(g.nodes)
         /\ Len(Head(b.queue)) \in Nat
         /\ Head(b.queue) = b.queue[1] /\ 1 \in 1..Len(b.queue) /\ Len(b.queue) \in Nat
         /\ EndOf(g.start, Head(b.queue)) = End(g, Head(b.queue))
         /\ End(g, Head(b.queue)) \in b.visited
<1>1. b.queue \in Seq(Seq(g.nodes))
  BY DEF Waiting, Queued
<1>2. Head(b.queue) = b.queue[1] /\ 1 \in 1..Len(b.queue) /\ Len(b.queue) \in Nat
  BY <1>1
<1>3. Leads(g, b.queue[1], b.visited)
  BY <1>2 DEF Waiting, Queued
<1>4. b.queue[1] \in Seq(g.nodes) /\ Len(b.queue[1]) \in Nat
  BY <1>1, <1>2
<1>5. EndOf(g.start, b.queue[1]) = End(g, b.queue[1])
  <2>1. b.queue[1] = <<>> <=> Len(b.queue[1]) = 0
    BY <1>4
  <2> QED
    BY <2>1 DEF EndOf, End, At, Last
<1>6. End(g, b.queue[1]) \in b.visited
  <2>1. Len(b.queue[1]) \in 0..Len(b.queue[1])
    BY <1>4
  <2> QED
    BY <1>3, <2>1 DEF Leads, End
<1> QED
  BY <1>2, <1>3, <1>4, <1>5, <1>6

LEMMA TailIs ==
  ASSUME NEW S, NEW q \in Seq(S), q # <<>>
  PROVE  /\ Tail(q) \in Seq(S) /\ Len(Tail(q)) = Len(q) - 1 /\ Len(q) \in Nat
         /\ \A k \in 1..Len(Tail(q)) : Tail(q)[k] = q[k + 1] /\ k + 1 \in 1..Len(q)
OBVIOUS

Grown(S, q, x, r) ==
    /\ r \in Seq(S) /\ Len(r) = Len(q) + 1 /\ Len(q) \in Nat
    /\ r[Len(q) + 1] = x /\ \A k \in 1..Len(q) : r[k] = q[k]

LEMMA AppendIs ==
  ASSUME NEW S, NEW q \in Seq(S), NEW x \in S
  PROVE  Grown(S, q, x, Append(q, x))
BY DEF Grown

LEMMA ScanStarts ==
  ASSUME NEW g, Setting(g), NEW b, Waiting(g, b), b.queue # <<>>
  PROVE  Scanned(g, b, [b EXCEPT !.queue = Tail(@)], 0)
<1> DEFINE q == Tail(b.queue)
           a == [b EXCEPT !.queue = Tail(@)]
           walk == Head(b.queue)
<1>1. b \in SearchState(g.nodes) /\ b.queue \in Seq(Seq(g.nodes)) /\ InOrder(b.queue)
  BY DEF Waiting, Queued
<1>2. a \in SearchState(g.nodes) /\ a.visited = b.visited /\ a.queue = q /\ a.found = b.found
  <2>1. q \in Seq(Seq(g.nodes))
    BY <1>1, TailIs
  <2> QED
    BY <1>1, <2>1 DEF SearchState
<1>3. /\ q \in Seq(Seq(g.nodes)) /\ Len(q) = Len(b.queue) - 1 /\ Len(b.queue) \in Nat
      /\ \A k \in 1..Len(q) : q[k] = b.queue[k + 1] /\ k + 1 \in 1..Len(b.queue)
  BY <1>1, TailIs
<1>4. walk = b.queue[1] /\ 1 \in 1..Len(b.queue) /\ Len(walk) \in Nat
  BY HeadLeads
<1> HIDE DEF q, a, walk
<1>5. InOrder(q)
  <2> SUFFICES ASSUME NEW j \in 1..Len(q), NEW k \in 1..Len(q), j =< k
               PROVE  Len(q[j]) =< Len(q[k]) /\ Len(q[k]) =< Len(q[j]) + 1
    BY DEF InOrder
  <2>1. j + 1 \in 1..Len(b.queue) /\ k + 1 \in 1..Len(b.queue) /\ j + 1 =< k + 1
    BY <1>3
  <2>2. Len(b.queue[j + 1]) =< Len(b.queue[k + 1]) /\ Len(b.queue[k + 1]) =< Len(b.queue[j + 1]) + 1
    BY <1>1, <2>1 DEF InOrder
  <2> QED
    BY <1>3, <2>2
<1>6. Queued(g, q, b.visited)
  BY <1>3, <1>5 DEF Queued, Waiting
<1>7. ASSUME NEW j \in 1..Len(q) PROVE Len(walk) =< Len(q[j]) /\ Len(q[j]) =< Len(walk) + 1
  <2>1. j + 1 \in 1..Len(b.queue) /\ 1 =< j + 1 /\ q[j] = b.queue[j + 1]
    BY <1>3
  <2> QED
    BY <1>1, <1>4, <2>1 DEF InOrder
<1>8. ASSUME NEW v \in b.visited
      PROVE  v = End(g, walk) \/ Awaits(g, q, v) \/ Followed(g, b.visited, v)
  <2>1. CASE Awaits(g, b.queue, v)
    <3>1. PICK k \in 1..Len(b.queue) : End(g, b.queue[k]) = v
      BY <2>1 DEF Awaits
    <3>2. CASE k = 1
      BY <1>4, <3>1, <3>2
    <3>3. CASE k # 1
      <4>1. k - 1 \in 1..Len(q) /\ q[k - 1] = b.queue[k]
        BY <1>3, <3>3
      <4> QED
        BY <3>1, <4>1 DEF Awaits
    <3> QED
      BY <3>2, <3>3
  <2>2. CASE Followed(g, b.visited, v)
    BY <2>2
  <2> QED
    BY <2>1, <2>2 DEF Waiting, NoneMissed
<1>9. Cardinality(b.visited) \in Nat
  BY NotedAreFew DEF Waiting, Seen
<1>10. Cardinality(a.visited) + Len(b.queue) = Cardinality(b.visited) + Len(a.queue) + 1
  BY <1>2, <1>3, <1>9
<1>11. Scanning(g, b, a, 0)
  BY <1>2, <1>6, <1>7, <1>8, <1>10 DEF Scanning, Waiting, walk
<1> QED
  BY <1>11 DEF Scanned, a

LEMMA ScanEnds ==
  ASSUME NEW g, Setting(g), NEW b, Waiting(g, b), b.queue # <<>>, NEW a,
         Scanning(g, b, a, Len(g.edges))
  PROVE  /\ Waiting(g, a)
         /\ Cardinality(a.visited) + Len(b.queue) = Cardinality(b.visited) + Len(a.queue) + 1
<1>1. Followed(g, a.visited, End(g, Head(b.queue)))
  BY DEF Scanning, Followed, Soft
<1> QED
  BY <1>1 DEF Scanning, Waiting, NoneMissed

\* One edge looked at.
LEMMA ScanSteps ==
  ASSUME NEW g, Setting(g), NEW b, Waiting(g, b), b.queue # <<>>,
         NEW k \in 0..(Len(g.edges) - 1), NEW a, Scanned(g, b, a, k)
  PROVE  Scanned(g, b, Along(g.cat, g.start, Head(b.queue), a, g.edges[k + 1]), k + 1)
<1> DEFINE walk == Head(b.queue)
           edge == g.edges[k + 1]
           t == edge.to
           n == Along(g.cat, g.start, walk, a, edge)
           new == Append(walk, t)
<1>1. /\ Len(g.edges) \in Nat /\ k + 1 \in 1..Len(g.edges) /\ edge.from \in g.nodes /\ t \in g.nodes
      /\ edge.hard \in BOOLEAN /\ a \in SearchState(g.nodes)
  BY DEF Setting, IsWorkflow, Scanned, Scanning, Arrived
<1>2. /\ Leads(g, walk, b.visited) /\ EndOf(g.start, walk) = End(g, walk) /\ walk \in Seq(g.nodes)
      /\ Len(walk) \in Nat /\ End(g, walk) \in b.visited
  BY HeadLeads
<1>21. LET m == Visit(g.cat, walk, a, edge)
       IN  /\ m \in SearchState(g.nodes)
           /\ a.found # <<>> \/ edge.hard \/ edge.to \in a.visited => m = a
           /\ a.found = <<>> /\ ~edge.hard /\ edge.to \notin a.visited =>
                 /\ m.visited = a.visited \cup {edge.to}
                 /\ g.cat[edge.to] = "wip" => m.queue = a.queue /\ m.found = Append(walk, edge.to)
                 /\ g.cat[edge.to] # "wip" => m.queue = Append(a.queue, Append(walk, edge.to)) /\ m.found = <<>>
  <2>1. edge.to \in g.nodes /\ edge.hard \in BOOLEAN /\ a \in SearchState(g.nodes) /\ walk \in Seq(g.nodes)
    BY <1>1, <1>2
  <2> HIDE DEF walk, edge, n, new, t
  <2>2. Visits(g.nodes, g.cat, a, walk, edge)
    BY <2>1, VisitGives
  <2> QED
    BY <2>2 DEF Visits
<1>3. CASE n = a
  <2>1. CASE Arrived(g, a)
    BY <1>3, <2>1 DEF Scanned
  <2>2. CASE Scanning(g, b, a, k)
    <3>1. edge.from = End(g, walk) /\ ~edge.hard => edge.to \in a.visited
      <4> SUFFICES ASSUME edge.from = End(g, walk), ~edge.hard, edge.to \notin a.visited PROVE FALSE
        OBVIOUS
      <4>1. a.found = <<>>
        BY <2>2 DEF Scanning
      <4>2. Visit(g.cat, walk, a, edge).visited = a.visited \cup {edge.to}
        BY <1>21, <4>1
      <4>3. n = Visit(g.cat, walk, a, edge)
        BY <1>2 DEF Along
      <4> QED
        BY <1>3, <4>2, <4>3
    <3>2. ASSUME NEW j \in 1..(k + 1), g.edges[j].from = End(g, walk), ~g.edges[j].hard
          PROVE  g.edges[j].to \in a.visited
      <4>1. CASE j = k + 1
        BY <3>1, <3>2, <4>1
      <4>2. CASE j # k + 1
        <5>1. j \in 1..k
          BY <4>2
        <5> QED
          BY <2>2, <3>2, <5>1 DEF Scanning
      <4> QED
        BY <4>1, <4>2
    <3>3. Scanning(g, b, a, k + 1)
      BY <2>2, <3>2 DEF Scanning
    <3> QED
      BY <1>3, <3>3 DEF Scanned
  <2> QED
    BY <2>1, <2>2 DEF Scanned
<1>4. CASE n # a
  <2>1. edge.from = End(g, walk) /\ n = Visit(g.cat, walk, a, edge)
    BY <1>2, <1>4 DEF Along
  <2>2. a.found = <<>> /\ ~edge.hard /\ t \notin a.visited
    BY <1>1, <1>21, <1>4, <2>1
  <2>3. Scanning(g, b, a, k)
    BY <2>2 DEF Scanned, Arrived
  <2>4. /\ n \in SearchState(g.nodes) /\ n.visited = a.visited \cup {t}
        /\ g.cat[t] = "wip" => n.queue = a.queue /\ n.found = new
        /\ g.cat[t] # "wip" => n.queue = Append(a.queue, new) /\ n.found = <<>>
    BY <1>21, <2>1, <2>2
  <2>5. /\ b.visited \subseteq a.visited /\ Seen(g, a.visited) /\ Queued(g, a.queue, a.visited)
        /\ t \notin b.visited
    BY <2>2, <2>3 DEF Scanning
  <2>6. Soft(g, End(g, walk), t)
    BY <1>1, <2>1, <2>2 DEF Soft
  <2>7. \A i \in 0..Len(walk) : At(g, walk, i) \in b.visited /\ At(g, walk, i) # t /\ g.cat[At(g, walk, i)] # "wip"
    BY <1>2, <2>5 DEF Leads, Seen
  <2>8. /\ IsPath(g, new) /\ Len(new) = Len(walk) + 1 /\ End(g, new) = t
        /\ \A i \in 0..Len(walk) : At(g, new, i) = At(g, walk, i)
    BY <1>1, <1>2, <2>6, <2>7, PathGrows DEF Leads
  <2>9. Noted(g, a.visited \cup {t})
    <3>1. IsFiniteSet(a.visited \cup {t})
      BY <2>5, FS_AddElement DEF Seen, Noted
    <3>2. \E j \in 1..Len(g.edges) : t = g.edges[j].to
      BY <1>1
    <3> QED
      BY <1>1, <2>5, <3>1, <3>2 DEF Seen, Noted
  <2>10. /\ Cardinality(a.visited) \in Nat /\ Cardinality(b.visited) \in Nat
         /\ Cardinality(b.visited) =< Cardinality(a.visited)
         /\ Cardinality(a.visited \cup {t}) = Cardinality(a.visited) + 1
         /\ Cardinality(a.visited) =< Len(g.edges)
    <3>1. IsFiniteSet(a.visited)
      BY <2>5 DEF Seen, Noted
    <3>2. Cardinality(b.visited) =< Cardinality(a.visited)
      BY <2>5, <3>1, FS_Subset
    <3>3. Cardinality(a.visited \cup {t}) = Cardinality(a.visited) + 1
      BY <2>2, <3>1, FS_AddElement
    <3>4. Cardinality(a.visited) \in Nat /\ Cardinality(b.visited) \in Nat
      BY <2>5, NotedAreFew DEF Waiting, Seen
    <3>5. Cardinality(a.visited \cup {t}) =< Len(g.edges) + 1
      BY <2>9, NotedAreFew
    <3> QED
      BY <1>1, <3>2, <3>3, <3>4, <3>5
  <2>11. /\ Len(walk) + 1 =< Cardinality(b.visited) /\ Len(walk) + 1 =< Len(g.edges)
         /\ Len(g.edges) =< g.depth /\ g.depth \in Nat
    BY <1>1, <1>2, <2>10 DEF Leads, Setting
  <2>12. ASSUME NEW i \in 0..Len(walk) PROVE g.layer[i] \subseteq b.visited
    BY <1>1, <1>2, <2>11, LayersSeen
  <2>13. t \in g.layer[Len(new)] /\ Len(new) =< g.depth
    <3>1. End(g, walk) \in g.layer[Len(walk)] /\ g.cat[End(g, walk)] # "wip"
      BY <1>2, <2>5 DEF Leads, IsShortest, Waiting, Seen
    <3>2. g.layer[Len(walk) + 1] = NextLayer(g, g.layer[Len(walk)])
      <4>1. Len(walk) \in 0..(g.depth - 1)
        BY <1>2, <2>11
      <4> HIDE DEF walk
      <4> QED
        BY <4>1 DEF Setting
    <3> QED
      BY <1>1, <2>6, <2>8, <2>11, <3>1, <3>2 DEF NextLayer
  <2>14. CASE g.cat[t] = "wip"
    <3>1. /\ n.found = new /\ new # <<>> /\ Len(n.found) =< Len(g.edges)
      <4>1. Len(new) > 0 /\ Len(new) =< Len(g.edges)
        BY <1>2, <2>8, <2>11
      <4>2. n.found = new
        BY <2>4, <2>14
      <4> HIDE DEF new, n
      <4> QED
        BY <4>1, <4>2
    <3>2. \A i \in 0..(Len(new) - 1) : g.cat[At(g, new, i)] # "wip"
      BY <1>2, <2>7, <2>8
    <3>3. ASSUME NEW i \in 0..(Len(new) - 1) PROVE \A v \in g.layer[i] : g.cat[v] # "wip"
      <4>1. i \in 0..Len(walk)
        BY <1>2, <2>8
      <4> QED
        BY <2>5, <2>12, <4>1 DEF Waiting, Seen
    <3>4. Arrived(g, n)
      BY <2>4, <2>8, <2>13, <2>14, <3>1, <3>2, <3>3 DEF Arrived
    <3> QED
      BY <3>4 DEF Scanned
  <2>15. CASE g.cat[t] # "wip"
    <3> DEFINE V == a.visited \cup {t}
               q == Append(a.queue, new)
    <3>1. n.visited = V /\ n.queue = q /\ n.found = <<>>
      BY <2>4, <2>15
    <3>2. /\ a.queue \in Seq(Seq(g.nodes)) /\ Len(a.queue) \in Nat /\ q \in Seq(Seq(g.nodes))
          /\ Len(q) = Len(a.queue) + 1 /\ q[Len(a.queue) + 1] = new
          /\ \A j \in 1..Len(a.queue) : q[j] = a.queue[j] /\ Len(a.queue[j]) \in Nat
      <4>1. new \in Seq(g.nodes) /\ a.queue \in Seq(Seq(g.nodes))
        BY <2>5, <2>8 DEF Queued, IsPath
      <4>2. \A j \in 1..Len(a.queue) : a.queue[j] \in Seq(g.nodes) /\ Len(a.queue[j]) \in Nat
        BY <4>1
      <4> HIDE DEF new
      <4> QED
        <5>1. /\ q \in Seq(Seq(g.nodes)) /\ Len(q) = Len(a.queue) + 1 /\ Len(a.queue) \in Nat
              /\ q[Len(a.queue) + 1] = new /\ \A j \in 1..Len(a.queue) : q[j] = a.queue[j]
          <6> HIDE DEF V
          <6>1. Grown(Seq(g.nodes), a.queue, new, Append(a.queue, new))
            BY <4>1, AppendIs
          <6> QED
            BY <6>1 DEF Grown
        <5> QED
          BY <4>1, <4>2, <5>1
    <3>3. Seen(g, V)
      BY <2>5, <2>9, <2>15 DEF Seen
    <3> HIDE DEF V, q, n, new, walk
    <3>4. V = a.visited \cup {t} /\ Cardinality(V) = Cardinality(a.visited) + 1
      BY <2>10 DEF V
    <3>5. IsShortest(g, new)
      <4>1. ASSUME NEW i \in 0..(Len(new) - 1) PROVE t \notin g.layer[i]
        <5>1. i \in 0..Len(walk)
          BY <1>2, <2>8
        <5> QED
          BY <2>5, <2>12, <5>1
      <4> QED
        BY <2>8, <2>13, <4>1 DEF IsShortest
    <3>6. Leads(g, new, V)
      <4>1. ASSUME NEW i \in 0..Len(new) PROVE At(g, new, i) \in V
        <5>1. CASE i = Len(new)
          BY <2>8, <3>4, <5>1 DEF End
        <5>2. CASE i # Len(new)
          <6>1. i \in 0..Len(walk)
            BY <1>2, <2>8, <5>2
          <6> QED
            BY <2>5, <2>7, <2>8, <3>4, <6>1
        <5> QED
          BY <5>1, <5>2
      <4>2. Len(new) + 1 =< Cardinality(V)
        BY <1>2, <2>8, <2>10, <2>11, <3>4
      <4> QED
        BY <2>8, <3>5, <4>1, <4>2 DEF Leads
    <3>7. ASSUME NEW w, Leads(g, w, a.visited) PROVE Leads(g, w, V)
      <4>1. Len(w) \in Nat
        BY <3>7 DEF Leads, IsPath
      <4> QED
        BY <2>10, <3>4, <3>7, <4>1 DEF Leads
    <3>8. ASSUME NEW j \in 1..Len(q) PROVE Leads(g, q[j], V)
      <4>1. CASE j \in 1..Len(a.queue)
        BY <2>5, <3>2, <3>7, <4>1 DEF Queued
      <4>2. CASE j = Len(a.queue) + 1
        BY <3>2, <3>6, <4>2
      <4> QED
        BY <3>2, <4>1, <4>2
    <3>9. /\ \A j \in 1..Len(a.queue) : Len(walk) =< Len(a.queue[j]) /\ Len(a.queue[j]) =< Len(walk) + 1
          /\ InOrder(a.queue)
      BY <2>3, <2>5 DEF Scanning, Queued, walk
    <3>10. ASSUME NEW j \in 1..Len(q) PROVE Len(walk) =< Len(q[j]) /\ Len(q[j]) =< Len(walk) + 1
      <4>1. CASE j \in 1..Len(a.queue)
        BY <3>2, <3>9, <4>1
      <4>2. CASE j = Len(a.queue) + 1
        BY <1>2, <2>8, <3>2, <4>2
      <4> QED
        BY <3>2, <4>1, <4>2
    <3>11. InOrder(q)
      <4> SUFFICES ASSUME NEW i \in 1..Len(q), NEW j \in 1..Len(q), i =< j
                   PROVE  Len(q[i]) =< Len(q[j]) /\ Len(q[j]) =< Len(q[i]) + 1
        BY DEF InOrder
      <4>1. CASE j \in 1..Len(a.queue)
        <5>1. i \in 1..Len(a.queue)
          BY <3>2, <4>1
        <5> QED
          BY <3>2, <3>9, <4>1, <5>1 DEF InOrder
      <4>2. CASE j = Len(a.queue) + 1
        <5>1. q[j] = new /\ Len(q[j]) = Len(walk) + 1
          BY <2>8, <3>2, <4>2
        <5>2. CASE i = j
          BY <1>2, <5>1, <5>2
        <5>3. CASE i # j
          <6>1. i \in 1..Len(a.queue) /\ q[i] = a.queue[i] /\ Len(a.queue[i]) \in Nat
            BY <3>2, <4>2, <5>3
          <6> QED
            BY <1>2, <3>9, <5>1, <6>1
        <5> QED
          BY <5>2, <5>3
      <4> QED
        BY <3>2, <4>1, <4>2
    <3>12. Queued(g, q, V)
      BY <3>2, <3>8, <3>11 DEF Queued
    <3>13. ASSUME NEW v \in V PROVE v = End(g, walk) \/ Awaits(g, q, v) \/ Followed(g, V, v)
      <4>1. CASE v = t
        <5>1. Len(a.queue) + 1 \in 1..Len(q) /\ End(g, q[Len(a.queue) + 1]) = t
          BY <2>8, <3>2
        <5> QED
          BY <4>1, <5>1 DEF Awaits
      <4>2. CASE v \in a.visited
        <5>1. v = End(g, walk) \/ Awaits(g, a.queue, v) \/ Followed(g, a.visited, v)
          BY <2>3, <4>2 DEF Scanning, walk
        <5>2. Awaits(g, a.queue, v) => Awaits(g, q, v)
          <6>1. \A j \in 1..Len(a.queue) : j \in 1..Len(q) /\ q[j] = a.queue[j]
            BY <3>2
          <6> QED
            BY <6>1 DEF Awaits
        <5>3. Followed(g, a.visited, v) => Followed(g, V, v)
          BY <3>4 DEF Followed
        <5> QED
          BY <5>1, <5>2, <5>3
      <4> QED
        BY <3>4, <4>1, <4>2
    <3>14. ASSUME NEW j \in 1..(k + 1), g.edges[j].from = End(g, walk), ~g.edges[j].hard
           PROVE  g.edges[j].to \in V
      <4>1. CASE j = k + 1
        BY <3>4, <4>1
      <4>2. CASE j # k + 1
        <5>1. j \in 1..k
          BY <4>2
        <5>2. g.edges[j].to \in a.visited
          BY <2>3, <3>14, <5>1 DEF Scanning, walk
        <5> QED
          BY <3>4, <5>2
      <4> QED
        BY <4>1, <4>2
    <3>15. Cardinality(V) + Len(b.queue) = Cardinality(b.visited) + Len(q) + 1
      <4>1. /\ Cardinality(a.visited) + Len(b.queue) = Cardinality(b.visited) + Len(a.queue) + 1
            /\ Len(b.queue) \in Nat
        BY <2>3, HeadLeads DEF Scanning
      <4> QED
        BY <2>10, <3>2, <3>4, <4>1
    <3>16. b.visited \subseteq V
      BY <2>5, <3>4
    <3>17. Scanning(g, b, n, k + 1)
      BY <2>4, <3>1, <3>3, <3>10, <3>12, <3>13, <3>14, <3>15, <3>16 DEF Scanning, walk
    <3> QED
      BY <3>17 DEF Scanned, n, walk
  <2> QED
    BY <2>14, <2>15
<1> QED
  BY <1>3, <1>4
-----------------------------------------------------------------------------
(* The whole search                                                              *)

\* After n turns the search is over, has nothing left to look at, or has taken n nodes off its queue.
Progress(g, b, n) ==
    \/ Arrived(g, b)
    \/ Waiting(g, b) /\ (b.queue = <<>> \/ Cardinality(b.visited) = n + Len(b.queue))

LEMMA OnlyIs ==
  ASSUME NEW S, NEW x \in S
  PROVE  <<x>> \in Seq(S) /\ Len(<<x>>) = 1 /\ <<x>>[1] = x
OBVIOUS

LEMMA ProgressStarts ==
  ASSUME NEW g, Setting(g)
  PROVE  Progress(g, AtStart(g.start), 0)
<1> DEFINE b == AtStart(g.start)
           q == <<(<<>>)>>
           V == {g.start}
           e == <<>>
<1>1. b.visited = V /\ b.queue = q /\ b.found = e
  BY DEF AtStart
<1>2. /\ g.start \in g.nodes /\ g.cat[g.start] # "wip" /\ g.layer[0] = {g.start} /\ g.depth \in Nat
  BY DEF Setting
<1>3. e \in Seq(g.nodes) /\ Len(e) = 0
  OBVIOUS
<1>4. q \in Seq(Seq(g.nodes)) /\ Len(q) = 1 /\ q[1] = e
  <2> HIDE DEF e
  <2>1. <<e>> \in Seq(Seq(g.nodes)) /\ Len(<<e>>) = 1 /\ <<e>>[1] = e
    BY <1>3, OnlyIs
  <2> QED
    BY <2>1 DEF e
<1>5. b \in SearchState(g.nodes)
  BY <1>2, <1>3, <1>4 DEF SearchState, AtStart
<1>6. IsFiniteSet(V) /\ Cardinality(V) = 1
  BY FS_Singleton
<1> HIDE DEF b, q, e, V
<1>7. Seen(g, V)
  BY <1>2, <1>6 DEF Seen, Noted, V
<1>8. \A k \in 0..Len(e) : k = 0 /\ At(g, e, k) = g.start
  BY <1>3 DEF At
<1>9. Leads(g, e, V)
  <2>1. IsPath(g, e)
    BY <1>3, <1>8 DEF IsPath
  <2>2. IsShortest(g, e)
    BY <1>2, <1>3 DEF IsShortest, End, At
  <2>3. \A k \in 0..Len(e) : At(g, e, k) \in V
    BY <1>8 DEF V
  <2>4. Len(e) + 1 =< Cardinality(V)
    BY <1>3, <1>6
  <2> QED
    BY <2>1, <2>2, <2>3, <2>4 DEF Leads
<1>10. Queued(g, q, V)
  <2>1. InOrder(q)
    BY <1>3, <1>4 DEF InOrder
  <2> QED
    BY <1>4, <1>9, <2>1 DEF Queued
<1>11. NoneMissed(g, q, V)
  <2>1. End(g, q[1]) = g.start /\ 1 \in 1..Len(q)
    BY <1>3, <1>4 DEF End, At
  <2> QED
    BY <2>1 DEF NoneMissed, Awaits, V
<1>12. Waiting(g, b)
  BY <1>1, <1>5, <1>7, <1>10, <1>11 DEF Waiting, e
<1>13. Cardinality(b.visited) = 0 + Len(b.queue)
  BY <1>1, <1>4, <1>6
<1> QED
  BY <1>12, <1>13 DEF Progress, b

LEMMA TurnKeeps ==
  ASSUME NEW g, Setting(g), NEW n \in Nat, NEW b, Progress(g, b, n)
  PROVE  Progress(g, TurnOf(g.cat, g.edges, g.start, b), n + 1)
<1> DEFINE r == TurnOf(g.cat, g.edges, g.start, b)
<1>1. CASE Arrived(g, b)
  <2>1. r = b
    BY <1>1 DEF TurnOf, Arrived
  <2> QED
    BY <1>1, <2>1 DEF Progress
<1>2. CASE Waiting(g, b) /\ b.queue = <<>>
  <2>1. r = b
    BY <1>2 DEF TurnOf
  <2> QED
    BY <1>2, <2>1 DEF Progress
<1>3. CASE Waiting(g, b) /\ b.queue # <<>>
  <2>1. r = Expand(g.cat, g.edges, g.start, b)
    BY <1>3 DEF TurnOf, Waiting
  <2>2. IsWorkflow(g.nodes, g.edges) /\ g.start \in g.nodes /\ b \in SearchState(g.nodes) /\ Len(g.edges) \in Nat
    BY <1>3 DEF Setting, Waiting, IsWorkflow
  <2>3. PICK f \in [0..Len(g.edges) -> SearchState(g.nodes)] :
           ScanOf(g.cat, g.edges, g.start, b, f) /\ Expand(g.cat, g.edges, g.start, b) = f[Len(g.edges)]
    <3>1. ScanIs(g.nodes, g.cat, g.edges, g.start, b)
      BY <1>3, <2>2, ScanExists
    <3> QED
      BY <3>1 DEF ScanIs
  <2> DEFINE P == {k \in 0..Len(g.edges) : Scanned(g, b, f[k], k)}
  <2>4. 0 \in P
    <3>1. f[0] = [b EXCEPT !.queue = Tail(@)]
      BY <2>2, <2>3 DEF ScanOf
    <3> QED
      BY <1>3, <2>2, <3>1, ScanStarts
  <2>5. ASSUME NEW k \in 0..(Len(g.edges) - 1), k \in P PROVE k + 1 \in P
    <3>1. k + 1 \in 0..Len(g.edges) /\ k + 1 # 0 /\ (k + 1) - 1 = k
      BY <2>2
    <3>2. f[k + 1] = Along(g.cat, g.start, Head(b.queue), f[k], g.edges[k + 1])
      BY <2>3, <3>1 DEF ScanOf
    <3>3. Scanned(g, b, f[k], k)
      BY <2>5
    <3>4. Scanned(g, b, Along(g.cat, g.start, Head(b.queue), f[k], g.edges[k + 1]), k + 1)
      BY <1>3, <3>3, ScanSteps
    <3> QED
      BY <3>1, <3>2, <3>4
  <2>6. Len(g.edges) \in P
    <3> HIDE DEF P
    <3>1. \A k \in 0..Len(g.edges) : k \in P
      BY <2>2, <2>4, <2>5, Climb
    <3> QED
      BY <2>2, <3>1
  <2>7. Scanned(g, b, r, Len(g.edges))
    BY <2>1, <2>3, <2>6
  <2> HIDE DEF r
  <2>8. CASE Arrived(g, r)
    BY <2>8 DEF Progress, r
  <2>9. CASE Scanning(g, b, r, Len(g.edges))
    <3>1. /\ Waiting(g, r)
          /\ Cardinality(r.visited) + Len(b.queue) = Cardinality(b.visited) + Len(r.queue) + 1
      BY <1>3, <2>9, ScanEnds
    <3>2. Cardinality(b.visited) = n + Len(b.queue)
      BY <1>3 DEF Progress, Waiting, Arrived
    <3>3. Len(b.queue) \in Nat /\ Len(r.queue) \in Nat /\ Cardinality(r.visited) \in Nat
      <4>1. b.queue \in Seq(Seq(g.nodes)) /\ r.queue \in Seq(Seq(g.nodes))
        BY <1>3, <3>1 DEF Waiting, Queued
      <4>2. Cardinality(r.visited) \in Nat
        BY <3>1, NotedAreFew DEF Waiting, Seen
      <4> QED
        BY <4>1, <4>2
    <3>4. Cardinality(r.visited) = (n + 1) + Len(r.queue)
      <4> DEFINE cr == Cardinality(r.visited)
                 cb == Cardinality(b.visited)
                 lr == Len(r.queue)
                 lb == Len(b.queue)
      <4>1. cr + lb = cb + lr + 1 /\ cb = n + lb /\ cr \in Nat /\ lb \in Nat /\ lr \in Nat
        BY <3>1, <3>2, <3>3
      <4> HIDE DEF cr, cb, lr, lb
      <4>2. cr = (n + 1) + lr
        BY <4>1
      <4> QED
        BY <4>2 DEF cr, lr
    <3> QED
      BY <3>1, <3>4 DEF Progress, r
  <2> QED
    BY <2>7, <2>8, <2>9 DEF Scanned
<1> QED
  BY <1>1, <1>2, <1>3 DEF Progress

LEMMA ProgressIsState ==
  ASSUME NEW g, NEW n, NEW b, Progress(g, b, n)
  PROVE  b \in SearchState(g.nodes)
BY DEF Progress, Waiting, Arrived

\* The states of the search, turn by turn: the function SoftSearch defines has them.
LEMMA SearchProgresses ==
  ASSUME NEW g, Setting(g)
  PROVE  \E f : /\ \A n \in 0..(Len(g.edges) + 1) : Progress(g, f[n], n)
                /\ SoftSearch(g.cat, g.edges, g.start) = f[Len(g.edges) + 1].found
<1> DEFINE M == Len(g.edges) + 1
           S == SearchState(g.nodes)
           x == AtStart(g.start)
           Turn(b) == TurnOf(g.cat, g.edges, g.start, b)
           D == [k \in 1..M |-> [b \in S |-> IF Turn(b) \in S THEN Turn(b) ELSE b]]
           f == CHOOSE h : SearchOf(g.cat, g.edges, g.start, h)
<1>1. Len(g.edges) \in Nat /\ M \in Nat
  BY DEF Setting, IsWorkflow
<1>2. x \in S
  BY ProgressStarts, ProgressIsState
<1>3. D \in [1..M -> [S -> S]]
  <2> HIDE DEF Turn, S
  <2> QED
    OBVIOUS
<1>4. \A k \in 1..M, b \in S : Turn(b) \in S => D[k][b] = Turn(b)
  <2> HIDE DEF Turn, S
  <2> QED
    OBVIOUS
<1>5. PICK h \in [0..M -> S] : Iterates(h, M, x, D)
  <2> HIDE DEF S, D, x, M
  <2> QED
    BY <1>1, <1>2, <1>3, IterationExists
<1>6. \A n \in 0..M : n \in {k \in 0..M : Progress(g, h[k], k)}
  <2> DEFINE P == {k \in 0..M : Progress(g, h[k], k)}
  <2>0. \A k \in 0..M : h[k] = IF k = 0 THEN x ELSE D[k][h[k - 1]]
    <3> HIDE DEF S, D, x, M
    <3> QED
      BY <1>5 DEF Iterates
  <2> HIDE DEF D, x, M, S
  <2>1. 0 \in P
    BY <1>1, <2>0, ProgressStarts DEF x
  <2>2. ASSUME NEW k \in 0..(M - 1), k \in P PROVE k + 1 \in P
    <3>1. k \in Nat /\ k + 1 \in 1..M /\ k + 1 \in 0..M /\ k + 1 # 0 /\ (k + 1) - 1 = k /\ Progress(g, h[k], k)
      BY <1>1, <2>2
    <3>2. Progress(g, Turn(h[k]), k + 1)
      BY <3>1, TurnKeeps
    <3> HIDE DEF Turn
    <3>3. h[k] \in S /\ Turn(h[k]) \in S
      BY <3>1, <3>2, ProgressIsState DEF S
    <3>4. h[k + 1] = Turn(h[k])
      BY <1>4, <2>0, <3>1, <3>3
    <3> QED
      BY <3>1, <3>2, <3>4
  <2> HIDE DEF P
  <2>3. \A n \in 0..M : n \in P
    BY <1>1, <2>1, <2>2, Climb
  <2> QED
    BY <2>3 DEF P
<1>7. \A n \in 0..M : h[n] = IF n = 0 THEN x ELSE Turn(h[n - 1])
  <2> SUFFICES ASSUME NEW n \in 0..M PROVE h[n] = IF n = 0 THEN x ELSE Turn(h[n - 1])
    OBVIOUS
  <2>0. \A k \in 0..M : h[k] = IF k = 0 THEN x ELSE D[k][h[k - 1]]
    <3> HIDE DEF S, D, x, M
    <3> QED
      BY <1>5 DEF Iterates
  <2>1. CASE n = 0
    <3> HIDE DEF D, x, M, S, Turn
    <3> QED
      BY <2>0, <2>1
  <2>2. CASE n # 0
    <3> HIDE DEF D, x, M, S
    <3>1. n - 1 \in 0..M /\ n \in 1..M /\ n - 1 \in Nat /\ (n - 1) + 1 = n
      BY <1>1, <2>2
    <3>2. Progress(g, h[n - 1], n - 1)
      BY <1>6, <3>1
    <3>3. Progress(g, Turn(h[n - 1]), (n - 1) + 1)
      BY <3>1, <3>2, TurnKeeps
    <3> HIDE DEF Turn
    <3>4. h[n - 1] \in S /\ Turn(h[n - 1]) \in S
      BY <3>2, <3>3, ProgressIsState DEF S
    <3> QED
      BY <1>4, <2>0, <2>2, <3>1, <3>4
  <2> QED
    BY <2>1, <2>2
<1>8. SearchOf(g.cat, g.edges, g.start, h)
  <2>1. h = [n \in 0..M |-> h[n]]
    <3> HIDE DEF M, S
    <3> QED
      OBVIOUS
  <2> QED
    BY <1>7, <2>1 DEF SearchOf
<1>9. SearchOf(g.cat, g.edges, g.start, f)
  BY <1>8
<1>10. \A n \in 0..M : f[n] = IF n = 0 THEN x ELSE Turn(f[n - 1])
  <2> HIDE DEF f
  <2> QED
    BY <1>9 DEF SearchOf
<1>11. \A n \in 0..M : Progress(g, f[n], n)
  <2> DEFINE P == {k \in 0..M : Progress(g, f[k], k)}
  <2> HIDE DEF f, x, M
  <2>1. 0 \in P
    BY <1>1, <1>10, ProgressStarts DEF x
  <2>2. ASSUME NEW k \in 0..(M - 1), k \in P PROVE k + 1 \in P
    <3>1. k \in Nat /\ k + 1 \in 0..M /\ k + 1 # 0 /\ (k + 1) - 1 = k /\ Progress(g, f[k], k)
      BY <1>1, <2>2
    <3>2. Progress(g, Turn(f[k]), k + 1)
      BY <3>1, TurnKeeps
    <3> HIDE DEF Turn
    <3>3. f[k + 1] = Turn(f[k])
      BY <1>10, <3>1
    <3> QED
      BY <3>1, <3>2, <3>3
  <2> HIDE DEF P
  <2>3. \A n \in 0..M : n \in P
    BY <1>1, <2>1, <2>2, Climb
  <2> QED
    BY <2>3 DEF P
<1>12. SoftSearch(g.cat, g.edges, g.start) = f[M].found
  BY SearchIs
<1> HIDE DEF f
<1> QED
  BY <1>11, <1>12
\* What the search may answer: a shortest walk to work, or none where there is no work to walk to.
Reaches(g, w) ==
    /\ w # <<>> /\ IsPath(g, w) /\ Len(w) =< g.depth
    /\ End(g, w) \in g.layer[Len(w)] /\ g.cat[End(g, w)] = "wip"
    /\ \A k \in 0..(Len(w) - 1) : g.cat[At(g, w, k)] # "wip"
    /\ \A n \in 0..(Len(w) - 1) : \A t \in g.layer[n] : g.cat[t] # "wip"
Hopeless(g) == \A n \in 0..g.depth : \A t \in g.layer[n] : g.cat[t] # "wip"

LEMMA SearchFinds ==
  ASSUME NEW g, Setting(g)
  PROVE  \/ Reaches(g, SoftSearch(g.cat, g.edges, g.start))
         \/ SoftSearch(g.cat, g.edges, g.start) = <<>> /\ Hopeless(g)
<1>1. PICK f : /\ \A n \in 0..(Len(g.edges) + 1) : Progress(g, f[n], n)
               /\ SoftSearch(g.cat, g.edges, g.start) = f[Len(g.edges) + 1].found
  BY SearchProgresses
<1> DEFINE M == Len(g.edges) + 1
           b == f[M]
<1>2. Len(g.edges) \in Nat /\ M \in 0..M /\ Len(g.edges) =< g.depth /\ g.depth \in Nat
  BY DEF Setting, IsWorkflow
<1>3. Progress(g, b, M) /\ SoftSearch(g.cat, g.edges, g.start) = b.found
  BY <1>1, <1>2
<1> HIDE DEF b
<1>4. CASE Arrived(g, b)
  <2>1. b.found \in Seq(g.nodes) /\ Len(b.found) =< g.depth
    BY <1>2, <1>4 DEF Arrived, IsPath
  <2>2. Reaches(g, b.found)
    BY <1>4, <2>1 DEF Arrived, Reaches
  <2> QED
    BY <1>3, <2>2
<1>5. CASE Waiting(g, b)
  <2>1. b.queue = <<>>
    <3> SUFFICES ASSUME b.queue # <<>> PROVE FALSE
      OBVIOUS
    <3>1. b.queue \in Seq(Seq(g.nodes)) /\ b.found = <<>>
      BY <1>5 DEF Waiting, Queued
    <3>2. Len(b.queue) \in Nat /\ Len(b.queue) > 0
      BY <3>1
    <3>3. Cardinality(b.visited) = M + Len(b.queue)
      BY <1>3, <3>1 DEF Progress, Arrived
    <3>4. Cardinality(b.visited) \in Nat /\ Cardinality(b.visited) =< Len(g.edges) + 1
      BY <1>5, NotedAreFew DEF Waiting, Seen
    <3> DEFINE cb == Cardinality(b.visited)
               lb == Len(b.queue)
               le == Len(g.edges)
    <3>5. cb = le + 1 + lb /\ cb =< le + 1 /\ cb \in Nat /\ lb \in Nat /\ le \in Nat /\ lb > 0
      BY <1>2, <3>2, <3>3, <3>4
    <3> HIDE DEF cb, lb, le
    <3> QED
      BY <3>5
  <2>2. ASSUME NEW n \in 0..g.depth, NEW t \in g.layer[n] PROVE g.cat[t] # "wip"
    <3>1. g.layer[n] \subseteq b.visited
      BY <1>5, <2>1, LayersSeen
    <3> QED
      BY <1>5, <3>1 DEF Waiting, Seen
  <2>3. b.found = <<>> /\ Hopeless(g)
    BY <1>5, <2>2 DEF Waiting, Hopeless
  <2> QED
    BY <1>3, <2>3
<1> QED
  BY <1>3, <1>4, <1>5 DEF Progress
-----------------------------------------------------------------------------
(* The resolvers of start_work, on every template an author may write            *)

AuthoringTypeOK ==
    /\ edges \in Seq([from : Node, to : Node, hard : BOOLEAN])
    /\ Len(edges) =< MaxEdges

LEMMA AuthoringTypeInductive ==
  /\ AuthoringInit => AuthoringTypeOK
  /\ AuthoringTypeOK /\ [AuthoringNext]_authoringVars => AuthoringTypeOK'
<1>1. AuthoringInit => AuthoringTypeOK
  BY AuthoringAssumption DEF AuthoringInit, AuthoringTypeOK
<1>2. AuthoringTypeOK /\ [AuthoringNext]_authoringVars => AuthoringTypeOK'
  <2> SUFFICES ASSUME AuthoringTypeOK, [AuthoringNext]_authoringVars PROVE AuthoringTypeOK'
    OBVIOUS
  <2>1. CASE UNCHANGED authoringVars
    BY <2>1 DEF AuthoringTypeOK, authoringVars
  <2>2. ASSUME NEW e \in EdgeSpace, NEW hard \in BOOLEAN, Declare(e[1], e[2], hard)
        PROVE  AuthoringTypeOK'
    <3> DEFINE R == [from : Node, to : Node, hard : BOOLEAN]
               r == [from |-> e[1], to |-> e[2], hard |-> hard]
    <3>1. e[1] \in Node /\ e[2] \in Node
      BY AuthoringAssumption
    <3>2. r \in R /\ edges \in Seq(R) /\ edges' = Append(edges, r) /\ Len(edges) < MaxEdges /\ MaxEdges \in Nat
      BY <2>2, <3>1, AuthoringAssumption DEF Declare, AuthoringTypeOK
    <3> HIDE DEF R, r
    <3>3. edges' \in Seq(R) /\ Len(edges') = Len(edges) + 1 /\ Len(edges) \in Nat
      BY <3>2
    <3>4. Len(edges') =< MaxEdges
      BY <3>2, <3>3
    <3> QED
      BY <3>3, <3>4 DEF AuthoringTypeOK, R
  <2> QED
    BY <2>1, <2>2 DEF AuthoringNext
<1> QED
  BY <1>1, <1>2

\* The layers around a status, as a reference defines them, are those of a search.
IsLayers(s, f) ==
    f = [n \in 0..MaxEdges |->
            IF n = 0 THEN {s} ELSE {t \in Node : \E u \in f[n - 1] : cat[u] # "wip" /\ SoftEdge(u, t)}]

LEMMA LayersIs ==
  ASSUME NEW s
  PROVE  Layers(s) = CHOOSE f : IsLayers(s, f)
BY DEF Layers, IsLayers

LEMMA LayersExist ==
  ASSUME NEW s \in Node
  PROVE  IsLayers(s, Layers(s))
<1> DEFINE S == SUBSET Node
           x == {s}
           Onward(L) == {t \in Node : \E u \in L : cat[u] # "wip" /\ SoftEdge(u, t)}
           D == [k \in 1..MaxEdges |-> [L \in S |-> Onward(L)]]
<1>1. MaxEdges \in Nat /\ x \in S
  BY AuthoringAssumption
<1>2. \A L : Onward(L) \in S
  OBVIOUS
<1>3. D \in [1..MaxEdges -> [S -> S]] /\ \A k \in 1..MaxEdges, L \in S : D[k][L] = Onward(L)
  <2> HIDE DEF S, Onward
  <2> QED
    BY <1>2
<1>4. PICK f \in [0..MaxEdges -> S] : Iterates(f, MaxEdges, x, D)
  <2> HIDE DEF S, D, x
  <2> QED
    BY <1>1, <1>3, IterationExists
<1>5. ASSUME NEW n \in 0..MaxEdges PROVE f[n] = IF n = 0 THEN x ELSE Onward(f[n - 1])
  <2> HIDE DEF S, D, x, Onward
  <2>1. f[n] = IF n = 0 THEN x ELSE D[n][f[n - 1]]
    BY <1>4 DEF Iterates
  <2>2. n # 0 => n \in 1..MaxEdges /\ f[n - 1] \in S
    BY <1>1, <1>4
  <2> QED
    BY <1>3, <2>1, <2>2
<1>6. IsLayers(s, f)
  <2>1. f = [n \in 0..MaxEdges |-> f[n]]
    BY <1>4
  <2> QED
    BY <1>5, <2>1 DEF IsLayers
<1> QED
  BY <1>6, LayersIs

SearchFrom(s) ==
    [nodes |-> Node, cat |-> cat, edges |-> edges, start |-> s, depth |-> MaxEdges, layer |-> Layers(s)]

LEMMA SearchIsSetting ==
  ASSUME AuthoringTypeOK, NEW s \in Node, cat[s] # "wip"
  PROVE  /\ Setting(SearchFrom(s))
         /\ \A u, t : Soft(SearchFrom(s), u, t) <=> SoftEdge(u, t)
<1> DEFINE g == SearchFrom(s)
           R == [from : Node, to : Node, hard : BOOLEAN]
<1>1. /\ g.nodes = Node /\ g.cat = cat /\ g.edges = edges /\ g.start = s /\ g.depth = MaxEdges
      /\ g.layer = Layers(s)
  BY DEF SearchFrom
<1>2. edges \in Seq(R) /\ Len(edges) =< MaxEdges /\ MaxEdges \in Nat
  BY AuthoringAssumption DEF AuthoringTypeOK
<1> HIDE DEF g
<1>3. IsWorkflow(Node, edges)
  <2>1. Len(edges) \in Nat /\ DOMAIN edges = 1..Len(edges) /\ \A k \in 1..Len(edges) : edges[k] \in R
    <3> HIDE DEF R
    <3> QED
      BY <1>2
  <2> QED
    BY <2>1 DEF IsWorkflow
<1>4. \A u, t : Soft(g, u, t) <=> SoftEdge(u, t)
  <2>1. DOMAIN edges = 1..Len(edges)
    BY <1>3 DEF IsWorkflow
  <2> QED
    BY <1>1, <2>1 DEF Soft, SoftEdge
<1>5. IsLayers(s, g.layer)
  BY <1>1, LayersExist
<1>6. g.layer[0] = {s}
  BY <1>2, <1>5 DEF IsLayers
<1>7. ASSUME NEW n \in 0..(MaxEdges - 1) PROVE g.layer[n + 1] = NextLayer(g, g.layer[n])
  <2>1. n + 1 \in 0..MaxEdges /\ n + 1 # 0 /\ (n + 1) - 1 = n
    BY <1>2
  <2>2. g.layer[n + 1] = {t \in Node : \E u \in g.layer[n] : cat[u] # "wip" /\ SoftEdge(u, t)}
    BY <1>5, <2>1 DEF IsLayers
  <2> QED
    BY <1>1, <1>4, <2>2 DEF NextLayer
<1>8. Setting(g)
  BY <1>1, <1>2, <1>3, <1>6, <1>7 DEF Setting
<1> QED
  BY <1>4, <1>8 DEF g
\* The walk a search answers, written with its start in front, as the properties read it.
LEMMA HopsAre ==
  ASSUME NEW N, NEW s \in N, NEW w \in Seq(N), NEW g, g.start = s
  PROVE  /\ Len(<<s>> \o w) = Len(w) + 1 /\ Len(w) \in Nat /\ DOMAIN (<<s>> \o w) = 1..(Len(w) + 1)
         /\ \A k \in 1..(Len(w) + 1) : (<<s>> \o w)[k] = At(g, w, k - 1)
<1>1. /\ Len(<<s>> \o w) = Len(w) + 1 /\ Len(w) \in Nat /\ DOMAIN (<<s>> \o w) = 1..(Len(w) + 1)
  OBVIOUS
<1>2. ASSUME NEW k \in 1..(Len(w) + 1) PROVE (<<s>> \o w)[k] = At(g, w, k - 1)
  <2>1. CASE k = 1
    BY <1>1, <2>1 DEF At
  <2>2. CASE k # 1
    BY <1>1, <2>2 DEF At
  <2> QED
    BY <2>1, <2>2
<1> QED
  BY <1>1, <1>2

\* What advance answers from a status that is not in work and has no work one edge away.
LEMMA WalkOfSearching ==
  ASSUME AuthoringTypeOK, NEW s \in Node, Searching(s)
  PROVE  LET g == SearchFrom(s)
             path == SoftSearch(cat, edges, s)
         IN  \/ WalkOf(s).ok = TRUE /\ WalkOf(s).path = path /\ Reaches(g, path)
             \/ WalkOf(s).ok = FALSE /\ Hopeless(g)
<1> DEFINE g == SearchFrom(s)
           path == SoftSearch(cat, edges, s)
<1>1. cat[s] # "wip" /\ DirectTargets(cat, edges, s) = {}
  BY DEF Searching
<1>2. Setting(g) /\ g.cat = cat /\ g.edges = edges /\ g.start = s
  BY <1>1, SearchIsSetting DEF SearchFrom
<1> HIDE DEF g
<1>3. Reaches(g, path) \/ (path = <<>> /\ Hopeless(g))
  BY <1>2, SearchFinds
<1> HIDE DEF path
<1>4. WalkOf(s) = IF path = <<>> THEN NoWalk ELSE Walk(path)
  BY <1>1 DEF WalkOf, SoftPathToWorking, path
<1>5. Reaches(g, path) => path # <<>>
  BY DEF Reaches
<1> QED
  BY <1>3, <1>4, <1>5 DEF Walk, NoWalk, g, path

LEMMA WalksAreSoft ==
  ASSUME AuthoringTypeOK
  PROVE  WalkIsSoft
<1> SUFFICES ASSUME NEW s \in Node, Searching(s), WalkOf(s).ok
             PROVE  LET hops == <<s>> \o WalkOf(s).path IN
                    /\ \A k \in 1..Len(WalkOf(s).path) : SoftEdge(hops[k], hops[k + 1])
                    /\ \A k \in DOMAIN hops : cat[hops[k]] = "wip" <=> k = Len(hops)
                    /\ \A j, k \in DOMAIN hops : hops[j] = hops[k] => j = k
  BY DEF WalkIsSoft
<1> DEFINE g == SearchFrom(s)
           w == WalkOf(s).path
           hops == <<s>> \o w
<1>1. Reaches(g, w)
  BY WalkOfSearching
<1>2. cat[s] # "wip" /\ g.start = s /\ g.nodes = Node /\ g.cat = cat
  BY DEF Searching, SearchFrom
<1>3. \A u, t : Soft(g, u, t) <=> SoftEdge(u, t)
  BY <1>2, SearchIsSetting
<1> HIDE DEF g, w
<1>4. IsPath(g, w) /\ w \in Seq(Node)
  BY <1>1, <1>2 DEF Reaches, IsPath
<1>5. /\ Len(hops) = Len(w) + 1 /\ Len(w) \in Nat /\ DOMAIN hops = 1..(Len(w) + 1)
      /\ \A k \in 1..(Len(w) + 1) : hops[k] = At(g, w, k - 1)
  BY <1>2, <1>4, HopsAre
<1> HIDE DEF hops
<1>6. ASSUME NEW k \in 1..Len(w) PROVE SoftEdge(hops[k], hops[k + 1])
  <2>1. k \in 1..(Len(w) + 1) /\ k + 1 \in 1..(Len(w) + 1) /\ (k + 1) - 1 = k
    BY <1>5
  <2>2. hops[k] = At(g, w, k - 1) /\ hops[k + 1] = At(g, w, k)
    BY <1>5, <2>1
  <2>3. Soft(g, At(g, w, k - 1), At(g, w, k))
    BY <1>4 DEF IsPath
  <2> QED
    BY <1>3, <2>2, <2>3
<1>7. ASSUME NEW k \in DOMAIN hops PROVE cat[hops[k]] = "wip" <=> k = Len(hops)
  <2>1. CASE k = Len(w) + 1
    <3>1. hops[k] = End(g, w)
      BY <1>5, <2>1 DEF End
    <3> QED
      BY <1>1, <1>2, <1>5, <2>1, <3>1 DEF Reaches
  <2>2. CASE k # Len(w) + 1
    <3>1. k - 1 \in 0..(Len(w) - 1) /\ hops[k] = At(g, w, k - 1)
      BY <1>5, <2>2
    <3> QED
      BY <1>1, <1>2, <1>5, <2>2, <3>1 DEF Reaches
  <2> QED
    BY <2>1, <2>2
<1>8. ASSUME NEW j \in DOMAIN hops, NEW k \in DOMAIN hops, hops[j] = hops[k] PROVE j = k
  <2>1. j - 1 \in 0..Len(w) /\ k - 1 \in 0..Len(w) /\ At(g, w, j - 1) = At(g, w, k - 1)
    BY <1>5, <1>8
  <2>2. j - 1 = k - 1
    BY <1>4, <2>1 DEF IsPath
  <2> QED
    BY <1>5, <2>2
<1> QED
  BY <1>6, <1>7, <1>8 DEF hops, w

LEMMA WalksAreShortest ==
  ASSUME AuthoringTypeOK
  PROVE  WalkIsShortest
<1> SUFFICES ASSUME NEW s \in Node, Searching(s)
             PROVE  LET W == {n \in 0..MaxEdges : \E t \in Layers(s)[n] : cat[t] = "wip"}
                    IN  /\ WalkOf(s).ok <=> W # {}
                        /\ W # {} => /\ Len(WalkOf(s).path) \in W
                                     /\ \A n \in W : Len(WalkOf(s).path) <= n
  BY DEF WalkIsShortest
<1> DEFINE g == SearchFrom(s)
           w == WalkOf(s).path
           W == {n \in 0..MaxEdges : \E t \in Layers(s)[n] : cat[t] = "wip"}
<1>1. g.cat = cat /\ g.layer = Layers(s) /\ g.depth = MaxEdges /\ MaxEdges \in Nat
  BY AuthoringAssumption DEF SearchFrom
<1>2. \/ WalkOf(s).ok = TRUE /\ Reaches(g, w)
      \/ WalkOf(s).ok = FALSE /\ Hopeless(g)
  BY WalkOfSearching
<1> HIDE DEF g, w
<1>3. CASE WalkOf(s).ok = TRUE /\ Reaches(g, w)
  <2>1. Len(w) \in Nat
    BY <1>3 DEF Reaches, IsPath
  <2>2. Len(w) \in W
    BY <1>1, <1>3, <2>1 DEF Reaches
  <2>3. ASSUME NEW n \in W PROVE Len(w) =< n
    <3>1. n \in Nat /\ \E t \in g.layer[n] : g.cat[t] = "wip"
      BY <1>1
    <3>2. n \notin 0..(Len(w) - 1)
      BY <1>3, <3>1 DEF Reaches
    <3> QED
      BY <2>1, <3>1, <3>2
  <2> HIDE DEF W
  <2>4. W # {} /\ (WalkOf(s).ok <=> W # {})
    BY <1>3, <2>2
  <2> QED
    BY <2>2, <2>3, <2>4 DEF W, w
<1>4. CASE WalkOf(s).ok = FALSE /\ Hopeless(g)
  <2>1. W = {}
    BY <1>1, <1>4 DEF Hopeless
  <2> QED
    BY <1>4, <2>1
<1> QED
  BY <1>2, <1>3, <1>4

LEMMA AdvanceIsNoStricter == AdvanceIsSuperset
<1> SUFFICES ASSUME NEW s \in Node, cat[s] # "wip"
             PROVE  /\ ReachableWorking(cat, edges, s).ok => WalkOf(s) = ReachableWorking(cat, edges, s)
                    /\ Cardinality(DirectTargets(cat, edges, s)) > 1 => ~WalkOf(s).ok
  BY DEF AdvanceIsSuperset
<1> DEFINE T == DirectTargets(cat, edges, s)
<1> HIDE DEF T
<1>1. CASE \E t \in T : T = {t}
  <2>1. WalkOf(s) = Walk(<<CHOOSE t \in T : T = {t}>>) /\ ReachableWorking(cat, edges, s) = WalkOf(s)
    BY <1>1 DEF WalkOf, SoftPathToWorking, ReachableWorking, T
  <2>2. Cardinality(T) = 1
    BY <1>1, FS_Singleton
  <2> QED
    BY <2>1, <2>2 DEF T
<1>2. CASE ~\E t \in T : T = {t}
  <2>1. ~ReachableWorking(cat, edges, s).ok
    BY <1>2 DEF ReachableWorking, NoWalk, T
  <2>2. T = {} => Cardinality(T) = 0
    BY FS_EmptySet
  <2>3. T # {} => ~WalkOf(s).ok
    BY <1>2 DEF WalkOf, SoftPathToWorking, NoWalk, T
  <2> QED
    BY <2>1, <2>2, <2>3 DEF T
<1> QED
  BY <1>1, <1>2

\* Whatever forward edges and categories an author writes, the walk start_work takes with
\* advance is soft and as short as one can be, is found wherever there is one, and is no
\* stricter than the one-edge resolver.
THEOREM WalksAlwaysRight == AuthoringSpec => []WalkIsRight
<1>1. AuthoringTypeOK => WalkIsRight
  BY WalksAreSoft, WalksAreShortest, AdvanceIsNoStricter DEF WalkIsRight
<1> QED
  BY <1>1, AuthoringTypeInductive, PTL DEF AuthoringSpec
-----------------------------------------------------------------------------
(* One candidate, started                                                        *)

\* The claim, and a hop after it.
ClaimOf(r, who, request) ==
    [ok |-> Claimable(r, who), row |-> Claimed(r, who, FALSE),
     events |-> <<[Event("claimed", who, r.assignee, who) EXCEPT !.note = request]>>]
HopTo(w, who, s) ==
    [ok |-> /\ w.ok /\ HolderCheck(w.row, who, who)
            /\ TransitionAllowed(w.row, StatusRequest(s), FALSE),
     row |-> UpdatedRow(w.row, StatusRequest(s)),
     events |-> w.events \o UpdateEvents(w.row, StatusRequest(s), who, FALSE, FALSE)]
HopsOf(f, x, who, path, n) ==
    f = [k \in 0..n |-> IF k = 0 THEN x ELSE HopTo(f[k - 1], who, path[k])]

LEMMA StartedIs ==
  ASSUME NEW i, NEW who, NEW request, NEW path
  PROVE  Started(i, who, request, path)
            = (CHOOSE f : HopsOf(f, ClaimOf(row[i], who, request), who, path, Len(path)))[Len(path)]
BY DEF Started, HopsOf, HopTo, ClaimOf

LEMMA HopsExist ==
  ASSUME NEW x, NEW who, NEW path, NEW n \in Nat
  PROVE  \E f : HopsOf(f, x, who, path, n)
<1> DEFINE P == {k \in 0..n : \E f : HopsOf(f, x, who, path, k)}
<1>1. 0 \in P
  <2> DEFINE f == [k \in 0..0 |-> x]
  <2>1. HopsOf(f, x, who, path, 0)
    BY DEF HopsOf
  <2> QED
    BY <2>1
<1>2. ASSUME NEW k \in 0..(n - 1), k \in P PROVE k + 1 \in P
  <2>1. PICK f : HopsOf(f, x, who, path, k)
    BY <1>2
  <2> DEFINE v == HopTo(f[k], who, path[k + 1])
             h == [j \in 0..(k + 1) |-> IF j =< k THEN f[j] ELSE v]
  <2> HIDE DEF v
  <2>2. ASSUME NEW j \in 0..(k + 1)
        PROVE  h[j] = IF j = 0 THEN x ELSE HopTo(h[j - 1], who, path[j])
    <3>1. CASE j =< k
      <4>1. h[j] = f[j] /\ f[j] = IF j = 0 THEN x ELSE HopTo(f[j - 1], who, path[j])
        BY <2>1, <3>1 DEF HopsOf
      <4>2. j # 0 => h[j - 1] = f[j - 1]
        BY <3>1
      <4> QED
        BY <4>1, <4>2
    <3>2. CASE j = k + 1
      <4>1. h[j] = v /\ h[j - 1] = f[k] /\ j # 0
        BY <3>2
      <4> QED
        BY <4>1, <3>2 DEF v
    <3> QED
      BY <3>1, <3>2
  <2>3. HopsOf(h, x, who, path, k + 1)
    <3>1. h = [j \in 0..(k + 1) |-> h[j]]
      OBVIOUS
    <3> HIDE DEF h
    <3> QED
      BY <2>2, <3>1 DEF HopsOf
  <2>4. k + 1 \in 0..n
    OBVIOUS
  <2> HIDE DEF h
  <2> QED
    BY <2>3, <2>4
<1>3. \A k \in 0..n : k \in P
  <2> HIDE DEF P
  <2> QED
    BY <1>1, <1>2, Climb
<1> QED
  BY <1>3

LEMMA StartedSteps ==
  ASSUME NEW i, NEW who, NEW request, NEW path, Len(path) \in Nat
  PROVE  \E f : /\ \A k \in 0..Len(path) :
                      f[k] = IF k = 0 THEN ClaimOf(row[i], who, request) ELSE HopTo(f[k - 1], who, path[k])
                /\ Started(i, who, request, path) = f[Len(path)]
<1> DEFINE x == ClaimOf(row[i], who, request)
           f == CHOOSE f : HopsOf(f, x, who, path, Len(path))
<1> HIDE DEF x
<1>1. HopsOf(f, x, who, path, Len(path))
  BY HopsExist
<1>2. Started(i, who, request, path) = f[Len(path)]
  BY StartedIs DEF x
<1> HIDE DEF f
<1>3. \A k \in 0..Len(path) : f[k] = IF k = 0 THEN x ELSE HopTo(f[k - 1], who, path[k])
  BY <1>1 DEF HopsOf
<1> QED
  BY <1>2, <1>3 DEF x
\* Events without a claim among them.
Unclaiming(events) == \A k \in DOMAIN events : events[k].kind # "claimed"

LEMMA UnclaimingConcat ==
  ASSUME NEW a, NEW b, IsSequence(a), IsSequence(b), Unclaiming(a), Unclaiming(b)
  PROVE  IsSequence(a \o b) /\ Unclaiming(a \o b)
<1>1. /\ Len(a \o b) = Len(a) + Len(b)
      /\ DOMAIN (a \o b) = 1..(Len(a) + Len(b))
      /\ \A k \in 1..(Len(a) + Len(b)) :
            (a \o b)[k] = IF k <= Len(a) THEN a[k] ELSE b[k - Len(a)]
  BY ConcatIs
<1>2. ASSUME NEW k \in DOMAIN (a \o b) PROVE (a \o b)[k].kind # "claimed"
  <2>1. CASE k <= Len(a)
    BY <1>1, <2>1 DEF Unclaiming, IsSequence
  <2>2. CASE ~(k <= Len(a))
    <3>1. k - Len(a) \in DOMAIN b
      BY <1>1, <2>2 DEF IsSequence
    <3> QED
      BY <1>1, <2>2, <3>1 DEF Unclaiming
  <2> QED
    BY <2>1, <2>2
<1> QED
  BY <1>1, <1>2 DEF Unclaiming, IsSequence

LEMMA WhenUnclaiming ==
  ASSUME NEW c \in BOOLEAN, NEW e, e.kind # "claimed"
  PROVE  IsSequence(When(c, e)) /\ Unclaiming(When(c, e))
<1>1. CASE c
  BY <1>1 DEF When, IsSequence, Unclaiming
<1>2. CASE ~c
  BY <1>2 DEF When, IsSequence, Unclaiming
<1> QED
  BY <1>1, <1>2

\* No update of an issue is a claim.
LEMMA UpdateUnclaiming ==
  ASSUME NEW r, NEW q, NEW actor, NEW backward \in BOOLEAN, NEW checked \in BOOLEAN,
         q.commit \in BOOLEAN
  PROVE  /\ IsSequence(UpdateEvents(r, q, actor, backward, checked))
         /\ Unclaiming(UpdateEvents(r, q, actor, backward, checked))
<1> DEFINE moves == Changes(q.status, r.status)
           warns == IF backward
                    THEN BackwardWarns(r.status, q.status, MergedFields(r, q))
                    ELSE ForwardWarns(r.status, q.status, MergedFields(r, q))
           e1 == Event("transition_warning", actor, r.status, q.status)
           e2 == Event("transition_forced", actor, r.status, q.status)
           e3 == Event("status_changed", actor, r.status, q.status)
           e4 == Event("close_commit_checked", actor, Nil, Nil)
           e5 == Event("priority_changed", actor, r.priority, q.priority)
           e6 == Event("assignee_changed", actor, r.assignee, q.assignee)
           e7 == Event("fields_changed", actor, r.fields, q.fields)
           c1 == moves /\ warns
           c2 == moves /\ backward
           c4 == moves /\ IsDone(q.status) /\ q.commit /\ checked
           c5 == Changes(q.priority, r.priority)
           c6 == Changes(q.assignee, r.assignee)
           c7 == Changes(q.fields, r.fields) /\ ~CloseReasonOnly(r, q)
<1>1. /\ moves \in BOOLEAN /\ c1 \in BOOLEAN /\ c2 \in BOOLEAN
      /\ c4 \in BOOLEAN /\ c5 \in BOOLEAN /\ c6 \in BOOLEAN /\ c7 \in BOOLEAN
  BY DEF Changes
<1>2. /\ e1.kind # "claimed" /\ e2.kind # "claimed" /\ e3.kind # "claimed" /\ e4.kind # "claimed"
      /\ e5.kind # "claimed" /\ e6.kind # "claimed" /\ e7.kind # "claimed"
  BY DEF Event
<1>3. UpdateEvents(r, q, actor, backward, checked)
        = When(c1, e1) \o When(c2, e2) \o When(moves, e3) \o When(c4, e4)
          \o When(c5, e5) \o When(c6, e6) \o When(c7, e7)
  BY DEF UpdateEvents
<1> HIDE DEF moves, c1, c2, c4, c5, c6, c7, e1, e2, e3, e4, e5, e6, e7
<1> DEFINE s1 == When(c1, e1)
           s2 == When(c2, e2)
           s3 == When(moves, e3)
           s4 == When(c4, e4)
           s5 == When(c5, e5)
           s6 == When(c6, e6)
           s7 == When(c7, e7)
<1>4. /\ IsSequence(s1) /\ Unclaiming(s1) /\ IsSequence(s2) /\ Unclaiming(s2)
      /\ IsSequence(s3) /\ Unclaiming(s3) /\ IsSequence(s4) /\ Unclaiming(s4)
      /\ IsSequence(s5) /\ Unclaiming(s5) /\ IsSequence(s6) /\ Unclaiming(s6)
      /\ IsSequence(s7) /\ Unclaiming(s7)
  BY <1>1, <1>2, WhenUnclaiming
<1>5. UpdateEvents(r, q, actor, backward, checked) = s1 \o s2 \o s3 \o s4 \o s5 \o s6 \o s7
  BY <1>3
<1> HIDE DEF s1, s2, s3, s4, s5, s6, s7
<1> QED
  BY <1>4, <1>5, UnclaimingConcat

\* A hop leaves holder and claim time alone and arrives at its status.
LEMMA HopColumns ==
  ASSUME NEW r \in Row, NEW s \in StateSet
  PROVE  LET u == UpdatedRow(r, StatusRequest(s))
         IN  u.assignee = r.assignee /\ u.claimedAt = r.claimedAt /\ u.status = s
<1> DEFINE q == StatusRequest(s)
           Cols == {"status", "assignee", "claimedAt", "claimCommit", "leaseEnd", "closedAt",
                    "closeCommit", "fields", "priority"}
           m == IF Changes(s, r.status) THEN StatusSet(r, s, FALSE) ELSE r
<1>1. r = [c \in Cols |-> r[c]] /\ s # Nil
  BY TemplateAssumption DEF Row
<1>2. m = [c \in Cols |-> m[c]] /\ m.assignee = r.assignee /\ m.claimedAt = r.claimedAt /\ m.status = s
  BY <1>1 DEF StatusSet, Closed, NotClosed, Changes
<1>3. UpdatedRow(r, q) = [m EXCEPT !.priority = @, !.fields = r.fields]
  BY DEF UpdatedRow, StatusRequest, MergedFields, Changes
<1> HIDE DEF m
<1> QED
  BY <1>2, <1>3
\* What has been done for a caller so far, where nothing was refused: the issue is its,
\* and of the events the first, and none but the first, is a claim for its request.
ClaimEvent(r, who, request) == [Event("claimed", who, r.assignee, who) EXCEPT !.note = request]
ClaimFirst(events, e) ==
    /\ IsSequence(events) /\ Len(events) > 0 /\ events[1] = e
    /\ \A k \in DOMAIN events : events[k].kind = "claimed" => k = 1
SoFar(r, who, request, w) ==
    /\ RowOK(w.row) /\ w.row.assignee = who
    /\ w.row.claimedAt = IF r.claimedAt = Nil THEN now ELSE r.claimedAt
    /\ PayloadsOK(w.events) /\ Announced(w.events) /\ Unmarking(w.events)
    /\ ClaimFirst(w.events, ClaimEvent(r, who, request))

LEMMA ClaimSoFar ==
  ASSUME NEW r, RowOK(r), NEW who \in Agent, NEW request, now \in Nat, ClaimOf(r, who, request).ok
  PROVE  SoFar(r, who, request, ClaimOf(r, who, request)) /\ r.status \in StateSet
<1> DEFINE w == ClaimOf(r, who, request)
           e == ClaimEvent(r, who, request)
<1>1. w.row = Claimed(r, who, FALSE) /\ w.events = <<e>> /\ Claimable(r, who)
  BY DEF ClaimOf, ClaimEvent
<1>2. RowOK(w.row)
  BY <1>1, ClaimedOK
<1>3. w.row.assignee = who /\ w.row.claimedAt = IF r.claimedAt = Nil THEN now ELSE r.claimedAt
  <2>1. r \in Row
    BY DEF RowOK
  <2> QED
    BY <1>1, <2>1 DEF Claimed, Row
<1>4. PayloadOK(e) /\ e.kind = "claimed"
  <2>1. who \in Holder /\ r.assignee \in Holder
    BY DEF Holder, RowOK, Row
  <2>2. e.kind = "claimed" /\ e.actor = who /\ e.old = r.assignee /\ e.new = who
    BY DEF ClaimEvent, Event
  <2> HIDE DEF e
  <2> QED
    BY <2>1, <2>2 DEF PayloadOK, Kinds, ReversibleKinds
<1> HIDE DEF w, e
<1>5. PayloadsOK(<<e>>) /\ Announced(<<e>>)
  BY <1>4, SingleOK, SingleAnnounced
<1>6. Unmarking(<<e>>) /\ ClaimFirst(<<e>>, e)
  BY <1>4 DEF Unmarking, ClaimFirst, IsSequence
<1> QED
  BY <1>1, <1>2, <1>3, <1>5, <1>6 DEF SoFar, w, e, Claimable

LEMMA ClaimFirstConcat ==
  ASSUME NEW a, NEW b, NEW e, ClaimFirst(a, e), IsSequence(b), Unclaiming(b)
  PROVE  ClaimFirst(a \o b, e)
<1>1. IsSequence(a) /\ Len(a) > 0 /\ Len(a) \in Nat /\ Len(b) \in Nat
  BY DEF ClaimFirst, IsSequence
<1>2. /\ Len(a \o b) = Len(a) + Len(b)
      /\ DOMAIN (a \o b) = 1..(Len(a) + Len(b))
      /\ \A k \in 1..(Len(a) + Len(b)) :
            (a \o b)[k] = IF k <= Len(a) THEN a[k] ELSE b[k - Len(a)]
  BY <1>1, ConcatIs
<1>3. ASSUME NEW k \in DOMAIN (a \o b), (a \o b)[k].kind = "claimed" PROVE k = 1
  <2>1. CASE k <= Len(a)
    BY <1>2, <1>3, <2>1 DEF ClaimFirst, IsSequence
  <2>2. CASE ~(k <= Len(a))
    <3>1. k - Len(a) \in DOMAIN b
      BY <1>1, <1>2, <2>2 DEF IsSequence
    <3> QED
      BY <1>2, <1>3, <2>2, <3>1 DEF Unclaiming
  <2> QED
    BY <2>1, <2>2
<1>4. 1 \in 1..(Len(a) + Len(b)) /\ 1 <= Len(a)
  BY <1>1
<1>5. (a \o b)[1] = e /\ IsSequence(a \o b) /\ Len(a \o b) > 0
  BY <1>1, <1>2, <1>4 DEF ClaimFirst, IsSequence
<1> QED
  BY <1>3, <1>5 DEF ClaimFirst

MayHop(w, s) == TransitionAllowed(w.row, StatusRequest(s), FALSE)
HopsOn(r, who, request, w, s) ==
    SoFar(r, who, request, HopTo(w, who, s)) /\ HopTo(w, who, s).row.status = s

LEMMA HopSoFar ==
  ASSUME NEW r, NEW who \in Agent, NEW request, now \in Nat, NEW w, SoFar(r, who, request, w),
         NEW s \in StateSet, MayHop(w, s)
  PROVE  HopsOn(r, who, request, w, s)
<1>0. TransitionAllowed(w.row, StatusRequest(s), FALSE)
  BY DEF MayHop
<1> DEFINE q == StatusRequest(s)
           u == UpdatedRow(w.row, q)
           events == UpdateEvents(w.row, q, who, FALSE, FALSE)
           e == ClaimEvent(r, who, request)
           h == HopTo(w, who, s)
<1>1. h.row = u /\ h.events = w.events \o events
  BY DEF HopTo
<1>2. RowOK(w.row) /\ w.row \in Row /\ who \in Holder
  BY DEF SoFar, RowOK, Holder
<1>3. q \in Updates /\ q.commit \in BOOLEAN
  BY StatusRequestTyped DEF Updates
<1>4. RowOK(u) /\ u.assignee = who /\ u.claimedAt = w.row.claimedAt /\ u.status = s
  BY <1>2, <1>3, UpdatedRowOK, HopColumns DEF SoFar
<1> HIDE DEF q
<1>5. PayloadsOK(events)
  BY <1>0, <1>2, <1>3, UpdateEventsOK DEF q
<1>6. IsSequence(events) /\ Announced(events)
  BY <1>0, <1>2, <1>3, UpdateAnnounced DEF q
<1>7. Unmarking(events) /\ Unclaiming(events)
  BY <1>3, UpdateConduct, UpdateUnclaiming
<1> HIDE DEF u, events, e, h
<1>8. /\ IsSequence(w.events) /\ PayloadsOK(w.events) /\ Announced(w.events) /\ Unmarking(w.events)
      /\ ClaimFirst(w.events, e)
  BY DEF SoFar, PayloadsOK, e
<1>9. /\ PayloadsOK(w.events \o events) /\ Announced(w.events \o events) /\ Unmarking(w.events \o events)
      /\ ClaimFirst(w.events \o events, e)
  BY <1>5, <1>6, <1>7, <1>8, ConcatOK, AnnouncedConcat, UnmarkingConcat, ClaimFirstConcat
<1> QED
  BY <1>1, <1>4, <1>9 DEF SoFar, HopsOn, e, h

\* A start that goes through: the issue was claimable, is the caller's and ends where the
\* walk does.
GoodStart(r, who, request, path, w) ==
    /\ SoFar(r, who, request, w)
    /\ r.status \in StateSet /\ ~IsDone(r.status) /\ r.assignee \in {NoOne, who}
    /\ Len(path) > 0 => w.row.status = path[Len(path)]

LEMMA StartedIsGood ==
  ASSUME Inv, NEW i \in Live, NEW who \in Agent, NEW request, NEW path \in Seq(StateSet),
         Started(i, who, request, path).ok
  PROVE  GoodStart(row[i], who, request, path, Started(i, who, request, path))
<1> DEFINE r == row[i]
           n == Len(path)
<1>1. n \in Nat /\ RowOK(r) /\ now \in Nat /\ \A k \in 1..n : path[k] \in StateSet
  BY LiveRow
<1>2. PICK f : /\ \A k \in 0..n :
                    f[k] = IF k = 0 THEN ClaimOf(r, who, request) ELSE HopTo(f[k - 1], who, path[k])
               /\ Started(i, who, request, path) = f[n]
  BY <1>1, StartedSteps
<1> DEFINE P == {k \in 0..n : f[k].ok => /\ SoFar(r, who, request, f[k]) /\ Claimable(r, who)
                                         /\ k > 0 => f[k].row.status = path[k]}
<1> HIDE DEF r, n
<1>3. 0 \in P
  <2>1. f[0] = ClaimOf(r, who, request)
    BY <1>1, <1>2
  <2>2. ClaimOf(r, who, request).ok = Claimable(r, who)
    BY DEF ClaimOf
  <2> QED
    BY <1>1, <2>1, <2>2, ClaimSoFar
<1>4. ASSUME NEW k \in 0..(n - 1), k \in P PROVE k + 1 \in P
  <2>1. k + 1 \in 1..n /\ k + 1 \in 0..n /\ k + 1 # 0 /\ (k + 1) - 1 = k
    BY <1>1
  <2>2. f[k + 1] = HopTo(f[k], who, path[k + 1])
    BY <1>2, <2>1
  <2>3. f[k + 1].ok => f[k].ok /\ TransitionAllowed(f[k].row, StatusRequest(path[k + 1]), FALSE)
    <3>1. HopTo(f[k], who, path[k + 1]).ok
            = (/\ f[k].ok /\ HolderCheck(f[k].row, who, who)
               /\ TransitionAllowed(f[k].row, StatusRequest(path[k + 1]), FALSE))
      BY Zenon DEF HopTo
    <3> QED
      BY <2>2, <3>1, Zenon
  <2>4. ASSUME f[k + 1].ok
        PROVE  /\ SoFar(r, who, request, f[k + 1]) /\ Claimable(r, who)
               /\ f[k + 1].row.status = path[k + 1]
    <3>1. SoFar(r, who, request, f[k]) /\ Claimable(r, who) /\ path[k + 1] \in StateSet
      BY <1>1, <1>4, <2>1, <2>3, <2>4
    <3> DEFINE w == f[k]
               t == path[k + 1]
    <3>2. SoFar(r, who, request, w) /\ t \in StateSet /\ MayHop(w, t)
      BY <2>3, <2>4, <3>1 DEF MayHop
    <3> HIDE DEF w, t
    <3>3. HopsOn(r, who, request, w, t)
      BY <1>1, <3>2, HopSoFar
    <3> QED
      BY <2>2, <3>1, <3>3 DEF HopsOn, w, t
  <2> QED
    BY <2>1, <2>4
<1>5. n \in P
  <2> HIDE DEF P
  <2>1. \A k \in 0..n : k \in P
    BY <1>1, <1>3, <1>4, Climb
  <2> QED
    BY <1>1, <2>1
<1> QED
  BY <1>1, <1>2, <1>5 DEF GoodStart, Claimable, r, n
-----------------------------------------------------------------------------
(* The walks of the template in use                                              *)

LEMMA TemplateIsWorkflow == IsWorkflow(StateSet, Transitions)
<1>1. Transitions \in Seq(Transition)
  BY TemplateAssumption
<1>2. Len(Transitions) \in Nat /\ DOMAIN Transitions = 1..Len(Transitions)
      /\ \A k \in 1..Len(Transitions) : Transitions[k] \in Transition
  BY <1>1
<1> QED
  BY <1>2 DEF IsWorkflow, Transition

\* A search of the template is one that the lemmas speak of.
TemplateSearch(s, layer) ==
    [nodes |-> StateSet, cat |-> Category, edges |-> Transitions, start |-> s,
     depth |-> Len(Transitions), layer |-> layer]

LEMMA TemplateSetting ==
  ASSUME NEW s \in StateSet, Category[s] # "wip"
  PROVE  \E layer : Setting(TemplateSearch(s, layer))
<1> DEFINE n == Len(Transitions)
           S == SUBSET StateSet
           x == {s}
           Onto(u, t) == \E k \in 1..n : Transitions[k].from = u /\ Transitions[k].to = t
                                         /\ ~Transitions[k].hard
           Onward(A) == {t \in StateSet : \E u \in A : Category[u] # "wip" /\ Onto(u, t)}
           D == [k \in 1..n |-> [A \in S |-> Onward(A)]]
<1>1. n \in Nat /\ x \in S /\ IsWorkflow(StateSet, Transitions)
  BY TemplateIsWorkflow DEF IsWorkflow
<1>2. \A A : Onward(A) \in S
  OBVIOUS
<1>3. D \in [1..n -> [S -> S]] /\ \A k \in 1..n, A \in S : D[k][A] = Onward(A)
  <2> HIDE DEF S, Onward, n
  <2> QED
    BY <1>2
<1>4. PICK f \in [0..n -> S] : Iterates(f, n, x, D)
  <2> HIDE DEF S, D, x, n
  <2> QED
    BY <1>1, <1>3, IterationExists
<1> DEFINE g == TemplateSearch(s, f)
<1>5. /\ g.nodes = StateSet /\ g.cat = Category /\ g.edges = Transitions /\ g.start = s
      /\ g.depth = n /\ g.layer = f
  BY DEF TemplateSearch
<1> HIDE DEF g
<1>6. \A u, t : Soft(g, u, t) <=> Onto(u, t)
  BY <1>5 DEF Soft
<1>7. \A A : NextLayer(g, A) = Onward(A)
  BY <1>5, <1>6 DEF NextLayer
<1>8. f[0] = {s}
  BY <1>1, <1>4 DEF Iterates
<1>9. ASSUME NEW k \in 0..(n - 1) PROVE f[k + 1] = Onward(f[k])
  <2> HIDE DEF S, D, x, Onward, n
  <2>1. k + 1 \in 0..n /\ k + 1 \in 1..n /\ k + 1 # 0 /\ (k + 1) - 1 = k /\ k \in 0..n
    BY <1>1
  <2>2. f[k + 1] = D[k + 1][f[k]] /\ f[k] \in S
    BY <1>4, <2>1 DEF Iterates
  <2> QED
    BY <1>3, <2>1, <2>2
<1>10. Setting(g)
  <2> HIDE DEF Onward, n, S, D
  <2>1. n = Len(g.edges) /\ n <= n
    BY <1>1, <1>5 DEF n
  <2> QED
    BY <1>1, <1>5, <1>7, <1>8, <1>9, <2>1 DEF Setting
<1> QED
  BY <1>10 DEF g

\* The hops a resolver answers are statuses of the template, and lead to work where the
\* status is not at work already, and without advance always.
EndsAtWork(path) == path # <<>> /\ Category[path[Len(path)]] = "wip"

LEMMA SearchEndsAtWork ==
  ASSUME NEW s \in StateSet, Category[s] # "wip", NEW path, path = SoftSearch(Category, Transitions, s)
  PROVE  path = <<>> \/ (path \in Seq(StateSet) /\ EndsAtWork(path))
<1>1. PICK layer : Setting(TemplateSearch(s, layer))
  BY TemplateSetting
<1> DEFINE g == TemplateSearch(s, layer)
<1>2. g.nodes = StateSet /\ g.cat = Category /\ g.edges = Transitions /\ g.start = s
  BY DEF TemplateSearch
<1> HIDE DEF g
<1>3. Reaches(g, path) \/ path = <<>>
  BY <1>1, <1>2, SearchFinds DEF g
<1>4. ASSUME Reaches(g, path) PROVE path \in Seq(StateSet) /\ EndsAtWork(path)
  <2>1. path \in Seq(StateSet) /\ path # <<>> /\ Category[End(g, path)] = "wip"
    BY <1>2, <1>4 DEF Reaches, IsPath
  <2>2. Len(path) # 0
    BY <2>1
  <2> QED
    BY <2>1, <2>2 DEF EndsAtWork, End, At
<1> QED
  BY <1>3, <1>4

LEMMA DirectTargetsTyped ==
  ASSUME NEW s, NEW t \in DirectTargets(Category, Transitions, s)
  PROVE  <<t>> \in Seq(StateSet) /\ EndsAtWork(<<t>>)
<1>1. t \in StateSet /\ Category[t] = "wip"
  BY TemplateIsWorkflow DEF DirectTargets, IsWorkflow
<1> QED
  BY <1>1 DEF EndsAtWork

WalkEnds(s, target, advance, path) ==
    /\ path \in Seq(StateSet)
    /\ target = Nil \/ Category[target] = "wip" =>
          EndsAtWork(path) \/ (target = Nil /\ advance /\ CategoryOf(s) = "wip")

LEMMA WalkIsTyped ==
  ASSUME NEW s, NEW target \in StateSet \cup {Nil}, NEW advance \in BOOLEAN,
         WalkFrom(s, target, advance).ok
  PROVE  WalkEnds(s, target, advance, WalkFrom(s, target, advance).path)
<1> DEFINE T == DirectTargets(Category, Transitions, s)
           path == WalkFrom(s, target, advance).path
           found == SoftSearch(Category, Transitions, s)
<1>1. CASE target # Nil
  <2>1. path = <<target>> /\ target \in StateSet
    BY <1>1 DEF WalkFrom, Walk
  <2> HIDE DEF path
  <2> QED
    BY <1>1, <2>1 DEF EndsAtWork, path, WalkEnds
<1>2. target = Nil => s \in StateSet /\ CategoryOf(s) = Category[s]
  BY DEF WalkFrom, NoWalk, CategoryOf
<1>3. CASE target = Nil /\ Category[s] = "wip"
  <2>1. path = IF advance THEN <<>> ELSE <<s>>
    BY <1>2, <1>3 DEF WalkFrom, Walk, SoftPathToWorking, ReachableWorking
  <2> HIDE DEF path
  <2> QED
    BY <1>2, <1>3, <2>1 DEF EndsAtWork, path, WalkEnds
<1>4. CASE target = Nil /\ Category[s] # "wip" /\ \E t \in T : T = {t}
  <2>1. path = <<CHOOSE t \in T : T = {t}>>
    BY <1>2, <1>4 DEF WalkFrom, Walk, SoftPathToWorking, ReachableWorking
  <2>2. (CHOOSE t \in T : T = {t}) \in T
    BY <1>4
  <2> HIDE DEF path
  <2> QED
    BY <2>1, <2>2, DirectTargetsTyped DEF path, WalkEnds
<1>5. CASE target = Nil /\ Category[s] # "wip" /\ ~\E t \in T : T = {t}
  <2>1. advance /\ found # <<>> /\ path = found
    BY <1>2, <1>5 DEF WalkFrom, Walk, NoWalk, SoftPathToWorking, ReachableWorking
  <2>2. found \in Seq(StateSet) /\ EndsAtWork(found)
    BY <1>2, <1>5, <2>1, SearchEndsAtWork
  <2> HIDE DEF path, found
  <2> QED
    BY <2>1, <2>2 DEF path, WalkEnds
<1> QED
  BY <1>1, <1>3, <1>4, <1>5
-----------------------------------------------------------------------------
(* The calls in flight                                                           *)

\* A candidate, and what a session has under way.
Candidates == [issue : Issue, path : Seq(StateSet)]
PickOps == {"start_next", "claim_next"}
CallRecord == [op : {"start"} \cup PickOps, who : Agent, request : RequestId \cup {Nil},
               queue : Seq(Candidates)]
CallsOK ==
    /\ call \in [Session -> {Idle} \cup CallRecord]
    /\ \A c \in Session : Busy(c) => call[c].queue # <<>>

\* The ids ever live are finitely many.
LiveFinite == IsFiniteSet(Live)

\* A call begins: it has candidates, and all of them lead to work where that is so.
Opens(c, op, who, request, q) ==
    /\ q \in Seq(Candidates) /\ q # <<>>
    /\ call' = [call EXCEPT ![c] = [op |-> op, who |-> who, request |-> request, queue |-> q]]
    /\ UNCHANGED vars
LeadToWork(q) == \A k \in DOMAIN q : EndsAtWork(q[k].path)
Opened(c, op, who, request, leads) ==
    \E q : Opens(c, op, who, request, q) /\ (leads => LeadToWork(q))

LEMMA StartOpens ==
  ASSUME Inv, NEW c \in Session, NEW i \in Issue, NEW who \in Agent,
         NEW target \in StateSet \cup {Nil}, NEW advance \in BOOLEAN,
         BeginStart(c, i, who, target, advance)
  PROVE  Opened(c, "start", who, Nil,
                /\ target = Nil \/ Category[target] = "wip"
                /\ advance /\ target = Nil => CategoryOf(row[i].status) # "wip")
<1> DEFINE s == row[i].status
           path == WalkFrom(s, target, advance).path
           q == <<Candidate(i, path)>>
<1>1. /\ WalkFrom(s, target, advance).ok /\ UNCHANGED vars
      /\ call' = [call EXCEPT ![c] = [op |-> "start", who |-> who, request |-> Nil, queue |-> q]]
  BY DEF BeginStart
<1>2. WalkEnds(s, target, advance, path)
  BY <1>1, WalkIsTyped
<1> HIDE DEF path
<1>3. Candidate(i, path) \in Candidates /\ Candidate(i, path).path = path
  BY <1>2 DEF Candidate, Candidates, WalkEnds
<1>4. q \in Seq(Candidates) /\ q # <<>>
  BY <1>3
<1>5. /\ target = Nil \/ Category[target] = "wip"
      /\ advance /\ target = Nil => CategoryOf(s) # "wip"
      => LeadToWork(q)
  BY <1>2, <1>3 DEF LeadToWork, WalkEnds
<1> HIDE DEF q
<1>6. Opens(c, "start", who, Nil, q)
  BY <1>1, <1>4 DEF Opens
<1> QED
  BY <1>5, <1>6 DEF Opened

\* An order of candidates is a sequence of ready issues.
LEMMA OrdersAreSequences ==
  ASSUME NEW S, IsFiniteSet(S), NEW order \in ReadyOrders(S), order # <<>>
  PROVE  \E n \in Nat : order \in [1..n -> S] /\ n # 0
<1>1. Cardinality(S) \in Nat
  BY FS_CardinalityType
<1>2. order \in [1..Cardinality(S) -> S]
  BY DEF ReadyOrders, SetToSeqs
<1>3. Cardinality(S) # 0
  <2> DEFINE n == Cardinality(S)
  <2> SUFFICES ASSUME n = 0 PROVE FALSE
    OBVIOUS
  <2>1. order \in [1..n -> S]
    BY <1>2
  <2> HIDE DEF n
  <2>2. order \in [1..0 -> S]
    BY <2>1
  <2>3. order = <<>>
    BY <2>2
  <2> QED
    BY <2>3
<1> QED
  BY <1>1, <1>2, <1>3

LEMMA QueueOfOrder ==
  ASSUME NEW n \in Nat, n # 0, NEW S \in SUBSET Issue, NEW order \in [1..n -> S],
         NEW path, \A i \in S : path[i] \in Seq(StateSet), NEW q,
         q = [k \in DOMAIN order |-> Candidate(order[k], path[order[k]])]
  PROVE  /\ q \in Seq(Candidates) /\ q # <<>>
         /\ (\A i \in S : EndsAtWork(path[i])) => LeadToWork(q)
<1>1. q = [k \in 1..n |-> Candidate(order[k], path[order[k]])]
  OBVIOUS
<1>2. ASSUME NEW k \in 1..n
      PROVE  q[k] \in Candidates /\ q[k].path = path[order[k]] /\ order[k] \in S
  <2>1. order[k] \in S /\ order[k] \in Issue
    OBVIOUS
  <2>2. q[k] = Candidate(order[k], path[order[k]])
    BY <1>1
  <2> QED
    BY <2>1, <2>2 DEF Candidate, Candidates
<1>3. q \in [1..n -> Candidates]
  BY <1>1, <1>2
<1>4. q \in Seq(Candidates) /\ Len(q) = n /\ DOMAIN q = 1..n
  BY <1>3
<1>5. q # <<>>
  BY <1>4
<1>6. (\A i \in S : EndsAtWork(path[i])) => LeadToWork(q)
  BY <1>2, <1>4 DEF LeadToWork
<1> QED
  BY <1>4, <1>5, <1>6
LEMMA StartNextOpens ==
  ASSUME Inv, LiveFinite, NEW c \in Session, NEW who \in Agent, NEW request \in RequestId \cup {Nil},
         NEW target \in StateSet \cup {Nil}, NEW advance \in BOOLEAN,
         BeginStartNext(c, who, request, target, advance)
  PROVE  Opened(c, "start_next", who, request, target = Nil \/ Category[target] = "wip")
<1> DEFINE Way(i) == WalkFrom(row[i].status, target, advance)
           S == {i \in Ready : Way(i).ok}
           path == [i \in S |-> Way(i).path]
<1>1. PICK order \in ReadyOrders(S) :
        /\ order # <<>>
        /\ call' = [call EXCEPT ![c] =
              [op |-> "start_next", who |-> who, request |-> request,
               queue |-> [k \in DOMAIN order |-> Candidate(order[k], Way(order[k]).path)]]]
  BY DEF BeginStartNext
<1>2. S \subseteq Live /\ S \subseteq Issue /\ IsFiniteSet(S)
  <2>1. S \subseteq Live
    BY DEF Ready
  <2> HIDE DEF S
  <2> QED
    BY <2>1, FS_Subset DEF LiveFinite, Inv, TypeOK
<1>3. ASSUME NEW i \in S
      PROVE  WalkEnds(row[i].status, target, advance, path[i]) /\ CategoryOf(row[i].status) = "open"
  <2>1. Way(i).ok /\ CategoryOf(row[i].status) = "open"
    BY DEF Ready
  <2>2. WalkEnds(row[i].status, target, advance, Way(i).path)
    BY <2>1, WalkIsTyped
  <2>3. path[i] = Way(i).path
    OBVIOUS
  <2> QED
    BY <2>1, <2>2, <2>3
<1>4. \A i \in S : path[i] = Way(i).path
  OBVIOUS
<1> HIDE DEF S, path
<1>5. PICK n \in Nat : order \in [1..n -> S] /\ n # 0
  BY <1>1, <1>2, OrdersAreSequences
<1> DEFINE q == [k \in DOMAIN order |-> Candidate(order[k], path[order[k]])]
<1>6. q = [k \in DOMAIN order |-> Candidate(order[k], Way(order[k]).path)]
  <2> HIDE DEF Way
  <2>1. \A k \in DOMAIN order : order[k] \in S
    BY <1>5
  <2> QED
    BY <1>4, <2>1
<1>7. \A i \in S : path[i] \in Seq(StateSet)
  BY <1>3 DEF WalkEnds
<1>8. target = Nil \/ Category[target] = "wip" => \A i \in S : EndsAtWork(path[i])
  BY <1>3 DEF WalkEnds
<1>9. call' = [call EXCEPT ![c] = [op |-> "start_next", who |-> who, request |-> request, queue |-> q]]
  BY <1>1, <1>6
<1>10. /\ q \in Seq(Candidates) /\ q # <<>>
       /\ (\A i \in S : EndsAtWork(path[i])) => LeadToWork(q)
  <2>1. S \in SUBSET Issue
    BY <1>2
  <2> HIDE DEF q
  <2> QED
    BY <1>5, <1>7, <2>1, QueueOfOrder DEF q
<1> HIDE DEF q
<1>11. Opens(c, "start_next", who, request, q)
  BY <1>9, <1>10 DEF Opens, BeginStartNext
<1> QED
  BY <1>8, <1>10, <1>11 DEF Opened

LEMMA ClaimNextOpens ==
  ASSUME Inv, LiveFinite, NEW c \in Session, NEW who \in Agent, NEW request \in RequestId \cup {Nil},
         BeginClaimNext(c, who, request)
  PROVE  Opened(c, "claim_next", who, request, FALSE)
<1>1. PICK order \in ReadyOrders(Ready) :
        /\ order # <<>>
        /\ call' = [call EXCEPT ![c] =
              [op |-> "claim_next", who |-> who, request |-> request,
               queue |-> [k \in DOMAIN order |-> Candidate(order[k], <<>>)]]]
  BY DEF BeginClaimNext
<1>2. Ready \in SUBSET Issue /\ IsFiniteSet(Ready)
  <2>1. Ready \subseteq Live
    BY DEF Ready
  <2> QED
    BY <2>1, FS_Subset DEF LiveFinite, Inv, TypeOK
<1>3. PICK n \in Nat : order \in [1..n -> Ready] /\ n # 0
  BY <1>1, <1>2, OrdersAreSequences
<1> DEFINE path == [i \in Ready |-> <<>>]
           q == [k \in DOMAIN order |-> Candidate(order[k], path[order[k]])]
<1>4. q = [k \in DOMAIN order |-> Candidate(order[k], <<>>)]
  <2>1. \A k \in DOMAIN order : order[k] \in Ready
    BY <1>3
  <2> QED
    BY <2>1
<1>5. \A i \in Ready : path[i] \in Seq(StateSet)
  OBVIOUS
<1> HIDE DEF path
<1>6. q \in Seq(Candidates) /\ q # <<>>
  <2> HIDE DEF q
  <2> DEFINE S == Ready
  <2>1. S \in SUBSET Issue /\ order \in [1..n -> S] /\ n # 0 /\ \A i \in S : path[i] \in Seq(StateSet)
    BY <1>2, <1>3, <1>5
  <2> HIDE DEF S
  <2>2. /\ q \in Seq(Candidates) /\ q # <<>>
        /\ (\A i \in S : EndsAtWork(path[i])) => LeadToWork(q)
    BY <2>1, QueueOfOrder DEF q
  <2> QED
    BY <2>2
<1>7. call' = [call EXCEPT ![c] = [op |-> "claim_next", who |-> who, request |-> request, queue |-> q]]
  BY <1>1, <1>4
<1> HIDE DEF q
<1>8. Opens(c, "claim_next", who, request, q)
  BY <1>6, <1>7 DEF Opens, BeginClaimNext
<1> QED
  BY <1>8 DEF Opened

\* A begun call is in the books.
LEMMA OpenedCallsOK ==
  ASSUME CallsOK, NEW c \in Session, NEW op \in {"start"} \cup PickOps, NEW who \in Agent,
         NEW request \in RequestId \cup {Nil}, NEW leads, Opened(c, op, who, request, leads)
  PROVE  CallsOK'
<1>1. PICK q : Opens(c, op, who, request, q)
  BY DEF Opened
<1> DEFINE r == [op |-> op, who |-> who, request |-> request, queue |-> q]
<1>2. r \in CallRecord /\ call' = [call EXCEPT ![c] = r] /\ r.queue # <<>>
  BY <1>1 DEF Opens, CallRecord
<1>3. call \in [Session -> {Idle} \cup CallRecord]
  BY DEF CallsOK
<1> HIDE DEF r
<1>4. call' \in [Session -> {Idle} \cup CallRecord] /\ \A d \in Session : call'[d] = IF d = c THEN r ELSE call[d]
  BY <1>2, <1>3
<1> QED
  BY <1>2, <1>4 DEF CallsOK, Busy

\* The call that is busy, and the candidate it is at.
LEMMA BusyCall ==
  ASSUME CallsOK, NEW c \in Session, Busy(c)
  PROVE  /\ call[c] \in CallRecord /\ call[c].who \in Agent /\ call[c].request \in RequestId \cup {Nil}
         /\ call[c].queue \in Seq(Candidates) /\ Len(call[c].queue) > 0 /\ Len(call[c].queue) \in Nat
         /\ NextCandidate(c) = call[c].queue[1]
         /\ NextCandidate(c) \in Candidates /\ NextCandidate(c).path \in Seq(StateSet)
<1> DEFINE q == call[c].queue
<1>1. call[c] \in CallRecord
  BY DEF CallsOK, Busy, Idle
<1>2. q \in Seq(Candidates) /\ q # <<>>
  BY <1>1 DEF CallsOK, CallRecord
<1>3. NextCandidate(c) = Head(q)
  BY DEF NextCandidate
<1> HIDE DEF q
<1>4. Len(q) \in Nat /\ Len(q) > 0 /\ Head(q) = q[1] /\ q[1] \in Candidates
  BY <1>2
<1>5. NextCandidate(c) \in Candidates
  BY <1>3, <1>4
<1> QED
  BY <1>1, <1>2, <1>3, <1>4, <1>5 DEF q, CallRecord, Candidates
-----------------------------------------------------------------------------
(* A start is one write of the store like any other                              *)

\* A start that goes through is a good one, in one write.
Starts(c) ==
    LET k == NextCandidate(c)
        w == Started(k.issue, call[c].who, call[c].request, k.path)
    IN  /\ k.issue \in Live /\ GoodStart(row[k.issue], call[c].who, call[c].request, k.path, w)
        /\ Write(k.issue, w.row, w.events) /\ call' = [call EXCEPT ![c] = Idle]

LEMMA StartIsGood ==
  ASSUME Inv, CallsOK, NEW c \in Session, Start(c)
  PROVE  Starts(c)
<1> DEFINE k == NextCandidate(c)
           w == Started(k.issue, call[c].who, call[c].request, k.path)
<1>1. /\ k.issue \in Live /\ w.ok /\ Write(k.issue, w.row, w.events) /\ call' = [call EXCEPT ![c] = Idle]
      /\ Busy(c)
  BY DEF Start, Startable
<1>2. call[c].who \in Agent /\ k.path \in Seq(StateSet)
  BY <1>1, BusyCall
<1> HIDE DEF k
<1>3. GoodStart(row[k.issue], call[c].who, call[c].request, k.path, w)
  BY <1>1, <1>2, StartedIsGood
<1> HIDE DEF w
<1> QED
  BY <1>1, <1>3 DEF Starts, k, w

\* What a start does to the store, said of row and events alone.
LEMMA GoodStartExplains ==
  ASSUME NEW r, NEW who, NEW request, NEW path, NEW w, GoodStart(r, who, request, path, w), NEW before
  PROVE  /\ RowOK(w.row) /\ PayloadsOK(w.events) /\ IsSequence(w.events) /\ Announced(w.events)
         /\ Explains(r, w.row, w.events, before)
<1>1. SoFar(r, who, request, w) /\ r.status \in StateSet /\ r.assignee \in {NoOne, who}
  BY DEF GoodStart
<1>2. w.row.assignee = who /\ Unmarking(w.events)
  BY <1>1 DEF SoFar
<1>3. ~LosesHolder(r, w.row) /\ ~Revives(r, w.row)
  BY <1>1, <1>2, TemplateAssumption DEF LosesHolder, Revives
<1> QED
  BY <1>1, <1>2, <1>3 DEF SoFar, Explains, Unmarking, PayloadsOK

\* The store's invariants, together.
StoreKept == Inv /\ Marked /\ LogsAudited
CallInv == StoreKept /\ LiveFinite /\ CallsOK

LEMMA StartKeepsStore ==
  ASSUME CallInv, NEW c \in Session, Start(c)
  PROVE  StoreKept' /\ Conduct /\ Live' = Live /\ Starts(c)
<1> DEFINE i == NextCandidate(c).issue
           w == Started(i, call[c].who, call[c].request, NextCandidate(c).path)
<1>1. Inv /\ Marked /\ LogsAudited /\ CallsOK
  BY DEF CallInv, StoreKept
<1>2. Starts(c)
  BY <1>1, StartIsGood
<1>3. /\ i \in Live /\ Write(i, w.row, w.events)
      /\ GoodStart(row[i], call[c].who, call[c].request, NextCandidate(c).path, w)
  BY <1>2 DEF Starts
<1> HIDE DEF i, w
<1>4. /\ RowOK(w.row) /\ PayloadsOK(w.events) /\ IsSequence(w.events) /\ Announced(w.events)
      /\ Explains(row[i], w.row, w.events, log[i])
  BY <1>3, GoodStartExplains
<1>5. Inv'
  BY <1>1, <1>3, <1>4, WritePreserves
<1>6. Conduct /\ Marked'
  BY <1>1, <1>3, <1>4, WriteStep
<1>7. LogsAudited'
  BY <1>1, <1>3, <1>4, WriteAudited
<1>8. Live' = Live
  BY <1>3 DEF Write, Live
<1> QED
  BY <1>2, <1>5, <1>6, <1>7, <1>8 DEF StoreKept

\* A write of the store adds at most one issue to the live ones.
LEMMA LiveGrows ==
  ASSUME [Next]_vars
  PROVE  \E i : Live' \subseteq Live \cup {i}
<1>1. CASE \E i \in Issue, actor \in Holder, q \in CreateRequest : Create(i, actor, q)
  BY <1>1 DEF Create, Live
<1>2. CASE \E i \in Issue : StatusWrite(i)
  BY <1>2 DEF StatusWrite, Update, Close, Reopen, Write, Live
<1>3. CASE \E i \in Issue : ClaimWrite(i)
  BY <1>3 DEF ClaimWrite, Claim, Release, Heartbeat, Reclaim, Write, Live
<1>4. CASE \E i \in Issue, actor \in Holder, id \in 1..MaxEvents,
              override \in BOOLEAN : Undo(i, actor, id, override)
  BY <1>4 DEF Undo, Write, Live
<1>5. CASE Maintenance
  BY <1>5 DEF Maintenance, ArchiveClosed, CompactEvents, Delete, Tick, Live
<1>6. CASE UNCHANGED vars
  BY <1>6 DEF vars, Live
<1> QED
  BY <1>1, <1>2, <1>3, <1>4, <1>5, <1>6 DEF Next

LEMMA LiveStaysFinite ==
  ASSUME LiveFinite, NEW i, Live' \subseteq Live \cup {i}
  PROVE  LiveFinite'
<1> DEFINE S == Live
           T == Live'
<1>1. IsFiniteSet(S) /\ T \subseteq S \cup {i}
  BY DEF LiveFinite
<1> HIDE DEF S, T
<1>2. IsFiniteSet(S \cup {i})
  BY <1>1, FS_AddElement
<1>3. IsFiniteSet(T)
  BY <1>1, <1>2, FS_Subset
<1> QED
  BY <1>3 DEF LiveFinite, T

LEMMA StoreStepKeeps ==
  ASSUME CallInv, [Next]_vars
  PROVE  StoreKept' /\ Conduct /\ LiveFinite'
<1>1. Inv /\ Marked /\ LogsAudited /\ LiveFinite
  BY DEF CallInv, StoreKept
<1>2. Inv'
  BY <1>1, NextPreserves
<1>3. Conduct /\ Marked'
  BY <1>1, NextStep
<1>4. LogsAudited'
  BY <1>1, NextAudited
<1>5. LiveFinite'
  BY <1>1, LiveGrows, LiveStaysFinite
<1> QED
  BY <1>2, <1>3, <1>4, <1>5 DEF StoreKept

\* A call that ends, or moves on to its next candidate.
LEMMA EndedCallsOK ==
  ASSUME CallsOK, NEW c \in Session, call' = [call EXCEPT ![c] = Idle]
  PROVE  CallsOK'
<1>1. call' \in [Session -> {Idle} \cup CallRecord] /\ \A d \in Session : call'[d] = IF d = c THEN Idle ELSE call[d]
  BY DEF CallsOK
<1> QED
  BY <1>1 DEF CallsOK, Busy, Idle

LEMMA SkippedCallsOK ==
  ASSUME CallsOK, NEW c \in Session, Busy(c), call' = [call EXCEPT ![c] = AfterSkip(c)]
  PROVE  CallsOK'
<1>1. CASE Len(call[c].queue) = 1
  BY <1>1, EndedCallsOK DEF AfterSkip
<1>2. CASE Len(call[c].queue) # 1
  <2> DEFINE q == call[c].queue
             r == [call[c] EXCEPT !.queue = Tail(q)]
  <2>1. call[c] \in CallRecord /\ q \in Seq(Candidates) /\ Len(q) > 0 /\ Len(q) \in Nat
    BY BusyCall
  <2>2. call' = [call EXCEPT ![c] = r]
    BY <1>2 DEF AfterSkip
  <2>3. Tail(q) \in Seq(Candidates) /\ Tail(q) # <<>>
    <3> HIDE DEF q
    <3>1. Tail(q) \in Seq(Candidates) /\ Len(Tail(q)) = Len(q) - 1 /\ Len(q) # 1
      BY <1>2, <2>1 DEF q
    <3> QED
      BY <2>1, <3>1
  <2>4. r \in CallRecord /\ r.queue = Tail(q)
    <3> HIDE DEF q
    <3> QED
      BY <2>1, <2>3 DEF CallRecord
  <2> HIDE DEF r, q
  <2>5. call' \in [Session -> {Idle} \cup CallRecord] /\ \A d \in Session : call'[d] = IF d = c THEN r ELSE call[d]
    BY <2>2, <2>4 DEF CallsOK
  <2> QED
    BY <2>3, <2>4, <2>5 DEF CallsOK, Busy
<1> QED
  BY <1>1, <1>2

LEMMA BeginOpens ==
  ASSUME CallInv, NEW c \in Session, Begin(c)
  PROVE  \E op \in {"start"} \cup PickOps, who \in Agent, request \in RequestId \cup {Nil}, leads \in BOOLEAN :
            Opened(c, op, who, request, leads)
<1>1. Inv /\ LiveFinite
  BY DEF CallInv, StoreKept
<1>2. PICK who \in Agent :
        \/ \E i \in Issue, target \in StateSet \cup {Nil}, advance \in BOOLEAN :
              BeginStart(c, i, who, target, advance)
        \/ \E request \in RequestId \cup {Nil}, target \in StateSet \cup {Nil}, advance \in BOOLEAN :
              BeginStartNext(c, who, request, target, advance)
        \/ \E request \in RequestId \cup {Nil} : BeginClaimNext(c, who, request)
  BY DEF Begin
<1>3. CASE \E i \in Issue, target \in StateSet \cup {Nil}, advance \in BOOLEAN :
              BeginStart(c, i, who, target, advance)
  <2>1. PICK i \in Issue, target \in StateSet \cup {Nil}, advance \in BOOLEAN :
               BeginStart(c, i, who, target, advance)
    BY <1>3
  <2>2. Opened(c, "start", who, Nil,
               /\ target = Nil \/ Category[target] = "wip"
               /\ advance /\ target = Nil => CategoryOf(row[i].status) # "wip")
    BY <1>1, <2>1, StartOpens
  <2>3. Opened(c, "start", who, Nil, FALSE)
    BY <2>2 DEF Opened
  <2> QED
    BY <2>3
<1>4. CASE \E request \in RequestId \cup {Nil}, target \in StateSet \cup {Nil}, advance \in BOOLEAN :
              BeginStartNext(c, who, request, target, advance)
  <2>1. PICK request \in RequestId \cup {Nil}, target \in StateSet \cup {Nil}, advance \in BOOLEAN :
               BeginStartNext(c, who, request, target, advance)
    BY <1>4
  <2>2. Opened(c, "start_next", who, request, target = Nil \/ Category[target] = "wip")
    BY <1>1, <2>1, StartNextOpens
  <2>3. Opened(c, "start_next", who, request, FALSE)
    BY <2>2 DEF Opened
  <2> QED
    BY <2>3 DEF PickOps
<1>5. CASE \E request \in RequestId \cup {Nil} : BeginClaimNext(c, who, request)
  <2>1. PICK request \in RequestId \cup {Nil} : BeginClaimNext(c, who, request)
    BY <1>5
  <2>2. Opened(c, "claim_next", who, request, FALSE)
    BY <1>1, <2>1, ClaimNextOpens
  <2> QED
    BY <2>2 DEF PickOps
<1> QED
  BY <1>2, <1>3, <1>4, <1>5

LEMMA CallStepKeeps ==
  ASSUME CallInv, [CallNext]_callVars
  PROVE  CallInv' /\ Conduct
<1>1. Inv /\ Marked /\ LogsAudited /\ LiveFinite /\ CallsOK
  BY DEF CallInv, StoreKept
<1>2. ASSUME UNCHANGED vars, CallsOK' PROVE CallInv' /\ Conduct
  <2>1. StoreKept' /\ Conduct /\ LiveFinite'
    BY <1>2, StoreStepKeeps
  <2> QED
    BY <1>2, <2>1 DEF CallInv
<1>3. CASE StoreStep
  <2>1. StoreKept' /\ Conduct /\ LiveFinite'
    BY <1>3, StoreStepKeeps DEF StoreStep
  <2>2. CallsOK'
    BY <1>1, <1>3 DEF StoreStep, CallsOK, Busy
  <2> QED
    BY <2>1, <2>2 DEF CallInv
<1>4. ASSUME NEW c \in Session, Begin(c) PROVE CallInv' /\ Conduct
  <2>1. PICK op \in {"start"} \cup PickOps, who \in Agent, request \in RequestId \cup {Nil}, leads \in BOOLEAN :
            Opened(c, op, who, request, leads)
    BY <1>4, BeginOpens
  <2>2. CallsOK' /\ UNCHANGED vars
    BY <1>1, <2>1, OpenedCallsOK DEF Opened, Opens
  <2> QED
    BY <1>2, <2>2
<1>5. ASSUME NEW c \in Session, Start(c) PROVE CallInv' /\ Conduct
  <2>1. StoreKept' /\ Conduct /\ Live' = Live
    BY <1>5, StartKeepsStore
  <2>2. LiveFinite'
    BY <1>1, <2>1 DEF LiveFinite
  <2>3. CallsOK'
    BY <1>1, <1>5, EndedCallsOK DEF Start
  <2> QED
    BY <2>1, <2>2, <2>3 DEF CallInv
<1>6. ASSUME NEW c \in Session, HandBack(c) PROVE CallInv' /\ Conduct
  <2>1. CallsOK' /\ UNCHANGED vars
    BY <1>1, <1>6, EndedCallsOK DEF HandBack
  <2> QED
    BY <1>2, <2>1
<1>7. ASSUME NEW c \in Session, Skip(c) PROVE CallInv' /\ Conduct
  <2>1. CallsOK' /\ UNCHANGED vars
    BY <1>1, <1>7, SkippedCallsOK DEF Skip
  <2> QED
    BY <1>2, <2>1
<1>8. CASE UNCHANGED callVars
  <2>1. UNCHANGED vars /\ CallsOK'
    BY <1>1, <1>8 DEF callVars, vars, CallsOK, Busy
  <2> QED
    BY <1>2, <2>1
<1> QED
  BY <1>3, <1>4, <1>5, <1>6, <1>7, <1>8 DEF CallNext, Attempt

LEMMA CallInitOK == CallInit => CallInv
<1> SUFFICES ASSUME CallInit PROVE CallInv
  OBVIOUS
<1>1. Live = {} /\ Init
  BY DEF CallInit, Init, Live
<1>2. Inv /\ Marked /\ LogsAudited
  BY <1>1, InitOK DEF Marked, LogsAudited
<1>3. LiveFinite
  BY <1>1, FS_EmptySet DEF LiveFinite
<1>4. CallsOK
  BY DEF CallInit, CallsOK, Busy, Idle
<1> QED
  BY <1>2, <1>3, <1>4 DEF CallInv, StoreKept

LEMMA CallInvariance == CallSpec => []CallInv
<1>1. CallInv /\ [CallNext]_callVars => CallInv'
  BY CallStepKeeps
<1> QED
  BY <1>1, CallInitOK, PTL DEF CallSpec
\* Next to any calls in flight the store keeps what it keeps without them: columns that
\* agree, shortcuts that are announced, and no event undone twice.
THEOREM CallsKeepTheStore == CallSpec => [](ColumnsAgree /\ ShortcutsAudited /\ UndoneOnce)
<1>1. Inv => ColumnsAgree
  BY DEF Inv, RowsOK, RowOK, ColumnsAgree, HolderColumnsAgree, ClosedColumnsAgree,
         ClaimColumnsAgree, ClaimAnchorIsHolders
<1>2. Marked => UndoneOnce
  BY DEF Marked, MarksOK, MarkedOnce, UndoneOnce
<1>3. LogsAudited => ShortcutsAudited
  BY DEF LogsAudited, Audited, AnnouncedAt, Announces, Declared, ShortcutsAudited
<1>4. CallInv => ColumnsAgree /\ ShortcutsAudited /\ UndoneOnce
  BY <1>1, <1>2, <1>3 DEF CallInv, StoreKept
<1> QED
  BY <1>4, CallInvariance, PTL

\* No claim is taken from its holder without a trace, neither by a start, however long ago
\* its issue was picked, nor by any write next to it.
THEOREM StartsStealNothing == CallSpec => ClaimsNotStolen
<1>1. ASSUME CallInv, [CallNext]_callVars
      PROVE  \A i \in Live \cap DOMAIN row' :
                /\ row[i].assignee \notin {NoOne, row'[i].assignee}
                /\ ~IsDone(row[i].status)
                => LosesClaim(i)
  BY <1>1, CallStepKeeps DEF Conduct, LosesHolder
<1>2. CallInv /\ [CallNext]_callVars =>
        [\A i \in Live \cap DOMAIN row' :
            /\ row[i].assignee \notin {NoOne, row'[i].assignee}
            /\ ~IsDone(row[i].status)
            => LosesClaim(i)]_vars
  BY <1>1
<1> QED
  BY <1>2, CallInvariance, PTL DEF CallSpec, ClaimsNotStolen

-----------------------------------------------------------------------------
(* A start ends at work                                                          *)

\* The calls that ask for work: the target, if there is one, is a working status, and the
\* issue is not at work where start_work is to advance it by itself (it would have
\* nowhere to walk to).
WorkTarget == {Nil} \cup {t \in StateSet : Category[t] = "wip"}
WorkBegin(c) ==
    \E who \in Agent :
        \/ \E i \in Issue, target \in WorkTarget, advance \in BOOLEAN :
              /\ advance /\ target = Nil => CategoryOf(row[i].status) # "wip"
              /\ BeginStart(c, i, who, target, advance)
        \/ \E request \in RequestId \cup {Nil}, target \in WorkTarget, advance \in BOOLEAN :
              BeginStartNext(c, who, request, target, advance)
        \/ \E request \in RequestId \cup {Nil} : BeginClaimNext(c, who, request)
WorkNext == StoreStep \/ \E c \in Session : WorkBegin(c) \/ Attempt(c)
WorkSpec == CallInit /\ [][WorkNext]_callVars

WorkOps == {"start", "start_next"}
QueuesLead == \A c \in Session : Busy(c) /\ call[c].op \in WorkOps => LeadToWork(call[c].queue)

LEMMA WorkTargetTyped ==
  ASSUME NEW target \in WorkTarget
  PROVE  target \in StateSet \cup {Nil} /\ (target = Nil \/ Category[target] = "wip")
BY DEF WorkTarget

LEMMA WorkBeginIsBegin ==
  ASSUME NEW c \in Session, WorkBegin(c)
  PROVE  Begin(c)
BY WorkTargetTyped DEF WorkBegin, Begin

LEMMA WorkOpens ==
  ASSUME CallInv, NEW c \in Session, WorkBegin(c)
  PROVE  \E op \in {"start"} \cup PickOps, who \in Agent, request \in RequestId \cup {Nil} :
            Opened(c, op, who, request, op \in WorkOps)
<1>1. Inv /\ LiveFinite
  BY DEF CallInv, StoreKept
<1>2. PICK who \in Agent :
        \/ \E i \in Issue, target \in WorkTarget, advance \in BOOLEAN :
              /\ advance /\ target = Nil => CategoryOf(row[i].status) # "wip"
              /\ BeginStart(c, i, who, target, advance)
        \/ \E request \in RequestId \cup {Nil}, target \in WorkTarget, advance \in BOOLEAN :
              BeginStartNext(c, who, request, target, advance)
        \/ \E request \in RequestId \cup {Nil} : BeginClaimNext(c, who, request)
  BY DEF WorkBegin
<1>3. CASE \E i \in Issue, target \in WorkTarget, advance \in BOOLEAN :
              /\ advance /\ target = Nil => CategoryOf(row[i].status) # "wip"
              /\ BeginStart(c, i, who, target, advance)
  <2>1. PICK i \in Issue, target \in WorkTarget, advance \in BOOLEAN :
               /\ advance /\ target = Nil => CategoryOf(row[i].status) # "wip"
               /\ BeginStart(c, i, who, target, advance)
    BY <1>3
  <2>2. Opened(c, "start", who, Nil,
               /\ target = Nil \/ Category[target] = "wip"
               /\ advance /\ target = Nil => CategoryOf(row[i].status) # "wip")
    BY <1>1, <2>1, WorkTargetTyped, StartOpens
  <2>3. Opened(c, "start", who, Nil, "start" \in WorkOps)
    BY <2>1, <2>2, WorkTargetTyped DEF Opened
  <2> QED
    BY <2>3
<1>4. CASE \E request \in RequestId \cup {Nil}, target \in WorkTarget, advance \in BOOLEAN :
              BeginStartNext(c, who, request, target, advance)
  <2>1. PICK request \in RequestId \cup {Nil}, target \in WorkTarget, advance \in BOOLEAN :
               BeginStartNext(c, who, request, target, advance)
    BY <1>4
  <2>2. Opened(c, "start_next", who, request, target = Nil \/ Category[target] = "wip")
    BY <1>1, <2>1, WorkTargetTyped, StartNextOpens
  <2>3. Opened(c, "start_next", who, request, "start_next" \in WorkOps)
    BY <2>1, <2>2, WorkTargetTyped DEF Opened
  <2> QED
    BY <2>3 DEF PickOps
<1>5. CASE \E request \in RequestId \cup {Nil} : BeginClaimNext(c, who, request)
  <2>1. PICK request \in RequestId \cup {Nil} : BeginClaimNext(c, who, request)
    BY <1>5
  <2>2. Opened(c, "claim_next", who, request, FALSE)
    BY <1>1, <2>1, ClaimNextOpens
  <2>3. Opened(c, "claim_next", who, request, "claim_next" \in WorkOps)
    BY <2>2 DEF Opened, WorkOps
  <2> QED
    BY <2>3 DEF PickOps
<1> QED
  BY <1>2, <1>3, <1>4, <1>5

LEMMA OpenedLeads ==
  ASSUME CallsOK, QueuesLead, NEW c \in Session, NEW op, NEW who, NEW request,
         Opened(c, op, who, request, op \in WorkOps)
  PROVE  QueuesLead'
<1>1. PICK q : Opens(c, op, who, request, q) /\ (op \in WorkOps => LeadToWork(q))
  BY DEF Opened
<1> DEFINE r == [op |-> op, who |-> who, request |-> request, queue |-> q]
<1>2. call' = [call EXCEPT ![c] = r] /\ r.op = op /\ r.queue = q
  BY <1>1 DEF Opens
<1> HIDE DEF r
<1>3. \A d \in Session : call'[d] = IF d = c THEN r ELSE call[d]
  BY <1>2 DEF CallsOK
<1> QED
  BY <1>1, <1>2, <1>3 DEF QueuesLead, Busy

LEMMA SkippedLeads ==
  ASSUME CallsOK, QueuesLead, NEW c \in Session, Busy(c), call' = [call EXCEPT ![c] = AfterSkip(c)]
  PROVE  QueuesLead'
<1>1. \A d \in Session : call'[d] = IF d = c THEN AfterSkip(c) ELSE call[d]
  BY DEF CallsOK
<1>2. CASE Len(call[c].queue) = 1
  BY <1>1, <1>2 DEF AfterSkip, Idle, QueuesLead, Busy
<1>3. CASE Len(call[c].queue) # 1
  <2> DEFINE q == call[c].queue
  <2>1. q \in Seq(Candidates) /\ Len(q) > 0 /\ Len(q) \in Nat /\ call[c] \in CallRecord
    BY BusyCall
  <2>2. AfterSkip(c) = [call[c] EXCEPT !.queue = Tail(q)]
    BY <1>3 DEF AfterSkip
  <2>3. AfterSkip(c).op = call[c].op /\ AfterSkip(c).queue = Tail(q)
    <3> HIDE DEF q
    <3> QED
      BY <2>1, <2>2 DEF CallRecord
  <2>4. LeadToWork(q) => LeadToWork(Tail(q))
    <3> HIDE DEF q
    <3>1. /\ DOMAIN Tail(q) = 1..(Len(q) - 1) /\ \A k \in 1..(Len(q) - 1) : Tail(q)[k] = q[k + 1]
          /\ DOMAIN q = 1..Len(q)
      BY <2>1
    <3>2. \A k \in 1..(Len(q) - 1) : k + 1 \in 1..Len(q)
      BY <2>1
    <3> QED
      BY <3>1, <3>2 DEF LeadToWork
  <2>5. call[c].op \in WorkOps => LeadToWork(q)
    BY DEF QueuesLead
  <2> HIDE DEF q
  <2> QED
    BY <1>1, <2>3, <2>4, <2>5 DEF QueuesLead, Busy
<1> QED
  BY <1>2, <1>3

LEMMA EndedLeads ==
  ASSUME CallsOK, QueuesLead, NEW c \in Session, call' = [call EXCEPT ![c] = Idle]
  PROVE  QueuesLead'
<1>1. \A d \in Session : call'[d] = IF d = c THEN Idle ELSE call[d]
  BY DEF CallsOK
<1> QED
  BY <1>1 DEF Idle, QueuesLead, Busy

LEMMA WorkStepKeeps ==
  ASSUME CallInv, QueuesLead, [WorkNext]_callVars
  PROVE  QueuesLead' /\ [CallNext]_callVars
<1>1. CallsOK
  BY DEF CallInv
<1>2. CASE StoreStep
  BY <1>2 DEF StoreStep, QueuesLead, Busy, CallNext
<1>3. ASSUME NEW c \in Session, WorkBegin(c) PROVE QueuesLead' /\ [CallNext]_callVars
  <2>1. PICK op \in {"start"} \cup PickOps, who \in Agent, request \in RequestId \cup {Nil} :
               Opened(c, op, who, request, op \in WorkOps)
    BY <1>3, WorkOpens
  <2>2. QueuesLead'
    BY <1>1, <2>1, OpenedLeads
  <2> QED
    BY <1>3, <2>2, WorkBeginIsBegin DEF CallNext
<1>4. ASSUME NEW c \in Session, Attempt(c) PROVE QueuesLead' /\ [CallNext]_callVars
  <2>1. ASSUME Start(c) PROVE QueuesLead'
    BY <1>1, <2>1, EndedLeads DEF Start
  <2>2. ASSUME HandBack(c) PROVE QueuesLead'
    BY <1>1, <2>2, EndedLeads DEF HandBack
  <2>3. ASSUME Skip(c) PROVE QueuesLead'
    BY <1>1, <2>3, SkippedLeads DEF Skip
  <2>4. QueuesLead'
    BY <1>4, <2>1, <2>2, <2>3 DEF Attempt
  <2> QED
    BY <1>4, <2>4 DEF CallNext
<1>5. CASE UNCHANGED callVars
  BY <1>5 DEF callVars, QueuesLead, Busy
<1> QED
  BY <1>2, <1>3, <1>4, <1>5 DEF WorkNext

LEMMA WorkInvariance == WorkSpec => [](CallInv /\ QueuesLead)
<1>1. CallInit => QueuesLead
  BY DEF CallInit, QueuesLead, Busy, Idle
<1>2. CallInv /\ QueuesLead /\ [WorkNext]_callVars => CallInv' /\ QueuesLead'
  BY WorkStepKeeps, CallStepKeeps
<1> QED
  BY <1>1, <1>2, CallInitOK, PTL DEF WorkSpec

\* A call that changes an issue and ends is a start that went through.
LEMMA EndsByStarting ==
  ASSUME CallInv, [CallNext]_callVars, NEW c \in Session, Busy(c), call'[c] = Idle, row' # row
  PROVE  Start(c)
<1>1. CallsOK
  BY DEF CallInv
<1>2. ~UNCHANGED vars /\ ~UNCHANGED call
  BY DEF vars, Busy, Idle
<1>3. PICK d \in Session : Start(d)
  BY <1>2 DEF CallNext, StoreStep, Begin, BeginStart, BeginStartNext, BeginClaimNext, Attempt,
              HandBack, Skip, callVars, vars
<1>4. d = c
  BY <1>1, <1>3 DEF Start, CallsOK, Busy, Idle
<1> QED
  BY <1>3, <1>4

LEMMA StartWorks ==
  ASSUME CallInv, QueuesLead, NEW c \in Session, Start(c), call[c].op \in WorkOps
  PROVE  LET i == NextCandidate(c).issue
         IN  row'[i].assignee = call[c].who /\ CategoryOf(row'[i].status) = "wip"
<1> DEFINE k == NextCandidate(c)
           i == k.issue
           w == Started(i, call[c].who, call[c].request, k.path)
<1>1. Starts(c) /\ Busy(c) /\ CallsOK
  BY StartIsGood DEF CallInv, StoreKept, Start
<1>2. i \in Live /\ GoodStart(row[i], call[c].who, call[c].request, k.path, w) /\ Write(i, w.row, w.events)
  BY <1>1 DEF Starts
<1>3. k.path \in Seq(StateSet) /\ EndsAtWork(k.path)
  <2> DEFINE q == call[c].queue
  <2>1. q \in Seq(Candidates) /\ Len(q) > 0 /\ Len(q) \in Nat /\ k = q[1] /\ k.path \in Seq(StateSet)
    BY <1>1, BusyCall
  <2>2. LeadToWork(q)
    BY <1>1 DEF QueuesLead
  <2> HIDE DEF q, k
  <2>3. 1 \in DOMAIN q
    BY <2>1
  <2> QED
    BY <2>1, <2>2, <2>3 DEF LeadToWork
<1> HIDE DEF k, w
<1>4. Len(k.path) > 0 /\ k.path[Len(k.path)] \in StateSet
  BY <1>3 DEF EndsAtWork
<1>5. w.row.assignee = call[c].who /\ CategoryOf(w.row.status) = "wip"
  BY <1>2, <1>3, <1>4 DEF GoodStart, SoFar, EndsAtWork, CategoryOf
<1>6. row'[i] = w.row
  BY <1>2 DEF Write, Live
<1> QED
  BY <1>5, <1>6 DEF k

\* Whatever happens between the look and the lock, a call that asks for work and claims an
\* issue leaves it claimed by its caller and in work.
THEOREM StartsEndWorking == WorkSpec => StartEndsWorking
<1>1. ASSUME CallInv, QueuesLead, [WorkNext]_callVars
      PROVE  \A c \in Session :
                /\ Busy(c) /\ call'[c] = Idle /\ row' # row
                /\ call[c].op \in {"start", "start_next"}
                => LET i == NextCandidate(c).issue
                   IN  /\ row'[i].assignee = call[c].who
                       /\ CategoryOf(row'[i].status) = "wip"
  BY <1>1, WorkStepKeeps, EndsByStarting, StartWorks DEF WorkOps
<1>2. CallInv /\ QueuesLead /\ [WorkNext]_callVars =>
        [\A c \in Session :
            /\ Busy(c) /\ call'[c] = Idle /\ row' # row
            /\ call[c].op \in {"start", "start_next"}
            => LET i == NextCandidate(c).issue
               IN  /\ row'[i].assignee = call[c].who
                   /\ CategoryOf(row'[i].status) = "wip"]_callVars
  BY <1>1
<1> QED
  BY <1>2, WorkInvariance, PTL DEF WorkSpec, StartEndsWorking
-----------------------------------------------------------------------------
(* One piece of work at a time                                                   *)

\* Identities that pick: an identity retries with one request id, or none, and comes to
\* hold work by start_next_work and claim_next only.  Next to them anyone may write what
\* gives nobody work: file an issue, edit or close one, let one go, keep a lease alive,
\* archive, compact and delete.
PickStore ==
    \/ \E i \in Issue, actor \in Holder, q \in CreateRequest :
          q.assignee = NoOne /\ Create(i, actor, q)
    \/ \E i \in Issue, actor \in Holder, expected \in Expected, q \in UpdateRequest :
          q.status = Nil /\ q.assignee = Nil /\ Update(i, actor, expected, q)
    \/ \E i \in Issue, actor \in Holder, expected \in Expected, s \in StateSet \cup {Nil},
          reason, force, commit \in BOOLEAN :
          Close(i, actor, expected, s, reason, force, commit)
    \/ \E i \in Issue, actor \in Holder, expected \in Agent \cup {Nil}, override, revert \in BOOLEAN :
          Release(i, actor, expected, override, revert)
    \/ \E i \in Issue, actor \in Holder, expected \in Agent \cup {Nil}, override \in BOOLEAN :
          Heartbeat(i, actor, expected, override)
    \/ Maintenance
PickBegin(RequestOf, c) ==
    \E who \in Agent :
        \/ \E target \in StateSet \cup {Nil}, advance \in BOOLEAN :
              BeginStartNext(c, who, RequestOf[who], target, advance)
        \/ BeginClaimNext(c, who, RequestOf[who])
PicksNext(RequestOf) ==
    \/ PickStore /\ UNCHANGED call
    \/ \E c \in Session : PickBegin(RequestOf, c) \/ Attempt(c)
PicksSpec(RequestOf) == CallInit /\ [][PicksNext(RequestOf)]_callVars

-----------------------------------------------------------------------------
(* What gives nobody work                                                        *)

\* The claims of an identity in a log.
ClaimsOf(events, who) == {k \in DOMAIN events : events[k].kind = "claimed" /\ events[k].new = who}

\* A row after a write: who holds it and is at it did so before, since the same time.
CalmRow(r, s) ==
    s.assignee # NoOne /\ ~IsDone(s.status) =>
        /\ s.assignee = r.assignee /\ ~IsDone(r.status) /\ s.claimedAt = r.claimedAt
        /\ CategoryOf(s.status) = "wip" => CategoryOf(r.status) = "wip"

\* A log after a write has no other claims than before.
SameClaims(l, m) ==
    \A who \in Agent : ClaimsOf(m, who) = ClaimsOf(l, who) /\ \A k \in ClaimsOf(l, who) : m[k] = l[k]
NoNewClaims(l, m) ==
    \A who \in Agent : \A k \in ClaimsOf(m, who) : \E j \in ClaimsOf(l, who) : m[k].note = l[j].note

CalmIssue(r, l, s, m) ==
    /\ CalmRow(r, s) /\ NoNewClaims(l, m)
    /\ s.assignee # NoOne /\ ~IsDone(s.status) => SameClaims(l, m)
Calm ==
    /\ now' \in Nat /\ now <= now'
    /\ \A i \in Live' :
          \/ i \in Live /\ CalmIssue(row[i], log[i], row'[i], log'[i])
          \/ i \notin Live /\ row'[i].assignee = NoOne /\ \A who \in Agent : ClaimsOf(log'[i], who) = {}

LEMMA SameIsNotNew ==
  ASSUME NEW l, NEW m, SameClaims(l, m)
  PROVE  NoNewClaims(l, m)
BY DEF SameClaims, NoNewClaims

LEMMA UnchangedIsCalm ==
  ASSUME NEW r, NEW l
  PROVE  CalmIssue(r, l, r, l)
BY DEF CalmIssue, CalmRow, SameClaims, NoNewClaims

LEMMA StampUnclaiming ==
  ASSUME NEW i, NEW l, IsSequence(l), NEW events, IsSequence(events), Unclaiming(events)
  PROVE  SameClaims(l, l \o Stamp(i, events))
<1> DEFINE b == Stamp(i, events)
           m == l \o b
<1>1. IsSequence(b) /\ Len(b) = Len(events) /\ \A k \in 1..Len(events) : b[k].kind = events[k].kind
  <2>1. Len(events) \in Nat /\ DOMAIN events = 1..Len(events)
    BY DEF IsSequence
  <2>2. b = [k \in 1..Len(events) |-> b[k]] /\ \A k \in 1..Len(events) : b[k].kind = events[k].kind
    BY <2>1 DEF Stamp
  <2> HIDE DEF b
  <2> QED
    BY <2>1, <2>2, FunctionIsSequence
<1> HIDE DEF b
<1>2. /\ DOMAIN m = 1..(Len(l) + Len(b))
      /\ \A k \in 1..(Len(l) + Len(b)) : m[k] = IF k <= Len(l) THEN l[k] ELSE b[k - Len(l)]
  BY <1>1, ConcatIs
<1> HIDE DEF m
<1>3. Len(l) \in Nat /\ Len(b) \in Nat /\ DOMAIN l = 1..Len(l)
  BY <1>1 DEF IsSequence
<1>4. ASSUME NEW k \in DOMAIN m, m[k].kind = "claimed" PROVE k \in DOMAIN l
  <2> SUFFICES ASSUME ~(k <= Len(l)) PROVE FALSE
    BY <1>2, <1>3
  <2>1. k - Len(l) \in 1..Len(events) /\ k - Len(l) \in DOMAIN events /\ m[k] = b[k - Len(l)]
    BY <1>1, <1>2, <1>3 DEF IsSequence
  <2> QED
    BY <1>1, <1>4, <2>1 DEF Unclaiming
<1>5. \A k \in DOMAIN l : k \in DOMAIN m /\ m[k] = l[k]
  BY <1>2, <1>3
<1>6. SameClaims(l, m)
  BY <1>4, <1>5 DEF SameClaims, ClaimsOf
<1> QED
  BY <1>6 DEF m, b

LEMMA WriteIsCalm ==
  ASSUME Inv, NEW i \in Live, NEW newRow, NEW events, IsSequence(events), Unclaiming(events),
         CalmRow(row[i], newRow), Write(i, newRow, events)
  PROVE  Calm
<1>1. IsSequence(log[i]) /\ now \in Nat /\ DOMAIN log = Live
  BY LiveRow DEF LogOK, Inv, TypeOK
<1>2. SameClaims(log[i], log[i] \o Stamp(i, events))
  BY <1>1, StampUnclaiming
<1>3. /\ Live' = Live /\ now' = now
      /\ row'[i] = newRow /\ log'[i] = log[i] \o Stamp(i, events)
      /\ \A j \in Live : j # i => row'[j] = row[j] /\ log'[j] = log[j]
  BY <1>1 DEF Write, Live
<1> DEFINE m == log[i] \o Stamp(i, events)
<1> HIDE DEF m
<1>4. CalmIssue(row[i], log[i], row'[i], log'[i])
  BY <1>2, <1>3, SameIsNotNew DEF CalmIssue, m
<1>5. \A j \in Live : CalmIssue(row[j], log[j], row'[j], log'[j])
  BY <1>3, <1>4, UnchangedIsCalm
<1> QED
  BY <1>1, <1>3, <1>5 DEF Calm
LEMMA UpdatedMore ==
  ASSUME NEW r \in Row, NEW q
  PROVE  /\ Changes(q.status, r.status) => UpdatedRow(r, q).status = q.status
         /\ ~Changes(q.assignee, r.assignee) => UpdatedRow(r, q).claimedAt = r.claimedAt
<1> DEFINE s == IF Changes(q.status, r.status)
                THEN StatusSet(r, q.status, q.commit) ELSE r
           a == IF Changes(q.assignee, r.assignee)
                THEN Assigned(s, q.assignee, q.commit) ELSE s
           Cols == {"status", "assignee", "claimedAt", "claimCommit", "leaseEnd", "closedAt",
                    "closeCommit", "fields", "priority"}
<1>1. r = [c \in Cols |-> r[c]]
  BY DEF Row
<1>2. s = [c \in Cols |-> s[c]] /\ s.claimedAt = r.claimedAt
      /\ (Changes(q.status, r.status) => s.status = q.status)
  BY <1>1 DEF StatusSet, Closed, NotClosed
<1> HIDE DEF s
<1>3. a = [c \in Cols |-> a[c]] /\ a.status = s.status
      /\ (~Changes(q.assignee, r.assignee) => a.claimedAt = s.claimedAt)
  BY <1>2 DEF Assigned, Unheld, HeldBy
<1>4. UpdatedRow(r, q) = [a EXCEPT !.priority = IF q.priority = Nil THEN @ ELSE q.priority,
                                   !.fields = MergedFields(r, q)]
  BY DEF UpdatedRow, s
<1> HIDE DEF a
<1>5. UpdatedRow(r, q).claimedAt = a.claimedAt /\ UpdatedRow(r, q).status = a.status
  BY <1>3, <1>4
<1> QED
  BY <1>2, <1>3, <1>5

LEMMA CalmUpdate ==
  ASSUME Inv, NEW i, NEW actor \in Holder, NEW expected, NEW q \in UpdateRequest,
         q.status = Nil, q.assignee = Nil, Update(i, actor, expected, q)
  PROVE  Calm
<1> DEFINE r == row[i]
           s == UpdatedRow(r, q)
           events == UpdateEvents(r, q, actor, FALSE, FALSE)
<1>1. i \in Live /\ r \in Row /\ Write(i, s, events) /\ q.commit \in BOOLEAN
  BY LiveRow, StoreAssumption DEF Update, Updates
<1>2. ~Changes(q.status, r.status) /\ ~Changes(q.assignee, r.assignee)
  BY DEF Changes
<1>3. s.assignee = r.assignee /\ s.status = r.status /\ s.claimedAt = r.claimedAt
  BY <1>1, <1>2, UpdatedColumns, UpdatedMore
<1>4. IsSequence(events) /\ Unclaiming(events)
  BY <1>1, UpdateUnclaiming
<1> HIDE DEF r, s, events
<1>5. CalmRow(r, s)
  BY <1>3 DEF CalmRow
<1> QED
  BY <1>1, <1>4, <1>5, WriteIsCalm DEF r

LEMMA CalmClose ==
  ASSUME Inv, NEW i, NEW actor \in Holder, NEW expected, NEW target, NEW reason \in BOOLEAN,
         NEW force \in BOOLEAN, NEW commit \in BOOLEAN,
         Close(i, actor, expected, target, reason, force, commit)
  PROVE  Calm
<1> DEFINE r == row[i]
           q == CloseRequest(r, target, reason, commit)
           s == UpdatedRow(r, q)
           events == UpdateEvents(r, q, actor, force, TRUE)
<1>1. i \in Live /\ r \in Row /\ Write(i, s, events)
  BY LiveRow DEF Close, Closable
<1>2. q.commit \in BOOLEAN /\ q.status = CloseTarget(target)
  BY DEF CloseRequest, StatusRequest
<1>3. IsDone(q.status) /\ q.status # Nil
  BY <1>2, TemplateAssumption DEF Close, Closable
<1> HIDE DEF q
<1>4. IsSequence(events) /\ Unclaiming(events)
  BY <1>2, UpdateUnclaiming
<1>5. s.status = q.status
  BY <1>1, <1>3, UpdatedColumns, UpdatedMore DEF Changes
<1> HIDE DEF r, s, events
<1>6. CalmRow(r, s)
  BY <1>3, <1>5 DEF CalmRow
<1> QED
  BY <1>1, <1>4, <1>6, WriteIsCalm DEF r

LEMMA CalmRelease ==
  ASSUME Inv, NEW i, NEW actor \in Holder, NEW expected, NEW override \in BOOLEAN,
         NEW revert \in BOOLEAN, Release(i, actor, expected, override, revert)
  PROVE  Calm
<1> DEFINE r == row[i]
           target == ReleaseTo(r, revert)
           s == Released(r, target)
           e1 == Event(IF r.assignee = actor THEN "released" ELSE "released_by_override",
                       actor, r.assignee, Nil)
           e2 == Event("transition_forced", actor, r.status, target)
           e3 == Event("status_changed", actor, r.status, target)
           events == ReleaseEvents(r, actor, target)
<1>1. i \in Live /\ r \in Row /\ Write(i, s, events)
  BY LiveRow DEF Release
<1>2. s.assignee = NoOne
  BY <1>1 DEF Released, Unheld, NotClosed, Row
<1>3. events = <<e1>> \o When(target # Nil, e2) \o When(target # Nil, e3)
  BY DEF ReleaseEvents
<1>4. e1.kind # "claimed" /\ e2.kind # "claimed" /\ e3.kind # "claimed"
  BY DEF Event
<1> HIDE DEF r, s, e1, e2, e3, events
<1>5. IsSequence(<<e1>>) /\ Unclaiming(<<e1>>)
  BY <1>4 DEF IsSequence, Unclaiming
<1>6. /\ IsSequence(When(target # Nil, e2)) /\ Unclaiming(When(target # Nil, e2))
      /\ IsSequence(When(target # Nil, e3)) /\ Unclaiming(When(target # Nil, e3))
  BY <1>4, WhenUnclaiming
<1>7. IsSequence(events) /\ Unclaiming(events)
  BY <1>3, <1>5, <1>6, UnclaimingConcat
<1>8. CalmRow(r, s)
  BY <1>2 DEF CalmRow
<1> QED
  BY <1>1, <1>7, <1>8, WriteIsCalm DEF r

LEMMA CalmHeartbeat ==
  ASSUME Inv, NEW i, NEW actor \in Holder, NEW expected, NEW override,
         Heartbeat(i, actor, expected, override)
  PROVE  Calm
<1> DEFINE r == row[i]
           s == [r EXCEPT !.leaseEnd = now + LeaseLength]
           e == Event(IF r.assignee = actor THEN "heartbeat" ELSE "heartbeat_by_override",
                      actor, r.assignee, Nil)
<1>1. i \in Live /\ r \in Row /\ Write(i, s, <<e>>)
  BY LiveRow DEF Heartbeat
<1>2. s.assignee = r.assignee /\ s.status = r.status /\ s.claimedAt = r.claimedAt
  BY <1>1 DEF Row
<1>3. e.kind # "claimed"
  BY DEF Event
<1> HIDE DEF r, s, e
<1>4. IsSequence(<<e>>) /\ Unclaiming(<<e>>)
  BY <1>3 DEF IsSequence, Unclaiming
<1>5. CalmRow(r, s)
  BY <1>2 DEF CalmRow
<1> QED
  BY <1>1, <1>4, <1>5, WriteIsCalm DEF r

LEMMA CalmCreate ==
  ASSUME Inv, NEW i \in Issue, NEW actor, NEW q, q.assignee = NoOne, Create(i, actor, q)
  PROVE  Calm
<1> DEFINE e == Event("created", actor, Nil, Nil)
           m == Stamp(i, <<e>>)
<1>1. /\ now' = now /\ now \in Nat /\ Live' = Live \cup {i} /\ i \notin Live
      /\ row'[i] = NewRow(q) /\ log'[i] = m
      /\ \A j \in Live : row'[j] = row[j] /\ log'[j] = log[j]
  BY DEF Create, Inv, TypeOK, Live
<1>2. row'[i].assignee = NoOne
  BY <1>1 DEF NewRow, Assigned, Unheld
<1>3. DOMAIN m = {1} /\ m[1].kind = "created"
  BY DEF Stamp, Event
<1> HIDE DEF m
<1>4. \A who \in Agent : ClaimsOf(log'[i], who) = {}
  BY <1>1, <1>3 DEF ClaimsOf
<1>5. \A j \in Live : CalmIssue(row[j], log[j], row'[j], log'[j])
  BY <1>1, UnchangedIsCalm
<1> QED
  BY <1>1, <1>2, <1>4, <1>5 DEF Calm

LEMMA CalmArchive ==
  ASSUME Inv, NEW actor, NEW age, ArchiveClosed(actor, age)
  PROVE  Calm
<1> DEFINE e == Event("archived", actor, Nil, Nil)
<1>1. /\ now' = now /\ now \in Nat /\ Live' = Live
  BY DEF ArchiveClosed, Inv, TypeOK, Live
<1>2. ASSUME NEW j \in Live PROVE CalmIssue(row[j], log[j], row'[j], log'[j])
  <2>1. CASE j \notin Archivable(age)
    <3>1. row'[j] = row[j] /\ log'[j] = log[j]
      BY <2>1 DEF ArchiveClosed
    <3> QED
      BY <3>1, UnchangedIsCalm
  <2>2. CASE j \in Archivable(age)
    <3>1. row[j] \in Row /\ IsSequence(log[j])
      BY LiveRow DEF LogOK
    <3>2. row'[j] = [row[j] EXCEPT !.status = Archived] /\ log'[j] = log[j] \o Stamp(j, <<e>>)
      BY <2>2 DEF ArchiveClosed
    <3>3. IsDone(row'[j].status)
      BY <3>1, <3>2, ArchivedIsDone DEF Row
    <3>4. e.kind # "claimed"
      BY DEF Event
    <3> HIDE DEF e
    <3>5. IsSequence(<<e>>) /\ Unclaiming(<<e>>)
      BY <3>4 DEF IsSequence, Unclaiming
    <3>6. SameClaims(log[j], log[j] \o Stamp(j, <<e>>))
      BY <3>1, <3>5, StampUnclaiming
    <3> QED
      BY <3>2, <3>3, <3>6, SameIsNotNew DEF CalmIssue, CalmRow
  <2> QED
    BY <2>1, <2>2
<1> QED
  BY <1>1, <1>2 DEF Calm

LEMMA CalmCompact ==
  ASSUME Inv, NEW keep \in KeepRecent, CompactEvents(keep)
  PROVE  Calm
<1>1. /\ now' = now /\ now \in Nat /\ Live' = Live /\ row' = row /\ keep \in Nat
  BY StoreAssumption DEF CompactEvents, Inv, TypeOK, Live
<1>2. ASSUME NEW j \in Live PROVE CalmIssue(row[j], log[j], row'[j], log'[j])
  <2>1. CASE row[j].status # Archived
    <3>1. row'[j] = row[j] /\ log'[j] = log[j]
      BY <1>1, <2>1 DEF CompactEvents
    <3> QED
      BY <3>1, UnchangedIsCalm
  <2>2. CASE row[j].status = Archived
    <3> DEFINE l == log[j]
               m == Kept(l, keep)
    <3>1. IsSequence(l) /\ log'[j] = m /\ row'[j] = row[j]
      BY <1>1, <2>2, LiveRow DEF CompactEvents, LogOK
    <3> HIDE DEF l
    <3>2. PICK d \in Nat :
            /\ d <= Len(l) /\ DOMAIN m = 1..(Len(l) - d)
            /\ \A k \in 1..(Len(l) - d) : m[k] = l[k + d]
      BY <1>1, <3>1, KeptIsSuffix
    <3> HIDE DEF m
    <3>3. \A k \in DOMAIN m : k + d \in DOMAIN l /\ m[k] = l[k + d]
      BY <3>1, <3>2 DEF IsSequence
    <3>4. NoNewClaims(l, m)
      BY <3>3 DEF NoNewClaims, ClaimsOf
    <3> QED
      BY <2>2, <3>1, <3>4, ArchivedIsDone DEF CalmIssue, CalmRow, l
  <2> QED
    BY <2>1, <2>2
<1> QED
  BY <1>1, <1>2 DEF Calm

LEMMA CalmDelete ==
  ASSUME Inv, NEW i, NEW force, Delete(i, force)
  PROVE  Calm
<1>1. /\ now' = now /\ now \in Nat /\ Live' = Live \ {i}
      /\ \A j \in Live' : row'[j] = row[j] /\ log'[j] = log[j]
  BY DEF Delete, Inv, TypeOK, Live
<1> QED
  BY <1>1, UnchangedIsCalm DEF Calm

LEMMA CalmTick ==
  ASSUME Inv, Tick \/ UNCHANGED vars
  PROVE  Calm
<1>1. now' \in Nat /\ now <= now' /\ row' = row /\ log' = log /\ Live' = Live
  BY DEF Tick, vars, Inv, TypeOK, Live
<1> QED
  BY <1>1, UnchangedIsCalm DEF Calm

LEMMA PickStoreIsCalm ==
  ASSUME Inv, PickStore
  PROVE  Calm
<1>1. CASE \E i \in Issue, actor \in Holder, q \in CreateRequest :
              q.assignee = NoOne /\ Create(i, actor, q)
  BY <1>1, CalmCreate
<1>2. CASE \E i \in Issue, actor \in Holder, expected \in Expected, q \in UpdateRequest :
              q.status = Nil /\ q.assignee = Nil /\ Update(i, actor, expected, q)
  BY <1>2, CalmUpdate
<1>3. CASE \E i \in Issue, actor \in Holder, expected \in Expected, s \in StateSet \cup {Nil},
              reason, force, commit \in BOOLEAN :
              Close(i, actor, expected, s, reason, force, commit)
  BY <1>3, CalmClose
<1>4. CASE \E i \in Issue, actor \in Holder, expected \in Agent \cup {Nil}, override, revert \in BOOLEAN :
              Release(i, actor, expected, override, revert)
  BY <1>4, CalmRelease
<1>5. CASE \E i \in Issue, actor \in Holder, expected \in Agent \cup {Nil}, override \in BOOLEAN :
              Heartbeat(i, actor, expected, override)
  BY <1>5, CalmHeartbeat
<1>6. CASE Maintenance
  BY <1>6, CalmArchive, CalmCompact, CalmDelete, CalmTick DEF Maintenance
<1> QED
  BY <1>1, <1>2, <1>3, <1>4, <1>5, <1>6 DEF PickStore

LEMMA PickStoreIsNext ==
  ASSUME PickStore
  PROVE  Next
<1>1. CASE \E i \in Issue, actor \in Holder, q \in CreateRequest :
              q.assignee = NoOne /\ Create(i, actor, q)
  BY <1>1 DEF Next
<1>2. CASE \E i \in Issue, actor \in Holder, expected \in Expected, q \in UpdateRequest :
              q.status = Nil /\ q.assignee = Nil /\ Update(i, actor, expected, q)
  BY <1>2 DEF Next, StatusWrite
<1>3. CASE \E i \in Issue, actor \in Holder, expected \in Expected, s \in StateSet \cup {Nil},
              reason, force, commit \in BOOLEAN :
              Close(i, actor, expected, s, reason, force, commit)
  BY <1>3 DEF Next, StatusWrite
<1>4. CASE \E i \in Issue, actor \in Holder, expected \in Agent \cup {Nil}, override, revert \in BOOLEAN :
              Release(i, actor, expected, override, revert)
  BY <1>4 DEF Next, ClaimWrite
<1>5. CASE \E i \in Issue, actor \in Holder, expected \in Agent \cup {Nil}, override \in BOOLEAN :
              Heartbeat(i, actor, expected, override)
  BY <1>5 DEF Next, ClaimWrite
<1>6. CASE Maintenance
  BY <1>6 DEF Next
<1> QED
  BY <1>1, <1>2, <1>3, <1>4, <1>5, <1>6 DEF PickStore
-----------------------------------------------------------------------------
(* What one identity may hold                                                    *)

\* The calls in flight are picks with the request id of their identity, every claim in a
\* log names its identity's request id, and a held issue is claimed no later than its
\* holder's newest claim of it was recorded.
CallsPick(RequestOf) ==
    \A c \in Session : Busy(c) =>
        call[c].op \in PickOps /\ call[c].request = RequestOf[call[c].who]
ClaimsNoted(RequestOf) ==
    \A i \in Live, who \in Agent : \A k \in ClaimsOf(log[i], who) : log[i][k].note = RequestOf[who]
ClaimsDated ==
    \A i \in Live, who \in Agent : row[i].assignee = who /\ ~IsDone(row[i].status) =>
        /\ row[i].claimedAt <= now
        /\ \A k \in ClaimsOf(log[i], who) :
              (\A j \in ClaimsOf(log[i], who) : j <= k) => row[i].claimedAt <= log[i][k].at
PicksKept(RequestOf) == ClaimsNoted(RequestOf) /\ ClaimsDated /\ PicksOnce

LEMMA ClaimsAreEvents ==
  ASSUME NEW i, NEW who
  PROVE  ClaimEvents(i, who) = ClaimsOf(log[i], who)
BY DEF ClaimEvents, ClaimsOf

LEMMA HeldSinceWhen ==
  ASSUME Inv, NEW who \in Agent, NEW i \in LiveHeld(who)
  PROVE  /\ i \in Live /\ i \in Issue /\ row[i].assignee = who /\ ~IsDone(row[i].status)
         /\ row[i].claimedAt \in Nat
<1>1. i \in Live /\ row[i].assignee = who /\ ~IsDone(row[i].status)
  BY DEF LiveHeld
<1>2. RowOK(row[i]) /\ i \in Issue /\ who # NoOne
  BY <1>1, LiveRow, StoreAssumption
<1> QED
  BY <1>1, <1>2 DEF RowOK, ClaimColumnsOK, Row, Time

LEMMA CalmHeld ==
  ASSUME Inv, Calm, NEW who \in Agent, NEW i \in LiveHeld(who)'
  PROVE  /\ i \in LiveHeld(who) /\ row'[i].claimedAt = row[i].claimedAt
         /\ CategoryOf(row'[i].status) = "wip" => CategoryOf(row[i].status) = "wip"
         /\ ClaimsOf(log'[i], who) = ClaimsOf(log[i], who)
         /\ \A k \in ClaimsOf(log[i], who) : log'[i][k] = log[i][k]
<1>1. i \in Live' /\ row'[i].assignee = who /\ ~IsDone(row'[i].status) /\ who # NoOne
  BY StoreAssumption DEF LiveHeld
<1>2. i \in Live /\ CalmIssue(row[i], log[i], row'[i], log'[i])
  BY <1>1 DEF Calm
<1>3. CalmRow(row[i], row'[i]) /\ SameClaims(log[i], log'[i])
  BY <1>1, <1>2 DEF CalmIssue
<1>4. /\ row[i].assignee = who /\ ~IsDone(row[i].status) /\ row'[i].claimedAt = row[i].claimedAt
      /\ CategoryOf(row'[i].status) = "wip" => CategoryOf(row[i].status) = "wip"
  BY <1>1, <1>3 DEF CalmRow
<1>5. i \in LiveHeld(who)
  BY <1>2, <1>4 DEF LiveHeld
<1> QED
  BY <1>3, <1>4, <1>5 DEF SameClaims

LEMMA CalmNoted ==
  ASSUME Calm, NEW RequestOf, ClaimsNoted(RequestOf)
  PROVE  ClaimsNoted(RequestOf)'
<1> SUFFICES ASSUME NEW i \in Live', NEW who \in Agent, NEW k \in ClaimsOf(log'[i], who)
             PROVE  log'[i][k].note = RequestOf[who]
  BY DEF ClaimsNoted
<1>1. i \in Live /\ NoNewClaims(log[i], log'[i])
  BY DEF Calm, CalmIssue
<1>2. PICK j \in ClaimsOf(log[i], who) : log'[i][k].note = log[i][j].note
  BY <1>1 DEF NoNewClaims
<1> QED
  BY <1>1, <1>2 DEF ClaimsNoted

LEMMA CalmDated ==
  ASSUME Inv, Calm, ClaimsDated
  PROVE  ClaimsDated'
<1> SUFFICES ASSUME NEW i \in Live', NEW who \in Agent, row'[i].assignee = who, ~IsDone(row'[i].status)
             PROVE  /\ row'[i].claimedAt <= now'
                    /\ \A k \in ClaimsOf(log'[i], who) :
                          (\A j \in ClaimsOf(log'[i], who) : j <= k) => row'[i].claimedAt <= log'[i][k].at
  BY DEF ClaimsDated
<1>1. i \in LiveHeld(who)'
  BY DEF LiveHeld
<1>2. /\ i \in LiveHeld(who) /\ row'[i].claimedAt = row[i].claimedAt
      /\ ClaimsOf(log'[i], who) = ClaimsOf(log[i], who)
      /\ \A k \in ClaimsOf(log[i], who) : log'[i][k] = log[i][k]
  BY <1>1, CalmHeld
<1>3. i \in Live /\ row[i].assignee = who /\ ~IsDone(row[i].status) /\ row[i].claimedAt \in Nat
  BY <1>2, HeldSinceWhen
<1>4. now \in Nat /\ now' \in Nat /\ now <= now'
  BY DEF Calm, Inv, TypeOK
<1> QED
  BY <1>2, <1>3, <1>4 DEF ClaimsDated

LEMMA CalmOnce ==
  ASSUME Inv, Calm, PicksOnce
  PROVE  PicksOnce'
<1>1. now \in Nat /\ now' \in Nat /\ now <= now' /\ HeldWindow \in Nat
  BY SessionAssumption DEF Calm, Inv, TypeOK
<1>2. ASSUME NEW who \in Agent, NEW request \in RequestId, NEW i \in Replays(who, request)'
      PROVE  i \in Replays(who, request)
  <2>1. i \in LiveHeld(who)' /\ \E k \in ClaimsOf(log'[i], who) : log'[i][k].note = request
    BY <1>2 DEF Replays, ClaimEvents, ClaimsOf
  <2>2. /\ i \in LiveHeld(who) /\ ClaimsOf(log'[i], who) = ClaimsOf(log[i], who)
        /\ \A k \in ClaimsOf(log[i], who) : log'[i][k] = log[i][k]
    BY <2>1, CalmHeld
  <2>3. \E k \in ClaimsOf(log[i], who) : log[i][k].note = request
    BY <2>1, <2>2
  <2> QED
    BY <2>2, <2>3, ClaimsAreEvents DEF Replays
<1>3. RequestHeldOnce'
  <2> SUFFICES ASSUME NEW who \in Agent, NEW request \in RequestId,
                      NEW i \in Replays(who, request)', NEW j \in Replays(who, request)'
               PROVE  i = j
    BY DEF RequestHeldOnce
  <2>1. i \in Replays(who, request) /\ j \in Replays(who, request)
    BY <1>2
  <2> QED
    BY <2>1 DEF PicksOnce, RequestHeldOnce
<1>4. ASSUME NEW who \in Agent, NEW i \in LiveHeld(who)', CategoryOf(row'[i].status) = "wip",
             now' <= row'[i].claimedAt + HeldWindow
      PROVE  i \in LiveHeld(who) /\ CategoryOf(row[i].status) = "wip" /\ now <= row[i].claimedAt + HeldWindow
  <2>1. i \in LiveHeld(who) /\ row'[i].claimedAt = row[i].claimedAt /\ CategoryOf(row[i].status) = "wip"
    BY <1>4, CalmHeld
  <2>2. row[i].claimedAt \in Nat
    BY <2>1, HeldSinceWhen
  <2> QED
    BY <1>1, <1>4, <2>1, <2>2
<1>5. OneRecentStart'
  <2> SUFFICES ASSUME NEW who \in Agent,
                      NEW i \in LiveHeld(who)', CategoryOf(row'[i].status) = "wip",
                      now' <= row'[i].claimedAt + HeldWindow,
                      NEW j \in LiveHeld(who)', CategoryOf(row'[j].status) = "wip",
                      now' <= row'[j].claimedAt + HeldWindow
               PROVE  i = j
    BY DEF OneRecentStart
  <2>1. /\ i \in LiveHeld(who) /\ CategoryOf(row[i].status) = "wip" /\ now <= row[i].claimedAt + HeldWindow
        /\ j \in LiveHeld(who) /\ CategoryOf(row[j].status) = "wip" /\ now <= row[j].claimedAt + HeldWindow
    BY <1>4
  <2> QED
    BY <2>1 DEF PicksOnce, OneRecentStart
<1> QED
  BY <1>3, <1>5 DEF PicksOnce

LEMMA CalmKeeps ==
  ASSUME Inv, Calm, NEW RequestOf, PicksKept(RequestOf)
  PROVE  PicksKept(RequestOf)'
BY CalmNoted, CalmDated, CalmOnce DEF PicksKept

\* Where the check under the lock finds nothing to hand back, the identity has no claim
\* with this request id, and no work that it came to hold within the retry window.
LEMMA NothingToHandBack ==
  ASSUME Inv, ClaimsDated, NEW who \in Agent, NEW request, NEW wipOnly \in BOOLEAN,
         Nil \in HeldAnswer(who, request, wipOnly)
  PROVE  /\ request # Nil => Replays(who, request) = {}
         /\ \A i \in LiveHeld(who) :
               ~(CategoryOf(row[i].status) = "wip" /\ now <= row[i].claimedAt + HeldWindow)
<1> DEFINE replays == IF request = Nil THEN {} ELSE Replays(who, request)
           W == {i \in LiveHeld(who) : wipOnly => CategoryOf(row[i].status) = "wip"}
           first == {i \in W : \A j \in W : row[j].claimedAt <= row[i].claimedAt}
           answers == {IF Recent(i, who) THEN i ELSE Nil : i \in first}
<1>1. HeldAnswer(who, request, wipOnly)
        = IF replays # {} THEN replays ELSE IF W = {} THEN {Nil} ELSE answers
  BY DEF HeldAnswer
<1>2. \A i \in LiveHeld(who) : i # Nil
  BY HeldSinceWhen, SessionAssumption
<1>3. replays = {}
  <2>1. replays \subseteq LiveHeld(who)
    BY DEF Replays
  <2> HIDE DEF replays, W, answers
  <2> QED
    BY <1>1, <1>2, <2>1
<1>4. W = {} \/ Nil \in answers
  <2> HIDE DEF replays, W, answers
  <2> QED
    BY <1>1, <1>3
<1>5. now \in Nat /\ HeldWindow \in Nat
  BY SessionAssumption DEF Inv, TypeOK
<1>6. ASSUME NEW i \in LiveHeld(who), CategoryOf(row[i].status) = "wip",
             now <= row[i].claimedAt + HeldWindow
      PROVE  FALSE
  <2>1. i \in W
    BY <1>6
  <2>2. PICK f \in first : (IF Recent(f, who) THEN f ELSE Nil) = Nil
    BY <1>4, <2>1
  <2>3. f \in LiveHeld(who) /\ row[i].claimedAt <= row[f].claimedAt
    BY <2>1, <2>2
  <2>4. ~Recent(f, who)
    BY <1>2, <2>2, <2>3
  <2>5. row[i].claimedAt \in Nat /\ row[f].claimedAt \in Nat /\ f \in Live
        /\ row[f].assignee = who /\ ~IsDone(row[f].status)
    BY <2>3, HeldSinceWhen
  <2> HIDE DEF W, first, answers, replays
  <2> DEFINE K == ClaimsOf(log[f], who)
             claimed == IF K = {} THEN row[f].claimedAt ELSE log[f][Newest(K)].at
  <2>6. ~(claimed # Nil /\ now <= claimed + HeldWindow)
    BY <2>4, ClaimsAreEvents DEF Recent
  <2>7. claimed \in Nat /\ row[f].claimedAt <= claimed
    <3>1. CASE K = {}
      BY <2>5, <3>1
    <3>2. CASE K # {}
      <4>1. LogOK(log[f], lastId[f]) /\ IsSequence(log[f]) /\ K \subseteq DOMAIN log[f]
        BY <2>5, LiveRow DEF LogOK, ClaimsOf
      <4>2. Newest(K) \in K /\ \A j \in K : j <= Newest(K)
        <5> HIDE DEF K
        <5> QED
          BY <3>2, <4>1, NewestIs
      <4>3. log[f][Newest(K)].at \in Nat
        BY <4>1, <4>2 DEF LogOK
      <4>4. row[f].claimedAt <= log[f][Newest(K)].at
        BY <2>5, <4>2 DEF ClaimsDated
      <4> QED
        BY <3>2, <4>3, <4>4
    <3> QED
      BY <3>1, <3>2
  <2> HIDE DEF claimed
  <2>8. claimed # Nil
    BY <2>7, StoreAssumption
  <2> QED
    BY <1>5, <1>6, <2>3, <2>5, <2>6, <2>7, <2>8
<1> QED
  BY <1>3, <1>6
\* The log of a start: one more claim, the caller's, dated now.
ClaimAdded(l, m, who, request) ==
    /\ \A x \in Agent \ {who} : ClaimsOf(m, x) = ClaimsOf(l, x)
    /\ ClaimsOf(m, who) = ClaimsOf(l, who) \cup {Len(l) + 1}
    /\ \A x \in Agent : \A k \in ClaimsOf(l, x) : m[k] = l[k] /\ k \in 1..Len(l)
    /\ m[Len(l) + 1].note = request /\ m[Len(l) + 1].at = now

LEMMA StampClaim ==
  ASSUME NEW i, NEW l, IsSequence(l), NEW r, NEW who \in Agent, NEW request, NEW events,
         ClaimFirst(events, ClaimEvent(r, who, request))
  PROVE  ClaimAdded(l, l \o Stamp(i, events), who, request)
<1> DEFINE b == Stamp(i, events)
           m == l \o b
           n == Len(l)
           e == ClaimEvent(r, who, request)
<1>1. /\ Len(events) \in Nat /\ DOMAIN events = 1..Len(events) /\ Len(events) > 0 /\ events[1] = e
      /\ \A k \in DOMAIN events : events[k].kind = "claimed" => k = 1
      /\ n \in Nat /\ DOMAIN l = 1..n
  BY DEF ClaimFirst, IsSequence
<1>2. e.kind = "claimed" /\ e.new = who /\ e.note = request
  BY DEF ClaimEvent, Event
<1> HIDE DEF e
<1>3. /\ IsSequence(b) /\ Len(b) = Len(events)
      /\ \A k \in 1..Len(events) : /\ b[k].kind = events[k].kind /\ b[k].new = events[k].new
                                   /\ b[k].note = events[k].note /\ b[k].at = now
  <2>1. /\ b = [k \in 1..Len(events) |-> b[k]]
        /\ \A k \in 1..Len(events) : /\ b[k].kind = events[k].kind /\ b[k].new = events[k].new
                                     /\ b[k].note = events[k].note /\ b[k].at = now
    BY <1>1 DEF Stamp
  <2> HIDE DEF b
  <2> QED
    BY <1>1, <2>1, FunctionIsSequence
<1> HIDE DEF b
<1>4. /\ DOMAIN m = 1..(n + Len(b))
      /\ \A k \in 1..(n + Len(b)) : m[k] = IF k <= n THEN l[k] ELSE b[k - n]
  BY <1>3, ConcatIs
<1> HIDE DEF m, n
<1>5. n + 1 \in DOMAIN m /\ m[n + 1] = b[1] /\ 1 \in 1..Len(events)
  BY <1>1, <1>3, <1>4
<1>6. m[n + 1].kind = "claimed" /\ m[n + 1].new = who /\ m[n + 1].note = request /\ m[n + 1].at = now
  BY <1>1, <1>2, <1>3, <1>5
<1>7. ASSUME NEW k \in DOMAIN m, m[k].kind = "claimed" PROVE k \in DOMAIN l \/ k = n + 1
  <2> SUFFICES ASSUME ~(k <= n) PROVE k = n + 1
    BY <1>1, <1>4
  <2>1. k - n \in 1..Len(events) /\ m[k] = b[k - n]
    BY <1>1, <1>3, <1>4
  <2>2. k - n = 1
    BY <1>1, <1>3, <1>7, <2>1
  <2> QED
    BY <1>1, <1>4, <2>2
<1>8. \A k \in DOMAIN l : k \in DOMAIN m /\ m[k] = l[k] /\ k \in 1..n
  BY <1>1, <1>3, <1>4
<1>9. ASSUME NEW x \in Agent PROVE ClaimsOf(m, x) = ClaimsOf(l, x) \cup (IF x = who THEN {n + 1} ELSE {})
  BY <1>5, <1>6, <1>7, <1>8 DEF ClaimsOf
<1>10. ClaimAdded(l, m, who, request)
  <2>1. \A x \in Agent : \A k \in ClaimsOf(l, x) : m[k] = l[k] /\ k \in 1..n
    BY <1>8 DEF ClaimsOf
  <2>2. \A x \in Agent \ {who} : ClaimsOf(m, x) = ClaimsOf(l, x)
    BY <1>9
  <2>3. ClaimsOf(m, who) = ClaimsOf(l, who) \cup {n + 1}
    BY <1>9
  <2> QED
    BY <1>6, <2>1, <2>2, <2>3 DEF ClaimAdded, n
<1> QED
  BY <1>10 DEF m, b

\* What a start of issue i for an identity is, as the picks see it.
Picked(i, who, request) ==
    /\ i \in Live /\ Live' = Live /\ now' = now
    /\ \A j \in Live \ {i} : row'[j] = row[j] /\ log'[j] = log[j]
    /\ row'[i].assignee = who /\ row'[i].claimedAt \in Nat /\ row'[i].claimedAt <= now
    /\ ClaimAdded(log[i], log'[i], who, request)

LEMMA StartPicks ==
  ASSUME CallInv, ClaimsDated, NEW c \in Session, Start(c)
  PROVE  Picked(NextCandidate(c).issue, call[c].who, call[c].request)
<1> DEFINE k == NextCandidate(c)
           i == k.issue
           who == call[c].who
           request == call[c].request
           w == Started(i, who, request, k.path)
<1>1. Inv /\ CallsOK /\ Starts(c) /\ Live' = Live
  BY StartKeepsStore DEF CallInv, StoreKept
<1>2. /\ i \in Live /\ GoodStart(row[i], who, request, k.path, w) /\ Write(i, w.row, w.events)
      /\ who \in Agent
  BY <1>1, BusyCall DEF Starts, Start
<1> HIDE DEF k, who, request, w
<1>3. /\ w.row.assignee = who
      /\ w.row.claimedAt = IF row[i].claimedAt = Nil THEN now ELSE row[i].claimedAt
      /\ ClaimFirst(w.events, ClaimEvent(row[i], who, request))
      /\ row[i].assignee \in {NoOne, who} /\ ~IsDone(row[i].status)
  BY <1>2 DEF GoodStart, SoFar
<1>4. now \in Nat /\ RowOK(row[i]) /\ IsSequence(log[i]) /\ DOMAIN log = Live
  BY <1>1, <1>2, LiveRow DEF LogOK, Inv, TypeOK
<1>5. w.row.claimedAt \in Nat /\ w.row.claimedAt <= now
  <2>1. row[i].claimedAt \in Nat \cup {Nil} /\ (row[i].claimedAt # Nil => row[i].assignee # NoOne)
    BY <1>4 DEF RowOK, Row, Time, ClaimColumnsOK
  <2>2. CASE row[i].claimedAt = Nil
    BY <1>3, <1>4, <2>2
  <2>3. CASE row[i].claimedAt # Nil
    <3>1. row[i].assignee = who
      BY <1>3, <2>1, <2>3
    <3>2. row[i].claimedAt <= now
      BY <1>2, <1>3, <3>1 DEF ClaimsDated
    <3> QED
      BY <1>3, <2>1, <2>3, <3>2
  <2> QED
    BY <2>2, <2>3
<1>6. /\ now' = now /\ row'[i] = w.row /\ log'[i] = log[i] \o Stamp(i, w.events)
      /\ \A j \in Live \ {i} : row'[j] = row[j] /\ log'[j] = log[j]
  BY <1>2, <1>4 DEF Write, Live
<1>7. ClaimAdded(log[i], log'[i], who, request)
  BY <1>2, <1>3, <1>4, <1>6, StampClaim
<1> HIDE DEF i
<1> QED
  BY <1>1, <1>2, <1>3, <1>5, <1>6, <1>7 DEF Picked, i, k, who, request

\* Who held what before a start.
LEMMA PickedHeld ==
  ASSUME Inv, NEW i, NEW who \in Agent, NEW request, Picked(i, who, request),
         NEW x \in Agent, NEW j \in LiveHeld(x)'
  PROVE  /\ j = i => x = who
         /\ j # i => j \in LiveHeld(x) /\ j \in Live /\ row'[j] = row[j] /\ log'[j] = log[j]
<1>1. j \in Live' /\ row'[j].assignee = x /\ ~IsDone(row'[j].status)
  BY DEF LiveHeld
<1>2. j = i => x = who
  BY <1>1 DEF Picked
<1>3. j # i => j \in Live /\ row'[j] = row[j] /\ log'[j] = log[j]
  BY <1>1 DEF Picked
<1>4. j # i => j \in LiveHeld(x)
  BY <1>1, <1>3 DEF LiveHeld
<1> QED
  BY <1>2, <1>3, <1>4

LEMMA PickedNoted ==
  ASSUME NEW RequestOf, ClaimsNoted(RequestOf), NEW i, NEW who \in Agent,
         Picked(i, who, RequestOf[who])
  PROVE  ClaimsNoted(RequestOf)'
<1> SUFFICES ASSUME NEW j \in Live', NEW x \in Agent, NEW k \in ClaimsOf(log'[j], x)
             PROVE  log'[j][k].note = RequestOf[x]
  BY DEF ClaimsNoted
<1>1. j \in Live /\ i \in Live
  BY DEF Picked
<1>2. CASE j # i
  BY <1>1, <1>2 DEF Picked, ClaimsNoted
<1>3. CASE j = i /\ k \in ClaimsOf(log[i], x)
  BY <1>1, <1>3 DEF Picked, ClaimAdded, ClaimsNoted
<1>4. CASE j = i /\ k \notin ClaimsOf(log[i], x)
  <2>1. x = who /\ k = Len(log[i]) + 1
    BY <1>4 DEF Picked, ClaimAdded
  <2> QED
    BY <1>4, <2>1 DEF Picked, ClaimAdded
<1> QED
  BY <1>2, <1>3, <1>4

LEMMA PickedDated ==
  ASSUME Inv, ClaimsDated, NEW i, NEW who \in Agent, NEW request, Picked(i, who, request)
  PROVE  ClaimsDated'
<1> SUFFICES ASSUME NEW j \in Live', NEW x \in Agent, row'[j].assignee = x, ~IsDone(row'[j].status)
             PROVE  /\ row'[j].claimedAt <= now'
                    /\ \A k \in ClaimsOf(log'[j], x) :
                          (\A h \in ClaimsOf(log'[j], x) : h <= k) => row'[j].claimedAt <= log'[j][k].at
  BY DEF ClaimsDated
<1>1. j \in Live /\ i \in Live /\ now' = now
  BY DEF Picked
<1>2. CASE j # i
  <2>1. row'[j] = row[j] /\ log'[j] = log[j]
    BY <1>1, <1>2 DEF Picked
  <2> QED
    BY <1>1, <2>1 DEF ClaimsDated
<1>3. CASE j = i
  <2> DEFINE l == log[i]
             m == log'[i]
             n == Len(l)
  <2>1. x = who /\ row'[i].claimedAt \in Nat /\ row'[i].claimedAt <= now /\ ClaimAdded(l, m, who, request)
    BY <1>3 DEF Picked
  <2>2. n \in Nat
    BY <1>1, LiveRow DEF LogOK, IsSequence
  <2> HIDE DEF l, m
  <2>3. /\ ClaimsOf(m, who) = ClaimsOf(l, who) \cup {n + 1} /\ m[n + 1].at = now
        /\ \A k \in ClaimsOf(l, who) : k \in 1..n
    BY <2>1 DEF ClaimAdded
  <2> HIDE DEF n
  <2>4. ASSUME NEW k \in ClaimsOf(m, who), \A h \in ClaimsOf(m, who) : h <= k PROVE k = n + 1
    <3>1. n + 1 <= k
      BY <2>3, <2>4
    <3> QED
      BY <2>2, <2>3, <3>1
  <2> QED
    BY <1>1, <1>3, <2>1, <2>3, <2>4 DEF m
<1> QED
  BY <1>2, <1>3

LEMMA PickedOnce ==
  ASSUME Inv, NEW RequestOf \in [Agent -> RequestId \cup {Nil}], ClaimsNoted(RequestOf), PicksOnce,
         NEW i, NEW who \in Agent, Picked(i, who, RequestOf[who]),
         RequestOf[who] # Nil => Replays(who, RequestOf[who]) = {},
         \A j \in LiveHeld(who) : ~(CategoryOf(row[j].status) = "wip" /\ now <= row[j].claimedAt + HeldWindow)
  PROVE  PicksOnce'
<1>0. ClaimsNoted(RequestOf)' /\ now' = now
  BY PickedNoted DEF Picked
<1>1. ASSUME NEW x \in Agent, NEW request \in RequestId, NEW j \in Replays(x, request)'
      PROVE  /\ x = who => j = i
             /\ x # who => j \in Replays(x, request)
  <2>1. j \in LiveHeld(x)' /\ j \in Live' /\ \E k \in ClaimsOf(log'[j], x) : log'[j][k].note = request
    BY <1>1 DEF Replays, LiveHeld, ClaimEvents, ClaimsOf
  <2>2. RequestOf[x] = request
    BY <1>0, <2>1 DEF ClaimsNoted
  <2>3. /\ j = i => x = who
        /\ j # i => j \in LiveHeld(x) /\ j \in Live /\ row'[j] = row[j] /\ log'[j] = log[j]
    BY <2>1, PickedHeld
  <2>4. j # i => j \in Replays(x, request)
    BY <2>1, <2>3, ClaimsAreEvents DEF Replays
  <2>5. request # Nil
    BY SessionAssumption
  <2> QED
    BY <2>2, <2>3, <2>4, <2>5
<1>2. RequestHeldOnce'
  <2> SUFFICES ASSUME NEW x \in Agent, NEW request \in RequestId,
                      NEW a \in Replays(x, request)', NEW b \in Replays(x, request)'
               PROVE  a = b
    BY DEF RequestHeldOnce
  <2>1. CASE x = who
    BY <1>1, <2>1
  <2>2. CASE x # who
    <3>1. a \in Replays(x, request) /\ b \in Replays(x, request)
      BY <1>1, <2>2
    <3> QED
      BY <3>1 DEF PicksOnce, RequestHeldOnce
  <2> QED
    BY <2>1, <2>2
<1>3. OneRecentStart'
  <2> SUFFICES ASSUME NEW x \in Agent,
                      NEW a \in LiveHeld(x)', CategoryOf(row'[a].status) = "wip",
                      now' <= row'[a].claimedAt + HeldWindow,
                      NEW b \in LiveHeld(x)', CategoryOf(row'[b].status) = "wip",
                      now' <= row'[b].claimedAt + HeldWindow
               PROVE  a = b
    BY DEF OneRecentStart
  <2>1. /\ a = i => x = who
        /\ a # i => /\ a \in LiveHeld(x) /\ CategoryOf(row[a].status) = "wip"
                    /\ now <= row[a].claimedAt + HeldWindow
    BY <1>0, PickedHeld
  <2>2. /\ b = i => x = who
        /\ b # i => /\ b \in LiveHeld(x) /\ CategoryOf(row[b].status) = "wip"
                    /\ now <= row[b].claimedAt + HeldWindow
    BY <1>0, PickedHeld
  <2>3. CASE x = who
    BY <2>1, <2>2, <2>3
  <2>4. CASE x # who
    BY <2>1, <2>2, <2>4 DEF PicksOnce, OneRecentStart
  <2> QED
    BY <2>3, <2>4
<1> QED
  BY <1>2, <1>3 DEF PicksOnce

LEMMA StartKeepsPicks ==
  ASSUME CallInv, NEW RequestOf \in [Agent -> RequestId \cup {Nil}], CallsPick(RequestOf),
         PicksKept(RequestOf), NEW c \in Session, Start(c)
  PROVE  PicksKept(RequestOf)'
<1> DEFINE i == NextCandidate(c).issue
           who == call[c].who
<1>1. /\ Inv /\ CallsOK /\ ClaimsNoted(RequestOf) /\ ClaimsDated /\ PicksOnce
      /\ Busy(c) /\ Nil \in Recheck(c)
  BY DEF CallInv, StoreKept, PicksKept, Start
<1>2. who \in Agent /\ call[c].request = RequestOf[who] /\ call[c].op \in PickOps
  BY <1>1, BusyCall DEF CallsPick
<1>3. Picked(i, who, RequestOf[who])
  BY <1>1, <1>2, StartPicks
<1>4. Nil \in HeldAnswer(who, RequestOf[who], call[c].op = "start_next")
  BY <1>1, <1>2 DEF Recheck, PickOps
<1> HIDE DEF i, who
<1>5. /\ RequestOf[who] # Nil => Replays(who, RequestOf[who]) = {}
      /\ \A j \in LiveHeld(who) :
            ~(CategoryOf(row[j].status) = "wip" /\ now <= row[j].claimedAt + HeldWindow)
  BY <1>1, <1>2, <1>4, NothingToHandBack
<1>6. PicksOnce'
  BY <1>1, <1>2, <1>3, <1>5, PickedOnce
<1>7. ClaimsNoted(RequestOf)' /\ ClaimsDated'
  BY <1>1, <1>2, <1>3, PickedNoted, PickedDated
<1> QED
  BY <1>6, <1>7 DEF PicksKept
-----------------------------------------------------------------------------
(* The picks in flight, and the theorem                                          *)

\* A call that changes to one of the same identity and request, or ends, is still a pick.
LEMMA ChangedPicks ==
  ASSUME NEW RequestOf, CallsPick(RequestOf), NEW c \in Session, NEW r,
         \A d \in Session : call'[d] = IF d = c THEN r ELSE call[d],
         \/ r.op = "idle"
         \/ r.op \in PickOps /\ r.request = RequestOf[r.who]
  PROVE  CallsPick(RequestOf)'
BY DEF CallsPick, Busy

LEMMA OpenedPicks ==
  ASSUME CallsOK, NEW RequestOf, CallsPick(RequestOf), NEW c \in Session, NEW op \in PickOps,
         NEW who, NEW leads, Opened(c, op, who, RequestOf[who], leads)
  PROVE  CallsPick(RequestOf)' /\ UNCHANGED vars
<1>1. PICK q : Opens(c, op, who, RequestOf[who], q)
  BY DEF Opened
<1> DEFINE r == [op |-> op, who |-> who, request |-> RequestOf[who], queue |-> q]
<1>2. call' = [call EXCEPT ![c] = r] /\ r.op = op /\ r.who = who /\ r.request = RequestOf[who]
  BY <1>1 DEF Opens
<1> HIDE DEF r
<1>3. \A d \in Session : call'[d] = IF d = c THEN r ELSE call[d]
  BY <1>2 DEF CallsOK
<1>4. CallsPick(RequestOf)'
  BY <1>2, <1>3, ChangedPicks
<1> QED
  BY <1>1, <1>4 DEF Opens

LEMMA EndedPicks ==
  ASSUME CallsOK, NEW RequestOf, CallsPick(RequestOf), NEW c \in Session,
         call' = [call EXCEPT ![c] = Idle]
  PROVE  CallsPick(RequestOf)'
<1>1. \A d \in Session : call'[d] = IF d = c THEN Idle ELSE call[d]
  BY DEF CallsOK
<1>2. Idle.op = "idle"
  BY DEF Idle
<1> QED
  BY <1>1, <1>2, ChangedPicks

LEMMA SkippedPicks ==
  ASSUME CallsOK, NEW RequestOf, CallsPick(RequestOf), NEW c \in Session, Busy(c),
         call' = [call EXCEPT ![c] = AfterSkip(c)]
  PROVE  CallsPick(RequestOf)'
<1>1. \A d \in Session : call'[d] = IF d = c THEN AfterSkip(c) ELSE call[d]
  BY DEF CallsOK
<1>2. CASE Len(call[c].queue) = 1
  BY <1>2, EndedPicks DEF AfterSkip
<1>3. CASE Len(call[c].queue) # 1
  <2>1. call[c] \in CallRecord
    BY BusyCall
  <2>2. /\ AfterSkip(c).op = call[c].op /\ AfterSkip(c).who = call[c].who
        /\ AfterSkip(c).request = call[c].request
    BY <1>3, <2>1 DEF AfterSkip, CallRecord
  <2>3. call[c].op \in PickOps /\ call[c].request = RequestOf[call[c].who]
    BY DEF CallsPick
  <2> QED
    BY <1>1, <2>2, <2>3, ChangedPicks
<1> QED
  BY <1>2, <1>3

LEMMA PickBeginOpens ==
  ASSUME CallInv, NEW RequestOf \in [Agent -> RequestId \cup {Nil}], NEW c \in Session,
         PickBegin(RequestOf, c)
  PROVE  /\ \E op \in PickOps, who \in Agent, leads \in BOOLEAN :
               Opened(c, op, who, RequestOf[who], leads)
         /\ Begin(c)
<1>1. Inv /\ LiveFinite
  BY DEF CallInv, StoreKept
<1>2. PICK who \in Agent :
        \/ \E target \in StateSet \cup {Nil}, advance \in BOOLEAN :
              BeginStartNext(c, who, RequestOf[who], target, advance)
        \/ BeginClaimNext(c, who, RequestOf[who])
  BY DEF PickBegin
<1>3. RequestOf[who] \in RequestId \cup {Nil}
  OBVIOUS
<1>4. ASSUME NEW target \in StateSet \cup {Nil}, NEW advance \in BOOLEAN,
             BeginStartNext(c, who, RequestOf[who], target, advance)
      PROVE  Opened(c, "start_next", who, RequestOf[who], FALSE) /\ Begin(c)
  <2>1. Opened(c, "start_next", who, RequestOf[who], target = Nil \/ Category[target] = "wip")
    BY <1>1, <1>3, <1>4, StartNextOpens
  <2>2. Opened(c, "start_next", who, RequestOf[who], FALSE)
    BY <2>1 DEF Opened
  <2>3. Begin(c)
    BY <1>3, <1>4 DEF Begin
  <2> QED
    BY <2>2, <2>3
<1>5. ASSUME BeginClaimNext(c, who, RequestOf[who])
      PROVE  Opened(c, "claim_next", who, RequestOf[who], FALSE) /\ Begin(c)
  <2>1. Opened(c, "claim_next", who, RequestOf[who], FALSE)
    BY <1>1, <1>3, <1>5, ClaimNextOpens
  <2>2. Begin(c)
    BY <1>3, <1>5 DEF Begin
  <2> QED
    BY <2>1, <2>2
<1> QED
  BY <1>2, <1>4, <1>5 DEF PickOps

LEMMA PicksStepKeeps ==
  ASSUME CallInv, NEW RequestOf \in [Agent -> RequestId \cup {Nil}], CallsPick(RequestOf),
         PicksKept(RequestOf), [PicksNext(RequestOf)]_callVars
  PROVE  CallsPick(RequestOf)' /\ PicksKept(RequestOf)' /\ [CallNext]_callVars
<1>1. Inv /\ CallsOK
  BY DEF CallInv, StoreKept
<1>2. ASSUME UNCHANGED vars PROVE PicksKept(RequestOf)'
  BY <1>1, <1>2, CalmTick, CalmKeeps
<1>3. ASSUME PickStore, UNCHANGED call
      PROVE  CallsPick(RequestOf)' /\ PicksKept(RequestOf)' /\ [CallNext]_callVars
  <2>1. PicksKept(RequestOf)'
    BY <1>1, <1>3, PickStoreIsCalm, CalmKeeps
  <2>2. CallsPick(RequestOf)'
    BY <1>3 DEF CallsPick, Busy
  <2>3. CallNext
    BY <1>3, PickStoreIsNext DEF CallNext, StoreStep
  <2> QED
    BY <2>1, <2>2, <2>3
<1>4. ASSUME NEW c \in Session, PickBegin(RequestOf, c)
      PROVE  CallsPick(RequestOf)' /\ PicksKept(RequestOf)' /\ [CallNext]_callVars
  <2>1. Begin(c)
    BY <1>4, PickBeginOpens
  <2>2. PICK op \in PickOps, who \in Agent, leads \in BOOLEAN :
               Opened(c, op, who, RequestOf[who], leads)
    BY <1>4, PickBeginOpens
  <2>3. CallsPick(RequestOf)' /\ UNCHANGED vars
    BY <1>1, <2>2, OpenedPicks
  <2>4. CallNext
    BY <2>1 DEF CallNext
  <2> QED
    BY <1>2, <2>3, <2>4
<1>5. ASSUME NEW c \in Session, Attempt(c)
      PROVE  CallsPick(RequestOf)' /\ PicksKept(RequestOf)' /\ [CallNext]_callVars
  <2>1. ASSUME Start(c) PROVE CallsPick(RequestOf)' /\ PicksKept(RequestOf)'
    <3>1. PicksKept(RequestOf)'
      BY <2>1, StartKeepsPicks
    <3>2. CallsPick(RequestOf)'
      BY <1>1, <2>1, EndedPicks DEF Start
    <3> QED
      BY <3>1, <3>2
  <2>2. ASSUME HandBack(c) PROVE CallsPick(RequestOf)' /\ PicksKept(RequestOf)'
    <3>1. CallsPick(RequestOf)'
      BY <1>1, <2>2, EndedPicks DEF HandBack
    <3>2. UNCHANGED vars
      BY <2>2 DEF HandBack
    <3> QED
      BY <1>2, <3>1, <3>2
  <2>3. ASSUME Skip(c) PROVE CallsPick(RequestOf)' /\ PicksKept(RequestOf)'
    <3>1. CallsPick(RequestOf)'
      BY <1>1, <2>3, SkippedPicks DEF Skip
    <3>2. UNCHANGED vars
      BY <2>3 DEF Skip
    <3> QED
      BY <1>2, <3>1, <3>2
  <2>4. CallsPick(RequestOf)' /\ PicksKept(RequestOf)'
    BY <1>5, <2>1, <2>2, <2>3 DEF Attempt
  <2>5. CallNext
    BY <1>5 DEF CallNext
  <2> QED
    BY <2>4, <2>5
<1>6. ASSUME UNCHANGED callVars
      PROVE  CallsPick(RequestOf)' /\ PicksKept(RequestOf)' /\ [CallNext]_callVars
  <2>1. UNCHANGED vars /\ UNCHANGED call
    BY <1>6 DEF callVars, vars
  <2>2. CallsPick(RequestOf)'
    BY <2>1 DEF CallsPick, Busy
  <2> QED
    BY <1>2, <1>6, <2>1, <2>2
<1> QED
  BY <1>3, <1>4, <1>5, <1>6 DEF PicksNext

LEMMA PicksInit ==
  ASSUME CallInit, NEW RequestOf
  PROVE  CallsPick(RequestOf) /\ PicksKept(RequestOf)
<1>1. Live = {}
  BY DEF CallInit, Init, Live
<1>2. CallsPick(RequestOf)
  BY DEF CallInit, CallsPick, Busy, Idle
<1>3. PicksOnce
  BY <1>1 DEF PicksOnce, RequestHeldOnce, OneRecentStart, Replays, LiveHeld
<1> QED
  BY <1>1, <1>2, <1>3 DEF PicksKept, ClaimsNoted, ClaimsDated

\* Together, the picks of an identity get it one piece of work: however many calls it has
\* in flight at once, however often each is repeated and whatever is written between a
\* call's look at the store and its claim, no two issues it holds were claimed for one
\* request, and no two are under way that it came to hold within the retry window.  The
\* held-claim check of _find_held_claim made again under the writer lock is what decides.
THEOREM PicksAreOnce ==
  ASSUME NEW RequestOf \in [Agent -> RequestId \cup {Nil}]
  PROVE  PicksSpec(RequestOf) => []PicksOnce
<1> DEFINE PicksInv == CallInv /\ CallsPick(RequestOf) /\ PicksKept(RequestOf)
<1>1. CallInit => PicksInv
  BY CallInitOK, PicksInit
<1>2. PicksInv /\ [PicksNext(RequestOf)]_callVars => PicksInv'
  <2>1. SUFFICES ASSUME PicksInv, [PicksNext(RequestOf)]_callVars PROVE PicksInv'
    OBVIOUS
  <2>2. CallsPick(RequestOf)' /\ PicksKept(RequestOf)' /\ [CallNext]_callVars
    BY <2>1, PicksStepKeeps
  <2>3. CallInv'
    BY <2>1, <2>2, CallStepKeeps
  <2> QED
    BY <2>2, <2>3
<1>3. PicksInv => PicksOnce
  BY DEF PicksKept
<1> HIDE DEF PicksInv
<1> QED
  BY <1>1, <1>2, <1>3, PTL DEF PicksSpec
=============================================================================
