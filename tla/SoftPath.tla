------------------------------ MODULE SoftPath ------------------------------
(* How start_work picks the hops to a working status (src/filigree/            *)
(* templates.py, TypeTemplate): the default resolver looks one edge ahead, the  *)
(* advance resolver walks soft edges breadth first to the nearest wip state.    *)
(* A workflow is a category function and its forward edges, a sequence of       *)
(* [from, to, hard] records in declaration order; a walk is a sequence of hops. *)
(* A result is [ok, path]: ok is FALSE where the resolver raises.               *)
EXTENDS Naturals, Sequences, SequencesExt

Walk(path) == [ok |-> TRUE, path |-> path]
NoWalk == [ok |-> FALSE, path |-> <<>>]

(* The wip states one edge away, of any enforcement.                            *)
DirectTargets(cat, edges, s) ==
    {t \in {edges[k].to : k \in {j \in DOMAIN edges : edges[j].from = s}} :
        cat[t] = "wip"}

(* reachable_working_status: a wip status is its own target, otherwise the      *)
(* unique direct target; none and several both raise.                          *)
ReachableWorking(cat, edges, s) ==
    LET T == DirectTargets(cat, edges, s)
    IN  IF cat[s] = "wip" THEN Walk(<<s>>)
        ELSE IF \E t \in T : T = {t} THEN Walk(<<CHOOSE t \in T : T = {t}>>)
        ELSE NoWalk

(* One turn of the breadth-first loop: the head of the queue is expanded over   *)
(* the soft edges in declaration order, up to the first that reaches wip.  Each *)
(* queue entry is the walk to its node (the predecessor chain, unrolled).       *)
EndOf(start, walk) == IF walk = <<>> THEN start ELSE Last(walk)

(* Mistake: the loop looks at edges of any enforcement.                         *)
VisitAnyEdge(cat, walk, b, edge) ==
    IF b.found # <<>> \/ edge.to \in b.visited THEN b
    ELSE IF cat[edge.to] = "wip"
         THEN [b EXCEPT !.visited = @ \cup {edge.to}, !.found = Append(walk, edge.to)]
         ELSE [b EXCEPT !.visited = @ \cup {edge.to},
                        !.queue = Append(@, Append(walk, edge.to))]

(* Mistake: a done status is not walked through.                                *)
VisitNotDone(cat, walk, b, edge) ==
    IF b.found # <<>> \/ edge.hard \/ edge.to \in b.visited \/ cat[edge.to] = "done"
    THEN b
    ELSE IF cat[edge.to] = "wip"
         THEN [b EXCEPT !.visited = @ \cup {edge.to}, !.found = Append(walk, edge.to)]
         ELSE [b EXCEPT !.visited = @ \cup {edge.to},
                        !.queue = Append(@, Append(walk, edge.to))]

Visit(cat, walk, b, edge) ==
    IF b.found # <<>> \/ edge.hard \/ edge.to \in b.visited THEN b
    ELSE IF cat[edge.to] = "wip"
         THEN [b EXCEPT !.visited = @ \cup {edge.to}, !.found = Append(walk, edge.to)]
         ELSE [b EXCEPT !.visited = @ \cup {edge.to},
                        !.queue = Append(@, Append(walk, edge.to))]

Expand(cat, edges, start, b) ==
    LET walk == Head(b.queue)
        Step(c, edge) == IF edge.from = EndOf(start, walk) THEN Visit(cat, walk, c, edge)
                         ELSE c
        scan[k \in 0..Len(edges)] ==
            IF k = 0 THEN [b EXCEPT !.queue = Tail(@)] ELSE Step(scan[k - 1], edges[k])
    IN  scan[Len(edges)]

SoftSearch(cat, edges, s) ==
    LET Turn(b) == IF b.found # <<>> \/ b.queue = <<>> THEN b
                   ELSE Expand(cat, edges, s, b)
        bfs[n \in 0..(Len(edges) + 1)] ==
            IF n = 0 THEN [visited |-> {s}, queue |-> <<(<<>>)>>, found |-> <<>>]
            ELSE Turn(bfs[n - 1])
    IN  bfs[Len(edges) + 1].found

(* Mistake: the search runs from every status, direct target or not.            *)
SoftPathFromAnywhere(cat, edges, s) ==
    LET path == SoftSearch(cat, edges, s)
    IN  IF cat[s] = "wip" THEN Walk(<<>>)
        ELSE IF path = <<>> THEN NoWalk ELSE Walk(path)

(* soft_path_to_working_status: nothing to walk from wip; a unique direct       *)
(* target whatever its enforcement; several raise; none starts the search.      *)
SoftPathToWorking(cat, edges, s) ==
    LET T == DirectTargets(cat, edges, s)
        path == SoftSearch(cat, edges, s)
    IN  IF cat[s] = "wip" THEN Walk(<<>>)
        ELSE IF \E t \in T : T = {t} THEN Walk(<<CHOOSE t \in T : T = {t}>>)
        ELSE IF T # {} \/ path = <<>> THEN NoWalk
        ELSE Walk(path)
=============================================================================
