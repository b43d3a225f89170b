-------------------------- MODULE TemplateAuthoring --------------------------
(* Custom workflow templates, built one forward edge at a time as an author    *)
(* may write them: any category for any status, no edge declared twice         *)
(* (validate_type_template).  On every template the two resolvers of start_work *)
(* are compared with a reference that says what a walk to work should be.       *)
EXTENDS SoftPath, FiniteSets

CONSTANTS Node,      \* statuses
          RolesFor,  \* [status -> set of categories an author may give it]
          EdgeSpace, \* pairs <<from, to>> an author may connect
          MaxEdges   \* bound: forward edges of a template

ASSUME AuthoringAssumption == EdgeSpace \subseteq Node \X Node /\ MaxEdges \in Nat

VARIABLES cat, edges
authoringVars == <<cat, edges>>

AuthoringInit ==
    /\ cat \in {c \in [Node -> {"open", "wip", "done"}] :
                   \A s \in Node : c[s] \in RolesFor[s]}
    /\ edges = <<>>

Declare(from, to, hard) ==
    /\ Len(edges) < MaxEdges
    /\ \A k \in DOMAIN edges : edges[k].from # from \/ edges[k].to # to
    /\ edges' = Append(edges, [from |-> from, to |-> to, hard |-> hard])
    /\ UNCHANGED cat

AuthoringNext == \E e \in EdgeSpace, hard \in BOOLEAN : Declare(e[1], e[2], hard)
AuthoringSpec == AuthoringInit /\ [][AuthoringNext]_authoringVars

-----------------------------------------------------------------------------
(* Reference: statuses reachable in exactly n soft edges from s without passing *)
(* through work.                                                                *)
SoftEdge(s, t) ==
    \E k \in DOMAIN edges : edges[k].from = s /\ edges[k].to = t /\ ~edges[k].hard

Layers(s) ==
    LET layer[n \in 0..MaxEdges] ==
            IF n = 0 THEN {s}
            ELSE {t \in Node : \E u \in layer[n - 1] :
                                  cat[u] # "wip" /\ SoftEdge(u, t)}
    IN  layer

(* Statuses the breadth-first walk is for: not in work, no wip one edge away.   *)
Searching(s) == cat[s] # "wip" /\ DirectTargets(cat, edges, s) = {}
WalkOf(s) == SoftPathToWorking(cat, edges, s)

(* advance walks declared soft edges only, stops at the first status that is in *)
(* work, and never repeats a status: an edge the author made hard is never       *)
(* walked through automatically.                                                 *)
WalkIsSoft ==
    \A s \in Node : Searching(s) /\ WalkOf(s).ok =>
        LET hops == <<s>> \o WalkOf(s).path IN
        /\ \A k \in 1..Len(WalkOf(s).path) : SoftEdge(hops[k], hops[k + 1])
        /\ \A k \in DOMAIN hops : cat[hops[k]] = "wip" <=> k = Len(hops)
        /\ \A j, k \in DOMAIN hops : hops[j] = hops[k] => j = k

(* advance reaches work whenever soft edges can, and by the fewest of them.      *)
WalkIsShortest ==
    \A s \in Node : Searching(s) =>
        LET W == {n \in 0..MaxEdges : \E t \in Layers(s)[n] : cat[t] = "wip"}
        IN  /\ WalkOf(s).ok <=> W # {}
            /\ W # {} => /\ Len(WalkOf(s).path) \in W
                         /\ \A n \in W : Len(WalkOf(s).path) <= n

(* "advance is always a superset of the default resolver -- never more           *)
(* restrictive -- and agrees with it on ambiguity": where one edge decides, both  *)
(* resolvers answer the same, and an ambiguous status is refused by both.        *)
AdvanceIsSuperset ==
    \A s \in Node : cat[s] # "wip" =>
        /\ ReachableWorking(cat, edges, s).ok
              => WalkOf(s) = ReachableWorking(cat, edges, s)
        /\ Cardinality(DirectTargets(cat, edges, s)) > 1 => ~WalkOf(s).ok

(* Together: the walk to work is a soft and shortest one, and no stricter than   *)
(* the one-edge resolver.                                                        *)
WalkIsRight == WalkIsSoft /\ WalkIsShortest /\ AdvanceIsSuperset
=============================================================================
