---------------------------- MODULE MCStartWork ----------------------------
(* StartWork with the built-in bug workflow, whose way to work has two hops, in  *)
(* two scenes explored side by side (SceneSpec):                                 *)
(*   pick   overlapping start_next_work and claim_next calls, some of them        *)
(*          retries of one request, next to releases, closures and the clock;    *)
(*   named  start_work on one named issue without advance, next to writes that   *)
(*          move the issue between its look and its lock.                        *)
(* SnatchNext is a third, which MCLiveness runs with every session scheduled.     *)
EXTENDS StartWork, BuiltinTemplates

CONSTANTS PickEvents, NamedEvents    \* bounds: log lengths per scene

VARIABLE scene
sceneVars == <<callVars, scene>>

Logged(limit) == \A i \in Issue : lastId'[i] <= limit

NoChange == StatusRequest(Nil)
BugMoves == {StatusRequest("confirmed")}
NoMoves == {NoChange}
DescribedBugs ==
    {[assignee |-> NoOne, fields |-> {"severity", "root_cause"}, priority |-> 0]}
TriagedBugs == {[assignee |-> NoOne, fields |-> {}, priority |-> 0]}

AllBugs == DescribedBugs \cup TriagedBugs

(* alice's calls carry a request id, bob's carry none.                           *)
RequestOf(who) == IF who = "alice" THEN "r1" ELSE Nil

CreateOne(Q) == \E i \in Issue, q \in Q : Create(i, NoOne, q) /\ UNCHANGED call

Others ==
    \/ \E i \in Issue, actor \in Agent : Release(i, actor, Nil, FALSE, TRUE)
    \/ \E i \in Issue, actor \in Agent :
          Close(i, actor, Nil, "wont_fix", FALSE, TRUE, FALSE)
    \/ Tick

PickNext ==
    \/ CreateOne(TriagedBugs)
    \/ Others /\ UNCHANGED call
    \/ \E c \in Session, who \in Agent :
          BeginStartNext(c, who, RequestOf(who), Nil, TRUE)
    \/ \E c \in Session : BeginClaimNext(c, "alice", RequestOf("alice"))
    \/ \E c \in Session : Attempt(c)

Interference ==
    \/ \E i \in Issue, a \in Agent : Claim(i, a, a, FALSE, Nil)
    \/ \E i \in Issue, actor \in Agent, revert \in BOOLEAN :
          Release(i, actor, Nil, FALSE, revert)
    \/ \E i \in Issue, actor \in Agent, q \in UpdateRequest : Update(i, actor, Nil, q)
    \/ \E i \in Issue, actor \in Agent, s \in {"wont_fix"} :
          Close(i, actor, Nil, s, FALSE, TRUE, FALSE)
    \/ \E i \in Issue, actor \in Agent, id \in 1..MaxEvents : Undo(i, actor, id, FALSE)

StartNext ==
    \/ CreateOne(DescribedBugs)
    \/ Interference /\ UNCHANGED call
    \/ \E c \in Session, i \in Issue, who \in Agent :
          BeginStart(c, i, who, Nil, FALSE)
    \/ \E c \in Session, who \in Agent, target \in {Nil, "fixing"} :
          BeginStartNext(c, who, Nil, target, TRUE)
    \/ \E c \in Session : Attempt(c)

SceneInit == CallInit /\ scene \in {"pick", "named"}
SceneNext ==
    /\ UNCHANGED scene
    /\ \/ scene = "pick" /\ PickNext /\ Logged(PickEvents)
       \/ /\ scene = "named" /\ StartNext /\ Logged(NamedEvents)
          /\ Live' \subseteq {CHOOSE i \in Issue : TRUE} /\ UNCHANGED now
SceneSpec == SceneInit /\ [][SceneNext]_sceneVars

(* Snatchers: others claim candidates, up to SnatchLimit events per issue.        *)
SnatchLimit == 2
SnatchNext ==
    \/ CreateOne(TriagedBugs)
    \/ \E i \in Issue, a \in Agent :
          lastId[i] < SnatchLimit /\ Claim(i, a, a, FALSE, Nil) /\ UNCHANGED call
    \/ \E i \in Issue, actor \in Agent :
          lastId[i] < SnatchLimit /\ Release(i, actor, Nil, FALSE, TRUE) /\ UNCHANGED call
    \/ \E c \in Session, who \in Agent : BeginStartNext(c, who, Nil, Nil, TRUE)
    \/ \E c \in Session, who \in Agent : BeginClaimNext(c, who, Nil)
    \/ \E c \in Session : Attempt(c)
=============================================================================
