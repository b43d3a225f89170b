------------------------------- MODULE MCStore -------------------------------
(* IssueStore with the built-in task workflow, one issue and two agents, in      *)
(* three scenes, chosen at the start and explored side by side:                  *)
(*   history  status, field and scalar changes, undo, archive, compaction, deep; *)
(*   claims   the writes that move a claim, deep, with each agent acting for      *)
(*            itself wherever the acting identity only lands in the log;          *)
(*   all      every write with every input, on short logs.                        *)
EXTENDS IssueStore, BuiltinTemplates, TLC

CONSTANTS HistoryEvents, ClaimEvents, AllEvents    \* bounds: log lengths

VARIABLE scene
sceneVars == <<vars, scene>>

NoChange == StatusRequest(Nil)
Blank == [assignee |-> NoOne, fields |-> {}, priority |-> 0]

TaskUpdates ==
    {StatusRequest(s) : s \in {"in_progress", "closed"}}
    \cup {[NoChange EXCEPT !.priority = p] : p \in Priority}
    \cup {[NoChange EXCEPT !.fields = F] : F \in {{}, {"context"}}}
    \cup {[StatusRequest("closed") EXCEPT !.fields = {"close_reason", "context"}]}
ClaimUpdates ==
    {StatusRequest(s) : s \in {"in_progress", "closed"}}
    \cup {[NoChange EXCEPT !.assignee = a, !.commit = TRUE] : a \in Holder}
AllUpdates == TaskUpdates \cup ClaimUpdates
AllCreates == {[Blank EXCEPT !.assignee = a] : a \in Holder}

Logged(limit) == \A i \in Issue : lastId'[i] <= limit

HistoryNext ==
    /\ \/ \E i \in Issue :
            \/ Create(i, NoOne, Blank)
            \/ \E q \in TaskUpdates : Update(i, NoOne, Nil, q)
            \/ \E target \in StateSet \cup {Nil}, reason, force, commit \in BOOLEAN :
                  Close(i, NoOne, Nil, target, reason, force, commit)
            \/ Reopen(i, NoOne)
            \/ \E id \in 1..HistoryEvents : Undo(i, NoOne, id, FALSE)
       \/ Maintenance
    /\ Logged(HistoryEvents)

ClaimNext ==
    /\ \E i \in Issue :
        \/ \E q \in AllCreates : Create(i, NoOne, q)
        \/ \E actor \in Agent, q \in ClaimUpdates : Update(i, actor, Nil, q)
        \/ \E a \in Agent : Update(i, NoOne, a, [NoChange EXCEPT !.assignee = NoOne])
        \/ Reopen(i, NoOne)
        \/ \E a \in Agent, commit \in BOOLEAN : Claim(i, a, a, commit, Nil)
        \/ \E actor \in Agent, override, revert \in BOOLEAN :
              Release(i, actor, Nil, override, revert)
        \/ \E a, expected \in Agent : Reclaim(i, a, expected, a, FALSE)
        \/ \E actor \in Agent, id \in 1..ClaimEvents, override \in BOOLEAN :
              Undo(i, actor, id, override)
    /\ Logged(ClaimEvents)

AllNext == Next /\ Logged(AllEvents)

SceneInit == Init /\ scene \in {"history", "claims", "all"}
SceneNext ==
    /\ UNCHANGED scene
    /\ \/ scene = "history" /\ HistoryNext
       \/ scene = "claims" /\ ClaimNext
       \/ scene = "all" /\ AllNext
SceneSpec == SceneInit /\ [][SceneNext]_sceneVars

AgentSymmetry == Permutations(Agent)
=============================================================================
