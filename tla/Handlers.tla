------------------------------- MODULE Handlers -------------------------------
(***************************************************************************)
(* All handlers of the three surfaces, what their answers promise, and the    *)
(* discipline their plans keep: the order of asking, writing and refreshing   *)
(* by which those promises hold for any request.                              *)
(***************************************************************************)
EXTENDS McpHandlers, CliHandlers, HttpHandlers

SurfacesNext ==
    \/ \E plan \in McpPlans  : Ask("mcp", plan)
    \/ \E plan \in CliPlans  : Ask("cli", plan)
    \/ \E plan \in HttpPlans : Ask("http", plan)
    \/ Handle

SurfacesSpec == call = NoCall /\ [][SurfacesNext]_call

-----------------------------------------------------------------------------
(* Properties, with the exceptions that the code makes                        *)

\* Promote-and-attach keeps the issue when the attachment is refused, for its
\* retry to find.
Partial == {HandlePromoteFindingAndAttachEntity, ApiWeftPromoteFindingAndAttach}
\* The command that leaves context.md alone.
Unrefreshed == {CmdCleanStaleFindings}
\* Undo and the two batch commands do not ask the gate.
Ungated == {HandleUndoLast, CmdUndo, CmdBatchClose, CmdBatchUpdate}

\* No answer misleads, for every tool, command and route.
AnswersTrue == AnswersTrueBut(Partial, Unrefreshed)

\* No tool, command or route closes an issue that the gate has not let pass in the
\* same call, but for those that do not ask it.
ClosedWereCleared == ClosedWereClearedBut(Ungated)

-----------------------------------------------------------------------------
(* The discipline of a plan                                                   *)

StageRecord == [each : BOOLEAN, refusal : {"answer", "report", "catch"}, some : BOOLEAN,
                steps : Seq(STRING)]
IsPlan(plan) ==
    /\ plan \in Seq(StageRecord) /\ plan # <<>>
    /\ \A i \in DOMAIN plan : plan[i].each \/ plan[i].refusal = "answer"

\* One of S stands before the step at (i, j).
Before(h, k, i, j) == h < i \/ (h = i /\ k < j)
Follows(plan, i, j, S) ==
    \E h \in DOMAIN plan : \E k \in DOMAIN plan[h].steps :
        Before(h, k, i, j) /\ plan[h].steps[k] \in S

\* What is reported for its subject comes before any write on it, and scanners are
\* polled once, for all subjects.
ReportsUnwritten(plan) ==
    \A i \in DOMAIN plan : \A j \in DOMAIN plan[i].steps :
        /\ plan[i].refusal # "answer" => ~Follows(plan, i, j, Writes)
        /\ plan[i].steps[j] = "poll" => ~plan[i].each

\* Of a plan that shows what was there at the start, a subject is left out only when
\* it is gone.
ShownStay(plan) ==
    (\E h \in DOMAIN plan : \E k \in DOMAIN plan[h].steps : plan[h].steps[k] = "snapshot") =>
        \A i \in DOMAIN plan : plan[i].refusal # "answer" =>
            plan[i].refusal = "report" /\ \A j \in DOMAIN plan[i].steps : plan[i].steps[j] = "dismiss"

\* After the first write the whole call is refused by the absence of a subject only.
ByAbsence == {"find", "readback", "reread", "look", "hint", "snapshot", "refresh", "poll"}
RefusesFirst(plan) ==
    \A i \in DOMAIN plan : plan[i].refusal = "answer" =>
        /\ plan[i].each => ~Follows(plan, i + 1, 1, Writes)
        /\ \A j \in DOMAIN plan[i].steps :
              Follows(plan, i, j, Writes) => plan[i].steps[j] \in ByAbsence

\* Every write that context.md shows is followed by a refresh.
Refreshes(plan) ==
    \A i \in DOMAIN plan : \A j \in DOMAIN plan[i].steps : plan[i].steps[j] \in Showing =>
        \E h \in DOMAIN plan : \E k \in DOMAIN plan[h].steps :
            Before(i, j, h, k) /\ ~plan[h].each /\ plan[h].steps[k] = "refresh"

\* Every write that may close is preceded by the gate that is asked for it.
Gates(closing) == IF closing THEN {"gate", "statusgate"} ELSE {"gate"}
Closers(closing) == IF closing THEN {"close"} \cup MayClose ELSE {"close"}
AsksFirst(plan) ==
    \A closing \in BOOLEAN : \A i \in DOMAIN plan : \A j \in DOMAIN plan[i].steps :
        plan[i].steps[j] \in Closers(closing) => Follows(plan, i, j, Gates(closing))

ASSUME HandlersAssumption ==
    /\ \A plan \in McpPlans \cup CliPlans \cup HttpPlans :
          /\ IsPlan(plan) /\ ReportsUnwritten(plan) /\ ShownStay(plan)
          /\ plan \notin Partial => RefusesFirst(plan)
          /\ plan \notin Ungated => AsksFirst(plan)
    /\ \A plan \in (McpPlans \cup CliPlans) \ Unrefreshed : Refreshes(plan)
===============================================================================
