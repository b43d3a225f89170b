------------------------------ MODULE Surfaces ------------------------------
(***************************************************************************)
(* One call of a surface (an MCP tool, a command, an HTTP route) on the      *)
(* stores.  A handler is a plan: the store calls it makes, in order, with    *)
(* its early returns.  Every store call is a transaction of its own, and     *)
(* between two of them other processes may do anything: a subject may be     *)
(* gone when it is read again, held, done, or the database busy, so a store  *)
(* call may be refused or fail at any step, whatever an earlier one found.   *)
(***************************************************************************)
EXTENDS Naturals, Sequences, FiniteSets, TLC

CONSTANT Subjects   \* what a request may name: ids of issues, files, findings, ...

VARIABLE call       \* the request, how far its handler has come, and its answer

-----------------------------------------------------------------------------
(* Plans.  A stage runs its steps once, for all subjects that are left, or   *)
(* once per subject.  A refusal is the answer ("answer"), is reported for    *)
(* its subject ("report"), and a failure of the store may be, too ("catch"). *)
(* A stage that must leave "some" subject is refused when all of them were.  *)

Stage(each, refusal, some, steps) ==
    [each |-> each, refusal |-> refusal, some |-> some, steps |-> steps]
Once(steps)       == Stage(FALSE, "answer", FALSE, steps)
InTurn(steps)     == Stage(TRUE, "answer", FALSE, steps)
PerItem(steps)    == Stage(TRUE, "report", FALSE, steps)
SomeItem(steps)   == Stage(TRUE, "report", TRUE, steps)
SomeCaught(steps) == Stage(TRUE, "catch", TRUE, steps)
Single(steps)     == <<Once(steps)>>

(* Steps.  check: arguments and files.  consult: something is asked that may *)
(* refuse.  find: the subject is read, and must be there.  prefix: its id is *)
(* this project's.  gate, statusgate: the closure gate, always or when the   *)
(* new status is a done one; a stranger passes, for the write to refuse.     *)
(* look: a read that refuses nothing; hint: one whose failure is swallowed.  *)
(* snapshot: the records shown later as the ones done.  reread, readback:    *)
(* the result is read again; if it is gone the exception escapes, or is      *)
(* answered as a refusal.  refresh: context.md is written, or the failure    *)
(* logged.  poll: did the scanners start at all?                             *)
Asking == {"check", "consult"}
\* Writes on no subject that could be gone or foreign: they make a record, pick
\* one themselves, or go over the whole store.
Making == {"create", "register", "reserve", "pick", "sweep", "tidy"}
\* Writes on issues and observations, what context.md shows.
Showing == {"create", "update", "close", "reopen", "undo", "claim", "release", "delete", "dismiss",
            "start", "promote", "pick", "sweep", "write"}
\* Writes on what it does not show: files, findings, annotations, bindings, packs.
Silent == {"note", "track", "tidy", "attach"}
Writes == Showing \cup Silent
\* What may answer with success and change nothing: an unheld issue is released,
\* the holder's claim is repeated, no issue is ready, nothing is left to undo.
MayIdle == {"release", "claim", "start", "undo", "pick", "sweep", "tidy", "write", "note"}
\* Writes that may end in a done status: when the new status is one, or always.
MayClose == {"update", "undo"}

Steps(plan) == UNION {{plan[i].steps[j] : j \in DOMAIN plan[i].steps} : i \in DOMAIN plan}

-----------------------------------------------------------------------------
NoCall == [surface |-> "none", plan |-> <<>>, via |-> <<>>, steps |-> <<>>, todo |-> {},
           at |-> {}, ids |-> {}, foreign |-> {}, gone |-> {}, closing |-> FALSE, cleared |-> {}, closed |-> {},
           wrote |-> {}, idle |-> {}, failed |-> {}, shown |-> {}, shows |-> FALSE,
           owed |-> FALSE, answer |-> "none"]

Busy == call.plan # <<>> /\ call.answer = "none"
Now  == Head(call.steps)
Left(c) == c.ids \ c.failed

\* The first stage of the plan that is left is entered.
Enter(c) ==
    IF Head(c.plan).each THEN [c EXCEPT !.todo = Left(c), !.steps = <<>>]
    ELSE [c EXCEPT !.todo = {}, !.at = Left(c), !.steps = Head(c.plan).steps]

\* A request names one subject, or several when its handler works per subject;
\* some of them another project's, some of them not there (any more).
Ask(surface, plan) ==
    /\ call = NoCall
    /\ \E ids \in SUBSET Subjects \ {{}}, closing \in BOOLEAN :
         /\ Cardinality(ids) = 1 \/ \E i \in DOMAIN plan : plan[i].each
         /\ closing => MayClose \cap Steps(plan) # {}
         /\ \E foreign \in SUBSET ids, gone \in SUBSET ids :
              call' = Enter([NoCall EXCEPT !.surface = surface, !.plan = plan,
                                           !.via = plan, !.ids = ids, !.foreign = foreign,
                                           !.gone = gone, !.closing = closing])

\* The answer is given; the surface keeps nothing of the call.
Return == call.answer # "none" /\ call' = NoCall

\* Another process removes a subject.
Vanish ==
    /\ Busy
    /\ \E x \in call.ids \ call.gone : call' = [call EXCEPT !.gone = @ \cup {x}]

NextSubject ==
    /\ Busy /\ call.steps = <<>> /\ call.todo # {}
    /\ \E x \in call.todo :
         call' = [call EXCEPT !.todo = @ \ {x}, !.at = {x}, !.steps = Head(call.plan).steps]

NextStage ==
    /\ Busy /\ call.steps = <<>> /\ call.todo = {}
    /\ call' = IF Head(call.plan).some /\ Left(call) = {} THEN [call EXCEPT !.answer = "refused"]
               ELSE IF Len(call.plan) = 1 THEN [call EXCEPT !.answer = "done"]
               ELSE Enter([call EXCEPT !.plan = Tail(@)])

Running == Busy /\ call.steps # <<>>
Gating == Now = "gate" \/ (Now = "statusgate" /\ call.closing)
Closing == Now = "close" \/ (Now \in MayClose /\ call.closing)
\* The subject is missing where the step needs it, or is another project's.
Missing == call.at \cap call.gone # {}
Foreign == call.at \cap call.foreign # {}
Barred ==
    \/ Now \in ({"find", "reread", "readback"} \cup Writes) \ Making /\ Missing
    \/ Now \in ({"prefix"} \cup Writes) \ (Making \cup {"dismiss"}) /\ Foreign

\* The step goes through.
Pass ==
    /\ Running /\ ~Barred /\ Now # "poll"
    /\ call' = [call EXCEPT
         !.steps = Tail(@),
         !.cleared = IF Gating THEN @ \cup (call.at \ call.foreign) ELSE @,
         !.closed = IF Closing THEN @ \cup call.at ELSE @,
         !.wrote = IF Now \in Writes THEN @ \cup call.at ELSE @,
         !.shown = IF Now = "snapshot" THEN call.at \ call.gone ELSE @,
         !.shows = @ \/ Now = "snapshot",
         !.owed = Now \in Showing \/ (@ /\ Now # "refresh")]

\* The store answers that there was nothing to change.
PassIdly ==
    /\ Running /\ ~Barred /\ Now \in MayIdle
    /\ call' = [call EXCEPT !.steps = Tail(@), !.idle = @ \cup call.at]

\* Some scanners have ended already; when all have, the call is refused.
Poll ==
    /\ Running /\ Now = "poll"
    /\ \E dead \in SUBSET call.at :
         call' = [call EXCEPT !.steps = Tail(@), !.wrote = @ \ dead, !.idle = @ \cup dead,
                              !.answer = IF dead = call.at THEN "refused" ELSE @]

\* Mistake: the subject is passed over in silence.
Skipped(c) ==
    IF Head(c.plan).refusal = "answer" THEN [c EXCEPT !.answer = "refused"]
    ELSE [c EXCEPT !.steps = <<>>]
\* Mistake: the loop reports the refusal and goes on with the subject.
CarriesOn(c) ==
    IF Head(c.plan).refusal = "answer" THEN [c EXCEPT !.answer = "refused"]
    ELSE [c EXCEPT !.failed = @ \cup c.at, !.steps = Tail(@)]
\* A refusal is the answer, or is reported and the next subject is taken.  Any write
\* may be refused, but for a dismissal: it only needs the observation.
Refusal(c) ==
    IF Head(c.plan).refusal = "answer" THEN [c EXCEPT !.answer = "refused"]
    ELSE [c EXCEPT !.failed = @ \cup c.at, !.steps = <<>>]
Refuse ==
    /\ Running
    /\ \/ Now \in Asking \cup Making \cup (Writes \ {"dismiss"}) \/ Gating
       \/ Barred /\ Now # "reread"
    /\ call' = Refusal(call)

\* The store fails, or an exception escapes: an error that claims nothing, unless
\* the handler reports it for the subject.
Fail ==
    /\ Running /\ Now \notin {"check", "hint", "refresh", "poll"}
    /\ call' = IF Head(call.plan).refusal = "catch" THEN Refusal(call)
               ELSE [call EXCEPT !.answer = "fault"]

Handle == Return \/ Vanish \/ NextSubject \/ NextStage \/ Pass \/ PassIdly \/ Poll \/ Refuse \/ Fail

-----------------------------------------------------------------------------
(* What an answer claims.  Told are the subjects it lists as done.          *)
Told == IF call.shows THEN call.shown ELSE Left(call)

\* A refused call changed nothing, unless what it changed was removed before it
\* could be shown; a call that is done changed what it lists, reported the rest,
\* changed nothing of what it reported as failed, and on a surface that keeps
\* context.md has written it again after the last change it shows.
AnswersTrueBut(partial, unrefreshed) ==
    /\ call.answer = "refused" =>
         call.wrote = {} \/ (call.wrote \cup call.idle) \cap call.gone # {} \/ call.via \in partial
    /\ call.answer = "done" =>
         /\ call.wrote \cap call.failed = {}
         /\ Told \cap call.failed \subseteq call.gone
         /\ Steps(call.via) \cap Writes # {} => Left(call) \subseteq call.wrote \cup call.idle
         /\ call.owed => call.surface = "http" \/ call.via \in unrefreshed

\* What a call closed had passed the closure gate in it, but for the plans that
\* never ask the gate.
ClosedWereClearedBut(ungated) == call.via \notin ungated => call.closed \subseteq call.cleared
=============================================================================
