------------------------------ MODULE StartWork ------------------------------
(* start_work, start_next_work and claim_next (src/filigree/db_issues.py) as    *)
(* calls in flight next to every other write of the issue store.  A call looks   *)
(* at the store without a lock (the held-claim check, get_ready, the walk to a   *)
(* working status) and then tries its candidates one by one, each in a           *)
(* transaction of its own; between those steps any other caller may write.       *)
(* Several sessions may share one identity.  Dependencies are in module          *)
(* Dependencies: here no issue has an open blocker.                              *)
EXTENDS IssueStore, SoftPath

CONSTANTS Session,      \* callers
          HeldWindow    \* HELD_CLAIM_RETRY_WINDOW_SECONDS, in ticks

ASSUME SessionAssumption == HeldWindow \in Nat /\ Nil \notin Issue \cup RequestId

VARIABLE call           \* [session -> its call in flight]

callVars == <<row, log, lastId, tombstones, now, call>>

Idle == [op |-> "idle"]
Busy(c) == call[c].op # "idle"
Candidate(i, path) == [issue |-> i, path |-> path]

-----------------------------------------------------------------------------
(* _find_held_claim                                                             *)

LiveHeld(who) == {i \in Live : row[i].assignee = who /\ ~IsDone(row[i].status)}

ClaimEvents(i, who) ==
    {k \in DOMAIN log[i] : log[i][k].kind = "claimed" /\ log[i][k].new = who}

(* _held_claim_within_retry_window: the latest claim event decides, claimed_at   *)
(* when the log has none.                                                       *)
Recent(i, who) ==
    LET K == ClaimEvents(i, who)
        claimed == IF K = {} THEN row[i].claimedAt ELSE log[i][Newest(K)].at
    IN  claimed # Nil /\ now <= claimed + HeldWindow

Replays(who, request) ==
    {i \in LiveHeld(who) : \E k \in ClaimEvents(i, who) : log[i][k].note = request}

(* The claims a repeated call may be handed back, Nil for none: a replay of its  *)
(* request id at any age, else the held claim with the newest claimed_at if it   *)
(* is recent.  Rows with equal timestamps come in any order.                     *)
HeldAnswer(who, request, wipOnly) ==
    LET replays == IF request = Nil THEN {} ELSE Replays(who, request)
        W == {i \in LiveHeld(who) : wipOnly => CategoryOf(row[i].status) = "wip"}
        first == {i \in W : \A j \in W : row[j].claimedAt <= row[i].claimedAt}
    IN  IF replays # {} THEN replays
        ELSE IF W = {} THEN {Nil}
        ELSE {IF Recent(i, who) THEN i ELSE Nil : i \in first}

-----------------------------------------------------------------------------
(* Lock-free discovery                                                          *)

(* get_ready: unassigned issues in an open state, most urgent first; issues of   *)
(* one priority in any (creation) order.                                        *)
Ready == {i \in Live : CategoryOf(row[i].status) = "open" /\ row[i].assignee = NoOne
                       /\ row[i].status \in StateSet}
ReadyOrders(S) ==
    {q \in SetToSeqs(S) :
        \A j, k \in DOMAIN q : j < k => row[q[j]].priority <= row[q[k]].priority}

(* The hops from a status to work; an explicit target is taken as it comes.      *)
WalkFrom(s, target, advance) ==
    IF target # Nil THEN Walk(<<target>>)
    ELSE IF s \notin StateSet THEN NoWalk
    ELSE IF advance THEN SoftPathToWorking(Category, Transitions, s)
    ELSE ReachableWorking(Category, Transitions, s)

(* start_work: the walk is resolved from the status read now.                    *)
BeginStart(c, i, who, target, advance) ==
    LET walk == WalkFrom(row[i].status, target, advance)
    IN  /\ ~Busy(c) /\ i \in Live
        /\ walk.ok
        /\ call' = [call EXCEPT ![c] =
                       [op |-> "start", who |-> who, request |-> Nil,
                        queue |-> <<Candidate(i, walk.path)>>]]
        /\ UNCHANGED vars

(* start_next_work: unless a held claim is handed back, the ready candidates     *)
(* with a walk, or all of them for a target of the caller's own, are queued.  An *)
(* empty queue returns None at once.                                             *)
BeginStartNext(c, who, request, target, advance) ==
    /\ ~Busy(c)
    /\ Nil \in HeldAnswer(who, request, TRUE)
    /\ LET walkOf(i) == WalkFrom(row[i].status, target, advance) IN
       \E order \in ReadyOrders({i \in Ready : walkOf(i).ok}) :
          /\ order # <<>>
          /\ call' = [call EXCEPT ![c] =
                [op |-> "start_next", who |-> who, request |-> request,
                 queue |-> [k \in DOMAIN order |->
                    Candidate(order[k], walkOf(order[k]).path)]]]
    /\ UNCHANGED vars

(* claim_next: the same without a walk.                                          *)
BeginClaimNext(c, who, request) ==
    /\ ~Busy(c)
    /\ Nil \in HeldAnswer(who, request, FALSE)
    /\ \E order \in ReadyOrders(Ready) :
          /\ order # <<>>
          /\ call' = [call EXCEPT ![c] =
                [op |-> "claim_next", who |-> who, request |-> request,
                 queue |-> [k \in DOMAIN order |-> Candidate(order[k], <<>>)]]]
    /\ UNCHANGED vars

-----------------------------------------------------------------------------
(* One candidate under the writer lock                                          *)

(* Mistake: only the check made before the lock counts.                          *)
NoRecheck(c) == {Nil}

(* The held-claim check is repeated once BEGIN IMMEDIATE has been granted;       *)
(* start_work on a named issue has none.                                         *)
Recheck(c) ==
    IF call[c].op = "start" THEN {Nil}
    ELSE HeldAnswer(call[c].who, call[c].request, call[c].op = "start_next")

(* Mistake: a hop the workflow refuses is passed over and the claim kept.         *)
StartedSoFar(i, who, request, path) ==
    LET claim == [ok |-> Claimable(row[i], who), row |-> Claimed(row[i], who, FALSE),
                  events |-> <<[Event("claimed", who, row[i].assignee, who)
                                   EXCEPT !.note = request]>>]
        Hop(w, s) == IF TransitionAllowed(w.row, StatusRequest(s), FALSE)
                     THEN [w EXCEPT !.row = UpdatedRow(@, StatusRequest(s)),
                              !.events = @ \o UpdateEvents(w.row, StatusRequest(s),
                                                           who, FALSE, FALSE)]
                     ELSE w
    IN  FoldLeft(Hop, claim, path)

(* _start_work_locked: claim_issue, then one update_issue per hop, all or none.  *)
Started(i, who, request, path) ==
    LET claim == [ok |-> Claimable(row[i], who), row |-> Claimed(row[i], who, FALSE),
                  events |-> <<[Event("claimed", who, row[i].assignee, who)
                                   EXCEPT !.note = request]>>]
        Hop(w, s) == [ok |-> /\ w.ok
                             /\ HolderCheck(w.row, who, who)
                             /\ TransitionAllowed(w.row, StatusRequest(s), FALSE),
                      row |-> UpdatedRow(w.row, StatusRequest(s)),
                      events |-> w.events \o UpdateEvents(w.row, StatusRequest(s),
                                                          who, FALSE, FALSE)]
        after[k \in 0..Len(path)] == IF k = 0 THEN claim ELSE Hop(after[k - 1], path[k])
    IN  after[Len(path)]

NextCandidate(c) == Head(call[c].queue)
Startable(c) ==
    LET k == NextCandidate(c)
    IN  k.issue \in Live /\ Started(k.issue, call[c].who, call[c].request, k.path).ok

(* The call returns the claim it made.                                           *)
Start(c) ==
    LET k == NextCandidate(c)
        result == Started(k.issue, call[c].who, call[c].request, k.path)
    IN  /\ Busy(c) /\ Nil \in Recheck(c) /\ Startable(c)
        /\ Write(k.issue, result.row, result.events)
        /\ call' = [call EXCEPT ![c] = Idle]

(* The call returns the claim a concurrent call of its identity made.            *)
HandBack(c) ==
    /\ Busy(c)
    /\ \E held \in Recheck(c) : held # Nil
    /\ call' = [call EXCEPT ![c] = Idle]
    /\ UNCHANGED vars

(* Mistake: the same candidate is tried again.                                   *)
RetrySame(c) == IF call[c].op = "start" THEN Idle ELSE call[c]

(* A lost race rolls back; the auto-pickers move on to the next candidate and    *)
(* return None after the last, start_work raises.                                *)
AfterSkip(c) ==
    IF Len(call[c].queue) = 1 THEN Idle ELSE [call[c] EXCEPT !.queue = Tail(@)]

Skip(c) ==
    /\ Busy(c) /\ Nil \in Recheck(c) /\ ~Startable(c)
    /\ call' = [call EXCEPT ![c] = AfterSkip(c)]
    /\ UNCHANGED vars

Attempt(c) == Start(c) \/ HandBack(c) \/ Skip(c)

-----------------------------------------------------------------------------
CallInit == Init /\ call = [c \in Session |-> Idle]

Begin(c) ==
    \E who \in Agent :
        \/ \E i \in Issue, target \in StateSet \cup {Nil}, advance \in BOOLEAN :
              BeginStart(c, i, who, target, advance)
        \/ \E request \in RequestId \cup {Nil}, target \in StateSet \cup {Nil},
              advance \in BOOLEAN :
              BeginStartNext(c, who, request, target, advance)
        \/ \E request \in RequestId \cup {Nil} : BeginClaimNext(c, who, request)

StoreStep == Next /\ UNCHANGED call

CallNext == StoreStep \/ \E c \in Session : Begin(c) \/ Attempt(c)
CallSpec == CallInit /\ [][CallNext]_callVars

(* A call in flight is a thread in a loop over its candidates: it keeps running. *)
Fairness == \A c \in Session : WF_callVars(Attempt(c))

-----------------------------------------------------------------------------
(* Properties                                                                   *)

(* "A retried call never claims a second issue and strands the first": however   *)
(* calls of one identity overlap, no two issues it holds were both claimed for   *)
(* the same request id.                                                          *)
RequestHeldOnce ==
    \A who \in Agent, request \in RequestId :
        \A i, j \in Replays(who, request) : i = j

(* An identity whose work comes from start_next_work and claim_next never has two *)
(* pieces of work under way that it came to hold within the retry window.  (Not    *)
(* of Recent: a repeated claim of an older piece makes its newest claim event      *)
(* recent and leaves claimed_at, by which _find_held_claim takes the newest.)      *)
OneRecentStart ==
    \A who \in Agent :
        \A i, j \in {k \in LiveHeld(who) : CategoryOf(row[k].status) = "wip"
                          /\ now <= row[k].claimedAt + HeldWindow} : i = j

(* Together: overlapping and retried picks of an identity get it one piece of work. *)
PicksOnce == RequestHeldOnce /\ OneRecentStart

(* "Atomically claim an issue and transition it to a working status": a call     *)
(* whose target is a working status that claims an issue leaves it held by its   *)
(* caller and in work, whatever happened between discovery and lock.             *)
StartEndsWorking ==
    [][\A c \in Session :
          /\ Busy(c) /\ call'[c] = Idle /\ row' # row
          /\ call[c].op \in {"start", "start_next"}
          => LET i == NextCandidate(c).issue
             IN  /\ row'[i].assignee = call[c].who
                 /\ CategoryOf(row'[i].status) = "wip"]_callVars

(* Every call returns, however often others snatch its candidates.               *)
CallsReturn == \A c \in Session : Busy(c) ~> ~Busy(c)
=============================================================================
