---------------------------- MODULE ScanningProofs ----------------------------
(* The safety of scan runs for every number of runs and targets and every length  *)
(* of the windows, and of findings and the issues made from them for every number  *)
(* of findings, issues and calls.  A row is active only by its reservation: the    *)
(* move to running finds it pending and fresh, because its trigger is still at work *)
(* and in time.  A regressed finding is an active defect of its issue, so that no   *)
(* cascade closes over it, and the call that reopens the issue holds it until then. *)
EXTENDS ScanRuns, Findings, FiniteSetTheorems, TLAPS

Working == {"reserved", "spawned", "recorded", "tracking"}
Gone == {"none", "exited", "died"}

(* The row of a trigger at work is pending and fresh.                             *)
WorkedRunsFresh ==
    \A r \in Run : trigger[r] \in Working =>
        run[r].status = "pending" /\ run[r].age <= PendingStale

(* Only the trigger moves a pending row; a failure is written once the scanner is  *)
(* gone, and no scanner is spawned after it.                                      *)
UpdatesInOrder ==
    \A u \in updating :
        /\ u.seen = "pending" => u.by = "trigger"
        /\ u.by = "trigger" /\ u.to = "running" => trigger[u.run] = "tracking"
        /\ u.by = "trigger" /\ u.to # "running" =>
               u.to = "failed" /\ trigger[u.run] = "failing"
        /\ u.to = "failed" => process[u.run] \in Gone /\ trigger[u.run] # "reserved"
        /\ \A v \in updating : u.by = "trigger" /\ v.by = "trigger" /\ u.run = v.run => u = v

(* A scanner exists only after its trigger spawned it.                            *)
ScannersSpawned ==
    \A r \in Run : trigger[r] \in {"none", "reserved"} => process[r] = "none"

ScanInv ==
    /\ ScanTypeOK /\ WorkedRunsFresh /\ UpdatesInOrder /\ ScannersSpawned
    /\ OneActiveScan /\ FailedLeavesNoScanner

-----------------------------------------------------------------------------
LEMMA Transitions ==
    /\ ValidNext["pending"] = {"running", "failed"}
    /\ ValidNext["running"] = {"completed", "failed", "timeout"}
    /\ \A s \in {"completed", "failed", "timeout"} : ValidNext[s] = {}
    /\ TerminalRun = {"completed", "failed", "timeout"}
BY DEF ValidNext, TerminalRun, RunStatus

LEMMA Initially == ScanInit => ScanInv
BY DEF ScanInit, ScanInv, ScanTypeOK, WorkedRunsFresh, UpdatesInOrder, ScannersSpawned,
       OneActiveScan, FailedLeavesNoScanner, Reserved, Working, TriggerPhase,
       ProcessState

(* A status update rewrites one row, as does the record of a spawned scanner.     *)
LEMMA RowWritten ==
    ASSUME run \in [Reserved -> ScanRow], NEW r \in Reserved, NEW s \in RunStatus,
           run' = [run EXCEPT ![r].status = s, ![r].age = 0]
    PROVE  /\ run' \in [Reserved -> ScanRow] /\ Reserved' = Reserved
           /\ run'[r].status = s /\ run'[r].age = 0 /\ run'[r].target = run[r].target
           /\ \A q \in Reserved \ {r} : run'[q] = run[q]
<1>1. 0 \in 0..MaxAge
  BY ScanAssumption DEF MaxAge
<1>2. [run[r] EXCEPT !.status = s, !.age = 0] \in ScanRow
  BY <1>1 DEF ScanRow
<1> QED
  BY <1>2 DEF Reserved, ScanRow

LEMMA ReserveKeeps ==
    ASSUME ScanInv, NEW r \in Run, NEW t \in Target, Reserve(r, t)
    PROVE  ScanInv'
BY ScanAssumption
   DEF ScanInv, ScanTypeOK, WorkedRunsFresh, UpdatesInOrder, ScannersSpawned,
       OneActiveScan, FailedLeavesNoScanner, Reserved, Active, MaxAge, ScanRow,
       Working, TriggerPhase, RunStatus, Reserve, Blocking, Blocks

LEMMA SpawnKeeps ==
    ASSUME ScanInv, NEW r \in Run, Spawn(r)
    PROVE  ScanInv'
BY DEF ScanInv, ScanTypeOK, WorkedRunsFresh, UpdatesInOrder, ScannersSpawned,
       OneActiveScan, FailedLeavesNoScanner, Reserved, Active, Working, TriggerPhase,
       ProcessState, Spawn

LEMMA SpawnFailsKeeps ==
    ASSUME ScanInv, NEW r \in Run, SpawnFails(r)
    PROVE  ScanInv'
<1>1. ScanTypeOK'
  BY DEF ScanInv, ScanTypeOK, Reserved, ScanRow, TriggerPhase, RunStatus, SpawnFails,
         Failing, Update, MayBecome
<1>2. WorkedRunsFresh'
  BY DEF ScanInv, ScanTypeOK, WorkedRunsFresh, Working, SpawnFails, Failing
<1>3. UpdatesInOrder'
  BY DEF ScanInv, ScanTypeOK, UpdatesInOrder, ScannersSpawned, Gone, SpawnFails,
         Failing, Update
<1>4. ScannersSpawned'
  BY DEF ScanInv, ScanTypeOK, ScannersSpawned, SpawnFails, Failing
<1>5. OneActiveScan'
  BY DEF ScanInv, OneActiveScan, Reserved, Active, SpawnFails
<1>6. FailedLeavesNoScanner'
  BY DEF ScanInv, FailedLeavesNoScanner, Reserved, SpawnFails
<1> QED
  BY <1>1, <1>2, <1>3, <1>4, <1>5, <1>6 DEF ScanInv

LEMMA RecordSpawnKeeps ==
    ASSUME ScanInv, NEW r \in Run, RecordSpawn(r)
    PROVE  ScanInv'
<1>1. ScanTypeOK'
  <2>1. 0 \in 0..MaxAge
    BY ScanAssumption DEF MaxAge
  <2>2. r \in Reserved /\ run[r] \in ScanRow
    BY DEF ScanInv, ScanTypeOK, RecordSpawn
  <2>3. [run[r] EXCEPT !.age = 0] \in ScanRow
    BY <2>1, <2>2 DEF ScanRow
  <2>4. run' \in [Reserved -> ScanRow] /\ Reserved' = Reserved
    BY <2>2, <2>3 DEF ScanInv, ScanTypeOK, RecordSpawn, Reserved
  <2>5. trigger' \in [Run -> TriggerPhase]
    BY DEF ScanInv, ScanTypeOK, RecordSpawn, TriggerPhase
  <2> QED
    BY <2>2, <2>4, <2>5 DEF ScanInv, ScanTypeOK, RecordSpawn
<1>2. WorkedRunsFresh'
  BY ScanAssumption DEF ScanInv, WorkedRunsFresh, Working, RecordSpawn
<1>3. UpdatesInOrder'
  BY DEF ScanInv, UpdatesInOrder, RecordSpawn
<1>4. ScannersSpawned'
  BY DEF ScanInv, ScannersSpawned, RecordSpawn
<1>5. OneActiveScan'
  BY DEF ScanInv, WorkedRunsFresh, OneActiveScan, Reserved, Active, Working, RecordSpawn
<1>6. FailedLeavesNoScanner'
  BY DEF ScanInv, FailedLeavesNoScanner, Reserved, RecordSpawn
<1> QED
  BY <1>1, <1>2, <1>3, <1>4, <1>5, <1>6 DEF ScanInv

LEMMA BeginRunningKeeps ==
    ASSUME ScanInv, NEW r \in Run, BeginRunning(r)
    PROVE  ScanInv'
BY Transitions
   DEF ScanInv, ScanTypeOK, WorkedRunsFresh, UpdatesInOrder, ScannersSpawned,
       OneActiveScan, FailedLeavesNoScanner, Reserved, Active, Working, TriggerPhase,
       RunStatus, BeginRunning, Update

LEMMA TrackingFailsKeeps ==
    ASSUME ScanInv, NEW r \in Run, TrackingFails(r)
    PROVE  ScanInv'
BY DEF ScanInv, ScanTypeOK, WorkedRunsFresh, UpdatesInOrder, ScannersSpawned,
       OneActiveScan, FailedLeavesNoScanner, Reserved, Active, ScanRow, Working, Gone,
       TriggerPhase, ProcessState, RunStatus, TrackingFails, Killed, Failing,
       TriggersUpdate, Update, MayBecome

LEMMA PollKeeps ==
    ASSUME ScanInv, NEW r \in Run, Poll(r)
    PROVE  ScanInv'
BY DEF ScanInv, ScanTypeOK, WorkedRunsFresh, UpdatesInOrder, ScannersSpawned,
       OneActiveScan, FailedLeavesNoScanner, Reserved, Active, ScanRow, Working, Gone,
       TriggerPhase, RunStatus, Poll, Failing, Update, MayBecome

LEMMA TriggerDiesKeeps ==
    ASSUME ScanInv, NEW r \in Run, TriggerDies(r)
    PROVE  ScanInv'
BY DEF ScanInv, ScanTypeOK, WorkedRunsFresh, UpdatesInOrder, ScannersSpawned,
       OneActiveScan, FailedLeavesNoScanner, Reserved, Active, Working, TriggerPhase,
       TriggerDies, TriggersUpdate

LEMMA PostKeeps ==
    ASSUME ScanInv, NEW r \in Run, Post(r)
    PROVE  ScanInv'
BY DEF ScanInv, ScanTypeOK, WorkedRunsFresh, UpdatesInOrder, ScannersSpawned,
       OneActiveScan, FailedLeavesNoScanner, Reserved, Active, Gone, ProcessState, Post

LEMMA ExitKeeps ==
    ASSUME ScanInv, NEW r \in Run, Exit(r)
    PROVE  ScanInv'
BY DEF ScanInv, ScanTypeOK, WorkedRunsFresh, UpdatesInOrder, ScannersSpawned,
       OneActiveScan, FailedLeavesNoScanner, Reserved, Active, Gone, ProcessState, Exit

LEMMA CompleteKeeps ==
    ASSUME ScanInv, NEW r \in Run, Complete(r)
    PROVE  ScanInv'
BY Transitions
   DEF ScanInv, ScanTypeOK, WorkedRunsFresh, UpdatesInOrder, ScannersSpawned,
       OneActiveScan, FailedLeavesNoScanner, Reserved, Active, ScanRow, RunStatus,
       Complete, Update, MayBecome

LEMMA ReconcileKeeps ==
    ASSUME ScanInv, NEW r \in Run, Reconcile(r)
    PROVE  ScanInv'
BY Transitions
   DEF ScanInv, ScanTypeOK, WorkedRunsFresh, UpdatesInOrder, ScannersSpawned,
       OneActiveScan, FailedLeavesNoScanner, Reserved, Active, Gone, RunStatus,
       Reconcile, Update

LEMMA CommitKeeps ==
    ASSUME ScanInv, NEW u \in updating, Commit(u)
    PROVE  ScanInv'
<1>1. ScanTypeOK'
  <2>1. u.run \in Reserved /\ u.to \in RunStatus
    BY DEF ScanInv, ScanTypeOK
  <2>2. run' \in [Reserved -> ScanRow] /\ Reserved' = Reserved
    BY <2>1, RowWritten DEF ScanInv, ScanTypeOK, Commit
  <2>3. trigger' \in [Run -> TriggerPhase] /\ Reserved = {r \in Run : trigger'[r] # "none"}
    BY <2>1 DEF ScanInv, ScanTypeOK, Commit, TriggerPhase
  <2> QED
    BY <2>2, <2>3 DEF ScanInv, ScanTypeOK, Commit
<1>2. WorkedRunsFresh'
  BY DEF ScanInv, ScanTypeOK, WorkedRunsFresh, UpdatesInOrder, Working, Commit,
         SwapHolds
<1>3. UpdatesInOrder'
  BY DEF ScanInv, UpdatesInOrder, Commit
<1>4. ScannersSpawned'
  BY DEF ScanInv, ScannersSpawned, Commit
<1>5. OneActiveScan'
  BY ScanAssumption, Transitions
     DEF ScanInv, ScanTypeOK, OneActiveScan, Reserved, Active, ScanRow, RunStatus,
         Commit, SwapHolds
<1>6. FailedLeavesNoScanner'
  BY DEF ScanInv, UpdatesInOrder, FailedLeavesNoScanner, Reserved, Gone, Commit
<1> QED
  BY <1>1, <1>2, <1>3, <1>4, <1>5, <1>6 DEF ScanInv

LEMMA RefuseKeeps ==
    ASSUME ScanInv, NEW u \in updating, Refuse(u)
    PROVE  ScanInv'
BY DEF ScanInv, ScanTypeOK, WorkedRunsFresh, UpdatesInOrder, ScannersSpawned,
       OneActiveScan, FailedLeavesNoScanner, Reserved, Active, Working, TriggerPhase,
       Refuse, TriggersUpdate

LEMMA TickKeeps ==
    ASSUME ScanInv, Tick
    PROVE  ScanInv'
BY ScanAssumption
   DEF ScanInv, ScanTypeOK, WorkedRunsFresh, UpdatesInOrder, ScannersSpawned,
       OneActiveScan, FailedLeavesNoScanner, Reserved, Active, MaxAge, ScanRow,
       Working, ProcessState, Tick, InTime, Older

-----------------------------------------------------------------------------
LEMMA Inductive == ScanInv /\ [ScanNext]_scanVars => ScanInv'
<1>1. SUFFICES ASSUME ScanInv, [ScanNext]_scanVars PROVE ScanInv'
  OBVIOUS
<1>2. ASSUME NEW r \in Run, TriggerStep(r) PROVE ScanInv'
  BY <1>1, <1>2, ReserveKeeps, SpawnKeeps, SpawnFailsKeeps, RecordSpawnKeeps,
     BeginRunningKeeps, TrackingFailsKeeps, PollKeeps, TriggerDiesKeeps DEF TriggerStep
<1>3. ASSUME NEW r \in Run, ScannerStep(r) \/ Complete(r) \/ Reconcile(r) PROVE ScanInv'
  BY <1>1, <1>3, PostKeeps, ExitKeeps, CompleteKeeps, ReconcileKeeps DEF ScannerStep
<1>4. CASE UpdateStep
  BY <1>1, <1>4, CommitKeeps, RefuseKeeps DEF UpdateStep
<1>5. CASE Tick
  BY <1>1, <1>5, TickKeeps
<1>6. CASE UNCHANGED scanVars
  BY <1>1, <1>6
     DEF scanVars, ScanInv, ScanTypeOK, WorkedRunsFresh, UpdatesInOrder, ScannersSpawned,
         OneActiveScan, FailedLeavesNoScanner, Reserved, Active
<1> QED
  BY <1>1, <1>2, <1>3, <1>4, <1>5, <1>6 DEF ScanNext

LEMMA Invariant == ScanSpec => []ScanInv
BY Initially, Inductive, PTL DEF ScanSpec

(* The columns, phases and updates in flight stay well-formed: no status update is  *)
(* ever under way that _VALID_TRANSITIONS forbids.                                 *)
THEOREM TypeCorrect == ScanSpec => []ScanTypeOK
<1>1. ScanInv => ScanTypeOK
  BY DEF ScanInv
<1> QED
  BY <1>1, Invariant, PTL

(* Two triggers never scan one file with one scanner at once, for any number of     *)
(* triggers, any windows, any crash and any failed spawn.                          *)
THEOREM ActiveScansAlone == ScanSpec => []OneActiveScan
<1>1. ScanInv => OneActiveScan
  BY DEF ScanInv
<1> QED
  BY <1>1, Invariant, PTL

(* A run that failed, and so freed its file at once, has no scanner at work.        *)
THEOREM FailedScannersGone == ScanSpec => []FailedLeavesNoScanner
<1>1. ScanInv => FailedLeavesNoScanner
  BY DEF ScanInv
<1> QED
  BY <1>1, Invariant, PTL

(* Only a status update that finds the status it read changes an existing status,   *)
(* and it read one with a way on.                                                 *)
LEMMA OutcomesStandAtAStep ==
    ASSUME ScanTypeOK, ScanNext, NEW r \in Reserved, run[r].status \in TerminalRun
    PROVE  run'[r].status = run[r].status
<1>1. CASE \E u \in updating : Commit(u)
  <2>1. PICK u \in updating : Commit(u)
    BY <1>1
  <2>2. u.run # r
    BY <2>1, Transitions DEF ScanTypeOK, Commit, SwapHolds, RunStatus
  <2> QED
    BY <2>1, <2>2 DEF Commit, ScanTypeOK, Reserved
<1>2. CASE \E q \in Run : RecordSpawn(q)
  BY <1>2 DEF RecordSpawn, ScanTypeOK, ScanRow
<1>3. CASE \E q \in Run, t \in Target : Reserve(q, t)
  BY <1>3 DEF Reserve, ScanTypeOK, Reserved
<1>4. CASE Tick
  BY <1>4 DEF Tick, ScanTypeOK, ScanRow
<1>5. CASE UNCHANGED run
  BY <1>5
<1> QED
  BY <1>1, <1>2, <1>3, <1>4, <1>5
     DEF ScanNext, TriggerStep, ScannerStep, UpdateStep, Spawn, SpawnFails, BeginRunning,
         TrackingFails, Poll, TriggerDies, Post, Exit, Complete, Reconcile, Refuse

(* The first outcome of a run stands, whoever else believes to know how it ended.   *)
THEOREM OutcomesStand == ScanSpec => FirstOutcomeStands
<1>1. ScanTypeOK /\ [ScanNext]_scanVars =>
        [\A r \in Reserved :
            run[r].status \in TerminalRun => run'[r].status = run[r].status]_scanVars
  BY OutcomesStandAtAStep DEF scanVars
<1> QED
  BY <1>1, TypeCorrect, PTL DEF ScanSpec, FirstOutcomeStands

-----------------------------------------------------------------------------
(* Findings and the issues made from them                                         *)

FindingStates == [status : FindingStatus \cup {"absent"}, issue : Issue \cup {None}]
IssueStates == [done : BOOLEAN, closer : {"nobody", "person", "cascade"}, held : BOOLEAN,
                origin : Finding, debts : SUBSET {"reopen", "close"}]
Cascades == [does : {"cascade"}, reopens : SUBSET Issue, closes : SUBSET (Finding \X Issue),
             chosen : {None} \cup Issue \cup (Finding \X Issue)]
Promotions == [does : {"promote"}, of : Finding, stage : {"search", "create", "link"},
               issue : Issue \cup {None}]

FindingTypes ==
    /\ finding \in [Finding -> FindingStates]
    /\ Live \subseteq Issue /\ issue \in [Live -> IssueStates]
    /\ call \in [Call -> {Idle} \cup Cascades \cup Promotions]
    /\ regressed \subseteq Finding

\* ON DELETE SET NULL, and every link is made to an issue that exists.
LinksLive == \A f \in Finding : finding[f].issue \in Live \cup {None}

\* A regressed finding is one of those that keep its issue from being closed.
RegressedOpen == \A f \in regressed : finding[f].status = "open"

\* The issues that a call still has to reopen.
ToReopen(c) ==
    IF Cascading(c) THEN call[c].reopens \cup ({call[c].chosen} \cap Issue) ELSE {}

Hidden(i) == i \in Live /\ issue[i].done /\ issue[i].closer = "cascade"
Remembered(i) ==
    (\E c \in Call : i \in ToReopen(c)) \/ "reopen" \in issue[i].debts \/ i \in forgotten

RegressionsCovered ==
    \A f \in regressed : Hidden(finding[f].issue) => Remembered(finding[f].issue)

FindingInv == FindingTypes /\ LinksLive /\ RegressedOpen /\ RegressionsCovered

LEMMA RegressionRestated ==
  ASSUME FindingTypes, LinksLive
  PROVE  RegressionRemembered <=> RegressionsCovered
BY FindingAssumption
   DEF FindingTypes, LinksLive, RegressionRemembered, RegressionsCovered, Hidden, Remembered, ToReopen

(* What a call becomes when it goes on with a cascade.                              *)
LEMMA CascadeIs ==
  ASSUME NEW reopens \in SUBSET Issue, NEW closes \in SUBSET (Finding \X Issue)
  PROVE  /\ Cascade(reopens, closes) \in {Idle} \cup Cascades
         /\ Cascade(reopens, closes).does = "cascade" =>
               Cascade(reopens, closes).reopens = reopens /\ Cascade(reopens, closes).chosen = None
         /\ reopens # {} => Cascade(reopens, closes).does = "cascade"
BY DEF Cascade, Cascades, Idle

(* The fields of a call by what it does.                                            *)
LEMMA CallFields ==
  ASSUME FindingTypes, NEW c \in Call
  PROVE  /\ call \in [Call -> {Idle} \cup Cascades \cup Promotions]
         /\ Cascading(c) => call[c] \in Cascades
         /\ call[c].does = "promote" => call[c] \in Promotions
         /\ call[c] = Idle => ~Cascading(c)
BY DEF FindingTypes, Cascading, Idle, Cascades, Promotions

LEMMA IndebtIs ==
  ASSUME FindingTypes, NEW i, NEW kind \in {"reopen", "close"}, Indebt(i, kind)
  PROVE  /\ issue' \in [Live -> IssueStates] /\ DOMAIN issue' = Live
         /\ \A j \in Live : /\ issue'[j].done = issue[j].done /\ issue'[j].closer = issue[j].closer
                           /\ issue[j].debts \subseteq issue'[j].debts
         /\ i \in Live => kind \in issue'[i].debts
BY DEF FindingTypes, Indebt, IssueStates

(* One issue changes, the others stay.                                             *)
LEMMA OneIssueIs ==
  ASSUME FindingTypes, NEW i \in Live, NEW new \in IssueStates, issue' = [issue EXCEPT ![i] = new]
  PROVE  /\ issue' \in [Live -> IssueStates] /\ DOMAIN issue' = Live
         /\ issue'[i] = new /\ \A j \in Live \ {i} : issue'[j] = issue[j]
BY DEF FindingTypes, Live

LEMMA FindingTypesStep ==
  ASSUME FindingTypes, LinksLive, [FindingNext]_findingVars
  PROVE  FindingTypes' /\ LinksLive'
<1> USE FindingAssumption
<1>1. ASSUME NEW c \in Call, NEW seen \in SUBSET Finding, NEW sweep \in BOOLEAN, Ingest(c, seen, sweep)
      PROVE  FindingTypes' /\ LinksLive'
  <2> DEFINE reopens == {finding[f].issue : f \in Regressing(seen)} \ {None}
             resolved == {f \in Swept(seen, sweep) : ~Resolved(f) /\ finding[f].issue # None}
             closes == {<<f, finding[f].issue>> : f \in {g \in resolved : finding[g].issue \notin reopens}}
  <2>1. reopens \in SUBSET Issue
    BY DEF FindingTypes, FindingStates, Regressing
  <2>2. closes \in SUBSET (Finding \X Issue)
    BY DEF FindingTypes, FindingStates, Swept, Known
  <2> HIDE DEF reopens
  <2>3. Cascade(reopens, closes) \in {Idle} \cup Cascades
    BY <2>1, <2>2, CascadeIs
  <2>4. call' \in [Call -> {Idle} \cup Cascades \cup Promotions]
    BY <1>1, <2>3 DEF Ingest, FindingTypes, reopens
  <2>5. finding' \in [Finding -> FindingStates] /\ \A f \in Finding : finding'[f].issue = finding[f].issue
    BY <1>1 DEF Ingest, AfterIngest, FindingTypes, FindingStates, FindingStatus
  <2> QED
    BY <1>1, <2>4, <2>5 DEF Ingest, FindingTypes, LinksLive, Live, Regressing
<1>2. ASSUME NEW c \in Call, NEW old \in SUBSET Finding, CleanStale(c, old)
      PROVE  FindingTypes' /\ LinksLive'
  <2> DEFINE closes == {<<f, finding[f].issue>> : f \in {g \in old : finding[g].issue # None}}
  <2>1. closes \in SUBSET (Finding \X Issue)
    BY DEF FindingTypes, FindingStates
  <2>2. Cascade({}, closes) \in {Idle} \cup Cascades
    BY <2>1, CascadeIs
  <2>3. call' \in [Call -> {Idle} \cup Cascades \cup Promotions]
    BY <1>2, <2>2 DEF CleanStale, FindingTypes
  <2>4. finding' \in [Finding -> FindingStates] /\ \A f \in Finding : finding'[f].issue = finding[f].issue
    BY <1>2 DEF CleanStale, FindingTypes, FindingStates, FindingStatus
  <2> QED
    BY <1>2, <2>3, <2>4 DEF CleanStale, FindingTypes, LinksLive, Live
<1>3. ASSUME NEW c \in Call, Cascading(c), NEW reopens \in SUBSET Issue,
             NEW closes \in SUBSET (Finding \X Issue),
             call' = [call EXCEPT ![c] = Cascade(reopens, closes)]
      PROVE  call' \in [Call -> {Idle} \cup Cascades \cup Promotions]
  BY <1>3, CascadeIs, CallFields
<1>4. ASSUME NEW c \in Call, NEW i \in Issue, LookToReopen(c, i)
      PROVE  FindingTypes' /\ LinksLive'
  <2>1. Cascading(c) /\ call[c] \in Cascades
    BY <1>4, CallFields DEF LookToReopen
  <2>2. CASE Reopens(i)
    <3>1. call' = [call EXCEPT ![c] = [call[c] EXCEPT !.reopens = call[c].reopens \ {i}, !.chosen = i]]
      BY <1>4, <2>2, CallFields DEF LookToReopen
    <3>2. [call[c] EXCEPT !.reopens = call[c].reopens \ {i}, !.chosen = i] \in Cascades
      BY <2>1 DEF Cascades
    <3> QED
      BY <1>4, <3>1, <3>2 DEF LookToReopen, FindingTypes, LinksLive, Live
  <2>3. CASE ~Reopens(i)
    <3>1. call[c].reopens \ {i} \in SUBSET Issue /\ call[c].closes \in SUBSET (Finding \X Issue)
      BY <2>1 DEF Cascades
    <3>2. call' = [call EXCEPT ![c] = Cascade(call[c].reopens \ {i}, call[c].closes)]
      BY <1>4, <2>3 DEF LookToReopen
    <3>3. call' \in [Call -> {Idle} \cup Cascades \cup Promotions]
      BY <1>3, <2>1, <3>1, <3>2
    <3> QED
      BY <1>4, <3>3 DEF LookToReopen, FindingTypes, LinksLive, Live
  <2> QED
    BY <2>2, <2>3
<1>5. ASSUME NEW c \in Call, Cascading(c), Proceed(c)
      PROVE  call' \in [Call -> {Idle} \cup Cascades \cup Promotions]
  <2>1. call[c].reopens \in SUBSET Issue /\ call[c].closes \in SUBSET (Finding \X Issue)
    BY <1>5, CallFields DEF Cascades
  <2> QED
    BY <1>3, <1>5, <2>1 DEF Proceed
<1>6. ASSUME NEW c \in Call, Reopen(c) PROVE FindingTypes' /\ LinksLive'
  <2>1. issue' \in [Live -> IssueStates] /\ DOMAIN issue' = Live
    <3>1. CASE call[c].chosen \in Live /\ issue' = [issue EXCEPT ![call[c].chosen].done = FALSE]
      <4>1. [issue[call[c].chosen] EXCEPT !.done = FALSE] \in IssueStates
        <5>1. issue[call[c].chosen] \in IssueStates
          BY <3>1 DEF FindingTypes
        <5> QED
          BY <5>1 DEF IssueStates
      <4>2. issue' = [issue EXCEPT ![call[c].chosen] = [issue[call[c].chosen] EXCEPT !.done = FALSE]]
        BY <3>1 DEF FindingTypes
      <4> QED
        BY <3>1, <4>1, <4>2, OneIssueIs
    <3>2. CASE Indebt(call[c].chosen, "reopen")
      BY <3>2, IndebtIs
    <3> QED
      BY <1>6, <3>1, <3>2 DEF Reopen
  <2> QED
    BY <1>5, <1>6, <2>1 DEF Reopen, FindingTypes, LinksLive, Live
<1>7. ASSUME NEW c \in Call, NEW pair \in Finding \X Issue, NEW allows \in BOOLEAN, Gate(c, pair, allows)
      PROVE  FindingTypes' /\ LinksLive'
  <2>1. Cascading(c) /\ call[c] \in Cascades
    BY <1>7, CallFields DEF Gate
  <2>2. CASE allows
    <3>1. [call[c] EXCEPT !.closes = call[c].closes \ {pair}, !.chosen = pair] \in Cascades
      BY <2>1 DEF Cascades
    <3>2. call' = [call EXCEPT ![c] = [call[c] EXCEPT !.closes = call[c].closes \ {pair}, !.chosen = pair]]
      BY <1>7, <2>2, CallFields DEF Gate
    <3> QED
      BY <1>7, <2>2, <3>1, <3>2 DEF Gate, FindingTypes, LinksLive, Live
  <2>3. CASE ~allows
    <3>1. call[c].closes \ {pair} \in SUBSET (Finding \X Issue)
      BY <2>1 DEF Cascades
    <3>2. call' = [call EXCEPT ![c] = Cascade({}, call[c].closes \ {pair})] /\ Indebt(pair[2], "close")
      BY <1>7, <2>3 DEF Gate
    <3>3. call' \in [Call -> {Idle} \cup Cascades \cup Promotions]
      BY <1>3, <2>1, <3>1, <3>2
    <3> QED
      BY <1>7, <3>2, <3>3, IndebtIs DEF Gate, FindingTypes, LinksLive, Live
  <2> QED
    BY <2>2, <2>3
<1>8. ASSUME NEW c \in Call, CascadeClose(c) PROVE FindingTypes' /\ LinksLive'
  <2>1. issue' \in [Live -> IssueStates] /\ DOMAIN issue' = Live
    <3> DEFINE i == call[c].chosen[2]
    <3>1. CASE UNCHANGED issue
      BY <3>1 DEF FindingTypes, Live
    <3>2. CASE i \in Live /\ issue' = [issue EXCEPT ![i].done = TRUE, ![i].closer = "cascade"]
      <4>1. [issue[i] EXCEPT !.done = TRUE, !.closer = "cascade"] \in IssueStates
        <5>1. issue[i] \in IssueStates
          BY <3>2 DEF FindingTypes
        <5> HIDE DEF i
        <5> QED
          BY <5>1 DEF IssueStates
      <4>2. issue' = [issue EXCEPT ![i] = [issue[i] EXCEPT !.done = TRUE, !.closer = "cascade"]]
        BY <3>2 DEF FindingTypes
      <4> QED
        BY <3>2, <4>1, <4>2, OneIssueIs
    <3>3. CASE Indebt(i, "close")
      BY <3>3, IndebtIs
    <3>4. CloseHolds(call[c].chosen[1], i) => i \in Live
      BY <1>8 DEF CascadeClose, CloseHolds, LinksLive
    <3> QED
      BY <1>8, <3>1, <3>2, <3>3, <3>4 DEF CascadeClose
  <2> QED
    BY <1>5, <1>8, <2>1 DEF CascadeClose, FindingTypes, LinksLive, Live
<1>9. ASSUME NEW c \in Call, NEW f \in Finding, NEW stage \in {"search", "create", "link"},
             NEW i \in Issue \cup {None}, Promoting(c, f, stage, i)
      PROVE  FindingTypes => call' \in [Call -> {Idle} \cup Cascades \cup Promotions]
  BY <1>9 DEF Promoting, Promotions, FindingTypes
<1>10. ASSUME NEW c \in Call, NEW f \in Finding, PromoteLook(c, f) PROVE FindingTypes' /\ LinksLive'
  BY <1>9, <1>10 DEF PromoteLook, FindingTypes, LinksLive, Live
<1>11. ASSUME NEW c \in Call, PromoteSearch(c) PROVE FindingTypes' /\ LinksLive'
  <2>1. call[c].of \in Finding /\ \A f \in Finding : PromotedTo(f) \subseteq Issue
    BY <1>11, CallFields DEF PromoteSearch, At, Promotions, PromotedTo, MadeFrom, FindingTypes
  <2> QED
    BY <1>9, <1>11, <2>1 DEF PromoteSearch, FindingTypes, LinksLive, Live
<1>12. ASSUME NEW c \in Call, NEW i \in Issue, PromoteCreate(c, i) PROVE FindingTypes' /\ LinksLive'
  <2>1. call[c].of \in Finding
    BY <1>12, CallFields DEF PromoteCreate, At, Promotions
  <2>2. issue' \in [Live \cup {i} -> IssueStates] /\ DOMAIN issue' = Live \cup {i}
    BY <1>12, <2>1 DEF PromoteCreate, FindingTypes, IssueStates, Live
  <2> QED
    BY <1>9, <1>12, <2>1, <2>2 DEF PromoteCreate, FindingTypes, LinksLive, Live
<1>13. ASSUME NEW c \in Call, PromoteLink(c) PROVE FindingTypes' /\ LinksLive'
  <2>1. call[c].of \in Finding /\ call[c].issue \in Issue \cup {None}
    BY <1>13, CallFields DEF PromoteLink, At, Promotions
  <2> QED
    BY <1>13, <2>1 DEF PromoteLink, FindingTypes, LinksLive, Live, FindingStates
<1>14. ASSUME PersonStep PROVE FindingTypes' /\ LinksLive'
  <2>1. ASSUME NEW f \in Finding, NEW status \in FindingStatus, Triage(f, status)
        PROVE  FindingTypes' /\ LinksLive'
    BY <2>1 DEF Triage, FindingTypes, LinksLive, Live, FindingStates
  <2>2. ASSUME NEW f \in Finding, NEW i \in Issue, Link(f, i) PROVE FindingTypes' /\ LinksLive'
    BY <2>2 DEF Link, FindingTypes, LinksLive, Live, FindingStates
  <2>3. ASSUME NEW i \in Live, PersonCloses(i) \/ PersonReopens(i) \/ ClaimOrRelease(i)
        PROVE  FindingTypes' /\ LinksLive'
    <3>1. PICK new \in IssueStates : SetIssue(i, new)
      BY <2>3 DEF PersonCloses, PersonReopens, ClaimOrRelease, FindingTypes, IssueStates
    <3>2. issue' \in [Live -> IssueStates] /\ DOMAIN issue' = Live
      BY <3>1, OneIssueIs DEF SetIssue
    <3> QED
      BY <3>1, <3>2 DEF SetIssue, FindingTypes, LinksLive, Live
  <2>4. ASSUME NEW i \in Live, Delete(i) PROVE FindingTypes' /\ LinksLive'
    BY <2>4 DEF Delete, LinkAfter, FindingTypes, LinksLive, Live, FindingStates
  <2> QED
    BY <1>14, <2>1, <2>2, <2>3, <2>4 DEF PersonStep
<1>15. ASSUME NEW c \in Call, Dies(c) PROVE FindingTypes' /\ LinksLive'
  BY <1>15 DEF Dies, FindingTypes, LinksLive, Live
<1>16. CASE UNCHANGED findingVars
  BY <1>16 DEF findingVars, FindingTypes, LinksLive, Live
<1> QED
  BY <1>1, <1>2, <1>4, <1>6, <1>7, <1>8, <1>10, <1>11, <1>12, <1>13, <1>14, <1>15, <1>16
     DEF FindingNext, CallStep, Starts, CascadeStep, PromoteStep

LEMMA RegressedOpenStep ==
  ASSUME FindingTypes, RegressedOpen, [FindingNext]_findingVars
  PROVE  RegressedOpen'
<1>1. ASSUME NEW c \in Call, NEW seen \in SUBSET Finding, NEW sweep \in BOOLEAN, Ingest(c, seen, sweep)
      PROVE  RegressedOpen'
  BY <1>1 DEF Ingest, AfterIngest, Regressing, Resolved, Swept, Known, TERMINAL_FINDING_STATUSES,
          FindingTypes, FindingStates, RegressedOpen
<1>2. ASSUME NEW c \in Call, NEW old \in SUBSET Finding, CleanStale(c, old)
      PROVE  RegressedOpen'
  BY <1>2 DEF CleanStale, FindingTypes, FindingStates, RegressedOpen
<1>3. ASSUME NEW f \in Finding, NEW status \in FindingStatus, Triage(f, status)
      PROVE  RegressedOpen'
  BY <1>3 DEF Triage, FindingTypes, FindingStates, RegressedOpen
<1>4. ASSUME NEW f \in Finding, NEW i \in Issue, Link(f, i) PROVE RegressedOpen'
  BY <1>4 DEF Link, FindingTypes, FindingStates, RegressedOpen
<1>5. ASSUME NEW i \in Live, Delete(i) PROVE RegressedOpen'
  BY <1>5 DEF Delete, FindingTypes, FindingStates, RegressedOpen
<1>6. ASSUME NEW c \in Call, PromoteLink(c) PROVE RegressedOpen'
  BY <1>6 DEF PromoteLink, FindingTypes, FindingStates, RegressedOpen
<1>7. ASSUME UNCHANGED <<finding, regressed>> PROVE RegressedOpen'
  BY <1>7 DEF RegressedOpen
<1>8. ASSUME NEW c \in Call, CascadeStep(c) PROVE RegressedOpen'
  <2>1. (\E i \in Issue : LookToReopen(c, i)) => UNCHANGED <<finding, regressed>>
    BY DEF LookToReopen
  <2>2. Reopen(c) => UNCHANGED <<finding, regressed>>
    BY DEF Reopen
  <2>3. (\E pair \in Finding \X Issue, allows \in BOOLEAN : Gate(c, pair, allows)) =>
           UNCHANGED <<finding, regressed>>
    BY DEF Gate
  <2>4. CascadeClose(c) => UNCHANGED <<finding, regressed>>
    BY DEF CascadeClose
  <2> QED
    BY <1>7, <1>8, <2>1, <2>2, <2>3, <2>4 DEF CascadeStep
<1>9. ASSUME NEW c \in Call, PromoteStep(c) PROVE RegressedOpen'
  BY <1>6, <1>7, <1>9 DEF PromoteStep, PromoteSearch, PromoteCreate
<1>10. ASSUME NEW c \in Call, CallStep(c) PROVE RegressedOpen'
  BY <1>1, <1>2, <1>7, <1>8, <1>9, <1>10 DEF CallStep, Starts, Dies
<1>11. ASSUME PersonStep PROVE RegressedOpen'
  <2>1. \A i : PersonCloses(i) \/ PersonReopens(i) \/ ClaimOrRelease(i) =>
                   UNCHANGED <<finding, regressed>>
    BY DEF PersonCloses, PersonReopens, ClaimOrRelease, SetIssue
  <2> QED
    BY <1>3, <1>4, <1>5, <1>7, <1>11, <2>1 DEF PersonStep
<1>12. ASSUME NEW c \in Call, NEW f \in Finding, PromoteLook(c, f) PROVE RegressedOpen'
  BY <1>7, <1>12 DEF PromoteLook
<1> QED
  BY <1>7, <1>10, <1>11, <1>12 DEF FindingNext, findingVars

(* A call that moves leaves what the others still have to reopen.                    *)
LEMMA OthersToReopen ==
  ASSUME FindingTypes, NEW c \in Call, NEW new, call' = [call EXCEPT ![c] = new]
  PROVE  call'[c] = new /\ \A d \in Call \ {c} : ToReopen(d)' = ToReopen(d)
BY DEF FindingTypes, ToReopen, Cascading

(* Memory survives a step that hides no more issues, regresses no more findings and   *)
(* keeps what each issue is remembered by.                                         *)
LEMMA CoveredKept ==
  ASSUME RegressionsCovered,
         \A f \in regressed' : f \in regressed /\ finding'[f].issue = finding[f].issue,
         \A f \in regressed' : Hidden(finding[f].issue)' =>
            /\ Hidden(finding'[f].issue)
            /\ Remembered(finding'[f].issue) => Remembered(finding[f].issue)'
  PROVE  RegressionsCovered'
BY DEF RegressionsCovered

(* Every way the debts, the calls at work and the deaths can carry a memory on.       *)
LEMMA RememberedKept ==
  ASSUME NEW i, Remembered(i), NEW c \in Call,
         \A d \in Call \ {c} : ToReopen(d)' = ToReopen(d),
         i \in ToReopen(c) => Remembered(i)',
         "reopen" \in issue[i].debts => "reopen" \in issue'[i].debts,
         forgotten \subseteq forgotten'
  PROVE  Remembered(i)'
BY DEF Remembered

LEMMA IngestCovers ==
  ASSUME FindingInv, NEW c \in Call, NEW seen \in SUBSET Finding, NEW sweep \in BOOLEAN,
         Ingest(c, seen, sweep)
  PROVE  RegressionsCovered'
<1> DEFINE reopens == {finding[f].issue : f \in Regressing(seen)} \ {None}
           closes == {<<f, finding[f].issue>> : f \in {g \in {f \in Swept(seen, sweep) :
                         ~Resolved(f) /\ finding[f].issue # None} : finding[g].issue \notin reopens}}
<1>1. reopens \in SUBSET Issue
  BY DEF FindingInv, FindingTypes, FindingStates, Regressing
<1>2. closes \in SUBSET (Finding \X Issue)
  BY DEF FindingInv, FindingTypes, FindingStates, Swept, Known
<1>3. call[c] = Idle /\ call' = [call EXCEPT ![c] = Cascade(reopens, closes)]
  BY DEF Ingest
<1>4. \A f \in Finding : finding'[f].issue = finding[f].issue
  BY DEF Ingest, AfterIngest, FindingInv, FindingTypes, FindingStates
<1>5. \A f \in regressed' : f \in regressed \/ f \in Regressing(seen)
  BY DEF Ingest
<1>6. \A f \in Regressing(seen) : finding[f].issue # None => finding[f].issue \in reopens
  OBVIOUS
<1>7. UNCHANGED <<issue, forgotten>> /\ \A i : Hidden(i)' = Hidden(i)
  BY DEF Ingest, Hidden, Live
<1> HIDE DEF reopens, closes
<1>8. ToReopen(c) = {} /\ reopens \subseteq ToReopen(c)'
  BY <1>1, <1>2, <1>3, CascadeIs, CallFields DEF FindingInv, FindingTypes, ToReopen, Cascading
<1>9. \A d \in Call \ {c} : ToReopen(d)' = ToReopen(d)
  BY <1>3, OthersToReopen DEF FindingInv
<1>10. \A i : Remembered(i) => Remembered(i)'
  BY <1>7, <1>8, <1>9 DEF Remembered
<1>11. ASSUME NEW f \in regressed', Hidden(finding[f].issue)' PROVE Remembered(finding[f].issue)'
  <2> DEFINE i == finding[f].issue
  <2>1. f \in Finding /\ finding'[f].issue = i /\ Hidden(i)
    BY <1>4, <1>5, <1>7, <1>11 DEF FindingInv, FindingTypes, Regressing
  <2>2. i # None
    BY <2>1, FindingAssumption DEF Hidden, FindingInv, FindingTypes
  <2>3. CASE f \in regressed
    BY <1>10, <2>1, <2>3 DEF FindingInv, RegressionsCovered
  <2>4. CASE f \in Regressing(seen)
    BY <1>6, <1>8, <2>1, <2>2, <2>4 DEF Remembered
  <2> QED
    BY <1>5, <1>11, <2>3, <2>4
<1> QED
  BY <1>11 DEF RegressionsCovered

LEMMA LookCovers ==
  ASSUME FindingInv, NEW c \in Call, NEW i \in Issue, LookToReopen(c, i)
  PROVE  RegressionsCovered'
<1>1. FindingTypes /\ Cascading(c) /\ call[c] \in Cascades /\ call[c].chosen = None
  BY CallFields DEF LookToReopen, FindingInv
<1>2. ToReopen(c) = call[c].reopens
  BY <1>1, FindingAssumption DEF ToReopen
<1>3. UNCHANGED <<finding, regressed, issue, forgotten>> /\ \A j : Hidden(j)' = Hidden(j)
  BY DEF LookToReopen, Hidden, Live
<1>4. \A j \in call[c].reopens : Hidden(j) => j \in ToReopen(c)'
  <2>1. CASE Reopens(i)
    <3>1. call' = [call EXCEPT ![c] = [call[c] EXCEPT !.reopens = call[c].reopens \ {i}, !.chosen = i]]
      BY <1>1, <2>1 DEF LookToReopen, FindingTypes
    <3>2. call'[c] = [call[c] EXCEPT !.reopens = call[c].reopens \ {i}, !.chosen = i]
      BY <3>1, OthersToReopen, <1>1
    <3>3. call'[c].does = "cascade" /\ call'[c].reopens = call[c].reopens \ {i} /\ call'[c].chosen = i
      BY <1>1, <3>2 DEF Cascades
    <3> QED
      BY <3>3 DEF ToReopen, Cascading
  <2>2. CASE ~Reopens(i)
    <3>1. call' = [call EXCEPT ![c] = Cascade(call[c].reopens \ {i}, call[c].closes)]
      BY <2>2 DEF LookToReopen
    <3>2. call'[c] = Cascade(call[c].reopens \ {i}, call[c].closes)
      BY <3>1, OthersToReopen, <1>1
    <3>3. call[c].reopens \ {i} \in SUBSET Issue /\ call[c].closes \in SUBSET (Finding \X Issue)
      BY <1>1 DEF Cascades
    <3>4. call[c].reopens \ {i} \subseteq ToReopen(c)'
      BY <3>2, <3>3, CascadeIs DEF ToReopen, Cascading
    <3> QED
      BY <2>2, <3>4 DEF Reopens, Hidden
  <2> QED
    BY <2>1, <2>2
<1>5. \A d \in Call \ {c} : ToReopen(d)' = ToReopen(d)
  BY <1>1, OthersToReopen DEF LookToReopen
<1>6. \A j : Hidden(j) /\ Remembered(j) => Remembered(j)'
  BY <1>2, <1>3, <1>4, <1>5 DEF Remembered
<1> QED
  BY <1>3, <1>6 DEF FindingInv, RegressionsCovered

LEMMA ProceedsWithReopens ==
  ASSUME FindingTypes, NEW c \in Call, Cascading(c), Proceed(c)
  PROVE  /\ \A d \in Call \ {c} : ToReopen(d)' = ToReopen(d)
         /\ call[c].reopens \subseteq ToReopen(c)'
<1>1. call[c].reopens \in SUBSET Issue /\ call[c].closes \in SUBSET (Finding \X Issue)
  BY CallFields DEF Cascades
<1>2. call'[c] = Cascade(call[c].reopens, call[c].closes)
  BY OthersToReopen DEF Proceed
<1>3. call[c].reopens \subseteq ToReopen(c)'
  BY <1>1, <1>2, CascadeIs DEF ToReopen, Cascading
<1> QED
  BY <1>3, OthersToReopen DEF Proceed

LEMMA ReopenCovers ==
  ASSUME FindingInv, NEW c \in Call, Reopen(c)
  PROVE  RegressionsCovered'
<1>0. PICK i \in Issue : i = call[c].chosen
  BY DEF Reopen
<1>1. FindingTypes /\ Cascading(c) /\ Proceed(c) /\ UNCHANGED <<finding, regressed, forgotten>>
  BY DEF Reopen, FindingInv
<1>2. ToReopen(c) \subseteq call[c].reopens \cup {i}
  BY <1>0 DEF ToReopen
<1>3. \/ i \in Live /\ issue' = [issue EXCEPT ![i].done = FALSE]
      \/ Indebt(i, "reopen")
  BY <1>0 DEF Reopen
<1>4. \A d \in Call \ {c} : ToReopen(d)' = ToReopen(d)
  BY <1>1, ProceedsWithReopens
<1>5. call[c].reopens \subseteq ToReopen(c)'
  BY <1>1, ProceedsWithReopens
<1>6. /\ \A j : Hidden(j)' => Hidden(j)
      /\ Hidden(i)' => "reopen" \in issue'[i].debts
      /\ \A j \in Live : issue[j].debts \subseteq issue'[j].debts
  <2>1. CASE i \in Live /\ issue' = [issue EXCEPT ![i].done = FALSE]
    <3>0. issue \in [Live -> IssueStates]
      BY <1>1 DEF FindingTypes
    <3>1. issue'[i].done = FALSE /\ DOMAIN issue' = Live /\ issue'[i].debts = issue[i].debts
          /\ \A j \in Live \ {i} : issue'[j] = issue[j]
      BY <2>1, <3>0 DEF IssueStates
    <3>2. ~Hidden(i)' /\ \A j : j # i => Hidden(j)' = Hidden(j)
      BY <3>1 DEF Hidden, Live
    <3>3. \A j \in Live : issue[j].debts \subseteq issue'[j].debts
      BY <3>1
    <3> QED
      BY <3>2, <3>3
  <2>2. CASE Indebt(i, "reopen")
    <3>1. /\ DOMAIN issue' = Live
          /\ \A j \in Live : /\ issue'[j].done = issue[j].done /\ issue'[j].closer = issue[j].closer
                            /\ issue[j].debts \subseteq issue'[j].debts
          /\ i \in Live => "reopen" \in issue'[i].debts
      BY <1>1, <2>2, IndebtIs
    <3> QED
      BY <3>1 DEF Hidden, Live
  <2> QED
    BY <1>3, <2>1, <2>2
<1>7. ASSUME NEW j, Hidden(j)', Remembered(j) PROVE Remembered(j)'
  <2>1. CASE j = i
    BY <1>6, <1>7, <2>1 DEF Remembered
  <2>2. CASE j # i /\ j \in ToReopen(c)
    BY <1>2, <1>5, <2>2 DEF Remembered
  <2>3. "reopen" \in issue[j].debts => "reopen" \in issue'[j].debts
    BY <1>6, <1>7 DEF Hidden
  <2> QED
    BY <1>1, <1>4, <1>7, <2>1, <2>2, <2>3 DEF Remembered
<1> QED
  BY <1>1, <1>6, <1>7 DEF FindingInv, RegressionsCovered

LEMMA GateCovers ==
  ASSUME FindingInv, NEW c \in Call, NEW pair \in Finding \X Issue, NEW allows \in BOOLEAN,
         Gate(c, pair, allows)
  PROVE  RegressionsCovered'
<1>1. FindingTypes /\ Cascading(c) /\ call[c] \in Cascades /\ call[c].chosen = None /\ call[c].reopens = {}
      /\ UNCHANGED <<finding, regressed, forgotten>>
  BY CallFields DEF Gate, FindingInv
<1>2. ToReopen(c) = {}
  BY <1>1, FindingAssumption DEF ToReopen
<1>3. \E new : call' = [call EXCEPT ![c] = new]
  BY <1>1 DEF Gate, FindingTypes
<1>4. \A d \in Call \ {c} : ToReopen(d)' = ToReopen(d)
  BY <1>1, <1>3, OthersToReopen
<1>5. /\ \A j : Hidden(j)' => Hidden(j)
      /\ \A j \in Live : issue[j].debts \subseteq issue'[j].debts
  <2>1. CASE allows
    BY <2>1 DEF Gate, Hidden, Live
  <2>2. CASE ~allows
    BY <1>1, <2>2, IndebtIs DEF Gate, Hidden, Live
  <2> QED
    BY <2>1, <2>2
<1>6. \A j : Hidden(j)' /\ Remembered(j) => Remembered(j)'
  BY <1>1, <1>2, <1>4, <1>5 DEF Remembered, Hidden
<1> QED
  BY <1>1, <1>5, <1>6 DEF FindingInv, RegressionsCovered

(* What the cascade's own close finds under the lock, and leaves.                     *)
LEMMA CascadeCloseIs ==
  ASSUME FindingTypes, LinksLive, NEW c \in Call, CascadeClose(c)
  PROVE  /\ Cascading(c) /\ Proceed(c) /\ UNCHANGED <<finding, regressed, forgotten>>
         /\ DOMAIN issue' = Live
         /\ \A j \in Live : issue[j].debts \subseteq issue'[j].debts
         /\ \A j \in Live :
               \/ issue'[j].done = issue[j].done /\ issue'[j].closer = issue[j].closer
               \/ /\ ~issue[j].held /\ Linked(j) # {} /\ \A f \in Linked(j) : ~Undecided(f)
<1> DEFINE f == call[c].chosen[1]
           i == call[c].chosen[2]
<1>1. Cascading(c) /\ Proceed(c) /\ UNCHANGED <<finding, regressed, forgotten>> /\ f \in Finding /\ i \in Issue
  BY DEF CascadeClose
<1> HIDE DEF f, i
<1>2. CloseHolds(f, i) => /\ i \in Live /\ Linked(i) # {}
                          /\ \A g \in Linked(i) : ~Undecided(g)
  <2>1. CloseHolds(f, i) => f \in Linked(i) /\ ~Undecided(f)
    BY <1>1 DEF CloseHolds, Linked, Resolved, Undecided, TERMINAL_FINDING_STATUSES
  <2> QED
    BY <1>1, <2>1, FindingAssumption DEF CloseHolds, LinksLive, Linked
<1>3. \/ UNCHANGED issue
      \/ CloseHolds(f, i) /\ ~issue[i].held /\ issue' = [issue EXCEPT ![i].done = TRUE, ![i].closer = "cascade"]
      \/ Indebt(i, "close")
  BY DEF CascadeClose, f, i
<1>4. CASE UNCHANGED issue
  BY <1>1, <1>4 DEF Live
<1>5. CASE CloseHolds(f, i) /\ ~issue[i].held
           /\ issue' = [issue EXCEPT ![i].done = TRUE, ![i].closer = "cascade"]
  <2>0. issue \in [Live -> IssueStates]
    BY DEF FindingTypes
  <2>1. DOMAIN issue' = Live /\ issue'[i].debts = issue[i].debts
        /\ \A j \in Live \ {i} : issue'[j] = issue[j]
    BY <1>2, <1>5, <2>0 DEF IssueStates
  <2> QED
    BY <1>1, <1>2, <1>5, <2>1
<1>6. CASE Indebt(i, "close")
  BY <1>1, <1>6, IndebtIs
<1> QED
  BY <1>3, <1>4, <1>5, <1>6

LEMMA CascadeCloseCovers ==
  ASSUME FindingInv, NEW c \in Call, CascadeClose(c)
  PROVE  RegressionsCovered'
<1>1. FindingTypes /\ LinksLive /\ RegressedOpen
  BY DEF FindingInv
<1>2. \A d \in Call \ {c} : ToReopen(d)' = ToReopen(d)
  BY <1>1, CascadeCloseIs, ProceedsWithReopens
<1>3. ToReopen(c) \subseteq ToReopen(c)'
  <2>1. ToReopen(c) = call[c].reopens
    BY <1>1, CascadeCloseIs, FindingAssumption DEF CascadeClose, ToReopen
  <2> QED
    BY <1>1, <2>1, CascadeCloseIs, ProceedsWithReopens
<1>4. DOMAIN issue' = Live /\ UNCHANGED <<finding, regressed, forgotten>>
      /\ \A j \in Live : issue[j].debts \subseteq issue'[j].debts
  BY <1>1, CascadeCloseIs
<1>5. ASSUME NEW f \in regressed, Hidden(finding[f].issue)' PROVE Hidden(finding[f].issue)
  <2> DEFINE i == finding[f].issue
  <2>1. f \in Linked(i) /\ Undecided(f)
    BY <1>1 DEF FindingTypes, Linked, Undecided, RegressedOpen, TERMINAL_FINDING_STATUSES
  <2>2. i \in Live /\ issue'[i].done /\ issue'[i].closer = "cascade"
    BY <1>4, <1>5 DEF Hidden, Live
  <2>3. issue'[i].done = issue[i].done /\ issue'[i].closer = issue[i].closer
    BY <1>1, <2>1, <2>2, CascadeCloseIs
  <2> QED
    BY <2>2, <2>3 DEF Hidden
<1>6. \A j \in Live : Remembered(j) => Remembered(j)'
  BY <1>2, <1>3, <1>4 DEF Remembered
<1> QED
  BY <1>4, <1>5, <1>6 DEF FindingInv, RegressionsCovered, Hidden

(* A call that starts, leaves or goes on with a promotion has nothing to reopen.      *)
LEMMA PromotionsReopenNothing ==
  ASSUME FindingTypes, NEW c \in Call, ~Cascading(c),
         NEW f, NEW stage, NEW i, Promoting(c, f, stage, i) \/ call' = [call EXCEPT ![c] = Idle]
  PROVE  \A d \in Call : ToReopen(d)' = ToReopen(d)
<1>1. PICK new : new.does # "cascade" /\ call' = [call EXCEPT ![c] = new]
  <2>1. CASE Promoting(c, f, stage, i)
    <3>1. [does |-> "promote", of |-> f, stage |-> stage, issue |-> i].does # "cascade"
      OBVIOUS
    <3> QED
      BY <2>1, <3>1 DEF Promoting
  <2>2. CASE call' = [call EXCEPT ![c] = Idle]
    BY <2>2 DEF Idle
  <2> QED
    BY <2>1, <2>2
<1>2. call'[c] = new /\ \A d \in Call \ {c} : ToReopen(d)' = ToReopen(d)
  BY <1>1, OthersToReopen
<1> QED
  BY <1>1, <1>2 DEF ToReopen, Cascading

LEMMA PromotionCovers ==
  ASSUME FindingInv, NEW c \in Call, NEW i \in Issue, NEW f \in Finding,
         PromoteLook(c, f) \/ PromoteSearch(c) \/ PromoteCreate(c, i) \/ PromoteLink(c)
  PROVE  RegressionsCovered'
<1>1. FindingTypes
  BY DEF FindingInv
<1>2. ~Cascading(c)
  BY DEF PromoteLook, PromoteSearch, PromoteCreate, PromoteLink, At, Cascading, Idle
<1>3. \E g, stage, j : Promoting(c, g, stage, j) \/ call' = [call EXCEPT ![c] = Idle]
  BY DEF PromoteLook, PromoteSearch, PromoteCreate, PromoteLink
<1>4. \A d \in Call : ToReopen(d)' = ToReopen(d)
  BY <1>1, <1>2, <1>3, PromotionsReopenNothing
<1>5. UNCHANGED forgotten /\ Live \subseteq DOMAIN issue' /\ \A j \in Live : issue'[j] = issue[j]
  BY DEF PromoteLook, PromoteSearch, PromoteCreate, PromoteLink, Live
<1>6. \A j : Hidden(j)' => Hidden(j)
  BY <1>5 DEF PromoteLook, PromoteSearch, PromoteCreate, PromoteLink, Live, Hidden
<1>7. \A g \in regressed' : g \in regressed /\ finding'[g].issue = finding[g].issue
  BY <1>1 DEF PromoteLook, PromoteSearch, PromoteCreate, PromoteLink, FindingTypes
<1>8. \A j \in Live : Remembered(j) => Remembered(j)'
  BY <1>4, <1>5 DEF Remembered
<1> QED
  BY <1>6, <1>7, <1>8 DEF FindingInv, RegressionsCovered, Hidden

LEMMA PersonCovers ==
  ASSUME FindingInv, PersonStep
  PROVE  RegressionsCovered'
<1>1. FindingTypes /\ issue \in [Live -> IssueStates]
  BY DEF FindingInv, FindingTypes
<1>2. UNCHANGED <<call, forgotten>>
  <2>1. \A i : PersonCloses(i) \/ PersonReopens(i) \/ ClaimOrRelease(i) => UNCHANGED <<call, forgotten>>
    BY DEF PersonCloses, PersonReopens, ClaimOrRelease, SetIssue
  <2> QED
    BY <2>1 DEF PersonStep, Triage, Link, Delete
<1>3. \A d \in Call : ToReopen(d)' = ToReopen(d)
  BY <1>2 DEF ToReopen, Cascading
<1>4. ASSUME NEW f \in Finding, regressed' = regressed \ {f},
             \A g \in Finding \ {f} : finding'[g].issue = finding[g].issue, UNCHANGED issue
      PROVE  RegressionsCovered'
  BY <1>1, <1>2, <1>3, <1>4 DEF RegressionsCovered, Hidden, Remembered, Live, FindingInv, FindingTypes
<1>5. ASSUME NEW f \in Finding, NEW status \in FindingStatus, Triage(f, status) PROVE RegressionsCovered'
  BY <1>1, <1>4, <1>5 DEF Triage, FindingTypes
<1>6. ASSUME NEW f \in Finding, NEW i \in Issue, Link(f, i) PROVE RegressionsCovered'
  BY <1>1, <1>4, <1>6 DEF Link, FindingTypes
<1>7. ASSUME NEW i \in Live, PersonCloses(i) \/ PersonReopens(i) \/ ClaimOrRelease(i)
      PROVE  RegressionsCovered'
  <2>1. PICK new : new \in IssueStates /\ SetIssue(i, new) /\ new.debts = issue[i].debts
                   /\ (new.done /\ new.closer = "cascade" => issue[i].done /\ issue[i].closer = "cascade")
    <3>1. issue[i] \in IssueStates
      BY <1>1
    <3>2. ASSUME PersonCloses(i) PROVE SetIssue(i, [issue[i] EXCEPT !.done = TRUE, !.closer = "person"])
      BY <3>2 DEF PersonCloses
    <3>3. ASSUME PersonReopens(i) PROVE SetIssue(i, [issue[i] EXCEPT !.done = FALSE])
      BY <3>3 DEF PersonReopens
    <3>4. ASSUME ClaimOrRelease(i) PROVE SetIssue(i, [issue[i] EXCEPT !.held = ~issue[i].held])
      BY <3>4 DEF ClaimOrRelease
    <3>5. [issue[i] EXCEPT !.done = TRUE, !.closer = "person"] \in IssueStates
          /\ [issue[i] EXCEPT !.done = TRUE, !.closer = "person"].debts = issue[i].debts
          /\ [issue[i] EXCEPT !.done = TRUE, !.closer = "person"].closer = "person"
      BY <3>1 DEF IssueStates
    <3>6. [issue[i] EXCEPT !.done = FALSE] \in IssueStates
          /\ [issue[i] EXCEPT !.done = FALSE].debts = issue[i].debts
          /\ ~[issue[i] EXCEPT !.done = FALSE].done
      BY <3>1 DEF IssueStates
    <3>7. [issue[i] EXCEPT !.held = ~issue[i].held] \in IssueStates
          /\ [issue[i] EXCEPT !.held = ~issue[i].held].debts = issue[i].debts
          /\ [issue[i] EXCEPT !.held = ~issue[i].held].done = issue[i].done
          /\ [issue[i] EXCEPT !.held = ~issue[i].held].closer = issue[i].closer
      BY <3>1 DEF IssueStates
    <3> QED
      BY <1>7, <3>2, <3>3, <3>4, <3>5, <3>6, <3>7
  <2>2. DOMAIN issue' = Live /\ issue'[i] = new /\ \A j \in Live \ {i} : issue'[j] = issue[j]
    BY <1>1, <2>1, OneIssueIs DEF SetIssue
  <2>3. UNCHANGED <<finding, regressed>>
    BY <2>1 DEF SetIssue
  <2>4. \A j : Hidden(j)' => Hidden(j)
    BY <2>1, <2>2 DEF Hidden, Live
  <2>5. \A j \in Live : Remembered(j) => Remembered(j)'
    BY <1>2, <1>3, <2>1, <2>2 DEF Remembered
  <2> QED
    BY <2>3, <2>4, <2>5 DEF FindingInv, RegressionsCovered, Hidden
<1>8. ASSUME NEW i \in Live, Delete(i) PROVE RegressionsCovered'
  <2>1. \A f \in Finding : finding'[f].issue = LinkAfter(f, i)
    BY <1>1, <1>8 DEF Delete, FindingTypes, FindingStates
  <2>2. UNCHANGED regressed /\ DOMAIN issue' = Live \ {i} /\ \A j \in Live \ {i} : issue'[j] = issue[j]
    BY <1>8 DEF Delete
  <2>3. \A j : Hidden(j)' => Hidden(j) /\ j # i /\ j # None
    BY <1>1, <2>2, FindingAssumption DEF Hidden, Live, FindingTypes
  <2>4. \A j \in Live \ {i} : Remembered(j) => Remembered(j)'
    BY <1>2, <1>3, <2>2 DEF Remembered
  <2>5. ASSUME NEW f \in regressed', Hidden(finding[f].issue)' PROVE Remembered(finding[f].issue)'
    <3>1. f \in regressed /\ f \in Finding
      BY <1>1, <2>2 DEF FindingTypes
    <3>2. finding'[f].issue = finding[f].issue
      BY <2>1, <2>3, <2>5, <3>1 DEF LinkAfter
    <3>3. Hidden(finding[f].issue) /\ finding[f].issue \in Live \ {i}
      BY <2>3, <2>5, <3>2 DEF Hidden
    <3> QED
      BY <2>4, <3>1, <3>2, <3>3 DEF FindingInv, RegressionsCovered
  <2> QED
    BY <2>5 DEF RegressionsCovered
<1> QED
  BY <1>5, <1>6, <1>7, <1>8 DEF PersonStep

LEMMA DeathCovers ==
  ASSUME FindingInv, NEW c \in Call, Dies(c)
  PROVE  RegressionsCovered'
<1>1. FindingTypes /\ call' = [call EXCEPT ![c] = Idle] /\ UNCHANGED <<finding, issue, regressed>>
  BY DEF Dies, FindingInv
<1>2. \A d \in Call \ {c} : ToReopen(d)' = ToReopen(d)
  BY <1>1, OthersToReopen
<1>3. ToReopen(c) \subseteq forgotten' /\ forgotten \subseteq forgotten'
  <2>1. Cascading(c) => call[c].reopens \subseteq Issue
    BY <1>1, CallFields DEF Cascades
  <2> QED
    BY <2>1 DEF Dies, ToReopen
<1>4. \A j : Remembered(j) => Remembered(j)'
  BY <1>1, <1>2, <1>3 DEF Remembered
<1> QED
  BY <1>1, <1>4 DEF FindingInv, RegressionsCovered, Hidden, Live

LEMMA CleanCovers ==
  ASSUME FindingInv, NEW c \in Call, NEW old \in SUBSET Finding, CleanStale(c, old)
  PROVE  RegressionsCovered'
<1>1. FindingTypes /\ ~Cascading(c) /\ UNCHANGED <<issue, regressed, forgotten>>
  BY DEF CleanStale, FindingInv, Cascading, Idle
<1>2. \A f \in Finding : finding'[f].issue = finding[f].issue
  BY <1>1 DEF CleanStale, FindingTypes, FindingStates
<1>3. \A d \in Call \ {c} : ToReopen(d)' = ToReopen(d)
  BY <1>1, OthersToReopen DEF CleanStale
<1>4. \A j : Remembered(j) => Remembered(j)'
  BY <1>1, <1>3 DEF Remembered, ToReopen
<1> QED
  BY <1>1, <1>2, <1>4 DEF FindingInv, FindingTypes, RegressionsCovered, Hidden, Live

LEMMA FindingInitially == FindingInit => FindingInv
<1> SUFFICES ASSUME FindingInit PROVE FindingInv
  OBVIOUS
<1>1. DOMAIN issue = {}
  BY DEF FindingInit
<1> QED
  BY <1>1
     DEF FindingInit, FindingInv, FindingTypes, FindingStates, LinksLive, RegressedOpen,
         RegressionsCovered, Live, Idle

LEMMA FindingInductive == FindingInv /\ [FindingNext]_findingVars => FindingInv'
<1> SUFFICES ASSUME FindingInv, [FindingNext]_findingVars PROVE FindingInv'
  OBVIOUS
<1>1. FindingTypes' /\ LinksLive' /\ RegressedOpen'
  BY FindingTypesStep, RegressedOpenStep DEF FindingInv
<1>2. ASSUME NEW c \in Call, CallStep(c) PROVE RegressionsCovered'
  <2>1. ASSUME CascadeStep(c) PROVE RegressionsCovered'
    BY <2>1, LookCovers, ReopenCovers, GateCovers, CascadeCloseCovers DEF CascadeStep
  <2>2. ASSUME PromoteStep(c) PROVE RegressionsCovered'
    <3>1. c \in Call /\ \E f \in Finding : TRUE
      BY <2>2, CallFields DEF PromoteStep, PromoteSearch, PromoteCreate, PromoteLink, At, Promotions, FindingInv
    <3>2. ASSUME Issue = {} PROVE RegressionsCovered'
      BY <1>1, <3>2, FindingAssumption DEF FindingTypes, RegressionsCovered, Hidden
    <3>3. ASSUME Issue # {} PROVE RegressionsCovered'
      BY <2>2, <3>1, <3>3, PromotionCovers DEF PromoteStep
    <3> QED
      BY <3>2, <3>3
  <2> QED
    BY <1>2, <2>1, <2>2, IngestCovers, CleanCovers, DeathCovers DEF CallStep, Starts
<1>3. ASSUME NEW c \in Call, NEW f \in Finding, PromoteLook(c, f) PROVE RegressionsCovered'
  <2>1. ASSUME Issue = {} PROVE RegressionsCovered'
    BY <1>1, <2>1, FindingAssumption DEF FindingTypes, RegressionsCovered, Hidden
  <2> QED
    BY <1>3, <2>1, PromotionCovers
<1>4. ASSUME UNCHANGED findingVars PROVE RegressionsCovered'
  <2>1. UNCHANGED <<finding, issue, call, regressed, forgotten>>
    BY <1>4 DEF findingVars
  <2>2. \A d : ToReopen(d)' = ToReopen(d)
    BY <2>1 DEF ToReopen, Cascading
  <2>3. \A j : Remembered(j) => Remembered(j)'
    BY <2>1, <2>2 DEF Remembered
  <2> QED
    BY <2>1, <2>3 DEF FindingInv, RegressionsCovered, Hidden, Live
<1> QED
  BY <1>1, <1>2, <1>3, <1>4, PersonCovers DEF FindingInv, FindingNext

LEMMA FindingInvariant == FindingSpec => []FindingInv
BY FindingInitially, FindingInductive, PTL DEF FindingSpec

(* A defect that a scan sees again is never lost behind the cascade's own closure,    *)
(* whatever order reopens, closes, people and deletions come in: only the death of a  *)
(* call between its commit and its reopens can lose one, and that is on record.       *)
THEOREM RegressionsAlwaysRemembered == FindingSpec => []RegressionRemembered
<1>1. FindingInv => RegressionRemembered
  BY RegressionRestated DEF FindingInv
<1> QED
  BY <1>1, FindingInvariant, PTL

(* Only the cascade's transaction closes with its mark, and only what it may.         *)
LEMMA CascadeClosesAtAStep ==
  ASSUME FindingInv, FindingNext, NEW i \in Live \cap DOMAIN issue',
         ~issue[i].done, issue'[i].done, issue'[i].closer = "cascade"
  PROVE  ~issue[i].held /\ Linked(i) # {} /\ \A f \in Linked(i) : ~Undecided(f)
<1>1. FindingTypes /\ LinksLive /\ issue \in [Live -> IssueStates]
  BY DEF FindingInv, FindingTypes
<1>2. \A j, kind : ~(kind \in {"reopen", "close"} /\ Indebt(j, kind))
  BY <1>1, IndebtIs
<1>3. issue' # issue
  OBVIOUS
<1>4. \A c \in Call : ~Reopen(c)
  <2> SUFFICES ASSUME NEW c \in Call, Reopen(c) PROVE FALSE
    OBVIOUS
  <2>1. PICK j \in Live : issue' = [issue EXCEPT ![j].done = FALSE]
    BY <1>2 DEF Reopen
  <2>2. issue'[j].done = FALSE /\ \A k \in Live \ {j} : issue'[k] = issue[k]
    BY <1>1, <2>1 DEF IssueStates
  <2> QED
    BY <2>2
<1>5. \A c \in Call, pair \in Finding \X Issue, allows \in BOOLEAN : ~Gate(c, pair, allows)
  BY <1>2, <1>3 DEF Gate
<1>6. \A c \in Call, j \in Issue : ~PromoteCreate(c, j)
  BY DEF PromoteCreate, Live
<1>7. ~PersonStep
  <2>1. ASSUME NEW j \in Live, PersonCloses(j) PROVE FALSE
    <3>1. issue'[j].closer = "person" /\ \A k \in Live \ {j} : issue'[k] = issue[k]
      BY <1>1, <2>1 DEF PersonCloses, SetIssue, IssueStates
    <3> QED
      BY <3>1
  <2>2. ASSUME NEW j \in Live, PersonReopens(j) PROVE FALSE
    <3>1. issue'[j].done = FALSE /\ \A k \in Live \ {j} : issue'[k] = issue[k]
      BY <1>1, <2>2 DEF PersonReopens, SetIssue, IssueStates
    <3> QED
      BY <3>1
  <2>3. ASSUME NEW j \in Live, ClaimOrRelease(j) PROVE FALSE
    <3>1. issue'[j].done = issue[j].done /\ \A k \in Live \ {j} : issue'[k] = issue[k]
      BY <1>1, <2>3 DEF ClaimOrRelease, SetIssue, IssueStates
    <3> QED
      BY <3>1
  <2>4. ASSUME NEW j \in Live, Delete(j) PROVE FALSE
    BY <2>4 DEF Delete, Live
  <2> QED
    BY <1>3, <2>1, <2>2, <2>3, <2>4 DEF PersonStep, Triage, Link
<1>8. \E c \in Call : CascadeClose(c)
  <2>1. PICK c \in Call : CallStep(c) \/ \E f \in Finding : PromoteLook(c, f)
    BY <1>7 DEF FindingNext
  <2>2. ~Starts(c) /\ ~Dies(c) /\ \A f \in Finding : ~PromoteLook(c, f)
    BY <1>3 DEF Starts, Ingest, CleanStale, Dies, PromoteLook
  <2>3. ~PromoteStep(c)
    BY <1>3, <1>6 DEF PromoteStep, PromoteSearch, PromoteLink
  <2>4. \A j \in Issue : ~LookToReopen(c, j)
    BY <1>3 DEF LookToReopen
  <2>5. CascadeStep(c)
    BY <2>1, <2>2, <2>3 DEF CallStep
  <2>6. ~\E pair \in Finding \X Issue, allows \in BOOLEAN : Gate(c, pair, allows)
    BY <1>5
  <2>7. ~Reopen(c)
    BY <1>4
  <2> QED
    BY <2>4, <2>5, <2>6, <2>7, Zenon DEF CascadeStep
<1> QED
  BY <1>1, <1>8, CascadeCloseIs

(* A cascade never closes an issue with an active defect left, nor under an agent,    *)
(* whatever happened between the sweep that caused it and its transaction.            *)
THEOREM CascadesAlwaysJustified == FindingSpec => CascadeCloseJustified
<1>1. FindingInv /\ [FindingNext]_findingVars =>
        [\A i \in Live \cap DOMAIN issue' :
           ~issue[i].done /\ issue'[i].done /\ issue'[i].closer = "cascade" =>
               /\ ~issue[i].held /\ \A f \in Linked(i) : ~Undecided(f)
               /\ Linked(i) # {}]_findingVars
  BY CascadeClosesAtAStep
<1> QED
  BY <1>1, FindingInvariant, PTL DEF FindingSpec, CascadeCloseJustified

-----------------------------------------------------------------------------
(* Promotions, one at a time                                                      *)

OnePromotion ==
    \A c, d \in Call : call[c].does = "promote" /\ call[d].does = "promote" => c = d

\* A promotion about to create found no issue, and only a promotion makes one.
SearchStillTrue == \A c \in Call : At(c, "create") => MadeFrom(call[c].of) = {}

MadeOnce == \A f \in Finding : \A i, j \in MadeFrom(f) : i = j

PromoteInv == FindingTypes /\ LinksLive /\ SearchStillTrue /\ MadeOnce

(* Nothing but a creation adds to the issues made from a finding.                    *)
LEMMA OriginsKept ==
  ASSUME FindingTypes, LinksLive, [FindingNext]_findingVars,
         \A c \in Call, i \in Issue : ~PromoteCreate(c, i)
  PROVE  \A f \in Finding : MadeFrom(f)' \subseteq MadeFrom(f)
<1> DEFINE Kept == DOMAIN issue' \subseteq Live /\ \A j \in DOMAIN issue' : issue'[j].origin = issue[j].origin
<1>0. issue \in [Live -> IssueStates]
  BY DEF FindingTypes
<1> SUFFICES Kept
  BY DEF MadeFrom, Live
<1>1. ASSUME UNCHANGED issue PROVE Kept
  BY <1>1 DEF Live
<1>2. ASSUME NEW i, NEW kind \in {"reopen", "close"}, Indebt(i, kind) PROVE Kept
  BY <1>0, <1>2 DEF Indebt, IssueStates
<1>3. ASSUME NEW i \in Live, NEW new, new.origin = issue[i].origin, issue' = [issue EXCEPT ![i] = new] PROVE Kept
  BY <1>0, <1>3
<1>4. ASSUME NEW c \in Call, CascadeStep(c) PROVE Kept
  <2>1. ASSUME Reopen(c) PROVE Kept
    <3>1. ASSUME NEW i \in Live, issue' = [issue EXCEPT ![i].done = FALSE] PROVE Kept
      <4>1. issue' = [issue EXCEPT ![i] = [issue[i] EXCEPT !.done = FALSE]]
        BY <1>0, <3>1
      <4>2. [issue[i] EXCEPT !.done = FALSE].origin = issue[i].origin
        BY <1>0 DEF IssueStates
      <4> QED
        BY <1>3, <4>1, <4>2
    <3> QED
      BY <1>2, <2>1, <3>1 DEF Reopen
  <2>2. ASSUME CascadeClose(c) PROVE Kept
    <3>1. ASSUME NEW i \in Live, issue' = [issue EXCEPT ![i].done = TRUE, ![i].closer = "cascade"] PROVE Kept
      <4>1. issue' = [issue EXCEPT ![i] = [issue[i] EXCEPT !.done = TRUE, !.closer = "cascade"]]
        BY <1>0, <3>1
      <4>2. [issue[i] EXCEPT !.done = TRUE, !.closer = "cascade"].origin = issue[i].origin
        BY <1>0 DEF IssueStates
      <4> QED
        BY <1>3, <4>1, <4>2
    <3>2. CloseHolds(call[c].chosen[1], call[c].chosen[2]) => call[c].chosen[2] \in Live
      BY <2>2, FindingAssumption DEF CascadeClose, CloseHolds, LinksLive
    <3> QED
      BY <1>1, <1>2, <2>2, <3>1, <3>2 DEF CascadeClose
  <2>3. ASSUME NEW pair \in Finding \X Issue, NEW allows \in BOOLEAN, Gate(c, pair, allows) PROVE Kept
    BY <1>1, <1>2, <2>3 DEF Gate
  <2>4. ASSUME NEW i \in Issue, LookToReopen(c, i) PROVE Kept
    BY <1>1, <2>4 DEF LookToReopen
  <2> QED
    BY <1>4, <2>1, <2>2, <2>3, <2>4 DEF CascadeStep
<1>5. ASSUME PersonStep PROVE Kept
  <2>1. ASSUME NEW i \in Live, PersonCloses(i) PROVE Kept
    <3>1. [issue[i] EXCEPT !.done = TRUE, !.closer = "person"].origin = issue[i].origin
      BY <1>0 DEF IssueStates
    <3> QED
      BY <1>3, <2>1, <3>1 DEF PersonCloses, SetIssue
  <2>2. ASSUME NEW i \in Live, PersonReopens(i) PROVE Kept
    <3>1. [issue[i] EXCEPT !.done = FALSE].origin = issue[i].origin
      BY <1>0 DEF IssueStates
    <3> QED
      BY <1>3, <2>2, <3>1 DEF PersonReopens, SetIssue
  <2>3. ASSUME NEW i \in Live, ClaimOrRelease(i) PROVE Kept
    <3>1. [issue[i] EXCEPT !.held = ~issue[i].held].origin = issue[i].origin
      BY <1>0 DEF IssueStates
    <3> QED
      BY <1>3, <2>3, <3>1 DEF ClaimOrRelease, SetIssue
  <2>4. ASSUME NEW i \in Live, Delete(i) PROVE Kept
    BY <2>4 DEF Delete
  <2>5. ASSUME NEW f, NEW x, Triage(f, x) \/ Link(f, x) PROVE Kept
    BY <1>1, <2>5 DEF Triage, Link
  <2> QED
    BY <1>5, <2>1, <2>2, <2>3, <2>4, <2>5 DEF PersonStep
<1>6. ASSUME NEW c \in Call, Starts(c) \/ PromoteStep(c) \/ Dies(c) PROVE Kept
  BY <1>1, <1>6 DEF Starts, Ingest, CleanStale, PromoteStep, PromoteSearch, PromoteLink, Dies
<1>7. ASSUME NEW c \in Call, NEW f \in Finding, PromoteLook(c, f) PROVE Kept
  BY <1>1, <1>7 DEF PromoteLook
<1>8. ASSUME UNCHANGED findingVars PROVE Kept
  BY <1>1, <1>8 DEF findingVars
<1> HIDE DEF Kept
<1> QED
  BY <1>4, <1>5, <1>6, <1>7, <1>8 DEF FindingNext, CallStep

(* A step of a call changes that call alone; only a search that found no issue makes  *)
(* its promotion ready to create.                                                  *)
LEMMA PromotionsMove ==
  ASSUME FindingTypes, NEW c \in Call, CallStep(c) \/ \E f \in Finding : PromoteLook(c, f)
  PROVE  /\ \A d \in Call \ {c} : call'[d] = call[d]
         /\ At(c, "create")' => PromoteSearch(c) /\ call'[c].of = call[c].of /\ PromotedTo(call[c].of) = {}
<1>0. call \in [Call -> {Idle} \cup Cascades \cup Promotions]
  BY DEF FindingTypes
<1> DEFINE Moved(new) == call' = [call EXCEPT ![c] = new]
           Apart == /\ \A d \in Call \ {c} : call'[d] = call[d]
                    /\ ~At(c, "create")'
<1>1. ASSUME NEW new, Moved(new), new.does # "promote" \/ new.stage # "create" PROVE Apart
  BY <1>0, <1>1 DEF At
<1>2. ASSUME NEW reopens, NEW closes, Moved(Cascade(reopens, closes)) PROVE Apart
  <2>1. Cascade(reopens, closes).does # "promote"
    BY DEF Cascade, Idle
  <2> QED
    BY <1>1, <1>2, <2>1
<1>3. ASSUME Moved(Idle) PROVE Apart
  BY <1>1, <1>3 DEF Idle
<1>4. ASSUME NEW f, NEW stage, NEW i, Promoting(c, f, stage, i)
      PROVE  /\ \A d \in Call \ {c} : call'[d] = call[d]
             /\ call'[c].of = f /\ (stage # "create" => Apart)
  BY <1>0, <1>4 DEF Promoting, At
<1>5. ASSUME NEW old \in Cascades, NEW new, Moved(new), new.does = old.does PROVE Apart
  BY <1>1, <1>5 DEF Cascades
<1>6. ASSUME Starts(c) \/ Dies(c) PROVE Apart
  <2>1. ASSUME NEW seen \in SUBSET Finding, NEW sweep \in BOOLEAN, Ingest(c, seen, sweep) PROVE Apart
    BY <1>2, <2>1 DEF Ingest
  <2>2. ASSUME NEW old \in SUBSET Finding, CleanStale(c, old) PROVE Apart
    BY <1>2, <2>2 DEF CleanStale
  <2>3. ASSUME Dies(c) PROVE Apart
    BY <1>3, <2>3 DEF Dies
  <2> QED
    BY <1>6, <2>1, <2>2, <2>3 DEF Starts
<1>7. ASSUME CascadeStep(c) PROVE Apart
  <2>1. call[c] \in Cascades
    <3>1. Cascading(c)
      <4>1. (\E i \in Issue : LookToReopen(c, i)) => Cascading(c)
        BY DEF LookToReopen
      <4>2. (\E pair \in Finding \X Issue, allows \in BOOLEAN : Gate(c, pair, allows)) => Cascading(c)
        BY DEF Gate
      <4>3. Reopen(c) \/ CascadeClose(c) => Cascading(c)
        BY DEF Reopen, CascadeClose
      <4> QED
        BY <1>7, <4>1, <4>2, <4>3, Zenon DEF CascadeStep
    <3> QED
      BY <3>1, CallFields
  <2>2. ASSUME NEW i \in Issue, LookToReopen(c, i) PROVE Apart
    <3>1. CASE Reopens(i)
      <4>1. Moved([call[c] EXCEPT !.reopens = call[c].reopens \ {i}, !.chosen = i])
        BY <2>2, <3>1 DEF LookToReopen
      <4>2. [call[c] EXCEPT !.reopens = call[c].reopens \ {i}, !.chosen = i].does = call[c].does
        BY <2>1 DEF Cascades
      <4> QED
        BY <1>5, <2>1, <4>1, <4>2
    <3>2. CASE ~Reopens(i)
      BY <1>2, <2>2, <3>2 DEF LookToReopen
    <3> QED
      BY <3>1, <3>2
  <2>3. ASSUME NEW pair \in Finding \X Issue, NEW allows \in BOOLEAN, Gate(c, pair, allows) PROVE Apart
    <3>1. CASE allows
      <4>1. Moved([call[c] EXCEPT !.closes = call[c].closes \ {pair}, !.chosen = pair])
        BY <1>0, <2>3, <3>1 DEF Gate
      <4>2. [call[c] EXCEPT !.closes = call[c].closes \ {pair}, !.chosen = pair].does = call[c].does
        BY <2>1 DEF Cascades
      <4> QED
        BY <1>5, <2>1, <4>1, <4>2
    <3>2. CASE ~allows
      BY <1>2, <2>3, <3>2 DEF Gate
    <3> QED
      BY <3>1, <3>2
  <2>4. ASSUME Reopen(c) \/ CascadeClose(c) PROVE Apart
    BY <1>2, <2>4 DEF Reopen, CascadeClose, Proceed
  <2> QED
    BY <1>7, <2>2, <2>3, <2>4 DEF CascadeStep
<1>8. ASSUME NEW i \in Issue, PromoteCreate(c, i) PROVE Apart
  BY <1>4, <1>8 DEF PromoteCreate
<1>9. ASSUME PromoteLink(c) PROVE Apart
  BY <1>3, <1>9 DEF PromoteLink
<1>10. ASSUME NEW f \in Finding, PromoteLook(c, f) PROVE Apart
  BY <1>4, <1>10 DEF PromoteLook
<1>11. ASSUME PromoteSearch(c)
       PROVE  /\ \A d \in Call \ {c} : call'[d] = call[d]
              /\ Apart \/ (call'[c].of = call[c].of /\ PromotedTo(call[c].of) = {})
  <2>1. ASSUME NEW i \in PromotedTo(call[c].of), Promoting(c, call[c].of, "link", i) PROVE Apart
    BY <1>4, <2>1
  <2>2. ASSUME Promoting(c, call[c].of, "create", None)
        PROVE  call'[c].of = call[c].of /\ \A d \in Call \ {c} : call'[d] = call[d]
    BY <1>4, <2>2
  <2> HIDE DEF Apart
  <2>3. Apart => \A d \in Call \ {c} : call'[d] = call[d]
    BY DEF Apart
  <2> QED
    BY <1>11, <2>1, <2>2, <2>3 DEF PromoteSearch
<1> HIDE DEF Moved
<1> QED
  BY <1>6, <1>7, <1>8, <1>9, <1>10, <1>11 DEF CallStep, PromoteStep

LEMMA PromoteInvStep ==
  ASSUME PromoteInv, OnePromotion, [FindingNext]_findingVars
  PROVE  PromoteInv'
<1>1. FindingTypes /\ LinksLive /\ FindingTypes' /\ LinksLive'
  BY FindingTypesStep DEF PromoteInv
<1>2. ASSUME NEW c \in Call, NEW i \in Issue, PromoteCreate(c, i) PROVE SearchStillTrue' /\ MadeOnce'
  <2>1. PICK f \in Finding : f = call[c].of
    BY <1>1, <1>2, CallFields DEF PromoteCreate, At, Promotions
  <2>2. At(c, "create") /\ MadeFrom(f) = {}
    BY <1>2, <2>1 DEF PromoteCreate, PromoteInv, SearchStillTrue
  <2>3. /\ DOMAIN issue' = Live \cup {i} /\ i \notin Live /\ issue'[i].origin = f
        /\ \A j \in Live : issue'[j] = issue[j]
    BY <1>2, <2>1 DEF PromoteCreate
  <2>4. MadeFrom(f)' \subseteq {i} /\ \A g \in Finding \ {f} : MadeFrom(g)' = MadeFrom(g)
    BY <2>2, <2>3 DEF MadeFrom, Live
  <2>5. \A d \in Call : ~At(d, "create")'
    <3>1. CallStep(c)
      BY <1>2 DEF CallStep, PromoteStep
    <3>2. ~PromoteSearch(c)
      BY <2>2 DEF PromoteSearch, At
    <3>3. ~At(c, "create")' /\ \A d \in Call \ {c} : call'[d] = call[d]
      BY <1>1, <3>1, <3>2, PromotionsMove
    <3> QED
      BY <2>2, <3>3 DEF At, OnePromotion
  <2> QED
    BY <2>4, <2>5 DEF PromoteInv, SearchStillTrue, MadeOnce
<1>3. ASSUME \A c \in Call, i \in Issue : ~PromoteCreate(c, i) PROVE SearchStillTrue' /\ MadeOnce'
  <2>1. \A f \in Finding : MadeFrom(f)' \subseteq MadeFrom(f)
    BY <1>1, <1>3, OriginsKept
  <2>2. ASSUME NEW d \in Call, At(d, "create")'
        PROVE  call'[d].of \in Finding /\ call'[d].of = call[d].of /\ MadeFrom(call[d].of) = {}
    <3>1. call'[d].of \in Finding
      BY <1>1, <2>2 DEF At, FindingTypes, Promotions, Cascades, Idle
    <3>2. ASSUME call'[d] = call[d] PROVE MadeFrom(call[d].of) = {}
      BY <2>2, <3>2 DEF At, PromoteInv, SearchStillTrue
    <3>3. ASSUME NEW c \in Call, CallStep(c) \/ \E f \in Finding : PromoteLook(c, f)
          PROVE  call'[d].of = call[d].of /\ MadeFrom(call[d].of) = {}
      BY <1>1, <2>2, <3>2, <3>3, PromotionsMove DEF PromotedTo
    <3>4. ASSUME PersonStep \/ UNCHANGED findingVars PROVE call' = call
      <4>1. \A i : PersonCloses(i) \/ PersonReopens(i) \/ ClaimOrRelease(i) \/ Delete(i) => UNCHANGED call
        BY DEF PersonCloses, PersonReopens, ClaimOrRelease, SetIssue, Delete
      <4> QED
        BY <3>4, <4>1 DEF PersonStep, Triage, Link, findingVars
    <3> QED
      BY <3>1, <3>2, <3>3, <3>4 DEF FindingNext
  <2>3. SearchStillTrue'
    BY <2>1, <2>2 DEF SearchStillTrue
  <2>4. MadeOnce'
    BY <2>1 DEF PromoteInv, MadeOnce
  <2> QED
    BY <2>3, <2>4
<1> QED
  BY <1>1, <1>2, <1>3 DEF PromoteInv

(* A finding whose promotions never overlap becomes one issue, however often they    *)
(* die half way and are repeated, and whatever else happens to finding and issue.    *)
THEOREM PromotionsApartPromoteOnce == FindingSpec /\ []OnePromotion => []PromotedOnce
<1>1. FindingInit => PromoteInv
  <2> SUFFICES ASSUME FindingInit PROVE PromoteInv
    OBVIOUS
  <2>1. FindingTypes /\ LinksLive
    BY FindingInitially DEF FindingInv
  <2>2. Live = {} /\ \A c \in Call : call[c] = Idle
    BY DEF FindingInit, Live
  <2> QED
    BY <2>1, <2>2 DEF PromoteInv, SearchStillTrue, MadeOnce, MadeFrom, At, Idle
<1>2. PromoteInv /\ OnePromotion /\ [FindingNext]_findingVars => PromoteInv'
  BY PromoteInvStep
<1>3. PromoteInv => PromotedOnce
  <2> SUFFICES ASSUME PromoteInv, NEW f \in Finding PROVE Cardinality(MadeFrom(f)) <= 1
    BY DEF PromotedOnce
  <2>1. CASE MadeFrom(f) = {}
    BY <2>1, FS_EmptySet
  <2>2. CASE \E i : MadeFrom(f) = {i}
    BY <2>2, FS_Singleton
  <2> QED
    BY <2>1, <2>2 DEF PromoteInv, MadeOnce
<1> QED
  BY <1>1, <1>2, <1>3, PTL DEF FindingSpec
=============================================================================
