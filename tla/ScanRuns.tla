------------------------------- MODULE ScanRuns -------------------------------
(* The scan_runs table (src/filigree/db_scans.py) and the calls that move it: a   *)
(* trigger reserves a run, spawns the scanner process and marks the run running   *)
(* (mcp_tools/scanners.py, cli_commands/scanners.py), the results the process      *)
(* posts complete it (db_files.py), a reconciling status query fails it when the   *)
(* process is gone.  A status update is two steps, a read that validates the       *)
(* transition and a compare-and-swap; between them other updates may commit.       *)
EXTENDS Naturals, FiniteSets

CONSTANTS
    Run,            \* scan run ids (random, never issued twice)
    Target,         \* what a trigger asks for: a scanner and a file
    PendingStale,   \* SCAN_PENDING_STALE_SECONDS, in ticks
    Cooldown        \* SCAN_COOLDOWN_SECONDS, in ticks

ASSUME ScanAssumption ==
    PendingStale \in Nat /\ Cooldown \in Nat /\ Cooldown <= PendingStale

VARIABLES
    run,        \* scan_runs: a function on the reserved runs
    trigger,    \* [run -> how far the call that reserved it has come]
    process,    \* [run -> its scanner process]
    arrived,    \* runs whose results were posted and not yet used to complete them
    updating    \* status updates between their read and their write

scanVars == <<run, trigger, process, arrived, updating>>

Reserved == DOMAIN run
RunStatus == {"pending", "running", "completed", "failed", "timeout"}
TriggerPhase == {"none", "reserved", "spawned", "recorded", "tracking", "polling",
                 "failing", "returned"}
ProcessState == {"none", "alive", "posted", "exited", "died"}

(* _VALID_TRANSITIONS                                                            *)
ValidNext == [s \in RunStatus |->
    IF s = "pending" THEN {"running", "failed"}
    ELSE IF s = "running" THEN {"completed", "failed", "timeout"} ELSE {}]
TerminalRun == {s \in RunStatus : ValidNext[s] = {}}

(* age is the time since updated_at, as far as any window reaches.               *)
MaxAge == PendingStale + 1
ScanRow == [target : Target, status : RunStatus, age : 0..MaxAge]
Older(age) == IF age = MaxAge THEN age ELSE age + 1

-----------------------------------------------------------------------------
(* check_scan_cooldown                                                          *)

Active(r) ==
    \/ run[r].status = "pending" /\ run[r].age <= PendingStale
    \/ run[r].status = "running"

(* Mistake: one window for rows of every status.                                 *)
BlocksWhileRecent(r) == run[r].status # "failed" /\ run[r].age <= Cooldown

Blocks(r) == Active(r) \/ (run[r].status = "completed" /\ run[r].age <= Cooldown)

Blocking(t) == {r \in Reserved : run[r].target = t /\ Blocks(r)}

-----------------------------------------------------------------------------
(* update_scan_run_status                                                       *)

Update(r, by, to) == [run |-> r, by |-> by, seen |-> run[r].status, to |-> to]

MayBecome(r, to) == to \in ValidNext[run[r].status]

(* Mistake: the row is written whatever became of it since the read.             *)
WriteBlindly(u) == TRUE

(* WHERE id = ? AND status = ?                                                   *)
SwapHolds(u) == run[u.run].status = u.seen

TriggersUpdate(r) == {u \in updating : u.run = r /\ u.by = "trigger"}

Commit(u) ==
    /\ u \in updating /\ SwapHolds(u)
    /\ run' = [run EXCEPT ![u.run].status = u.to, ![u.run].age = 0]
    /\ updating' = updating \ {u}
    /\ trigger' = IF u.by # "trigger" THEN trigger
                  ELSE [trigger EXCEPT ![u.run] =
                           IF u.to = "running" THEN "polling" ELSE "returned"]
    /\ UNCHANGED <<process, arrived>>

(* A stale transition: the callers log it and go on.                             *)
Refuse(u) ==
    /\ u \in updating /\ ~SwapHolds(u)
    /\ updating' = updating \ {u}
    /\ trigger' = IF u \in TriggersUpdate(u.run) /\ u.to = "failed"
                  THEN [trigger EXCEPT ![u.run] = "returned"] ELSE trigger
    /\ UNCHANGED <<run, process, arrived>>

(* _mark_scan_run_failed: the trigger's last write, which an invalid transition or *)
(* a database error also ends.                                                   *)
Failing(r) ==
    \/ /\ MayBecome(r, "failed")
       /\ updating' = (updating \ TriggersUpdate(r)) \cup {Update(r, "trigger", "failed")}
       /\ trigger' = [trigger EXCEPT ![r] = "failing"]
    \/ /\ updating' = updating \ TriggersUpdate(r)
       /\ trigger' = [trigger EXCEPT ![r] = "returned"]

-----------------------------------------------------------------------------
(* One trigger call                                                              *)

(* reserve_scan_run, under the writer lock.                                      *)
Reserve(r, t) ==
    /\ trigger[r] = "none" /\ Blocking(t) = {}
    /\ run' = [q \in Reserved \cup {r} |->
                  IF q = r THEN [target |-> t, status |-> "pending", age |-> 0]
                  ELSE run[q]]
    /\ trigger' = [trigger EXCEPT ![r] = "reserved"]
    /\ UNCHANGED <<process, arrived, updating>>

Spawn(r) ==
    /\ trigger[r] = "reserved"
    /\ process' = [process EXCEPT ![r] = "alive"]
    /\ trigger' = [trigger EXCEPT ![r] = "spawned"]
    /\ UNCHANGED <<run, arrived, updating>>

SpawnFails(r) ==
    /\ trigger[r] = "reserved" /\ Failing(r)
    /\ UNCHANGED <<run, process, arrived>>

(* set_scan_run_spawn_info, which also refreshes updated_at.                     *)
RecordSpawn(r) ==
    /\ trigger[r] = "spawned"
    /\ run' = [run EXCEPT ![r].age = 0]
    /\ trigger' = [trigger EXCEPT ![r] = "recorded"]
    /\ UNCHANGED <<process, arrived, updating>>

BeginRunning(r) ==
    /\ trigger[r] = "recorded" /\ MayBecome(r, "running")
    /\ updating' = updating \cup {Update(r, "trigger", "running")}
    /\ trigger' = [trigger EXCEPT ![r] = "tracking"]
    /\ UNCHANGED <<run, process, arrived>>

(* Mistake: the scanner is left to itself.                                       *)
LeftRunning(p) == p

Killed(p) == IF p = "exited" THEN p ELSE "died"

(* A database error on the way to running: the process is killed.                *)
TrackingFails(r) ==
    /\ trigger[r] \in {"spawned", "recorded", "tracking", "polling"}
    /\ process' = [process EXCEPT ![r] = Killed(@)]
    /\ Failing(r)
    /\ UNCHANGED <<run, arrived>>

(* After a moment the call looks whether the process exited with an error.       *)
Poll(r) ==
    /\ trigger[r] = "polling"
    /\ IF process[r] = "died" THEN Failing(r)
       ELSE UNCHANGED updating /\ trigger' = [trigger EXCEPT ![r] = "returned"]
    /\ UNCHANGED <<run, process, arrived>>

(* The server of the call dies; the scanner has a session of its own.            *)
TriggerDies(r) ==
    /\ trigger[r] \notin {"none", "returned"}
    /\ trigger' = [trigger EXCEPT ![r] = "returned"]
    /\ updating' = updating \ TriggersUpdate(r)
    /\ UNCHANGED <<run, process, arrived>>

-----------------------------------------------------------------------------
(* The scanner process, its results, and status queries                          *)

Post(r) ==
    /\ process[r] = "alive"
    /\ process' = [process EXCEPT ![r] = "posted"]
    /\ arrived' = arrived \cup {r}
    /\ UNCHANGED <<run, trigger, updating>>

Exit(r) ==
    /\ process[r] \in {"alive", "posted"}
    /\ process' \in {[process EXCEPT ![r] = "exited"], [process EXCEPT ![r] = "died"]}
    /\ UNCHANGED <<run, trigger, arrived, updating>>

(* The end of process_scan_results: complete the run, or warn that it cannot be. *)
Complete(r) ==
    /\ r \in arrived
    /\ arrived' = arrived \ {r}
    /\ updating' = updating \cup
          (IF MayBecome(r, "completed") THEN {Update(r, "results", "completed")} ELSE {})
    /\ UNCHANGED <<run, trigger, process>>

(* reconcile_scan_status: a running run whose process is gone has failed.        *)
Reconcile(r) ==
    /\ r \in Reserved /\ run[r].status = "running"
    /\ process[r] \in {"exited", "died"}
    /\ updating' = updating \cup {Update(r, "query", "failed")}
    /\ UNCHANGED <<run, trigger, process, arrived>>

(* A trigger takes well under a second from reservation to running, PendingStale *)
(* is a quarter of an hour: time does not outrun a trigger that is still at it.   *)
InTime(r) ==
    trigger[r] \in {"reserved", "spawned", "recorded", "tracking"} /\
    run[r].status = "pending" => run[r].age < PendingStale

Tick ==
    /\ \A r \in Reserved : InTime(r)
    /\ \E r \in Reserved : run[r].age < MaxAge
    /\ run' = [r \in Reserved |-> [run[r] EXCEPT !.age = Older(@)]]
    /\ UNCHANGED <<trigger, process, arrived, updating>>

-----------------------------------------------------------------------------
ScanInit ==
    /\ run = [r \in {} |-> 0]
    /\ trigger = [r \in Run |-> "none"] /\ process = [r \in Run |-> "none"]
    /\ arrived = {} /\ updating = {}

TriggerStep(r) ==
    \/ \E t \in Target : Reserve(r, t)
    \/ Spawn(r) \/ SpawnFails(r) \/ RecordSpawn(r) \/ BeginRunning(r)
    \/ TrackingFails(r) \/ Poll(r) \/ TriggerDies(r)

ScannerStep(r) == Post(r) \/ Exit(r)

UpdateStep == \E u \in updating : Commit(u) \/ Refuse(u)

ScanNext ==
    \/ \E r \in Run : TriggerStep(r) \/ ScannerStep(r) \/ Complete(r) \/ Reconcile(r)
    \/ UpdateStep \/ Tick
ScanSpec == ScanInit /\ [][ScanNext]_scanVars

-----------------------------------------------------------------------------
(* Properties                                                                    *)

ScanTypeOK ==
    /\ run \in [Reserved -> ScanRow]
    /\ trigger \in [Run -> TriggerPhase] /\ process \in [Run -> ProcessState]
    /\ Reserved = {r \in Run : trigger[r] # "none"} /\ arrived \subseteq Reserved
    /\ updating \subseteq [run : Reserved, by : {"trigger", "results", "query"},
                           seen : RunStatus, to : RunStatus]
    /\ \A u \in updating : u.to \in ValidNext[u.seen]

(* Two triggers never scan one file with one scanner at once: at most one run of  *)
(* a target is running or freshly reserved, crashes and failed spawns included.   *)
OneActiveScan ==
    \A r, q \in Reserved :
        Active(r) /\ Active(q) /\ run[r].target = run[q].target => r = q

(* The first outcome of a run stands: completion by results, failure seen by the  *)
(* trigger and failure seen by a status query never overwrite one another.        *)
FirstOutcomeStands ==
    [][\A r \in Reserved :
          run[r].status \in TerminalRun => run'[r].status = run[r].status]_scanVars

(* A failed run frees its file at once, without a cooldown: its scanner must be   *)
(* gone by then, or it works on beside the next one.                             *)
FailedLeavesNoScanner ==
    \A r \in Reserved :
        run[r].status = "failed" => process[r] \in {"none", "exited", "died"}

=============================================================================
