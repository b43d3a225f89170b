------------------------------ MODULE WriterLock ------------------------------
(* How a write reaches the database: the transaction decorator and the busy retry *)
(* of src/filigree/db_base.py, the hand-written transactions beside them, the     *)
(* connection they run on (core.py) and the lock that keeps the tool calls of one  *)
(* MCP server apart (mcp_server.py).  SQLite is external: one connection at a time *)
(* holds the write lock, an uncommitted transaction is gone when its connection    *)
(* is.  A task is one caller: a tool call of a server, a command, a worker.        *)
EXTENDS Naturals, FiniteSets

CONSTANTS
    Task,           \* callers: tool calls, commands, workers
    Conn,           \* database connections, one per process or worker thread
    ConnOf,         \* [Task -> its connection]; tool calls of a server share one
    Nobody,         \* the holder of a free lock
    Attempts,       \* attempts of _retry_busy
    Calls           \* [Task -> the number of its calls and their kinds] (bound)

ASSUME WriterAssumption ==
    /\ ConnOf \in [Task -> Conn]
    /\ Nobody \notin Task /\ Nobody \notin Conn
    /\ Attempts \in Nat \ {0}
    /\ Calls \in [Task -> [count : Nat, kinds : SUBSET {"decorated", "hand", "plain", "bare"}]]

(* The ways a write method is written:                                            *)
(*   decorated  @_retry_busy over @_in_immediate_tx; its first statement may stand  *)
(*              for a decorated method that it calls with _skip_begin              *)
(*   hand       _begin_immediate, commit, rollback on error (reserve_scan_run, ...) *)
(*   plain      statements, commit, rollback on error (label_subtree, create_plan)  *)
(*   bare       one statement and commit (set_scan_run_spawn_info, ...)             *)
Kind == {"decorated", "hand", "plain", "bare"}
Part == {"first", "last"}
CallId == UNION {{t} \X (1..Calls[t].count) : t \in Task}

VARIABLES
    db,         \* committed rows: <<call, attempt, part>>
    pending,    \* [Conn -> uncommitted rows]
    inTx,       \* [Conn -> conn.in_transaction]
    writer,     \* the connection that holds SQLite's write lock, or Nobody
    toolLock,   \* [Conn -> the task inside the server's per-database lock]
    task,       \* [Task -> where it is]
    answer      \* [CallId -> what the caller knows]

writerVars == <<db, pending, inTx, writer, toolLock, task, answer>>

Immediate(k) == k \in {"decorated", "hand"}
Retried(k) == k = "decorated"
RollsBack(k) == k # "bare"
Statements(k) == IF k = "bare" THEN 1 ELSE 2
Effect(k, s) == IF k = "bare" THEN Part ELSE IF s = 1 THEN {"first"} ELSE {"last"}

TaskState == [pc : {"out", "in", "begin", "body", "commit", "return", "leave"},
              writes : Nat,             \* calls made so far
              kind : Kind, try : 1..Attempts,
              stmt : 0..2,              \* statements executed in this attempt
              failed : BOOLEAN]         \* an earlier call of this tool call raised

WriterInit ==
    /\ db = {}
    /\ pending = [k \in Conn |-> {}]
    /\ inTx = [k \in Conn |-> FALSE]
    /\ writer = Nobody
    /\ toolLock = [k \in Conn |-> Nobody]
    /\ task = [t \in Task |-> [pc |-> "out", writes |-> 0, kind |-> "bare",
                               try |-> 1, stmt |-> 0, failed |-> FALSE]]
    /\ answer = [w \in CallId |-> "none"]

-----------------------------------------------------------------------------
At(t, pc) == task[t].pc = pc
(* A call is over: what it was doing is forgotten.                                *)
CallOver(t, pc) == [task[t] EXCEPT !.pc = pc, !.kind = "bare", !.try = 1, !.stmt = 0]
Goto(t, pc) == task' = [task EXCEPT ![t].pc = pc]
Current(t) == <<t, task[t].writes>>
Answers(t, a) == answer' = [answer EXCEPT ![Current(t)] = a]
LockFree(k) == writer \in {Nobody, k}

(* The transaction of a connection ends and its lock is given back.               *)
EndTx(k) ==
    /\ pending' = [pending EXCEPT ![k] = {}]
    /\ inTx' = [inTx EXCEPT ![k] = FALSE]
    /\ writer' = IF writer = k THEN Nobody ELSE writer

(* conn.rollback()                                                                *)
Rollback(k) == EndTx(k)

(* A tool call of the server waits for the other one on the same database.         *)
Enter(t) ==
    /\ At(t, "out") /\ task[t].writes < Calls[t].count
    /\ toolLock[ConnOf[t]] = Nobody
    /\ toolLock' = [toolLock EXCEPT ![ConnOf[t]] = t]
    /\ Goto(t, "in")
    /\ UNCHANGED <<db, pending, inTx, writer, answer>>

(* The handler calls a write method, perhaps after one that raised.                *)
CallWrite(t, k) ==
    /\ At(t, "in") /\ task[t].writes < Calls[t].count /\ k \in Calls[t].kinds
    /\ task' = [task EXCEPT ![t].pc = "begin", ![t].writes = @ + 1, ![t].kind = k,
                            ![t].try = 1, ![t].stmt = 0]
    /\ answer' = [answer EXCEPT ![<<t, task[t].writes + 1>>] = "asked"]
    /\ UNCHANGED <<db, pending, inTx, writer, toolLock>>

(* The call raises: the caller is told, and may go on.                             *)
Raise(t) ==
    /\ Answers(t, "raised")
    /\ task' = [task EXCEPT ![t] = [CallOver(t, "in") EXCEPT !.failed = TRUE]]

(* Mistake: a busy database is tried until it is not.                              *)
TryForEver(t) == TRUE

(* for attempt in range(attempts): the last one re-raises.                         *)
TryAgain(t) == task[t].try < Attempts

(* A lock error sleeps and starts the whole call over while attempts are left.      *)
RetryOrRaise(t, transient) ==
    IF transient /\ Retried(task[t].kind) /\ TryAgain(t)
    THEN /\ task' = [task EXCEPT ![t].pc = "begin", ![t].stmt = 0,
                                 ![t].try = IF @ < Attempts THEN @ + 1 ELSE @]
         /\ UNCHANGED answer
    ELSE Raise(t)

(* Outside a transaction, _begin_immediate takes the write lock; the first         *)
(* statement of the other methods only opens a deferred transaction.               *)
BeginTx(t) ==
    LET c == ConnOf[t] IN
    /\ At(t, "begin")
    /\ IF Immediate(task[t].kind)
       THEN ~inTx[c] /\ writer = Nobody /\ writer' = c
       ELSE UNCHANGED writer
    /\ inTx' = [inTx EXCEPT ![c] = TRUE]
    /\ Goto(t, "body")
    /\ UNCHANGED <<db, pending, toolLock, answer>>

(* "nested transaction not supported": raised before anything is touched.          *)
RefuseNested(t) ==
    /\ At(t, "begin") /\ Immediate(task[t].kind) /\ inTx[ConnOf[t]]
    /\ Raise(t)
    /\ UNCHANGED <<db, pending, inTx, writer, toolLock>>

(* BEGIN IMMEDIATE waits out busy_timeout behind another connection.                *)
BeginBusy(t) ==
    LET c == ConnOf[t] IN
    /\ At(t, "begin") /\ Immediate(task[t].kind) /\ ~inTx[c]
    /\ writer # Nobody
    /\ RetryOrRaise(t, TRUE)
    /\ UNCHANGED <<db, pending, inTx, writer, toolLock>>

(* Mistake: a method called with _skip_begin commits what it has done.              *)
CommitsAtEveryReturn(t) == TRUE

(* The pass-through of _skip_begin: only the outermost call ends the transaction.   *)
CommitsAtReturn(t) == task[t].stmt + 1 = Statements(task[t].kind)

Statement(t) ==
    LET c == ConnOf[t]
        k == task[t].kind
        s == task[t].stmt + 1
    IN  /\ At(t, "body") /\ s <= Statements(k) /\ LockFree(c)
        /\ writer' = c
        /\ inTx' = [inTx EXCEPT ![c] = TRUE]
        /\ pending' = [pending EXCEPT
                ![c] = @ \cup {<<Current(t), task[t].try, p>> : p \in Effect(k, s)}]
        /\ task' = [task EXCEPT ![t].stmt = s,
                       ![t].pc = IF CommitsAtReturn(t) THEN "commit" ELSE "body"]
        /\ UNCHANGED <<db, toolLock, answer>>

(* A statement of a deferred transaction finds the lock taken (transient), or any   *)
(* statement or check of the method raises.                                        *)
BodyFails(t, transient) ==
    LET c == ConnOf[t] IN
    /\ At(t, "body")
    /\ transient => ~LockFree(c) \/ Immediate(task[t].kind)
    /\ IF RollsBack(task[t].kind) THEN Rollback(c) ELSE UNCHANGED <<pending, inTx, writer>>
    /\ RetryOrRaise(t, transient)
    /\ UNCHANGED <<db, toolLock>>

Commit(t) ==
    LET c == ConnOf[t] IN
    /\ At(t, "commit")
    /\ db' = db \cup pending[c]
    /\ EndTx(c)
    /\ Goto(t, IF task[t].stmt = Statements(task[t].kind) THEN "return" ELSE "body")
    /\ UNCHANGED <<toolLock, answer>>

Return(t) ==
    /\ At(t, "return")
    /\ Answers(t, "ok")
    /\ task' = [task EXCEPT ![t] = CallOver(t, "in")]
    /\ UNCHANGED <<db, pending, inTx, writer, toolLock>>

(* SystemExit and KeyboardInterrupt pass the decorators by: no rollback yet.         *)
Interrupt(t) ==
    /\ task[t].pc \in {"begin", "body", "commit", "return"}
    /\ Answers(t, "lost")
    /\ task' = [task EXCEPT ![t] = CallOver(t, "leave")]
    /\ UNCHANGED <<db, pending, inTx, writer, toolLock>>

Finish(t) ==
    /\ At(t, "in")
    /\ Goto(t, "leave")
    /\ UNCHANGED <<db, pending, inTx, writer, toolLock, answer>>

(* Mistake: the connection is left as the last call left it.                       *)
NoSafetyNet(c) == UNCHANGED <<pending, inTx, writer>>

(* The server's finally, a command's __exit__, a worker's borrow: an open           *)
(* transaction is rolled back.                                                     *)
SafetyNet(c) == IF inTx[c] THEN EndTx(c) ELSE UNCHANGED <<pending, inTx, writer>>

Leave(t) ==
    LET c == ConnOf[t] IN
    /\ At(t, "leave")
    /\ SafetyNet(c)
    /\ toolLock' = [toolLock EXCEPT ![c] = Nobody]
    /\ task' = [task EXCEPT ![t].pc = "out", ![t].failed = FALSE]
    /\ UNCHANGED <<db, answer>>

(* A process dies: SQLite drops the transaction of its connection, and nobody       *)
(* answers the calls of its tasks.  It may be started again.                        *)
Crash(c) ==
    LET lost == {w \in CallId : ConnOf[w[1]] = c /\ answer[w] = "asked"} IN
    /\ EndTx(c)
    /\ toolLock' = [toolLock EXCEPT ![c] = Nobody]
    /\ task' = [t \in Task |-> IF ConnOf[t] = c THEN [CallOver(t, "out") EXCEPT !.failed = FALSE]
                                                ELSE task[t]]
    /\ answer' = [w \in CallId |-> IF w \in lost THEN "lost" ELSE answer[w]]
    /\ UNCHANGED db

(* What the scheduler owes a task; the errors, interrupts and crashes are nobody's   *)
(* debt.                                                                           *)
Step(t) ==
    \/ Enter(t) \/ BeginTx(t) \/ RefuseNested(t) \/ BeginBusy(t) \/ Statement(t)
    \/ (~LockFree(ConnOf[t]) /\ BodyFails(t, TRUE))
    \/ Commit(t) \/ Return(t) \/ Finish(t) \/ Leave(t)

Fault(t) == BodyFails(t, TRUE) \/ BodyFails(t, FALSE) \/ Interrupt(t)

WriterNext ==
    \/ \E t \in Task : Step(t) \/ Fault(t) \/ \E k \in Kind : CallWrite(t, k)
    \/ \E c \in Conn : Crash(c)

WriterSpec == WriterInit /\ [][WriterNext]_writerVars

-----------------------------------------------------------------------------
StoredRow == CallId \X (1..Attempts) \X Part

WriterTypeOK ==
    /\ db \subseteq StoredRow /\ pending \in [Conn -> SUBSET StoredRow]
    /\ inTx \in [Conn -> BOOLEAN]
    /\ writer \in Conn \cup {Nobody}
    /\ toolLock \in [Conn -> Task \cup {Nobody}]
    /\ task \in [Task -> TaskState]
    /\ answer \in [CallId -> {"none", "asked", "ok", "raised", "lost"}]

(* A write is atomic and happens at most once, and a call that raised left nothing   *)
(* behind, through retries, composed calls, left-over transactions, interrupts and   *)
(* crashes: the locks implement what AtomicWrites promises.                         *)
Atomic == INSTANCE AtomicWrites WITH Call <- CallId, Version <- 1..Attempts, store <- db
WritesAreAtomic == Atomic!AtomicSpec

(* An open transaction belongs to the tool call inside the lock, and outlives a      *)
(* call only if that call raised: no sibling on the same connection is refused as    *)
(* nested, rolled back or committed because of it (_dispatch_call_tool).             *)
OpenTxHasOwner ==
    \A c \in Conn : inTx[c] =>
        /\ toolLock[c] # Nobody
        /\ \/ task[toolLock[c]].pc \in {"body", "commit", "leave"}
           \/ task[toolLock[c]].failed

(* Every call is answered or its caller is gone, although the lock may be busy each  *)
(* time it is asked for: the retries are bounded and the lock is given back.         *)
CallsAnswered == \A w \in CallId : answer[w] = "asked" ~> answer[w] # "asked"
=============================================================================
