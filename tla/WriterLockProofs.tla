--------------------------- MODULE WriterLockProofs ---------------------------
(* Proofs about WriterLock for any number of tasks, connections, attempts and      *)
(* calls: the transactions, retries and the tool lock implement AtomicWrites.      *)
(* A step of a task touches that task, its connection and its current call; the    *)
(* invariant is a conjunction over tasks and connections, so that a step only has   *)
(* to account for its own (lemma Frame).                                           *)
EXTENDS WriterLock, TLAPS

(* The parts a call has written after s statements.                               *)
Written(k, s) == IF s = 0 THEN {} ELSE IF s = Statements(k) THEN Part ELSE {"first"}

Calling == {"begin", "body", "commit", "return"}
Rows(w, v, P) == {<<w, v, p>> : p \in P}
Absent(w) == \A v \in 1..Attempts, p \in Part : <<w, v, p>> \notin db

(* Only the task inside a connection's lock is anywhere but outside.               *)
Inside(t) == task[t].pc = "out" <=> toolLock[ConnOf[t]] # t

(* The current call of a task is the only one still asked for.                     *)
Asked(t) ==
    /\ task[t].pc \in Calling => /\ task[t].writes \in 1..Calls[t].count
                                 /\ answer[Current(t)] = "asked"
    /\ \A n \in 1..Calls[t].count :
          /\ n > task[t].writes => answer[<<t, n>>] = "none"
          /\ n < task[t].writes \/ task[t].pc \notin Calling => answer[<<t, n>>] # "asked"

(* What is pending on a connection is what the current attempt has written.         *)
Attempt(t) ==
    LET c == ConnOf[t] IN
    /\ task[t].pc \in {"in", "begin", "return"} => pending[c] = {}
    /\ task[t].pc = "begin" => task[t].stmt = 0
    /\ task[t].pc = "body" =>
          /\ task[t].stmt < Statements(task[t].kind)
          /\ pending[c] = Rows(Current(t), task[t].try, Written(task[t].kind, task[t].stmt))
    /\ task[t].pc = "commit" =>
          /\ task[t].stmt = Statements(task[t].kind)
          /\ pending[c] = Rows(Current(t), task[t].try, Part)

(* Nothing of a call is in the database before its commit, all of it after.          *)
Committed(t) ==
    /\ \A n \in 1..Calls[t].count : answer[<<t, n>>] \in {"none", "raised"} => Absent(<<t, n>>)
    /\ task[t].pc \in {"begin", "body", "commit"} => Absent(Current(t))
    /\ task[t].pc = "return" => ~Absent(Current(t))

(* SQLite's lock belongs to an open transaction, and covers whatever is pending;     *)
(* the transaction is that of the task inside.                                     *)
Owned(c) ==
    /\ toolLock[c] # Nobody => ConnOf[toolLock[c]] = c
    /\ pending[c] # {} => writer = c
    /\ writer = c => inTx[c]
    /\ inTx[c] => /\ toolLock[c] # Nobody
                  /\ \/ task[toolLock[c]].pc \in {"body", "commit", "leave"}
                     \/ task[toolLock[c]].failed

WriterInv ==
    /\ WriterTypeOK
    /\ \A t \in Task : Inside(t) /\ Asked(t) /\ Attempt(t) /\ Committed(t)
    /\ \A c \in Conn : Owned(c)

-----------------------------------------------------------------------------
LEMMA WritesOfTasks ==
    /\ \A t \in Task, n \in Nat : <<t, n>> \in CallId <=> n \in 1..Calls[t].count
    /\ \A w \in CallId : w[1] \in Task /\ w[2] \in 1..Calls[w[1]].count /\ w = <<w[1], w[2]>>
    /\ \A t \in Task : ConnOf[t] \in Conn /\ Calls[t].count \in Nat
    /\ 1 \in 1..Attempts
BY WriterAssumption DEF CallId

(* A task that is not outside is alone on its connection.                          *)
LEMMA Alone ==
    ASSUME WriterInv, NEW t \in Task, task[t].pc # "out"
    PROVE  /\ toolLock[ConnOf[t]] = t
           /\ \A u \in Task \ {t} : ConnOf[u] = ConnOf[t] => task[u].pc = "out"
BY DEF WriterInv, Inside

(* What a step of one task leaves alone keeps its part of the invariant.            *)
LEMMA Frame ==
    ASSUME WriterInv, NEW t \in Task,
           toolLock[ConnOf[t]] \in {t, Nobody}, toolLock'[ConnOf[t]] \in {t, Nobody},
           \A u \in Task \ {t} : task'[u] = task[u],
           \A c \in Conn \ {ConnOf[t]} :
               /\ pending'[c] = pending[c] /\ inTx'[c] = inTx[c]
               /\ toolLock'[c] = toolLock[c] /\ (writer' = c <=> writer = c),
           \A w \in CallId : w[1] # t => answer'[w] = answer[w] /\ (Absent(w)' <=> Absent(w)),
           WriterTypeOK', Inside(t)', Asked(t)', Attempt(t)', Committed(t)', Owned(ConnOf[t])'
    PROVE  WriterInv'
<1>1. ASSUME NEW u \in Task \ {t}
      PROVE  Inside(u)' /\ Asked(u)' /\ Attempt(u)' /\ Committed(u)'
  <2>1. CASE ConnOf[u] = ConnOf[t]
    <3>1. task[u].pc = "out" /\ task'[u] = task[u] /\ Nobody \notin Task
      BY <2>1, WriterAssumption DEF WriterInv, Inside
    <3>2. Inside(u)' /\ Attempt(u)'
      BY <2>1, <3>1 DEF Inside, Attempt
    <3>3. Asked(u)' /\ Committed(u)'
      BY <3>1, WritesOfTasks DEF WriterInv, Asked, Committed, Calling
    <3> QED
      BY <3>2, <3>3
  <2>2. CASE ConnOf[u] # ConnOf[t]
    <3>1. task'[u] = task[u] /\ ConnOf[u] \in Conn \ {ConnOf[t]} /\ task[u] \in TaskState
      BY <2>2, WritesOfTasks DEF WriterInv, WriterTypeOK
    <3>2. Inside(u)'
      BY <3>1 DEF WriterInv, Inside
    <3>3. Attempt(u)'
      BY <3>1 DEF WriterInv, Attempt, Current
    <3>4. Asked(u)' /\ Committed(u)'
      BY <3>1, WritesOfTasks DEF WriterInv, Asked, Committed, Calling, Current, TaskState
    <3> QED
      BY <3>2, <3>3, <3>4
  <2> QED
    BY <2>1, <2>2
<1>2. ASSUME NEW c \in Conn \ {ConnOf[t]}
      PROVE  Owned(c)'
  BY WriterAssumption DEF WriterInv, Owned, WriterTypeOK
<1> QED
  BY <1>1, <1>2 DEF WriterInv

-----------------------------------------------------------------------------
LEMMA Initially == WriterInit => WriterInv
<1> SUFFICES ASSUME WriterInit PROVE WriterInv
  OBVIOUS
<1>1. WriterTypeOK
  BY WritesOfTasks, WriterAssumption DEF WriterInit, WriterTypeOK, TaskState, Kind
<1>2. \A t \in Task : Inside(t) /\ Asked(t) /\ Attempt(t) /\ Committed(t)
  BY WritesOfTasks, WriterAssumption
     DEF WriterInit, Inside, Asked, Attempt, Committed, Absent, Calling
<1>3. \A c \in Conn : Owned(c)
  BY WriterAssumption DEF WriterInit, Owned
<1> QED
  BY <1>1, <1>2, <1>3 DEF WriterInv

LEMMA EnterKeeps ==
    ASSUME WriterInv, NEW t \in Task, Enter(t)
    PROVE  WriterInv'
<1> DEFINE c == ConnOf[t]
<1>1. c \in Conn /\ task[t] \in TaskState /\ toolLock[c] = Nobody /\ Nobody \notin Task
  BY WritesOfTasks, WriterAssumption DEF WriterInv, WriterTypeOK, Enter
<1>2. /\ task' = [task EXCEPT ![t].pc = "in"] /\ toolLock' = [toolLock EXCEPT ![c] = t]
      /\ task'[t] = [task[t] EXCEPT !.pc = "in"] /\ toolLock'[c] = t
  BY <1>1 DEF WriterInv, WriterTypeOK, Enter, Goto
<1>3. WriterTypeOK'
  BY <1>1, <1>2 DEF WriterInv, WriterTypeOK, Enter, TaskState
<1>4. ~inTx[c] /\ pending[c] = {} /\ writer # c
  BY <1>1 DEF WriterInv, Owned
<1>5. Inside(t)' /\ Attempt(t)' /\ Owned(c)'
  BY <1>1, <1>2, <1>4 DEF Inside, Attempt, Owned, Enter, TaskState
<1>6. Asked(t)' /\ Committed(t)'
  BY <1>1, <1>2, WritesOfTasks
     DEF WriterInv, Asked, Committed, Calling, Enter, At, Absent, TaskState
<1> QED
  BY <1>1, <1>2, <1>3, <1>5, <1>6, Frame DEF WriterInv, WriterTypeOK, Enter, Absent

LEMMA CallWriteKeeps ==
    ASSUME WriterInv, NEW t \in Task, NEW k \in Kind, CallWrite(t, k)
    PROVE  WriterInv'
<1> DEFINE c == ConnOf[t]
           n == task[t].writes + 1
<1>1. /\ c \in Conn /\ task[t] \in TaskState /\ toolLock[c] = t /\ task[t].pc = "in"
      /\ n \in 1..Calls[t].count /\ <<t, n>> \in CallId /\ pending[c] = {}
  BY WritesOfTasks, Alone DEF WriterInv, WriterTypeOK, CallWrite, At, TaskState, Attempt
<1>2. /\ task'[t] = [task[t] EXCEPT !.pc = "begin", !.writes = n, !.kind = k, !.try = 1,
                                    !.stmt = 0]
      /\ \A u \in Task \ {t} : task'[u] = task[u]
      /\ task'[t].pc = "begin" /\ task'[t].writes = n /\ task'[t].stmt = 0
      /\ task'[t].failed = task[t].failed /\ t # Nobody
      /\ answer'[<<t, n>>] = "asked"
      /\ \A w \in CallId \ {<<t, n>>} : answer'[w] = answer[w]
  BY <1>1, WriterAssumption DEF WriterInv, WriterTypeOK, CallWrite, TaskState
<1>3. WriterTypeOK'
  BY <1>1, WritesOfTasks DEF WriterInv, WriterTypeOK, CallWrite, TaskState
<1>4. Inside(t)' /\ Attempt(t)' /\ Owned(c)'
  BY <1>1, <1>2 DEF WriterInv, Inside, Attempt, Owned, CallWrite, TaskState
<1>5. \A m \in 1..Calls[t].count : m # n => answer'[<<t, m>>] = answer[<<t, m>>]
  BY <1>2, WritesOfTasks
<1>6. Asked(t)'
  <2>1. task[t].writes \in Nat /\ n = task[t].writes + 1
    BY <1>1 DEF TaskState
  <2>2. ASSUME NEW m \in 1..Calls[t].count
        PROVE  /\ m > n => answer'[<<t, m>>] = "none"
               /\ m < n => answer'[<<t, m>>] # "asked"
    <3>1. m > n => m > task[t].writes /\ m # n
      BY <2>1, WritesOfTasks
    <3>2. m < n => m # n
      BY <2>1, WritesOfTasks
    <3>3. /\ m > task[t].writes => answer[<<t, m>>] = "none"
          /\ answer[<<t, m>>] # "asked"
      BY <1>1 DEF WriterInv, Asked, Calling
    <3> QED
      BY <1>5, <3>1, <3>2, <3>3
  <2> QED
    BY <1>1, <1>2, <2>2 DEF Asked, Calling, Current
<1>7. Committed(t)'
  <2>1. answer[<<t, n>>] = "none"
    BY <1>1, WritesOfTasks DEF WriterInv, Asked, TaskState
  <2>2. \A w : Absent(w)' <=> Absent(w)
    BY DEF CallWrite, Absent
  <2> QED
    BY <1>1, <1>2, <1>5, <2>1, <2>2 DEF WriterInv, Committed, Current
<1> QED
  BY <1>1, <1>2, <1>3, <1>4, <1>6, <1>7, Frame, WritesOfTasks DEF CallWrite, Absent

LEMMA BeginKeeps ==
    ASSUME WriterInv, NEW t \in Task, BeginTx(t)
    PROVE  WriterInv'
<1> DEFINE c == ConnOf[t]
<1>1. /\ c \in Conn /\ task[t] \in TaskState /\ toolLock[c] = t /\ task[t].pc = "begin"
      /\ t # Nobody /\ Nobody \notin Conn
  BY WritesOfTasks, WriterAssumption, Alone DEF WriterInv, WriterTypeOK, BeginTx, At
<1>2. /\ task'[t] = [task[t] EXCEPT !.pc = "body"] /\ inTx'[c]
      /\ \A u \in Task \ {t} : task'[u] = task[u]
  BY <1>1 DEF WriterInv, WriterTypeOK, BeginTx, Goto
<1>3. WriterTypeOK'
  BY <1>1 DEF WriterInv, WriterTypeOK, BeginTx, Goto, TaskState
<1>4. Inside(t)' /\ Owned(c)'
  BY <1>1, <1>2 DEF WriterInv, Inside, Owned, BeginTx, TaskState
<1>5. Attempt(t)'
  BY <1>1, <1>2 DEF WriterInv, Attempt, BeginTx, TaskState, Rows, Written, Statements
<1>6. Asked(t)' /\ Committed(t)'
  BY <1>1, <1>2 DEF WriterInv, Asked, Committed, Calling, BeginTx, Absent, Current, TaskState
<1>7. \A d \in Conn \ {c} : /\ pending'[d] = pending[d] /\ inTx'[d] = inTx[d]
                            /\ toolLock'[d] = toolLock[d] /\ (writer' = d <=> writer = d)
  BY <1>1 DEF WriterInv, WriterTypeOK, BeginTx
<1> QED
  BY <1>1, <1>2, <1>3, <1>4, <1>5, <1>6, <1>7, Frame DEF BeginTx, Absent

(* A call that starts over or raises is back where nothing is pending.              *)
LEMMA RetryOrRaiseKeeps ==
    ASSUME WriterInv, NEW t \in Task, NEW transient \in BOOLEAN,
           task[t].pc \in {"begin", "body"}, RetryOrRaise(t, transient),
           UNCHANGED <<db, toolLock>>,
           pending' \in [Conn -> SUBSET StoredRow], inTx' \in [Conn -> BOOLEAN],
           writer' \in Conn \cup {Nobody}, pending'[ConnOf[t]] = {},
           writer' = ConnOf[t] => inTx'[ConnOf[t]],
           inTx'[ConnOf[t]] => task[t].failed \/ ~Retried(task[t].kind) \/ ~transient,
           \A c \in Conn \ {ConnOf[t]} : /\ pending'[c] = pending[c] /\ inTx'[c] = inTx[c]
                                        /\ (writer' = c <=> writer = c)
    PROVE  WriterInv'
<1> DEFINE c == ConnOf[t]
<1>1. /\ c \in Conn /\ task[t] \in TaskState /\ toolLock[c] = t /\ t # Nobody
      /\ Current(t) \in CallId /\ answer[Current(t)] = "asked" /\ Absent(Current(t))
  BY WritesOfTasks, WriterAssumption, Alone
     DEF WriterInv, WriterTypeOK, Asked, Committed, Calling, Current
<1>2. CASE Raise(t)
  <2>1. /\ task'[t].pc = "in" /\ task'[t].failed /\ task'[t].writes = task[t].writes
        /\ task'[t] \in TaskState /\ answer'[Current(t)] = "raised"
        /\ \A u \in Task \ {t} : task'[u] = task[u]
        /\ \A w \in CallId \ {Current(t)} : answer'[w] = answer[w]
    <3>1. /\ task'[t] = [CallOver(t, "in") EXCEPT !.failed = TRUE]
          /\ \A u \in Task \ {t} : task'[u] = task[u]
      BY <1>2 DEF WriterInv, WriterTypeOK, Raise
    <3>2. /\ CallOver(t, "in") \in TaskState /\ CallOver(t, "in").pc = "in"
          /\ CallOver(t, "in").writes = task[t].writes
      <4>1. 0 \in 0..2 /\ 1 \in 1..Attempts /\ "bare" \in Kind
        BY WritesOfTasks DEF Kind
      <4> QED
        BY <1>1, <4>1 DEF CallOver, TaskState
    <3>3. /\ answer'[Current(t)] = "raised"
          /\ \A w \in CallId \ {Current(t)} : answer'[w] = answer[w]
      BY <1>1, <1>2 DEF WriterInv, WriterTypeOK, Raise, Answers
    <3> QED
      BY <3>1, <3>2, <3>3 DEF TaskState
  <2>2. WriterTypeOK'
    BY <1>1, <1>2, <2>1 DEF WriterInv, WriterTypeOK, Raise, Answers
  <2>3. Inside(t)' /\ Attempt(t)' /\ Owned(c)'
    BY <1>1, <2>1 DEF WriterInv, Inside, Attempt, Owned
  <2>4. Asked(t)' /\ Committed(t)'
    BY <1>1, <2>1, WritesOfTasks
       DEF WriterInv, Asked, Committed, Calling, Absent, Current, TaskState
  <2> QED
    BY <1>1, <2>1, <2>2, <2>3, <2>4, Frame DEF Absent, Current
<1>3. CASE ~Raise(t)
  <2>1. /\ task'[t].pc = "begin" /\ task'[t].stmt = 0 /\ task'[t].writes = task[t].writes
        /\ task'[t].failed = task[t].failed /\ task'[t] \in TaskState
        /\ \A u \in Task \ {t} : task'[u] = task[u]
        /\ answer' = answer /\ transient /\ Retried(task[t].kind)
    BY <1>1, <1>3 DEF WriterInv, WriterTypeOK, RetryOrRaise, TryAgain, TaskState
  <2>2. WriterTypeOK'
    BY <1>1, <1>3, <2>1 DEF WriterInv, WriterTypeOK, RetryOrRaise
  <2>3. Inside(t)' /\ Attempt(t)' /\ Owned(c)'
    BY <1>1, <2>1 DEF WriterInv, Inside, Attempt, Owned
  <2>4. Asked(t)' /\ Committed(t)'
    BY <1>1, <2>1, WritesOfTasks
       DEF WriterInv, Asked, Committed, Calling, Absent, Current, TaskState
  <2> QED
    BY <1>1, <2>1, <2>2, <2>3, <2>4, Frame DEF Absent, Current
<1> QED
  BY <1>2, <1>3

LEMMA RefuseNestedKeeps ==
    ASSUME WriterInv, NEW t \in Task, RefuseNested(t)
    PROVE  WriterInv'
<1>1. ConnOf[t] \in Conn /\ task[t].pc = "begin" /\ pending[ConnOf[t]] = {}
  BY WritesOfTasks DEF WriterInv, Attempt, RefuseNested, At
<1> QED
  BY <1>1, RetryOrRaiseKeeps
     DEF RefuseNested, RetryOrRaise, WriterInv, WriterTypeOK, Owned

LEMMA BeginBusyKeeps ==
    ASSUME WriterInv, NEW t \in Task, BeginBusy(t)
    PROVE  WriterInv'
<1>1. ConnOf[t] \in Conn /\ task[t].pc = "begin" /\ pending[ConnOf[t]] = {}
  BY WritesOfTasks DEF WriterInv, Attempt, BeginBusy, At
<1> QED
  BY <1>1, RetryOrRaiseKeeps DEF BeginBusy, WriterInv, WriterTypeOK, Owned

LEMMA BodyFailsKeeps ==
    ASSUME WriterInv, NEW t \in Task, NEW transient \in BOOLEAN, BodyFails(t, transient)
    PROVE  WriterInv'
<1> DEFINE c == ConnOf[t]
<1>1. c \in Conn /\ task[t].pc = "body" /\ task[t] \in TaskState /\ Nobody \notin Conn
  BY WritesOfTasks, WriterAssumption DEF WriterInv, WriterTypeOK, BodyFails, At
<1>2. CASE task[t].kind = "bare"
  <2>1. task[t].stmt = 0
    BY <1>1, <1>2 DEF WriterInv, Attempt, TaskState, Statements
  <2>2. pending[c] = {}
    BY <1>1, <2>1 DEF WriterInv, Attempt, Rows, Written
  <2> QED
    BY <1>1, <1>2, <2>2, RetryOrRaiseKeeps
       DEF BodyFails, RollsBack, Retried, WriterInv, WriterTypeOK, Owned
<1>3. CASE task[t].kind # "bare"
  <2>1. Rollback(c)
    BY <1>3 DEF BodyFails, RollsBack
  <2>2. /\ pending' \in [Conn -> SUBSET StoredRow] /\ pending'[c] = {}
        /\ inTx' \in [Conn -> BOOLEAN] /\ ~inTx'[c]
        /\ writer' \in Conn \cup {Nobody} /\ writer' # c
        /\ \A d \in Conn \ {c} : /\ pending'[d] = pending[d] /\ inTx'[d] = inTx[d]
                                 /\ (writer' = d <=> writer = d)
    BY <1>1, <2>1 DEF Rollback, EndTx, WriterInv, WriterTypeOK
  <2> QED
    BY <1>1, <2>2, RetryOrRaiseKeeps DEF BodyFails
<1> QED
  BY <1>2, <1>3

LEMMA StatementKeeps ==
    ASSUME WriterInv, NEW t \in Task, Statement(t)
    PROVE  WriterInv'
<1> DEFINE c == ConnOf[t]
           k == task[t].kind
           s == task[t].stmt + 1
           new == {<<Current(t), task[t].try, p>> : p \in Effect(k, s)}
<1>1. /\ c \in Conn /\ task[t] \in TaskState /\ toolLock[c] = t /\ t # Nobody
      /\ task[t].pc = "body" /\ writer \in {Nobody, c} /\ Nobody \notin Conn
      /\ Current(t) \in CallId /\ s \in 1..Statements(k)
  BY WritesOfTasks, WriterAssumption, Alone
     DEF WriterInv, WriterTypeOK, Statement, At, LockFree, Asked, Calling, Current,
         TaskState, Statements
<1>2. /\ pending' = [pending EXCEPT ![c] = @ \cup new]
      /\ writer' = c /\ inTx' = [inTx EXCEPT ![c] = TRUE]
      /\ UNCHANGED <<db, toolLock, answer>>
  BY <1>1 DEF WriterInv, WriterTypeOK, Statement
<1>3. s \in 0..2 /\ new \subseteq StoredRow
  BY <1>1 DEF Statements, StoredRow, Effect, Part, TaskState
<1> DEFINE pc == IF s = Statements(k) THEN "commit" ELSE "body"
<1>4. /\ task' = [task EXCEPT ![t].stmt = s, ![t].pc = pc] /\ task \in [Task -> TaskState]
      /\ pc \in {"commit", "body"}
  BY DEF Statement, CommitsAtReturn, WriterInv, WriterTypeOK
<1> HIDE DEF s, k, new, pc
<1>5. /\ task' \in [Task -> TaskState] /\ \A u \in Task \ {t} : task'[u] = task[u]
      /\ task'[t] \in TaskState /\ task'[t].stmt = s /\ task'[t].kind = k
      /\ task'[t].try = task[t].try /\ task'[t].writes = task[t].writes
      /\ task'[t].pc = pc
  BY <1>1, <1>3, <1>4 DEF TaskState, k
<1>6. WriterTypeOK'
  BY <1>1, <1>2, <1>3, <1>5 DEF WriterInv, WriterTypeOK
<1>7. Inside(t)' /\ Owned(c)'
  BY <1>1, <1>2, <1>4, <1>5 DEF WriterInv, WriterTypeOK, Inside, Owned
<1>8. Attempt(t)'
  <2>1. pending[c] = Rows(Current(t), task[t].try, Written(k, task[t].stmt))
    BY <1>1 DEF WriterInv, Attempt, k
  <2>2. Written(k, s) = Written(k, task[t].stmt) \cup Effect(k, s)
    BY <1>1 DEF Written, Effect, Statements, Part, TaskState, k, s
  <2>3. pending'[c] = Rows(Current(t), task[t].try, Written(k, s))
    BY <1>1, <1>2, <2>1, <2>2 DEF WriterInv, WriterTypeOK, Rows, new
  <2>4. s = Statements(k) => Written(k, s) = Part
    BY <1>1 DEF Written
  <2> QED
    BY <1>1, <1>5, <2>3, <2>4 DEF Attempt, Current, Statements, pc
<1>9. Asked(t)' /\ Committed(t)'
  BY <1>1, <1>2, <1>4, <1>5, WritesOfTasks
     DEF WriterInv, Asked, Committed, Calling, Absent, Current
<1>10. \A d \in Conn \ {c} : /\ pending'[d] = pending[d] /\ inTx'[d] = inTx[d]
                            /\ toolLock'[d] = toolLock[d] /\ (writer' = d <=> writer = d)
  BY <1>1, <1>2 DEF WriterInv, WriterTypeOK
<1> QED
  BY <1>1, <1>2, <1>5, <1>6, <1>7, <1>8, <1>9, <1>10, Frame DEF Absent

LEMMA CommitKeeps ==
    ASSUME WriterInv, NEW t \in Task, Commit(t)
    PROVE  /\ WriterInv'
           /\ answer[Current(t)] = "asked" /\ Absent(Current(t)) /\ Current(t) \in CallId
           /\ \E v \in 1..Attempts : db' = db \cup {<<Current(t), v, p>> : p \in Part}
<1> DEFINE c == ConnOf[t]
           new == Rows(Current(t), task[t].try, Part)
<1>1. /\ c \in Conn /\ task[t] \in TaskState /\ toolLock[c] = t /\ t # Nobody
      /\ task[t].pc = "commit" /\ Nobody \notin Conn /\ Current(t) \in CallId
      /\ answer[Current(t)] = "asked" /\ Absent(Current(t))
      /\ pending[c] = new /\ task[t].stmt = Statements(task[t].kind)
  BY WritesOfTasks, WriterAssumption, Alone
     DEF WriterInv, WriterTypeOK, Commit, At, Asked, Attempt, Committed, Calling, Current
<1>2. /\ task' = [task EXCEPT ![t].pc = "return"] /\ db' = db \cup new
      /\ pending' = [pending EXCEPT ![c] = {}] /\ inTx' = [inTx EXCEPT ![c] = FALSE]
      /\ writer' = IF writer = c THEN Nobody ELSE writer
      /\ UNCHANGED <<toolLock, answer>>
  BY <1>1 DEF Commit, EndTx, Goto
<1>3. new \subseteq StoredRow /\ task[t].try \in 1..Attempts
  BY <1>1 DEF Rows, StoredRow, TaskState
<1>4. ~Absent(Current(t))'
  <2>1. <<Current(t), task[t].try, "first">> \in db'
    BY <1>2 DEF Rows, Part
  <2>2. Current(t)' = Current(t)
    BY <1>1, <1>2 DEF Current, WriterInv, WriterTypeOK, TaskState
  <2> QED
    BY <1>3, <2>1, <2>2 DEF Absent, Part
<1>5. \A w \in CallId : w # Current(t) => (Absent(w)' <=> Absent(w))
  BY <1>2 DEF Absent, Rows
<1>6. /\ task' \in [Task -> TaskState] /\ \A u \in Task \ {t} : task'[u] = task[u]
      /\ task'[t].pc = "return" /\ task'[t].writes = task[t].writes
  BY <1>1, <1>2 DEF WriterInv, WriterTypeOK, TaskState
<1> HIDE DEF new
<1>7. WriterTypeOK'
  BY <1>1, <1>2, <1>3, <1>6 DEF WriterInv, WriterTypeOK
<1>8. Inside(t)' /\ Attempt(t)' /\ Owned(c)'
  BY <1>1, <1>2, <1>6 DEF WriterInv, WriterTypeOK, Inside, Attempt, Owned
<1>9. Asked(t)'
  BY <1>1, <1>2, <1>6 DEF WriterInv, Asked, Calling, Current
<1>10. Committed(t)'
  BY <1>1, <1>2, <1>4, <1>5, <1>6, WritesOfTasks DEF WriterInv, Committed, Current
<1>11. \A d \in Conn \ {c} : /\ pending'[d] = pending[d] /\ inTx'[d] = inTx[d]
                             /\ toolLock'[d] = toolLock[d] /\ (writer' = d <=> writer = d)
  BY <1>1, <1>2 DEF WriterInv, WriterTypeOK
<1>12. \A w \in CallId : w[1] # t => answer'[w] = answer[w] /\ (Absent(w)' <=> Absent(w))
  BY <1>2, <1>5 DEF Current
<1>13. WriterInv'
  BY <1>1, <1>2, <1>6, <1>7, <1>8, <1>9, <1>10, <1>11, <1>12, Frame
<1> QED
  BY <1>1, <1>2, <1>3, <1>13 DEF Rows, new

(* A call ends with an answer: back in its tool call, or on its way out of it.        *)
LEMMA AnswerKeeps ==
    ASSUME WriterInv, NEW t \in Task, NEW a \in {"ok", "lost"}, NEW pc \in {"in", "leave"},
           task[t].pc \in Calling, Answers(t, a), task' = [task EXCEPT ![t] = CallOver(t, pc)],
           pc = "in" => task[t].pc = "return",
           UNCHANGED <<db, pending, inTx, writer, toolLock>>
    PROVE  WriterInv' /\ answer[Current(t)] = "asked" /\ Current(t) \in CallId
<1> DEFINE c == ConnOf[t]
<1>0. task[t].pc # "out"
  BY DEF Calling
<1>1. /\ c \in Conn /\ task[t] \in TaskState /\ toolLock[c] = t /\ t # Nobody
      /\ Current(t) \in CallId /\ answer[Current(t)] = "asked"
  BY <1>0, WritesOfTasks, WriterAssumption, Alone
     DEF WriterInv, WriterTypeOK, Asked, Current, TaskState
<1>2. 0 \in 0..2 /\ 1 \in 1..Attempts /\ "bare" \in Kind
  BY WritesOfTasks DEF Kind
<1>3. /\ task'[t] \in TaskState /\ task'[t].pc = pc /\ task'[t].writes = task[t].writes
      /\ task'[t].failed = task[t].failed /\ task' \in [Task -> TaskState]
      /\ \A u \in Task \ {t} : task'[u] = task[u]
  BY <1>1, <1>2 DEF WriterInv, WriterTypeOK, CallOver, TaskState
<1>4. /\ answer'[Current(t)] = a
      /\ answer' \in [CallId -> {"none", "asked", "ok", "raised", "lost"}]
      /\ \A w \in CallId \ {Current(t)} : answer'[w] = answer[w]
  BY <1>1 DEF WriterInv, WriterTypeOK, Answers
<1>5. WriterTypeOK'
  BY <1>3, <1>4 DEF WriterInv, WriterTypeOK
<1>6. pc = "in" => pending[c] = {} /\ (inTx[c] => task[t].failed)
  BY <1>1 DEF WriterInv, Attempt, Owned
<1>7. Inside(t)' /\ Attempt(t)' /\ Owned(c)'
  BY <1>0, <1>1, <1>3, <1>6 DEF WriterInv, Inside, Attempt, Owned
<1>8. \A w : Absent(w)' <=> Absent(w)
  BY DEF Absent
<1>9. \A n \in 1..Calls[t].count :
         answer'[<<t, n>>] = IF n = task[t].writes THEN a ELSE answer[<<t, n>>]
  BY <1>1, <1>4, WritesOfTasks DEF Current
<1>10. Asked(t)'
  <2>1. ASSUME NEW n \in 1..Calls[t].count
        PROVE  /\ n > task[t].writes => answer'[<<t, n>>] = "none"
               /\ answer'[<<t, n>>] # "asked"
    <3>1. task[t].writes \in Nat /\ n \in Nat
      BY <1>1, WritesOfTasks DEF TaskState
    <3>2. n > task[t].writes => n # task[t].writes
      BY <3>1
    <3>3. n = task[t].writes \/ n > task[t].writes \/ n < task[t].writes
      BY <3>1
    <3> QED
      BY <1>9, <3>2, <3>3 DEF WriterInv, Asked
  <2> QED
    BY <1>3, <2>1 DEF Asked, Calling
<1>11. Committed(t)'
  BY <1>3, <1>8, <1>9 DEF WriterInv, Committed
<1>12. \A w \in CallId : w[1] # t => answer'[w] = answer[w]
  BY <1>4 DEF Current
<1> QED
  BY <1>1, <1>3, <1>5, <1>7, <1>8, <1>10, <1>11, <1>12, Frame

LEMMA FinishKeeps ==
    ASSUME WriterInv, NEW t \in Task, Finish(t)
    PROVE  WriterInv'
<1> DEFINE c == ConnOf[t]
<1>1. /\ c \in Conn /\ task[t] \in TaskState /\ toolLock[c] = t /\ t # Nobody
      /\ task[t].pc = "in"
  BY WritesOfTasks, WriterAssumption, Alone DEF WriterInv, WriterTypeOK, Finish, At
<1>2. /\ task' \in [Task -> TaskState] /\ \A u \in Task \ {t} : task'[u] = task[u]
      /\ task'[t].pc = "leave" /\ task'[t].writes = task[t].writes
      /\ UNCHANGED <<db, pending, inTx, writer, toolLock, answer>>
  BY <1>1 DEF WriterInv, WriterTypeOK, Finish, Goto, TaskState
<1>3. WriterTypeOK'
  BY <1>2 DEF WriterInv, WriterTypeOK
<1>4. Inside(t)' /\ Attempt(t)' /\ Owned(c)'
  BY <1>1, <1>2 DEF WriterInv, Inside, Attempt, Owned
<1>5. Asked(t)' /\ Committed(t)'
  BY <1>1, <1>2, WritesOfTasks
     DEF WriterInv, Asked, Committed, Calling, Absent, Current, TaskState
<1> QED
  BY <1>1, <1>2, <1>3, <1>4, <1>5, Frame DEF Absent

LEMMA LeaveKeeps ==
    ASSUME WriterInv, NEW t \in Task, Leave(t)
    PROVE  WriterInv'
<1> DEFINE c == ConnOf[t]
<1>1. /\ c \in Conn /\ task[t] \in TaskState /\ toolLock[c] = t /\ t # Nobody
      /\ task[t].pc = "leave" /\ Nobody \notin Conn /\ Nobody \notin Task
  BY WritesOfTasks, WriterAssumption, Alone DEF WriterInv, WriterTypeOK, Leave, At
<1>2. /\ task' \in [Task -> TaskState] /\ \A u \in Task \ {t} : task'[u] = task[u]
      /\ task'[t].pc = "out" /\ task'[t].writes = task[t].writes
      /\ toolLock' = [toolLock EXCEPT ![c] = Nobody] /\ UNCHANGED <<db, answer>>
  BY <1>1 DEF WriterInv, WriterTypeOK, Leave, TaskState
<1>3. /\ pending' \in [Conn -> SUBSET StoredRow] /\ pending'[c] = {}
      /\ inTx' \in [Conn -> BOOLEAN] /\ ~inTx'[c]
      /\ writer' \in Conn \cup {Nobody} /\ writer' # c
      /\ \A d \in Conn \ {c} : /\ pending'[d] = pending[d] /\ inTx'[d] = inTx[d]
                               /\ (writer' = d <=> writer = d)
  <2>1. CASE inTx[c]
    BY <1>1, <2>1 DEF Leave, SafetyNet, EndTx, WriterInv, WriterTypeOK
  <2>2. CASE ~inTx[c]
    BY <1>1, <2>2 DEF Leave, SafetyNet, WriterInv, WriterTypeOK, Owned
  <2> QED
    BY <2>1, <2>2
<1>4. WriterTypeOK'
  BY <1>1, <1>2, <1>3 DEF WriterInv, WriterTypeOK
<1>5. Inside(t)' /\ Attempt(t)' /\ Owned(c)'
  BY <1>1, <1>2, <1>3 DEF WriterInv, WriterTypeOK, Inside, Attempt, Owned
<1>6. Asked(t)' /\ Committed(t)'
  BY <1>1, <1>2, WritesOfTasks
     DEF WriterInv, Asked, Committed, Calling, Absent, Current, TaskState
<1>7. toolLock'[c] = Nobody /\ \A d \in Conn \ {c} : toolLock'[d] = toolLock[d]
  BY <1>1, <1>2 DEF WriterInv, WriterTypeOK
<1> QED
  BY <1>1, <1>2, <1>3, <1>4, <1>5, <1>6, <1>7, Frame DEF Absent

LEMMA CrashKeeps ==
    ASSUME WriterInv, NEW c \in Conn, Crash(c)
    PROVE  WriterInv'
<1> DEFINE lost == {w \in CallId : ConnOf[w[1]] = c /\ answer[w] = "asked"}
<1>1. /\ Nobody \notin Conn /\ Nobody \notin Task /\ 0 \in 0..2
      /\ 1 \in 1..Attempts /\ "bare" \in Kind
  BY WriterAssumption, WritesOfTasks DEF Kind
<1>2. /\ pending' \in [Conn -> SUBSET StoredRow] /\ pending'[c] = {}
      /\ inTx' \in [Conn -> BOOLEAN] /\ ~inTx'[c]
      /\ writer' \in Conn \cup {Nobody} /\ writer' # c
      /\ toolLock' \in [Conn -> Task \cup {Nobody}] /\ toolLock'[c] = Nobody
      /\ \A d \in Conn \ {c} : /\ pending'[d] = pending[d] /\ inTx'[d] = inTx[d]
                               /\ toolLock'[d] = toolLock[d] /\ (writer' = d <=> writer = d)
  BY <1>1 DEF Crash, EndTx, WriterInv, WriterTypeOK
<1>3. ASSUME NEW t \in Task
      PROVE  /\ task[t] \in TaskState /\ task'[t] \in TaskState
             /\ task'[t].writes = task[t].writes
             /\ ConnOf[t] = c => task'[t].pc = "out"
             /\ ConnOf[t] # c => task'[t] = task[t]
  BY <1>1 DEF Crash, CallOver, TaskState, WriterInv, WriterTypeOK
<1>4. \A w \in CallId : answer'[w] = IF w \in lost THEN "lost" ELSE answer[w]
  BY DEF Crash
<1>5. WriterTypeOK'
  BY <1>2, <1>3 DEF WriterInv, WriterTypeOK, Crash
<1>6. \A w : Absent(w)' <=> Absent(w)
  BY DEF Crash, Absent
<1>7. ASSUME NEW t \in Task
      PROVE  Inside(t)' /\ Asked(t)' /\ Attempt(t)' /\ Committed(t)'
  <2>1. CASE ConnOf[t] = c
    <3>1. Inside(t)' /\ Attempt(t)'
      BY <1>1, <1>2, <1>3, <2>1 DEF Inside, Attempt
    <3>2. ASSUME NEW n \in 1..Calls[t].count
          PROVE  /\ answer'[<<t, n>>] # "asked"
                 /\ answer'[<<t, n>>] \in {"none", "raised"} => answer'[<<t, n>>] = answer[<<t, n>>]
                 /\ answer[<<t, n>>] = "none" => answer'[<<t, n>>] = "none"
      BY <1>4, <2>1, WritesOfTasks
    <3>3. Asked(t)' /\ Committed(t)'
      BY <1>3, <1>6, <2>1, <3>2 DEF WriterInv, Asked, Committed, Calling
    <3> QED
      BY <3>1, <3>3
  <2>2. CASE ConnOf[t] # c
    <3>1. task'[t] = task[t] /\ ConnOf[t] \in Conn \ {c}
      BY <1>3, <2>2, WritesOfTasks
    <3>2. \A n \in 1..Calls[t].count : answer'[<<t, n>>] = answer[<<t, n>>]
      BY <1>4, <2>2, WritesOfTasks
    <3>3. Inside(t)'
      BY <1>2, <3>1 DEF WriterInv, Inside
    <3>4. Attempt(t)'
      BY <1>2, <3>1 DEF WriterInv, Attempt, Current
    <3>5. Asked(t)' /\ Committed(t)'
      BY <1>3, <1>6, <3>1, <3>2 DEF WriterInv, Asked, Committed, Calling, Current
    <3> QED
      BY <3>3, <3>4, <3>5
  <2> QED
    BY <2>1, <2>2
<1>8. ASSUME NEW d \in Conn
      PROVE  Owned(d)'
  <2>1. CASE d = c
    BY <1>1, <1>2, <2>1 DEF Owned
  <2>2. CASE d # c
    <3>1. toolLock[d] # Nobody => toolLock[d] \in Task /\ ConnOf[toolLock[d]] = d
      BY DEF WriterInv, WriterTypeOK, Owned
    <3> QED
      BY <1>2, <1>3, <2>2, <3>1 DEF WriterInv, Owned
  <2> QED
    BY <2>1, <2>2
<1> QED
  BY <1>5, <1>7, <1>8 DEF WriterInv

-----------------------------------------------------------------------------
LEMMA StepKeeps ==
    ASSUME WriterInv, [WriterNext]_writerVars
    PROVE  WriterInv'
<1>1. CASE UNCHANGED writerVars
  BY <1>1 DEF writerVars, WriterInv, WriterTypeOK, Inside, Asked, Attempt, Committed, Owned,
              Absent, Current
<1>2. ASSUME NEW t \in Task, Step(t)
      PROVE  WriterInv'
  <2>1. CASE Return(t)
    BY <2>1, AnswerKeeps DEF Return, At, Calling
  <2> QED
    BY <1>2, <2>1, EnterKeeps, BeginKeeps, RefuseNestedKeeps, BeginBusyKeeps, StatementKeeps,
       BodyFailsKeeps, CommitKeeps, FinishKeeps, LeaveKeeps DEF Step
<1>3. ASSUME NEW t \in Task, Interrupt(t)
      PROVE  WriterInv'
  BY <1>3, AnswerKeeps DEF Interrupt, Calling
<1>4. ASSUME NEW t \in Task, Fault(t)
      PROVE  WriterInv'
  BY <1>3, <1>4, BodyFailsKeeps DEF Fault
<1> QED
  BY <1>1, <1>2, <1>4, CallWriteKeeps, CrashKeeps DEF WriterNext

(* Types, and the invariant the refinement rests on.                               *)
THEOREM WriterInvariant == WriterSpec => []WriterInv
<1> QED
  BY Initially, StepKeeps, PTL DEF WriterSpec

(* An open transaction always belongs to the tool call inside the lock (OpenTxHasOwner). *)
THEOREM OpenTxAlwaysOwned == WriterSpec => []OpenTxHasOwner
<1>1. WriterInv => OpenTxHasOwner
  BY DEF WriterInv, Owned, OpenTxHasOwner
<1> QED
  BY <1>1, WriterInvariant, PTL

-----------------------------------------------------------------------------
(* Every step of the locks is a step of AtomicWrites or changes nothing it sees.     *)
LEMMA AskMaps ==
    ASSUME WriterInv, NEW t \in Task, NEW k \in Kind, CallWrite(t, k)
    PROVE  \E w \in CallId : Atomic!Ask(w)
<1>1. /\ task[t].writes + 1 \in 1..Calls[t].count /\ task[t].writes \in Nat
  BY WritesOfTasks DEF WriterInv, WriterTypeOK, CallWrite, TaskState
<1>2. <<t, task[t].writes + 1>> \in CallId /\ answer[<<t, task[t].writes + 1>>] = "none"
  BY <1>1, WritesOfTasks DEF WriterInv, Asked
<1> QED
  BY <1>2 DEF CallWrite, Atomic!Ask

LEMMA ApplyMaps ==
    ASSUME WriterInv, NEW t \in Task, Commit(t)
    PROVE  \E w \in CallId : Atomic!Apply(w)
<1>1. Absent(Current(t)) => ~Atomic!Applied(Current(t))
  BY DEF Absent, Atomic!Applied
<1> QED
  BY <1>1, CommitKeeps DEF Commit, Atomic!Apply

LEMMA SucceedMaps ==
    ASSUME WriterInv, NEW t \in Task, Return(t)
    PROVE  \E w \in CallId : Atomic!Succeed(w)
<1>1. Current(t) \in CallId /\ answer[Current(t)] = "asked"
  BY AnswerKeeps DEF Return, At, Calling
<1>2. Atomic!Applied(Current(t))
  BY DEF WriterInv, Committed, Return, At, Absent, Atomic!Applied
<1> QED
  BY <1>1, <1>2 DEF Return, Answers, Atomic!Succeed

LEMMA RefuseMaps ==
    ASSUME WriterInv, NEW t \in Task, task[t].pc \in {"begin", "body"}, Answers(t, "raised"),
           UNCHANGED db
    PROVE  \E w \in CallId : Atomic!Refuse(w)
<1>1. task[t].pc \in Calling /\ Absent(Current(t)) /\ task[t].writes \in Nat
  BY DEF WriterInv, WriterTypeOK, Committed, Calling, TaskState
<1>2. Current(t) \in CallId /\ answer[Current(t)] = "asked"
  BY <1>1, WritesOfTasks DEF WriterInv, Asked, Current
<1>3. ~Atomic!Applied(Current(t))
  BY <1>1 DEF Absent, Atomic!Applied
<1> QED
  BY <1>2, <1>3 DEF Answers, Atomic!Refuse

LEMMA FailureMaps ==
    ASSUME WriterInv, NEW t \in Task, NEW transient \in BOOLEAN, task[t].pc \in {"begin", "body"},
           RetryOrRaise(t, transient), UNCHANGED db
    PROVE  [Atomic!AtomicNext]_(Atomic!atomicVars)
<1>1. CASE Raise(t)
  BY <1>1, RefuseMaps DEF Raise, Atomic!AtomicNext
<1>2. CASE ~Raise(t)
  BY <1>2 DEF RetryOrRaise, Atomic!atomicVars
<1> QED
  BY <1>1, <1>2

LEMMA LoseMaps ==
    ASSUME WriterInv, NEW t \in Task, Interrupt(t)
    PROVE  \E C \in SUBSET CallId : Atomic!Lose(C)
<1>1. Current(t) \in CallId /\ answer[Current(t)] = "asked"
  BY AnswerKeeps DEF Interrupt, Calling
<1>2. answer' = [w \in CallId |-> IF w \in {Current(t)} THEN "lost" ELSE answer[w]]
  BY <1>1 DEF Interrupt, Answers, WriterInv, WriterTypeOK
<1>3. Atomic!Lose({Current(t)})
  BY <1>1, <1>2 DEF Interrupt, Atomic!Lose
<1> QED
  BY <1>1, <1>3

LEMMA CrashMaps ==
    ASSUME WriterInv, NEW c \in Conn, Crash(c)
    PROVE  \E C \in SUBSET CallId : Atomic!Lose(C)
<1> DEFINE lost == {w \in CallId : ConnOf[w[1]] = c /\ answer[w] = "asked"}
<1>1. Atomic!Lose(lost)
  BY DEF Crash, Atomic!Lose
<1> QED
  BY <1>1

LEMMA StepMaps ==
    ASSUME WriterInv, [WriterNext]_writerVars
    PROVE  [Atomic!AtomicNext]_(Atomic!atomicVars)
<1>1. CASE UNCHANGED writerVars
  BY <1>1 DEF writerVars, Atomic!atomicVars
<1>2. ASSUME NEW t \in Task, Step(t) \/ Fault(t)
      PROVE  [Atomic!AtomicNext]_(Atomic!atomicVars)
  <2>1. CASE Commit(t) \/ Return(t) \/ Interrupt(t)
    BY <2>1, ApplyMaps, SucceedMaps, LoseMaps DEF Atomic!AtomicNext
  <2>2. CASE Enter(t) \/ BeginTx(t) \/ Statement(t) \/ Finish(t) \/ Leave(t)
    BY <2>2 DEF Enter, BeginTx, Statement, Finish, Leave, Atomic!atomicVars
  <2>3. CASE RefuseNested(t)
    BY <2>3, RefuseMaps DEF RefuseNested, Raise, At, Atomic!AtomicNext
  <2>4. CASE BeginBusy(t)
    <3>1. RetryOrRaise(t, TRUE) /\ task[t].pc = "begin" /\ UNCHANGED db
      BY <2>4 DEF BeginBusy, At
    <3> QED
      BY <3>1, FailureMaps
  <2>5. ASSUME NEW transient \in BOOLEAN, BodyFails(t, transient)
        PROVE  [Atomic!AtomicNext]_(Atomic!atomicVars)
    <3>1. RetryOrRaise(t, transient) /\ task[t].pc = "body" /\ UNCHANGED db
      BY <2>5 DEF BodyFails, At
    <3> QED
      BY <3>1, FailureMaps
  <2> QED
    BY <1>2, <2>1, <2>2, <2>3, <2>4, <2>5 DEF Step, Fault
<1> QED
  BY <1>1, <1>2, AskMaps, CrashMaps DEF WriterNext, Atomic!AtomicNext

(* The store implements atomic writes (WritesAreAtomic): whatever is retried, nested,  *)
(* interrupted or lost, a call takes effect whole and once, or raises without effect.   *)
THEOREM LocksImplementAtomicWrites == WriterSpec => WritesAreAtomic
<1>1. WriterInit => Atomic!AtomicInit
  BY DEF WriterInit, Atomic!AtomicInit
<1> QED
  BY <1>1, WriterInvariant, StepMaps, PTL DEF WriterSpec, WritesAreAtomic, Atomic!AtomicSpec
=============================================================================
