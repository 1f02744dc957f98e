------------------------------ MODULE DatabasePool ------------------------------
(***************************************************************************)
(* The asynchronous side of DatabaseWorkerPool: callers enqueue tasks, one *)
(* worker thread per connection executes them, transactions are retried    *)
(* after a deadlock and connections are reopened when they are lost.       *)
(* Close() stops the workers one after the other.                          *)
(*                                                                         *)
(* What MySQL answers is a choice: success, error, deadlock (it rolls the  *)
(* transaction back) or a lost connection (it rolls back too).  An error   *)
(* of START TRANSACTION, COMMIT or ROLLBACK, which nobody looks at, leaves *)
(* no transaction open, as in InnoDB.  Row locks, results and synchronous  *)
(* connections are not modelled.                                           *)
(***************************************************************************)
EXTENDS ProducerConsumerQueue, Integers, FiniteSets, Functions

CONSTANTS
    Transactions,   \* TransactionTasks
    Statements,     \* BasicStatementTasks and PreparedStatementTasks
    Length,         \* the number of statements of each task
    Connections,    \* the asynchronous connections, in the order Close() takes
    Retries,        \* loopBreaker: 5
    MaxDrops,       \* bound: lost connections and refused transaction commands
    NoTask

Tasks == Transactions \cup Statements

ASSUME PoolAssumption ==
    /\ Transactions \cap Statements = {} /\ NoTask \notin Tasks
    /\ Length \in [Tasks -> Nat \ {0}] /\ \A s \in Statements : Length[s] = 1
    /\ Connections \in Nat \ {0}
    /\ Retries \in Nat \ {0} /\ MaxDrops \in Nat

Workers == 1..Connections

VARIABLES
    closing,    \* the connection Close() is at; 0 before Close(), Connections + 1 after it
    closeStep,  \* how far ~DatabaseWorker of that connection is
    token,      \* _cancelationToken of each worker
    at,         \* where each worker thread is
    task,       \* the task it holds
    line,       \* the statement of the task it is at
    deadlocked, \* whether ExecuteTransaction returned ER_LOCK_DEADLOCK
    tries,      \* 0 at the first attempt, then the number of the retry
    retrying,   \* the holder of TransactionTask::_deadlockLock, or 0
    connected,  \* m_Mysql is not NULL
    open,       \* MySQL has a transaction open on the connection
    work,       \* the uncommitted writes of that transaction
    db,         \* the committed writes, in the order they took effect
    drops,      \* connections lost and commands refused so far
    sent,       \* history: the tasks enqueued, in order
    finished,   \* history: the tasks whose Execute returned
    hit         \* history: the tasks whose connection was lost or START TRANSACTION refused

threadVars == <<at, task, line, deadlocked, tries, retrying>>
mysqlVars == <<connected, open, work, db, drops, hit>>
closeVars == <<closing, closeStep, token>>
vars == <<queueVars, threadVars, mysqlVars, closeVars, sent, finished>>

Init ==
    /\ QueueInit
    /\ closing = 0 /\ closeStep = "token" /\ token = [w \in Workers |-> FALSE]
    /\ at = [w \in Workers |-> "pop"]
    /\ task = [w \in Workers |-> NoTask]
    /\ line = [w \in Workers |-> 1]
    /\ deadlocked = [w \in Workers |-> FALSE]
    /\ tries = [w \in Workers |-> 0]
    /\ retrying = 0
    /\ connected = [w \in Workers |-> TRUE]
    /\ open = [w \in Workers |-> FALSE]
    /\ work = [w \in Workers |-> <<>>]
    /\ db = <<>> /\ drops = 0
    /\ sent = <<>> /\ finished = {} /\ hit = {}

-----------------------------------------------------------------------------
(* Execute, CommitTransaction and Close. *)

Enqueue(t) ==
    /\ closing = 0
    /\ t \notin Range(sent)
    /\ Push(t)
    /\ sent' = Append(sent, t)
    /\ UNCHANGED <<threadVars, mysqlVars, closeVars, finished>>

BeginClose ==
    /\ closing = 0
    /\ closing' = 1
    /\ UNCHANGED <<queueVars, threadVars, mysqlVars, closeStep, token, sent, finished>>

\* ~DatabaseWorker: set the token, cancel the queue all workers share, join.
SetToken ==
    /\ closing \in Workers /\ closeStep = "token"
    /\ token' = [token EXCEPT ![closing] = TRUE]
    /\ closeStep' = "cancel"
    /\ UNCHANGED <<queueVars, threadVars, mysqlVars, closing, sent, finished>>

CancelQueue ==
    /\ closing \in Workers /\ closeStep = "cancel"
    /\ Cancel
    /\ closeStep' = "join"
    /\ UNCHANGED <<threadVars, mysqlVars, closing, token, sent, finished>>

Join ==
    /\ closing \in Workers /\ closeStep = "join"
    /\ at[closing] = "exit"
    /\ closing' = closing + 1
    /\ closeStep' = "token"
    /\ UNCHANGED <<queueVars, threadVars, mysqlVars, token, sent, finished>>

-----------------------------------------------------------------------------
(* DatabaseWorker::WorkerThread. *)

Goto(w, from, to) == at[w] = from /\ at' = [at EXCEPT ![w] = to]

WorkerBlock(w) ==
    /\ at[w] = "pop"
    /\ Block(w)
    /\ UNCHANGED <<threadVars, mysqlVars, closeVars, sent, finished>>

WorkerWakes(w) ==
    /\ SpuriousWakeup(w)
    /\ UNCHANGED <<threadVars, mysqlVars, closeVars, sent, finished>>

WorkerTake(w) ==
    /\ Goto(w, "pop", "popped")
    /\ Take(w)
    /\ task' = [task EXCEPT ![w] = Head(queue)]
    /\ UNCHANGED <<line, deadlocked, tries, retrying, mysqlVars, closeVars, sent, finished>>

WorkerReturnEmpty(w) ==
    /\ Goto(w, "pop", "popped")
    /\ ReturnEmpty(w)
    /\ UNCHANGED <<task, line, deadlocked, tries, retrying, mysqlVars, closeVars, sent, finished>>

WorkerExit(w) ==
    /\ token[w] \/ task[w] = NoTask
    /\ Goto(w, "popped", "exit")
    /\ UNCHANGED <<queueVars, task, line, deadlocked, tries, retrying, mysqlVars, closeVars,
                   sent, finished>>

CallTask(w) ==
    /\ ~token[w] /\ task[w] # NoTask
    /\ Goto(w, "popped", IF task[w] \in Transactions THEN "start" ELSE "statement")
    /\ line' = [line EXCEPT ![w] = 1]
    /\ tries' = [tries EXCEPT ![w] = 0]
    /\ UNCHANGED <<queueVars, task, deadlocked, retrying, mysqlVars, closeVars, sent, finished>>

\* Mutant of FinishTask: `return true` in the retry loop without an unlock.
FinishStillLocked(w) ==
    /\ Goto(w, "done", "pop")
    /\ finished' = finished \cup {task[w]}
    /\ task' = [task EXCEPT ![w] = NoTask]
    /\ line' = [line EXCEPT ![w] = 1]
    /\ deadlocked' = [deadlocked EXCEPT ![w] = FALSE]
    /\ tries' = [tries EXCEPT ![w] = 0]
    /\ UNCHANGED <<queueVars, retrying, mysqlVars, closeVars, sent>>

\* The task is deleted, and the locals of its Execute are gone; leaving the retry
\* loop releases _deadlockLock.
FinishTask(w) ==
    /\ Goto(w, "done", "pop")
    /\ finished' = finished \cup {task[w]}
    /\ task' = [task EXCEPT ![w] = NoTask]
    /\ retrying' = IF retrying = w THEN 0 ELSE retrying
    /\ line' = [line EXCEPT ![w] = 1]
    /\ deadlocked' = [deadlocked EXCEPT ![w] = FALSE]
    /\ tries' = [tries EXCEPT ![w] = 0]
    /\ UNCHANGED <<queueVars, mysqlVars, closeVars, sent>>

-----------------------------------------------------------------------------
(* MySQLConnection::Execute and ExecuteTransaction; `line` is its loop. *)

\* Mutant of AfterFailure: a failed transaction is not rolled back.
WithoutRollback(w) ==
    CASE at[w] = "start" -> "statement"
      [] at[w] = "statement" -> IF task[w] \in Transactions THEN "failed" ELSE "done"
      [] at[w] = "rollback" -> "failed"
      [] at[w] = "commit" -> "done"

\* Where ExecuteTransaction goes on when Execute returns false: the results of
\* START TRANSACTION, COMMIT and ROLLBACK are not looked at.
AfterFailure(w) ==
    CASE at[w] = "start" -> "statement"
      [] at[w] = "statement" -> IF task[w] \in Transactions THEN "rollback" ELSE "done"
      [] at[w] = "rollback" -> "failed"
      [] at[w] = "commit" -> "done"

Executing(w) == at[w] \in {"start", "statement", "rollback", "commit"}

Proceed(w, to) == at' = [at EXCEPT ![w] = to]
Keep(w) == UNCHANGED <<queueVars, task, tries, retrying, closeVars, sent, finished>>

\* MySQL commits an open transaction implicitly when another one starts.
Start(w) ==
    /\ Goto(w, "start", "statement") /\ connected[w]
    /\ open' = [open EXCEPT ![w] = TRUE]
    /\ work' = [work EXCEPT ![w] = <<>>]
    /\ db' = db \o work[w]
    /\ line' = [line EXCEPT ![w] = 1]
    /\ Keep(w) /\ UNCHANGED <<deadlocked, connected, drops, hit>>

\* What is written, and on which connection.
Write(w) == <<task[w], line[w], w>>

ExecuteStatement(w) ==
    /\ at[w] = "statement" /\ connected[w]
    /\ IF open[w] THEN work' = [work EXCEPT ![w] = Append(@, Write(w))] /\ UNCHANGED db
                  ELSE db' = Append(db, Write(w)) /\ UNCHANGED work
    /\ IF line[w] < Length[task[w]]
       THEN line' = [line EXCEPT ![w] = @ + 1] /\ UNCHANGED at
       ELSE Proceed(w, IF task[w] \in Transactions THEN "commit" ELSE "done") /\ UNCHANGED line
    /\ Keep(w) /\ UNCHANGED <<deadlocked, connected, open, drops, hit>>

\* A statement fails: after a deadlock MySQL has rolled back on its own.
FailStatement(w, deadlock) ==
    /\ at[w] = "statement" /\ connected[w]
    /\ Proceed(w, AfterFailure(w))
    /\ deadlocked' = [deadlocked EXCEPT ![w] = deadlock]
    /\ open' = [open EXCEPT ![w] = @ /\ ~deadlock]
    /\ work' = [work EXCEPT ![w] = IF deadlock THEN <<>> ELSE @]
    /\ Keep(w) /\ UNCHANGED <<line, connected, db, drops, hit>>

Commit(w) ==
    /\ Goto(w, "commit", "done") /\ connected[w]
    /\ db' = db \o work[w]
    /\ open' = [open EXCEPT ![w] = FALSE]
    /\ work' = [work EXCEPT ![w] = <<>>]
    /\ Keep(w) /\ UNCHANGED <<line, deadlocked, connected, drops, hit>>

Rollback(w) ==
    /\ Goto(w, "rollback", "failed") /\ connected[w]
    /\ open' = [open EXCEPT ![w] = FALSE]
    /\ work' = [work EXCEPT ![w] = <<>>]
    /\ Keep(w) /\ UNCHANGED <<line, deadlocked, connected, db, drops, hit>>

\* The connection is lost before or after MySQL ran what was sent.
\* _HandleMySQLErrno reopens it, with autocommit, and Execute sends the same
\* again; or the one attempt to reopen fails, m_Mysql stays NULL and Execute
\* returns false.
LoseConnection(w) ==
    /\ Executing(w) /\ connected[w] /\ drops < MaxDrops
    /\ drops' = drops + 1
    /\ hit' = hit \cup {task[w]}
    /\ db' \in {db, CASE at[w] = "statement" /\ ~open[w] -> Append(db, Write(w))
                      [] at[w] = "commit" -> db \o work[w]
                      [] OTHER -> db}
    /\ open' = [open EXCEPT ![w] = FALSE]
    /\ work' = [work EXCEPT ![w] = <<>>]
    /\ \/ UNCHANGED <<at, connected, deadlocked>>
       \/ /\ connected' = [connected EXCEPT ![w] = FALSE]
          /\ Proceed(w, AfterFailure(w))
          /\ deadlocked' = [deadlocked EXCEPT ![w] = @ /\ at[w] # "statement"]
    /\ Keep(w) /\ UNCHANGED line

\* MySQL refuses START TRANSACTION, COMMIT or ROLLBACK: ExecuteTransaction does
\* not notice.  After the first one the statements run without a transaction.
Refuse(w) ==
    /\ at[w] \in {"start", "rollback", "commit"} /\ connected[w] /\ drops < MaxDrops
    /\ Proceed(w, AfterFailure(w))
    /\ drops' = drops + 1
    /\ hit' = IF at[w] = "start" THEN hit \cup {task[w]} ELSE hit
    /\ line' = [line EXCEPT ![w] = IF at[w] = "start" THEN 1 ELSE @]
    /\ open' = [open EXCEPT ![w] = FALSE]
    /\ work' = [work EXCEPT ![w] = <<>>]
    /\ Keep(w) /\ UNCHANGED <<deadlocked, connected, db>>

\* `if (!m_Mysql) return false`, for every later task of the worker.
NotConnected(w) ==
    /\ Executing(w) /\ ~connected[w]
    /\ Proceed(w, AfterFailure(w))
    /\ line' = [line EXCEPT ![w] = IF at[w] = "start" THEN 1 ELSE @]
    /\ deadlocked' = [deadlocked EXCEPT ![w] = @ /\ at[w] # "statement"]
    /\ Keep(w) /\ UNCHANGED mysqlVars

-----------------------------------------------------------------------------
(* TransactionTask::Execute. *)

\* Mutant of Retry: the bound on the retries is off by one.
RetryOnceMore(w) ==
    /\ Goto(w, "failed", "start")
    /\ \/ tries[w] = 0 /\ deadlocked[w] /\ retrying = 0 /\ retrying' = w
       \/ tries[w] \in 1..Retries /\ UNCHANGED retrying
    /\ tries' = [tries EXCEPT ![w] = @ + 1]
    /\ UNCHANGED <<queueVars, task, line, deadlocked, mysqlVars, closeVars, sent, finished>>

\* A deadlock at the first attempt: take _deadlockLock and retry.
Retry(w) ==
    /\ Goto(w, "failed", "start")
    /\ \/ tries[w] = 0 /\ deadlocked[w] /\ retrying = 0 /\ retrying' = w
       \/ tries[w] \in 1..(Retries - 1) /\ UNCHANGED retrying
    /\ tries' = [tries EXCEPT ![w] = @ + 1]
    /\ UNCHANGED <<queueVars, task, line, deadlocked, mysqlVars, closeVars, sent, finished>>

\* Another error, or the last retry failed: the transaction is dropped.
GiveUp(w) ==
    /\ Goto(w, "failed", "done")
    /\ (tries[w] = 0 /\ ~deadlocked[w]) \/ tries[w] = Retries
    /\ UNCHANGED <<queueVars, task, line, deadlocked, tries, retrying, mysqlVars, closeVars,
                   sent, finished>>

-----------------------------------------------------------------------------
WorkerStep(w) ==
    \/ WorkerBlock(w) \/ WorkerTake(w) \/ WorkerReturnEmpty(w) \/ WorkerExit(w)
    \/ CallTask(w) \/ FinishTask(w)
    \/ Start(w) \/ ExecuteStatement(w) \/ Commit(w) \/ Rollback(w)
    \/ \E deadlock \in BOOLEAN : FailStatement(w, deadlock)
    \/ LoseConnection(w) \/ Refuse(w) \/ NotConnected(w)
    \/ Retry(w) \/ GiveUp(w)

CloseStep == SetToken \/ CancelQueue \/ Join

\* Close() has returned.
Closed == closing > Connections /\ UNCHANGED vars

Next ==
    \/ \E t \in Tasks : Enqueue(t)
    \/ BeginClose \/ CloseStep \/ Closed
    \/ \E w \in Workers : WorkerStep(w) \/ WorkerWakes(w)

Spec == Init /\ [][Next]_vars

\* The operating system schedules every thread that can run.
FairSpec == Spec /\ WF_vars(CloseStep) /\ \A w \in Workers : WF_vars(WorkerStep(w))

-----------------------------------------------------------------------------
(* Properties. *)

TypeOK ==
    /\ queue \in Seq(Tasks) /\ waiting \subseteq Workers /\ shutdown \in BOOLEAN
    /\ closing \in 0..(Connections + 1) /\ closeStep \in {"token", "cancel", "join"}
    /\ token \in [Workers -> BOOLEAN]
    /\ at \in [Workers -> {"pop", "popped", "start", "statement", "rollback", "commit",
                           "failed", "done", "exit"}]
    /\ task \in [Workers -> Tasks \cup {NoTask}]
    /\ line \in [Workers -> Nat \ {0}]
    /\ deadlocked \in [Workers -> BOOLEAN]
    /\ tries \in [Workers -> 0..Retries]
    /\ retrying \in {0} \cup Workers
    /\ connected \in [Workers -> BOOLEAN]
    /\ open \in [Workers -> BOOLEAN]
    /\ work \in [Workers -> Seq(Tasks \X Nat \X Workers)]
    /\ db \in Seq(Tasks \X Nat \X Workers)
    /\ drops \in 0..MaxDrops
    /\ sent \in Seq(Tasks) /\ finished \subseteq Tasks /\ hit \subseteq Tasks

\* The statements of a task that have taken effect.
Written(t) == {w[2] : w \in {v \in Range(db) : v[1] = t}}

\* Task t has taken effect right after position k of db, and nowhere else.
AppliedAt(t, k) ==
    /\ k + Length[t] <= Len(db)
    /\ \A i \in DOMAIN db : IF i \in (k + 1)..(k + Length[t])
                            THEN db[i][1] = t /\ db[i][2] = i - k
                            ELSE db[i][1] # t

NotApplied(t) == \A i \in DOMAIN db : db[i][1] # t

\* A task takes effect once, as a whole, in one piece and with its statements
\* in order, or not at all, through errors, deadlocks and retries, and when
\* other workers fail: unless its own connection was lost or its START
\* TRANSACTION refused.
AllOrNothing ==
    \A t \in Tasks \ hit : NotApplied(t) \/ \E k \in 0..Len(db) : AppliedAt(t, k)

\* Tasks that one connection executes take effect in the order they were
\* enqueued: with the one connection of the default configuration saving and
\* reloading the same rows can rely on it.
OrderKept ==
    \A i, j \in DOMAIN db : i < j /\ db[i][3] = db[j][3] =>
        \E m, n \in DOMAIN sent : m <= n /\ sent[m] = db[i][1] /\ sent[n] = db[j][1]

\* Every task is executed, whatever worker sleeps, fails or loses its
\* connection, unless the pool is closed.
TasksRun == \A t \in Tasks : t \in Range(sent) ~> (t \in finished \/ closing > 0)

\* Close() joins every worker, although the first connection's worker cancels
\* the queue of all of them.
CloseEnds == closing = 1 ~> closing = Connections + 1

\* worldserver/Main.cpp:243 "save and kick all players", before StopDB: the
\* saves have been executed when Close() returns.
SavesAreExecuted == closing > Connections => Range(sent) \subseteq finished
=============================================================================
