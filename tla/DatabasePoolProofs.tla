--------------------------- MODULE DatabasePoolProofs ---------------------------
(***************************************************************************)
(* Theorems about DatabasePool, for any tasks, any number of connections   *)
(* and any number of retries, lost connections and refused commands.       *)
(***************************************************************************)
EXTENDS DatabasePool, TLAPS

-----------------------------------------------------------------------------
(* The invariant.                                                          *)

Writes == Tasks \X Nat \X Workers

SentIn(s, t) == \E m \in DOMAIN s : s[m] = t

\* A task is enqueued once and is in one place: in the queue or with one worker.
PlaceInv ==
    /\ \A i, j \in DOMAIN queue : queue[i] = queue[j] => i = j
    /\ \A i \in DOMAIN queue : SentIn(sent, queue[i])
    /\ \A w \in Workers : task[w] # NoTask => SentIn(sent, task[w])
    /\ \A w \in Workers : \A i \in DOMAIN queue : task[w] # queue[i]
    /\ \A v, w \in Workers : task[v] = task[w] /\ task[v] # NoTask => v = w
    /\ \A w \in Workers : at[w] = "pop" => task[w] = NoTask
    /\ \A w \in Workers :
          at[w] \notin {"pop", "popped", "exit"} => task[w] # NoTask

\* What MySQL holds back is of the worker's own transaction, and there is
\* something only while a transaction is open.
WorkInv ==
    \A w \in Workers :
        /\ ~open[w] => work[w] = <<>>
        /\ open[w] => at[w] \in {"statement", "rollback", "commit"}
        /\ open[w] => task[w] \in Transactions /\ connected[w]
        /\ \A i \in DOMAIN work[w] : work[w][i][1] = task[w] /\ work[w][i][3] = w

\* Where a worker is in its task.
LineInv ==
    \A w \in Workers :
        /\ at[w] \in {"start", "rollback", "commit", "failed"} => task[w] \in Transactions
        /\ at[w] \in {"start", "statement", "rollback", "commit", "failed"} =>
              line[w] <= Length[task[w]]
        /\ at[w] = "statement" /\ connected[w] /\ task[w] \in Transactions \ hit =>
              open[w] /\ Len(work[w]) = line[w] - 1
        /\ at[w] = "commit" /\ task[w] \notin hit => Len(work[w]) = Length[task[w]]
        /\ task[w] \notin hit => \A i \in DOMAIN work[w] : work[w][i][2] = i

NothingIn(d, t) == \A i \in DOMAIN d : d[i][1] # t

\* What is queued, or held and not done, is not in the database.
AppliedInv ==
    /\ \A i \in DOMAIN db : SentIn(sent, db[i][1])
    /\ \A i \in DOMAIN queue : NothingIn(db, queue[i])
    /\ \A w \in Workers :
          task[w] \notin hit /\ at[w] # "done" => NothingIn(db, task[w])

\* Task a was enqueued no later than task b.
Before(s, a, b) == \E m, n \in DOMAIN s : m <= n /\ s[m] = a /\ s[n] = b

\* The queue is in order, what a worker holds comes before what is queued, and
\* what it has written comes before what it holds.
OrderInv ==
    /\ \A i, j \in DOMAIN queue : i < j => Before(sent, queue[i], queue[j])
    /\ \A w \in Workers : task[w] # NoTask =>
          \A i \in DOMAIN queue : Before(sent, task[w], queue[i])
    /\ \A i \in DOMAIN db :
          /\ \A j \in DOMAIN queue : Before(sent, db[i][1], queue[j])
          /\ task[db[i][3]] # NoTask => Before(sent, db[i][1], task[db[i][3]])

-----------------------------------------------------------------------------
(* Types.                                                                  *)

Places == {"pop", "popped", "start", "statement", "rollback", "commit", "failed",
           "done", "exit"}

QueueType ==
    /\ queue \in Seq(Tasks) /\ waiting \subseteq Workers /\ shutdown \in BOOLEAN
    /\ sent \in Seq(Tasks) /\ finished \subseteq Tasks

CloseType ==
    /\ closing \in 0..(Connections + 1) /\ closeStep \in {"token", "cancel", "join"}
    /\ token \in [Workers -> BOOLEAN]

ThreadType ==
    /\ at \in [Workers -> Places]
    /\ task \in [Workers -> Tasks \cup {NoTask}]
    /\ line \in [Workers -> Nat \ {0}]
    /\ deadlocked \in [Workers -> BOOLEAN]
    /\ tries \in [Workers -> 0..Retries]
    /\ retrying \in {0} \cup Workers

MysqlType ==
    /\ connected \in [Workers -> BOOLEAN]
    /\ open \in [Workers -> BOOLEAN]
    /\ work \in [Workers -> Seq(Writes)]
    /\ db \in Seq(Writes)
    /\ drops \in 0..MaxDrops
    /\ hit \subseteq Tasks

LEMMA TypeParts == TypeOK <=> QueueType /\ CloseType /\ ThreadType /\ MysqlType
  BY DEF TypeOK, QueueType, CloseType, ThreadType, MysqlType, Places, Writes

LEMMA TypePartsNext == TypeOK' <=> QueueType' /\ CloseType' /\ ThreadType' /\ MysqlType'
  BY DEF TypeOK, QueueType, CloseType, ThreadType, MysqlType, Places, Writes

LEMMA Empties == <<>> \in Seq(Tasks) /\ <<>> \in Seq(Writes)
  OBVIOUS

LEMMA InitType == Init => TypeOK
<1> SUFFICES ASSUME Init PROVE TypeOK
  OBVIOUS
<1>1. QueueType
  BY Empties DEF Init, QueueInit, QueueType
<1>2. CloseType
  BY PoolAssumption DEF Init, CloseType
<1>3. ThreadType
  BY PoolAssumption DEF Init, ThreadType, Places
<1>4. MysqlType
  BY PoolAssumption, Empties DEF Init, MysqlType
<1> QED BY <1>1, <1>2, <1>3, <1>4, TypeParts

\* Steps of callers and of Close().
LEMMA OutsideType ==
  ASSUME TypeOK,
         (\E t \in Tasks : Enqueue(t)) \/ BeginClose \/ CloseStep \/ Closed
  PROVE  TypeOK'
<1> USE TypeParts, TypePartsNext
<1>1. CASE \E t \in Tasks : Enqueue(t)
  <2> PICK t \in Tasks : Enqueue(t)
    BY <1>1
  <2>1. QueueType'
    BY DEF QueueType, Enqueue, Push, NotifyOne
  <2>2. UNCHANGED <<threadVars, mysqlVars, closeVars>>
    BY DEF Enqueue
  <2> QED BY <2>1, <2>2 DEF CloseType, ThreadType, MysqlType, threadVars, mysqlVars, closeVars
<1>2. CASE BeginClose
  <2>1. CloseType'
    BY <1>2, PoolAssumption DEF CloseType, BeginClose
  <2>2. UNCHANGED <<queueVars, threadVars, mysqlVars, sent, finished>>
    BY <1>2 DEF BeginClose
  <2> QED BY <2>1, <2>2 DEF QueueType, ThreadType, MysqlType, threadVars, mysqlVars, queueVars
<1>3. CASE SetToken
  <2>1. CloseType'
    BY <1>3 DEF CloseType, SetToken
  <2>2. UNCHANGED <<queueVars, threadVars, mysqlVars, sent, finished>>
    BY <1>3 DEF SetToken
  <2> QED BY <2>1, <2>2 DEF QueueType, ThreadType, MysqlType, threadVars, mysqlVars, queueVars
<1>4. CASE CancelQueue
  <2>1. CloseType' /\ QueueType'
    BY <1>4, Empties DEF CloseType, QueueType, CancelQueue, Cancel
  <2>2. UNCHANGED <<threadVars, mysqlVars>>
    BY <1>4 DEF CancelQueue
  <2> QED BY <2>1, <2>2 DEF ThreadType, MysqlType, threadVars, mysqlVars
<1>5. CASE Join
  <2>1. CloseType'
    BY <1>5, PoolAssumption DEF CloseType, Join, Workers
  <2>2. UNCHANGED <<queueVars, threadVars, mysqlVars, sent, finished>>
    BY <1>5 DEF Join
  <2> QED BY <2>1, <2>2 DEF QueueType, ThreadType, MysqlType, threadVars, mysqlVars, queueVars
<1>6. CASE Closed
  BY <1>6 DEF TypeOK, Closed, vars, queueVars, threadVars, mysqlVars, closeVars
<1> QED BY <1>1, <1>2, <1>3, <1>4, <1>5, <1>6 DEF CloseStep

\* Steps of a worker thread around its tasks.
LEMMA ThreadStepType ==
  ASSUME TypeOK, PlaceInv, NEW w \in Workers,
         \/ WorkerBlock(w) \/ WorkerWakes(w) \/ WorkerTake(w) \/ WorkerReturnEmpty(w)
         \/ WorkerExit(w) \/ CallTask(w) \/ FinishTask(w) \/ Retry(w) \/ GiveUp(w)
  PROVE  TypeOK'
<1> USE PoolAssumption, TypeParts, TypePartsNext
<1>1. MysqlType' /\ CloseType'
  <2>1. UNCHANGED <<mysqlVars, closeVars>>
    BY DEF WorkerBlock, WorkerWakes, WorkerTake, WorkerReturnEmpty, WorkerExit, CallTask,
           FinishTask, Retry, GiveUp
  <2> QED BY <2>1 DEF MysqlType, CloseType, mysqlVars, closeVars
<1>2. CASE WorkerBlock(w) \/ WorkerWakes(w)
  BY <1>1, <1>2 DEF QueueType, ThreadType, WorkerBlock, Block, WorkerWakes, SpuriousWakeup,
     threadVars
<1>3. CASE WorkerTake(w)
  <2>1. Head(queue) \in Tasks /\ Tail(queue) \in Seq(Tasks)
    BY <1>3 DEF WorkerTake, Take, QueueType
  <2>2. QueueType'
    BY <1>3, <2>1 DEF QueueType, WorkerTake, Take
  <2>3. ThreadType'
    BY <1>3, <2>1 DEF ThreadType, WorkerTake, Goto, Places
  <2> QED BY <1>1, <2>2, <2>3
<1>4. CASE WorkerReturnEmpty(w)
  BY <1>1, <1>4 DEF QueueType, ThreadType, WorkerReturnEmpty, ReturnEmpty, queueVars, Goto, Places
<1>5. CASE WorkerExit(w)
  BY <1>1, <1>5 DEF QueueType, ThreadType, WorkerExit, queueVars, Goto, Places
<1>6. CASE CallTask(w)
  BY <1>1, <1>6 DEF QueueType, ThreadType, CallTask, queueVars, Goto, Places
<1>7. CASE FinishTask(w)
  <2>1. QueueType'
    BY <1>7 DEF QueueType, ThreadType, FinishTask, queueVars, Goto, PlaceInv
  <2>2. ThreadType'
    BY <1>7 DEF ThreadType, FinishTask, Goto, Places
  <2> QED BY <1>1, <2>1, <2>2
<1>8. CASE Retry(w)
  BY <1>1, <1>8 DEF QueueType, ThreadType, Retry, queueVars, Goto, Places
<1>9. CASE GiveUp(w)
  BY <1>1, <1>9 DEF QueueType, ThreadType, GiveUp, queueVars, Goto, Places
<1> QED BY <1>2, <1>3, <1>4, <1>5, <1>6, <1>7, <1>8, <1>9

\* What a worker writes is a write, and a statement that fails has a next place.
LEMMA WriteType ==
  ASSUME TypeOK, PlaceInv, NEW w \in Workers, Executing(w)
  PROVE  Write(w) \in Writes /\ task[w] \in Tasks /\ AfterFailure(w) \in Places
<1>1. task[w] \in Tasks
  BY ZenonT(30) DEF TypeOK, PlaceInv, Executing
<1>2. line[w] \in Nat
  BY DEF TypeOK
<1>3. AfterFailure(w) \in Places
  BY DEF AfterFailure, Executing, Places
<1> QED BY <1>1, <1>2, <1>3 DEF Write, Writes

\* The answers of MySQL.
LEMMA StatementType ==
  ASSUME TypeOK, PlaceInv, NEW w \in Workers,
         \/ Start(w) \/ ExecuteStatement(w) \/ Commit(w) \/ Rollback(w)
         \/ (\E deadlock \in BOOLEAN : FailStatement(w, deadlock))
         \/ LoseConnection(w) \/ Refuse(w) \/ NotConnected(w)
  PROVE  TypeOK'
<1> USE PoolAssumption, TypeParts, TypePartsNext, Empties
<1>1. Executing(w)
  BY DEF Executing, Start, ExecuteStatement, Commit, Rollback, FailStatement, LoseConnection,
         Refuse, NotConnected, Goto
<1>2. Write(w) \in Writes /\ task[w] \in Tasks /\ AfterFailure(w) \in Places
  BY <1>1, WriteType
<1>3. QueueType' /\ CloseType'
  <2>1. UNCHANGED <<queueVars, closeVars, sent, finished>>
    BY DEF Start, ExecuteStatement, Commit, Rollback, FailStatement, LoseConnection,
           Refuse, NotConnected, Keep, queueVars, closeVars
  <2> QED BY <2>1 DEF QueueType, CloseType, queueVars, closeVars
<1>4. db' \in Seq(Writes)
  <2>1. /\ db \in Seq(Writes) /\ db \o work[w] \in Seq(Writes)
        /\ Append(db, Write(w)) \in Seq(Writes)
    BY <1>2 DEF MysqlType
  <2> QED BY <2>1 DEF Start, ExecuteStatement, Commit, Rollback, FailStatement, LoseConnection,
                      Refuse, NotConnected, mysqlVars
<1>5. work' \in [Workers -> Seq(Writes)]
  <2>1. Append(work[w], Write(w)) \in Seq(Writes)
    BY <1>2 DEF MysqlType
  <2> QED BY <2>1 DEF MysqlType, Start, ExecuteStatement, Commit, Rollback, FailStatement,
                      LoseConnection, Refuse, NotConnected, mysqlVars
<1>6. /\ open' \in [Workers -> BOOLEAN] /\ connected' \in [Workers -> BOOLEAN]
      /\ drops' \in 0..MaxDrops /\ hit' \subseteq Tasks
  <2>1. CASE LoseConnection(w)
    <3>1. drops' \in 0..MaxDrops
      BY <2>1 DEF MysqlType, LoseConnection
    <3>2. hit' \subseteq Tasks
      BY <1>2, <2>1 DEF MysqlType, LoseConnection
    <3>3. open' \in [Workers -> BOOLEAN] /\ connected' \in [Workers -> BOOLEAN]
      BY <2>1 DEF MysqlType, LoseConnection
    <3> QED BY <3>1, <3>2, <3>3
  <2>2. CASE NotConnected(w)
    BY <2>2 DEF MysqlType, NotConnected, mysqlVars
  <2>3. CASE Refuse(w)
    <3>1. drops' \in 0..MaxDrops /\ hit' \subseteq Tasks
      BY <1>2, <2>3 DEF MysqlType, Refuse
    <3> QED BY <2>3, <3>1 DEF MysqlType, Refuse
  <2>4. CASE ~LoseConnection(w) /\ ~Refuse(w) /\ ~NotConnected(w)
    <3>1. UNCHANGED <<connected, drops, hit>>
      BY <2>4 DEF Start, ExecuteStatement, Commit, Rollback, FailStatement
    <3>2. open' \in [Workers -> BOOLEAN]
      BY <2>4 DEF MysqlType, Start, ExecuteStatement, Commit, Rollback, FailStatement
    <3> QED BY <3>1, <3>2 DEF MysqlType
  <2> QED BY <2>1, <2>2, <2>3, <2>4
<1>7. at' \in [Workers -> Places]
  <2>1. CASE ExecuteStatement(w)
    BY <2>1 DEF ThreadType, ExecuteStatement, Proceed, Places
  <2>2. CASE Start(w) \/ Commit(w) \/ Rollback(w)
    BY ZenonT(30), <2>2 DEF ThreadType, Start, Commit, Rollback, Goto, Places
  <2>3. CASE Refuse(w) \/ NotConnected(w) \/ \E deadlock \in BOOLEAN : FailStatement(w, deadlock)
    BY <1>2, <2>3 DEF ThreadType, FailStatement, Refuse, NotConnected, Proceed
  <2>4. CASE LoseConnection(w)
    <3>1. at' = at \/ at' = [at EXCEPT ![w] = AfterFailure(w)]
      BY <2>4 DEF LoseConnection, Proceed
    <3> QED BY <1>2, <3>1 DEF ThreadType
  <2> QED BY <2>1, <2>2, <2>3, <2>4
<1>8. line' \in [Workers -> Nat \ {0}]
  BY DEF ThreadType, Start, ExecuteStatement, Commit, Rollback, FailStatement,
         LoseConnection, Refuse, NotConnected
<1>9. deadlocked' \in [Workers -> BOOLEAN]
  <2>1. CASE (\E deadlock \in BOOLEAN : FailStatement(w, deadlock))
    BY <2>1 DEF ThreadType, FailStatement
  <2>2. CASE LoseConnection(w)
    BY <2>2 DEF ThreadType, LoseConnection
  <2>3. CASE NotConnected(w)
    BY <2>3 DEF ThreadType, NotConnected
  <2>4. CASE Start(w) \/ ExecuteStatement(w) \/ Commit(w) \/ Rollback(w) \/ Refuse(w)
    BY <2>4 DEF ThreadType, Start, ExecuteStatement, Commit, Rollback, Refuse
  <2> QED BY <2>1, <2>2, <2>3, <2>4
<1>10. UNCHANGED <<task, tries, retrying>>
  BY DEF Start, ExecuteStatement, Commit, Rollback, FailStatement, LoseConnection,
         Refuse, NotConnected, Keep
<1> QED BY <1>3, <1>4, <1>5, <1>6, <1>7, <1>8, <1>9, <1>10 DEF MysqlType, ThreadType
-----------------------------------------------------------------------------
(* Places of tasks.                                                        *)

\* A task that is enqueued goes to the end of the queue and of `sent'.
LEMMA EnqueueFacts ==
  ASSUME TypeOK, NEW t \in Tasks, Enqueue(t)
  PROVE  /\ queue' = Append(queue, t) /\ sent' = Append(sent, t)
         /\ \A i \in DOMAIN queue' :
               \/ i \in DOMAIN queue /\ queue'[i] = queue[i]
               \/ i = Len(queue) + 1 /\ queue'[i] = t
         /\ \A m \in DOMAIN sent : m \in DOMAIN sent' /\ sent'[m] = sent[m]
         /\ Len(sent) + 1 \in DOMAIN sent' /\ sent'[Len(sent) + 1] = t
         /\ ~SentIn(sent, t)
<1>1. queue' = Append(queue, t) /\ sent' = Append(sent, t)
  BY DEF Enqueue, Push
<1>2. queue \in Seq(Tasks) /\ sent \in Seq(Tasks)
  BY DEF TypeOK
<1>3. \A i \in DOMAIN queue' : \/ i \in DOMAIN queue /\ queue'[i] = queue[i]
                               \/ i = Len(queue) + 1 /\ queue'[i] = t
  BY <1>1, <1>2
<1>4. /\ \A m \in DOMAIN sent : m \in DOMAIN sent' /\ sent'[m] = sent[m]
      /\ Len(sent) + 1 \in DOMAIN sent' /\ sent'[Len(sent) + 1] = t
  BY <1>1, <1>2
<1>5. ~SentIn(sent, t)
  BY DEF SentIn, Enqueue, Range
<1> QED BY <1>1, <1>3, <1>4, <1>5

\* Take removes the oldest task.
LEMMA TakeFacts ==
  ASSUME TypeOK, NEW w \in Workers, WorkerTake(w)
  PROVE  /\ task' = [task EXCEPT ![w] = queue[1]]
         /\ 1 \in DOMAIN queue
         /\ \A i \in DOMAIN queue' : i + 1 \in DOMAIN queue /\ queue'[i] = queue[i + 1] /\ i + 1 # 1
         /\ \A i \in DOMAIN queue' : i \in Nat
<1>1. queue \in Seq(Tasks) /\ queue # <<>> /\ queue' = Tail(queue)
  BY DEF TypeOK, WorkerTake, Take
<1>2. Head(queue) = queue[1] /\ 1 \in DOMAIN queue
  BY <1>1
<1>3. \A i \in DOMAIN queue' : /\ i + 1 \in DOMAIN queue /\ queue'[i] = queue[i + 1]
                               /\ i + 1 # 1 /\ i \in Nat
  BY <1>1
<1> QED BY <1>2, <1>3 DEF WorkerTake

\* The steps that touch neither the queue nor who holds which task.
HoldingUnchanged == UNCHANGED <<queue, sent, task>>

LEMMA PlaceUnchanged ==
  ASSUME TypeOK, PlaceInv, HoldingUnchanged,
         \A w \in Workers : at'[w] = "pop" => at[w] = "pop",
         \A w \in Workers : at'[w] \notin {"pop", "popped", "exit"} => task[w] # NoTask
  PROVE  PlaceInv'
BY DEF PlaceInv, HoldingUnchanged, SentIn

LEMMA PlaceStep ==
  ASSUME TypeOK, PlaceInv, [Next]_vars
  PROVE  PlaceInv'
<1> USE DEF SentIn
<1>1. ASSUME NEW t \in Tasks, Enqueue(t) PROVE PlaceInv'
  <2>1. UNCHANGED <<at, task>>
    BY <1>1 DEF Enqueue, threadVars
  <2>2. \A w \in Workers : task[w] # t
    <3>1. t # NoTask
      BY PoolAssumption
    <3>2. ~SentIn(sent, t)
      BY <1>1, EnqueueFacts
    <3> QED BY <3>1, <3>2 DEF PlaceInv
  <2>3. \A i \in DOMAIN queue : queue[i] # t
    BY <1>1, EnqueueFacts DEF PlaceInv
  <2>4. \A x : SentIn(sent, x) => SentIn(sent', x)
    BY <1>1, EnqueueFacts
  <2>5. SentIn(sent', t)
    BY <1>1, EnqueueFacts
  <2>6. \A i, j \in DOMAIN queue' : queue'[i] = queue'[j] => i = j
    BY <1>1, <2>3, EnqueueFacts DEF PlaceInv
  <2>7. \A i \in DOMAIN queue' : SentIn(sent', queue'[i]) /\ \A w \in Workers : task[w] # queue'[i]
    BY <1>1, <2>2, <2>4, <2>5, EnqueueFacts DEF PlaceInv
  <2> HIDE DEF SentIn
  <2> QED BY <2>1, <2>4, <2>6, <2>7 DEF PlaceInv
<1>2. CASE CancelQueue
  <2>1. queue' = <<>> /\ UNCHANGED <<at, task, sent>>
    BY <1>2 DEF CancelQueue, Cancel, threadVars
  <2> QED BY <2>1 DEF PlaceInv
<1>3. CASE BeginClose \/ SetToken \/ Join \/ Closed \/ UNCHANGED vars
  <2>1. HoldingUnchanged /\ UNCHANGED at
    BY <1>3 DEF BeginClose, SetToken, Join, Closed, vars, queueVars, threadVars, HoldingUnchanged
  <2> QED BY <2>1, PlaceUnchanged DEF PlaceInv
<1>4. ASSUME NEW w \in Workers, WorkerTake(w) PROVE PlaceInv'
  <2>1. at' = [at EXCEPT ![w] = "popped"] /\ at[w] = "pop" /\ UNCHANGED sent
    BY <1>4 DEF WorkerTake, Goto
  <2>2. task[w] = NoTask
    BY <2>1 DEF PlaceInv
  <2>3. queue[1] \in Tasks
    BY <1>4, TakeFacts DEF TypeOK
  <2>4. task' = [task EXCEPT ![w] = queue[1]] /\ DOMAIN task = Workers /\ DOMAIN at = Workers
    BY <1>4, TakeFacts DEF TypeOK
  <2>5. \A v \in Workers : task'[v] = IF v = w THEN queue[1] ELSE task[v]
    BY <2>4
  <2>6. \A i \in DOMAIN queue' : SentIn(sent', queue'[i]) /\ queue'[i] # queue[1]
    BY <1>4, <2>1, TakeFacts DEF PlaceInv
  <2>7. \A i, j \in DOMAIN queue' : queue'[i] = queue'[j] => i = j
    BY <1>4, TakeFacts DEF PlaceInv
  <2>8. \A v \in Workers : \A i \in DOMAIN queue' : task'[v] # queue'[i]
    BY <1>4, <2>5, <2>6, TakeFacts DEF PlaceInv
  <2>9. \A v \in Workers : task'[v] # NoTask => SentIn(sent', task'[v])
    BY <1>4, <2>1, <2>5, TakeFacts DEF PlaceInv
  <2>10. \A u, v \in Workers : task'[u] = task'[v] /\ task'[u] # NoTask => u = v
    BY <1>4, <2>5, TakeFacts DEF PlaceInv
  <2>11. \A v \in Workers : /\ at'[v] = "pop" => task'[v] = NoTask
                            /\ at'[v] \notin {"pop", "popped", "exit"} => task'[v] # NoTask
    BY <2>1, <2>4, <2>5 DEF PlaceInv
  <2> HIDE DEF SentIn
  <2> QED BY <2>6, <2>7, <2>8, <2>9, <2>10, <2>11 DEF PlaceInv
<1>5. ASSUME NEW w \in Workers, FinishTask(w) PROVE PlaceInv'
  <2>1. /\ at' = [at EXCEPT ![w] = "pop"] /\ task' = [task EXCEPT ![w] = NoTask]
        /\ UNCHANGED <<queue, sent>>
    BY <1>5 DEF FinishTask, Goto, queueVars
  <2>2. \A i \in DOMAIN queue : queue[i] # NoTask
    BY PoolAssumption DEF TypeOK
  <2> QED BY <2>1, <2>2 DEF PlaceInv, TypeOK
<1>6. ASSUME NEW w \in Workers,
             WorkerBlock(w) \/ WorkerWakes(w) \/ WorkerReturnEmpty(w) \/ WorkerExit(w) \/ CallTask(w)
      PROVE  PlaceInv'
  <2>1. HoldingUnchanged
    BY <1>6 DEF WorkerBlock, Block, WorkerWakes, SpuriousWakeup, WorkerReturnEmpty, ReturnEmpty,
       WorkerExit, CallTask, HoldingUnchanged, threadVars, queueVars
  <2>2. \A v \in Workers : /\ at'[v] = "pop" => at[v] = "pop"
                           /\ at'[v] \notin {"pop", "popped", "exit"} => task[v] # NoTask
    BY <1>6 DEF TypeOK, PlaceInv, WorkerBlock, WorkerWakes, WorkerReturnEmpty,
       WorkerExit, CallTask, Goto, threadVars
  <2> QED BY <2>1, <2>2, PlaceUnchanged
<1>7. ASSUME NEW w \in Workers,
             \/ Start(w) \/ ExecuteStatement(w) \/ Commit(w) \/ Rollback(w)
             \/ (\E deadlock \in BOOLEAN : FailStatement(w, deadlock))
             \/ LoseConnection(w) \/ Refuse(w) \/ NotConnected(w) \/ Retry(w) \/ GiveUp(w)
      PROVE  PlaceInv'
  <2>1. HoldingUnchanged
    BY <1>7 DEF Start, ExecuteStatement, Commit, Rollback, FailStatement, LoseConnection,
       Refuse, NotConnected, Retry, GiveUp, Keep, HoldingUnchanged, threadVars, queueVars
  <2>2. at[w] \notin {"pop", "popped", "exit"} /\ \A v \in Workers \ {w} : at'[v] = at[v]
    BY <1>7 DEF TypeOK, Start, ExecuteStatement, Commit, Rollback, FailStatement, LoseConnection,
       Refuse, NotConnected, Retry, GiveUp, Goto, Proceed, Executing
  <2>3. at'[w] # "pop"
    BY <1>7 DEF TypeOK, Start, ExecuteStatement, Commit, Rollback, FailStatement, LoseConnection,
       Refuse, NotConnected, Retry, GiveUp, Goto, Proceed, Executing, AfterFailure
  <2> QED BY <2>1, <2>2, <2>3, PlaceUnchanged DEF PlaceInv
<1> QED BY <1>1, <1>2, <1>3, <1>4, <1>5, <1>6, <1>7 DEF Next, WorkerStep, CloseStep
-----------------------------------------------------------------------------
(* The worker's transaction.                                               *)

StatementInv == WorkInv /\ LineInv

\* What the steps around a task leave alone.
LEMMA StatementUnchanged ==
  ASSUME TypeOK, StatementInv, UNCHANGED <<open, work, connected, hit, task, line>>,
         UNCHANGED at
  PROVE  StatementInv'
BY DEF StatementInv, WorkInv, LineInv

\* The steps of one worker change nothing of another one, and the tasks that
\* lose their connection become more.
Others(w) ==
    /\ \A v \in Workers \ {w} :
          /\ at'[v] = at[v] /\ task'[v] = task[v] /\ line'[v] = line[v]
          /\ open'[v] = open[v] /\ work'[v] = work[v] /\ connected'[v] = connected[v]
    /\ hit \subseteq hit'

\* What WorkInv and LineInv say of worker w.
Own(w) ==
    /\ ~open[w] => work[w] = <<>>
    /\ open[w] => at[w] \in {"statement", "rollback", "commit"}
    /\ open[w] => task[w] \in Transactions /\ connected[w]
    /\ \A i \in DOMAIN work[w] : work[w][i][1] = task[w] /\ work[w][i][3] = w
    /\ at[w] \in {"start", "rollback", "commit", "failed"} => task[w] \in Transactions
    /\ at[w] \in {"start", "statement", "rollback", "commit", "failed"} =>
          line[w] <= Length[task[w]]
    /\ at[w] = "statement" /\ connected[w] /\ task[w] \in Transactions \ hit =>
          open[w] /\ Len(work[w]) = line[w] - 1
    /\ at[w] = "commit" /\ task[w] \notin hit => Len(work[w]) = Length[task[w]]
    /\ task[w] \notin hit => \A i \in DOMAIN work[w] : work[w][i][2] = i

LEMMA OwnSuffices ==
  ASSUME StatementInv, NEW w \in Workers, Others(w), Own(w)'
  PROVE  StatementInv'
<1>1. StatementInv <=> \A v \in Workers : Own(v)
  BY DEF StatementInv, WorkInv, LineInv, Own
<1>2. StatementInv' <=> \A v \in Workers : Own(v)'
  BY DEF StatementInv, WorkInv, LineInv, Own
<1>3. ASSUME NEW v \in Workers \ {w} PROVE Own(v)'
  BY <1>1 DEF Own, Others
<1> QED BY <1>2, <1>3

LEMMA StatementStep ==
  ASSUME TypeOK, PlaceInv, StatementInv, [Next]_vars
  PROVE  StatementInv'
<1>1. CASE (\E t \in Tasks : Enqueue(t)) \/ BeginClose \/ CloseStep \/ Closed \/ UNCHANGED vars
  BY <1>1, StatementUnchanged DEF Enqueue, BeginClose, CloseStep, SetToken, CancelQueue, Join,
     Closed, vars, threadVars, mysqlVars
<1>2. ASSUME NEW w \in Workers, WorkerBlock(w) \/ WorkerWakes(w) PROVE StatementInv'
  BY <1>2, StatementUnchanged DEF WorkerBlock, WorkerWakes, threadVars, mysqlVars
<1>3. ASSUME NEW w \in Workers, WorkerStep(w), ~WorkerBlock(w) PROVE StatementInv'
  <2>1. Own(w)
    BY DEF StatementInv, WorkInv, LineInv, Own
  <2>2. Others(w)
    <3> USE DEF TypeOK, Others, Goto, mysqlVars
    <3>1. CASE WorkerTake(w) \/ WorkerReturnEmpty(w) \/ WorkerExit(w) \/ CallTask(w) \/ FinishTask(w)
      BY <3>1 DEF WorkerTake, WorkerReturnEmpty, WorkerExit, CallTask, FinishTask
    <3>2. CASE Start(w) \/ ExecuteStatement(w)
      BY SMTT(30), <3>2 DEF Start, ExecuteStatement, Proceed, Keep
    <3>3. CASE Commit(w) \/ Rollback(w) \/ Retry(w) \/ GiveUp(w)
      BY <3>3 DEF Commit, Rollback, Retry, GiveUp, Keep
    <3>4. CASE NotConnected(w) \/ \E deadlock \in BOOLEAN : FailStatement(w, deadlock)
      BY SMTT(30), <3>4 DEF NotConnected, FailStatement, Proceed, Keep
    <3>6. CASE Refuse(w)
      BY <3>6 DEF Refuse, Proceed, Keep
    <3>5. CASE LoseConnection(w)
      BY <3>5 DEF LoseConnection, Proceed, Keep
    <3> QED BY <1>3, <3>1, <3>2, <3>3, <3>4, <3>5, <3>6 DEF WorkerStep
  <2>3. CASE WorkerTake(w) \/ WorkerReturnEmpty(w) \/ WorkerExit(w) \/ FinishTask(w)
    <3>1. UNCHANGED <<open, work, connected, hit>>
      BY <2>3 DEF WorkerTake, WorkerReturnEmpty, WorkerExit, FinishTask, mysqlVars
    <3>2. at'[w] \in {"pop", "popped", "exit"} /\ at[w] \in {"pop", "popped", "done"}
      BY <2>3 DEF TypeOK, WorkerTake, WorkerReturnEmpty, WorkerExit, FinishTask, Goto
    <3>3. Own(w)'
      BY <2>1, <3>1, <3>2 DEF Own
    <3> QED BY <2>2, <3>3, OwnSuffices
  <2>4. CASE CallTask(w)
    <3>1. /\ at'[w] = (IF task[w] \in Transactions THEN "start" ELSE "statement")
          /\ at[w] = "popped" /\ task[w] # NoTask /\ line'[w] = 1
          /\ UNCHANGED <<task, open, work, connected, hit>>
      BY <2>4 DEF TypeOK, CallTask, Goto, mysqlVars
    <3>2. task[w] \in Tasks /\ Length[task[w]] >= 1
      BY <3>1, PoolAssumption DEF TypeOK
    <3>3. Own(w)'
      BY <2>1, <3>1, <3>2 DEF Own
    <3> QED BY <2>2, <3>3, OwnSuffices
  <2>5. CASE Start(w)
    <3>1. /\ at'[w] = "statement" /\ at[w] = "start" /\ line'[w] = 1 /\ open'[w] = TRUE
          /\ work'[w] = <<>> /\ connected[w] /\ UNCHANGED <<task, connected, hit>>
      BY <2>5 DEF TypeOK, Start, Goto, Keep
    <3>2. task[w] \in Transactions /\ Length[task[w]] >= 1
      BY <2>1, <3>1, PoolAssumption DEF Own, Tasks
    <3>3. Own(w)'
      BY <3>1, <3>2 DEF Own
    <3> QED BY <2>2, <3>3, OwnSuffices
  <2>6. CASE ExecuteStatement(w)
    <3>1. /\ at[w] = "statement" /\ connected[w]
          /\ UNCHANGED <<task, open, connected, hit>>
      BY <2>6 DEF ExecuteStatement, Keep
    <3>2. line[w] \in Nat \ {0} /\ work[w] \in Seq(Writes) /\ task[w] \in Tasks
      BY <3>1 DEF TypeOK, PlaceInv, Writes
    <3>3. work'[w] = IF open[w] THEN Append(work[w], Write(w)) ELSE work[w]
      BY <2>6 DEF ExecuteStatement, TypeOK
    <3>4. Length[task[w]] \in Nat
      BY <3>2, PoolAssumption
    <3>5. \/ line[w] < Length[task[w]] /\ line'[w] = line[w] + 1 /\ at'[w] = "statement"
          \/ /\ line[w] >= Length[task[w]] /\ line'[w] = line[w]
             /\ at'[w] = (IF task[w] \in Transactions THEN "commit" ELSE "done")
      BY <2>6, <3>2, <3>4 DEF ExecuteStatement, TypeOK, Proceed
    <3>6. line[w] <= Length[task[w]]
      BY <2>1, <3>1 DEF Own
    <3>7. CASE ~open[w]
      <4>1. work'[w] = <<>> /\ ~open'[w]
        BY <2>1, <3>1, <3>3, <3>7 DEF Own
      <4>2. task[w] \in hit \/ task[w] \notin Transactions
        BY <2>1, <3>1, <3>7 DEF Own
      <4>3. task[w] \notin Transactions => Length[task[w]] = 1
        BY <3>2, PoolAssumption DEF Tasks
      <4> QED BY <2>2, <3>1, <3>2, <3>4, <3>5, <3>6, <4>1, <4>2, <4>3, OwnSuffices DEF Own
    <3>8. CASE open[w]
      <4>1. task[w] \in Transactions
        BY <2>1, <3>8 DEF Own
      <4>2. Len(work'[w]) = Len(work[w]) + 1
        BY <3>2, <3>3, <3>8
      <4>3. \A i \in DOMAIN work'[w] : \/ i \in DOMAIN work[w] /\ work'[w][i] = work[w][i]
                                       \/ i = Len(work[w]) + 1 /\ work'[w][i] = Write(w)
        BY <3>2, <3>3, <3>8
      <4>4. Write(w)[1] = task[w] /\ Write(w)[2] = line[w] /\ Write(w)[3] = w
        BY DEF Write
      <4>5. \A i \in DOMAIN work'[w] : work'[w][i][1] = task[w] /\ work'[w][i][3] = w
        BY <2>1, <4>3, <4>4 DEF Own
      <4>6. task[w] \notin hit => Len(work[w]) = line[w] - 1
        BY <2>1, <3>1, <4>1 DEF Own
      <4>7. task[w] \notin hit => \A i \in DOMAIN work'[w] : work'[w][i][2] = i
        BY <2>1, <3>2, <4>3, <4>4, <4>6 DEF Own
      <4>8. Own(w)'
        BY <3>1, <3>2, <3>4, <3>5, <3>6, <3>8, <4>1, <4>2, <4>5, <4>6, <4>7 DEF Own
      <4> QED BY <2>2, <4>8, OwnSuffices
    <3> QED BY <3>7, <3>8
  <2>7. CASE Commit(w) \/ Rollback(w)
    <3>1. /\ at'[w] \in {"done", "failed"} /\ at[w] \in {"commit", "rollback"}
          /\ open'[w] = FALSE /\ work'[w] = <<>>
          /\ UNCHANGED <<task, line, connected, hit>>
      BY <2>7 DEF TypeOK, Commit, Rollback, Goto, Keep
    <3>2. Own(w)'
      BY <2>1, <3>1 DEF Own
    <3> QED BY <2>2, <3>2, OwnSuffices
  <2>8. CASE \E deadlock \in BOOLEAN : FailStatement(w, deadlock)
    <3> PICK deadlock \in BOOLEAN : FailStatement(w, deadlock)
      BY <2>8
    <3>1. /\ at[w] = "statement"
          /\ at'[w] = (IF task[w] \in Transactions THEN "rollback" ELSE "done")
          /\ open'[w] = (open[w] /\ ~deadlock)
          /\ work'[w] = IF deadlock THEN <<>> ELSE work[w]
          /\ UNCHANGED <<task, line, connected, hit>>
      BY DEF TypeOK, FailStatement, Proceed, AfterFailure, Keep
    <3>2. CASE deadlock
      <4>1. open'[w] = FALSE /\ work'[w] = <<>>
        BY <3>1, <3>2
      <4> QED BY <2>1, <2>2, <3>1, <4>1, OwnSuffices DEF Own
    <3>3. CASE ~deadlock
      <4>1. open'[w] = open[w] /\ work'[w] = work[w]
        BY <3>1, <3>3 DEF TypeOK
      <4> QED BY <2>1, <2>2, <3>1, <4>1, OwnSuffices DEF Own
    <3> QED BY <3>2, <3>3
  <2>9. CASE LoseConnection(w)
    <3>1. /\ Executing(w) /\ open'[w] = FALSE /\ work'[w] = <<>>
          /\ hit' = hit \cup {task[w]} /\ UNCHANGED <<task, line>>
      BY <2>9 DEF TypeOK, LoseConnection, Keep
    <3>2. at'[w] = at[w] \/ at'[w] = AfterFailure(w)
      BY <2>9 DEF TypeOK, LoseConnection, Proceed
    <3>3. /\ at'[w] \in {"rollback", "failed"} => task[w] \in Transactions
          /\ at'[w] \in {"start", "commit"} => at'[w] = at[w]
      BY <2>1, <3>1, <3>2 DEF Own, AfterFailure, Executing
    <3>4. Own(w)'
      BY <2>1, <3>1, <3>2, <3>3 DEF Own, Executing
    <3> QED BY <2>2, <3>4, OwnSuffices
  <2>10. CASE NotConnected(w)
    <3>1. /\ Executing(w) /\ ~connected[w] /\ at'[w] = AfterFailure(w)
          /\ line'[w] = (IF at[w] = "start" THEN 1 ELSE line[w])
          /\ UNCHANGED <<task, open, work, connected, hit>>
      BY <2>10 DEF TypeOK, NotConnected, Proceed, Keep, mysqlVars
    <3>2. task[w] \in Tasks /\ Length[task[w]] >= 1
      <4>1. task[w] \in Tasks
        BY <3>1 DEF TypeOK, PlaceInv, Executing
      <4> QED BY <4>1, PoolAssumption
    <3>3. ~open[w]
      BY <2>1, <3>1 DEF Own
    <3>4. Own(w)'
      BY <2>1, <3>1, <3>2, <3>3 DEF Own, Executing, AfterFailure
    <3> QED BY <2>2, <3>4, OwnSuffices
  <2>11. CASE Retry(w) \/ GiveUp(w)
    <3>1. /\ at[w] = "failed" /\ at'[w] \in {"start", "done"}
          /\ UNCHANGED <<task, line, open, work, connected, hit>>
      BY <2>11 DEF TypeOK, Retry, GiveUp, Goto, mysqlVars
    <3>2. Own(w)'
      BY <2>1, <3>1 DEF Own
    <3> QED BY <2>2, <3>2, OwnSuffices
  <2>12. CASE Refuse(w)
    <3>1. /\ at[w] \in {"start", "rollback", "commit"} /\ at'[w] = AfterFailure(w)
          /\ line'[w] = (IF at[w] = "start" THEN 1 ELSE line[w])
          /\ open'[w] = FALSE /\ work'[w] = <<>>
          /\ hit' = (IF at[w] = "start" THEN hit \cup {task[w]} ELSE hit)
          /\ UNCHANGED <<task, connected>>
      BY <2>12 DEF TypeOK, Refuse, Proceed, Keep
    <3>2. task[w] \in Transactions /\ Length[task[w]] >= 1
      BY <2>1, <3>1, PoolAssumption DEF Own, Tasks
    <3>3. Own(w)'
      BY <2>1, <3>1, <3>2 DEF Own, AfterFailure
    <3> QED BY <2>2, <3>3, OwnSuffices
  <2> QED BY <1>3, <2>3, <2>4, <2>5, <2>6, <2>7, <2>8, <2>9, <2>10, <2>11, <2>12 DEF WorkerStep
<1> QED BY <1>1, <1>2, <1>3 DEF Next
-----------------------------------------------------------------------------
(* What takes effect, and in which order.                                  *)

EffectInv == AppliedInv /\ AllOrNothing /\ OrderInv /\ OrderKept

LEMMA NothingOfNoTask ==
  ASSUME TypeOK
  PROVE  NothingIn(db, NoTask)
BY PoolAssumption DEF TypeOK, NothingIn

AppliedIn(d, t, k) ==
    /\ k + Length[t] <= Len(d)
    /\ \A i \in DOMAIN d : IF i \in (k + 1)..(k + Length[t])
                           THEN d[i][1] = t /\ d[i][2] = i - k
                           ELSE d[i][1] # t

\* AllOrNothing and OrderKept in terms of a given database.
LEMMA AllOrNothingIs ==
  /\ AllOrNothing <=> \A t \in Tasks \ hit :
                         NothingIn(db, t) \/ \E k \in 0..Len(db) : AppliedIn(db, t, k)
  /\ AllOrNothing' <=> \A t \in Tasks \ hit' :
                         NothingIn(db', t) \/ \E k \in 0..Len(db') : AppliedIn(db', t, k)
BY DEF AllOrNothing, NotApplied, AppliedAt, NothingIn, AppliedIn

LEMMA KeptIsBefore ==
  /\ OrderKept <=> \A i, j \in DOMAIN db : i < j /\ db[i][3] = db[j][3] =>
                      Before(sent, db[i][1], db[j][1])
  /\ OrderKept' <=> \A i, j \in DOMAIN db' : i < j /\ db'[i][3] = db'[j][3] =>
                      Before(sent', db'[i][1], db'[j][1])
BY DEF OrderKept, Before

\* Nothing takes effect, and nobody takes a task or stops being done with one.
LEMMA EffectUnchanged ==
  ASSUME EffectInv, UNCHANGED <<queue, sent, task, db, hit>>,
         \A v \in Workers : at[v] = "done" => at'[v] = "done"
  PROVE  EffectInv'
<1>1. AppliedInv'
  BY DEF EffectInv, AppliedInv
<1>2. AllOrNothing'
  BY DEF EffectInv, AllOrNothing, AppliedAt, NotApplied
<1>3. OrderInv' /\ OrderKept'
  BY DEF EffectInv, OrderInv, OrderKept
<1> QED BY <1>1, <1>2, <1>3 DEF EffectInv

\* A new task comes after everything sent before.
LEMMA EffectOfEnqueue ==
  ASSUME TypeOK, PlaceInv, EffectInv, NEW t \in Tasks, Enqueue(t)
  PROVE  EffectInv'
<1>1. UNCHANGED <<at, task, db, hit>>
  BY DEF Enqueue, threadVars, mysqlVars
<1>2. /\ \A x : SentIn(sent, x) => SentIn(sent', x)
      /\ \A a, b : Before(sent, a, b) => Before(sent', a, b)
  BY EnqueueFacts DEF SentIn, Before
<1>3. \A x : SentIn(sent, x) => Before(sent', x, t)
  <2> SUFFICES ASSUME NEW m \in DOMAIN sent PROVE Before(sent', sent[m], t)
    BY DEF SentIn
  <2>1. m <= Len(sent) + 1
    BY DEF TypeOK
  <2> QED BY <2>1, EnqueueFacts DEF Before
<1>4. \A i \in DOMAIN queue' : \/ i \in DOMAIN queue /\ queue'[i] = queue[i]
                               \/ i = Len(queue) + 1 /\ queue'[i] = t
  BY EnqueueFacts
<1>5. \A i \in DOMAIN db : SentIn(sent, db[i][1])
  BY DEF EffectInv, AppliedInv
<1>6. NothingIn(db, t)
  BY <1>5, EnqueueFacts DEF NothingIn
<1>7. AppliedInv'
  <2>1. \A i \in DOMAIN db : SentIn(sent', db[i][1])
    BY <1>2, <1>5
  <2>2. \A i \in DOMAIN queue' : NothingIn(db, queue'[i])
    BY <1>4, <1>6 DEF EffectInv, AppliedInv
  <2>3. \A w \in Workers : task[w] \notin hit /\ at[w] # "done" => NothingIn(db, task[w])
    BY DEF EffectInv, AppliedInv
  <2> QED BY <1>1, <2>1, <2>2, <2>3 DEF AppliedInv
<1>8. AllOrNothing'
  BY <1>1 DEF EffectInv, AllOrNothing, AppliedAt, NotApplied
<1>9. OrderInv'
  <2>1. \A i, j \in DOMAIN queue' : i < j => Before(sent', queue'[i], queue'[j])
    <3>1. \A i \in DOMAIN queue : i \in Nat /\ i <= Len(queue)
      BY DEF TypeOK
    <3>2. \A i \in DOMAIN queue : Before(sent', queue[i], t)
      BY <1>3 DEF PlaceInv
    <3>3. Len(queue) \in Nat
      BY DEF TypeOK
    <3> QED BY <1>2, <1>4, <3>1, <3>2, <3>3 DEF EffectInv, OrderInv
  <2>2. \A w \in Workers : task'[w] # NoTask =>
           \A i \in DOMAIN queue' : Before(sent', task'[w], queue'[i])
    BY <1>1, <1>2, <1>3, <1>4 DEF EffectInv, OrderInv, PlaceInv
  <2>3. \A i \in DOMAIN db' :
           /\ \A j \in DOMAIN queue' : Before(sent', db'[i][1], queue'[j])
           /\ task'[db'[i][3]] # NoTask => Before(sent', db'[i][1], task'[db'[i][3]])
    BY <1>1, <1>2, <1>3, <1>4, <1>5 DEF EffectInv, OrderInv
  <2> QED BY <2>1, <2>2, <2>3 DEF OrderInv
<1>10. OrderKept'
  BY <1>1, <1>2, KeptIsBefore DEF EffectInv
<1> QED BY <1>7, <1>8, <1>9, <1>10 DEF EffectInv

\* The oldest task comes before the others of the queue, and after everything
\* that has been written.
LEMMA EffectOfTake ==
  ASSUME TypeOK, PlaceInv, EffectInv, NEW w \in Workers, WorkerTake(w)
  PROVE  EffectInv'
<1>1. UNCHANGED <<sent, db, hit>> /\ at[w] = "pop"
  BY DEF WorkerTake, Goto, mysqlVars
<1>2. \A v \in Workers : /\ task'[v] = IF v = w THEN queue[1] ELSE task[v]
                         /\ v # w => at'[v] = at[v]
  BY TakeFacts DEF TypeOK, WorkerTake, Goto
<1>3. /\ 1 \in DOMAIN queue
      /\ \A i \in DOMAIN queue' : i + 1 \in DOMAIN queue /\ queue'[i] = queue[i + 1] /\ 1 < i + 1
  <2>1. queue \in Seq(Tasks) /\ queue # <<>> /\ queue' = Tail(queue)
    BY DEF TypeOK, WorkerTake, Take
  <2> QED BY <2>1
<1>4. AppliedInv'
  BY <1>1, <1>2, <1>3 DEF EffectInv, AppliedInv
<1>5. AllOrNothing'
  BY <1>1 DEF EffectInv, AllOrNothing, AppliedAt, NotApplied
<1>6. OrderInv'
  <2>1. \A i, j \in DOMAIN queue' : i < j => Before(sent', queue'[i], queue'[j])
    <3>1. \A i, j \in DOMAIN queue' : i < j => i + 1 < j + 1
      BY TakeFacts
    <3> QED BY <1>1, <1>3, <3>1 DEF EffectInv, OrderInv
  <2>2. \A v \in Workers : task'[v] # NoTask =>
           \A i \in DOMAIN queue' : Before(sent', task'[v], queue'[i])
    BY <1>1, <1>2, <1>3 DEF EffectInv, OrderInv
  <2>3. \A i \in DOMAIN db : db[i][3] \in Workers
    BY DEF TypeOK
  <2>4. \A i \in DOMAIN db' :
           /\ \A j \in DOMAIN queue' : Before(sent', db'[i][1], queue'[j])
           /\ task'[db'[i][3]] # NoTask => Before(sent', db'[i][1], task'[db'[i][3]])
    BY <1>1, <1>2, <1>3, <2>3 DEF EffectInv, OrderInv
  <2> QED BY <2>1, <2>2, <2>4 DEF OrderInv
<1>7. OrderKept'
  BY <1>1 DEF EffectInv, OrderKept
<1> QED BY <1>4, <1>5, <1>6, <1>7 DEF EffectInv

\* A task that is done with is held by nobody.
LEMMA EffectOfFinish ==
  ASSUME TypeOK, EffectInv, NEW w \in Workers, FinishTask(w)
  PROVE  EffectInv'
<1>1. UNCHANGED <<queue, sent, db, hit>>
  BY DEF FinishTask, queueVars, mysqlVars
<1>2. \A v \in Workers : /\ task'[v] = IF v = w THEN NoTask ELSE task[v]
                         /\ v # w => at'[v] = at[v]
  BY DEF TypeOK, FinishTask, Goto
<1>3. AppliedInv'
  BY <1>1, <1>2, NothingOfNoTask DEF EffectInv, AppliedInv
<1>4. AllOrNothing'
  BY <1>1 DEF EffectInv, AllOrNothing, AppliedAt, NotApplied
<1>5. \A i \in DOMAIN db : db[i][3] \in Workers
  BY DEF TypeOK
<1>6. OrderInv' /\ OrderKept'
  BY <1>1, <1>2, <1>5 DEF EffectInv, OrderInv, OrderKept
<1> QED BY <1>3, <1>4, <1>6 DEF EffectInv

\* Cancel deletes what is queued.
LEMMA EffectOfCancel ==
  ASSUME EffectInv, CancelQueue
  PROVE  EffectInv'
<1>1. queue' = <<>> /\ UNCHANGED <<sent, at, task, db, hit>>
  BY DEF CancelQueue, Cancel, threadVars, mysqlVars
<1>2. AppliedInv'
  BY <1>1 DEF EffectInv, AppliedInv
<1>3. AllOrNothing'
  BY <1>1 DEF EffectInv, AllOrNothing, AppliedAt, NotApplied
<1>4. OrderInv' /\ OrderKept'
  BY <1>1 DEF EffectInv, OrderInv, OrderKept
<1> QED BY <1>2, <1>3, <1>4 DEF EffectInv

\* A step in which statements of worker w's task take effect: all of them, and
\* the worker is done; or its connection is lost, now or before.
New(i) == i \in DOMAIN db' /\ i \notin DOMAIN db

Applies(w) ==
    /\ UNCHANGED <<queue, sent, task>>
    /\ task[w] # NoTask /\ at[w] # "done"
    /\ \A v \in Workers \ {w} : at'[v] = at[v]
    /\ hit \subseteq hit'
    /\ Len(db') \in Nat /\ DOMAIN db' = 1..Len(db') /\ Len(db) <= Len(db')
    /\ \A i \in DOMAIN db : db'[i] = db[i]
    /\ \A i : New(i) => db'[i][1] = task[w] /\ db'[i][3] = w
    /\ \/ task[w] \in hit'
       \/ /\ at'[w] = "done"
          /\ Len(db') = Len(db) + Length[task[w]]
          /\ \A i : New(i) => db'[i][2] = i - Len(db)

LEMMA EffectOfApplies ==
  ASSUME TypeOK, PlaceInv, EffectInv, NEW w \in Workers, Applies(w)
  PROVE  EffectInv'
<1>1. /\ DOMAIN db = 1..Len(db) /\ Len(db) \in Nat
      /\ DOMAIN db' = 1..Len(db') /\ Len(db') \in Nat /\ Len(db) <= Len(db')
  BY DEF TypeOK, Applies
<1>2. \A i \in DOMAIN db' : \/ i \in DOMAIN db /\ db'[i] = db[i]
                            \/ New(i) /\ i > Len(db) /\ db'[i][1] = task[w] /\ db'[i][3] = w
  BY <1>1 DEF New, Applies
<1>3. UNCHANGED <<queue, sent, task>> /\ task[w] # NoTask /\ task[w] \in Tasks
  BY DEF Applies, TypeOK
<1>4. SentIn(sent, task[w]) /\ Before(sent, task[w], task[w])
  <2>1. SentIn(sent, task[w])
    BY <1>3 DEF PlaceInv
  <2> QED BY <2>1 DEF SentIn, Before, TypeOK
<1>5. \A x : x # task[w] /\ NothingIn(db, x) => NothingIn(db', x)
  BY <1>2 DEF NothingIn
<1>6. task[w] \notin hit' => task[w] \notin hit /\ at'[w] = "done" /\ NothingIn(db, task[w])
  BY DEF Applies, EffectInv, AppliedInv
<1>7. AppliedInv'
  <2>1. \A i \in DOMAIN db' : SentIn(sent', db'[i][1])
    BY <1>2, <1>3, <1>4 DEF EffectInv, AppliedInv
  <2>2. \A i \in DOMAIN queue' : NothingIn(db', queue'[i])
    BY <1>3, <1>5 DEF EffectInv, AppliedInv, PlaceInv
  <2>3. \A v \in Workers : task'[v] \notin hit' /\ at'[v] # "done" => NothingIn(db', task'[v])
    <3> SUFFICES ASSUME NEW v \in Workers, task[v] \notin hit', at'[v] # "done"
                 PROVE  NothingIn(db', task[v])
      BY <1>3
    <3>1. v # w
      BY <1>6
    <3>2. at[v] # "done" /\ task[v] \notin hit
      BY <3>1 DEF Applies
    <3>3. task[v] # task[w]
      BY <1>3, <3>1 DEF PlaceInv
    <3> QED BY <1>5, <3>2, <3>3 DEF EffectInv, AppliedInv
  <2> QED BY <2>1, <2>2, <2>3 DEF AppliedInv
<1>8. AllOrNothing'
  <2> SUFFICES ASSUME NEW t \in Tasks, t \notin hit'
               PROVE  NothingIn(db', t) \/ \E k \in 0..Len(db') : AppliedIn(db', t, k)
    BY AllOrNothingIs
  <2>1. t \notin hit
    BY DEF Applies
  <2>2. CASE t # task[w]
    <3>1. NothingIn(db, t) \/ \E k \in 0..Len(db) : AppliedIn(db, t, k)
      BY <2>1, AllOrNothingIs DEF EffectInv
    <3>2. CASE NothingIn(db, t)
      BY <1>5, <2>2, <3>2
    <3>3. ASSUME NEW k \in 0..Len(db), AppliedIn(db, t, k)
          PROVE  AppliedIn(db', t, k)
      <4>1. Length[t] \in Nat /\ k + Length[t] <= Len(db)
        BY <3>3, PoolAssumption DEF AppliedIn
      <4>2. \A i \in DOMAIN db' : IF i \in (k + 1)..(k + Length[t])
                                  THEN db'[i][1] = t /\ db'[i][2] = i - k
                                  ELSE db'[i][1] # t
        BY <1>1, <1>2, <2>2, <3>3, <4>1 DEF AppliedIn
      <4> QED BY <1>1, <4>1, <4>2 DEF AppliedIn
    <3> QED BY <1>1, <3>1, <3>2, <3>3
  <2>3. CASE t = task[w]
    <3>1. /\ NothingIn(db, t) /\ Len(db') = Len(db) + Length[t]
          /\ \A i : New(i) => db'[i][2] = i - Len(db)
      BY <1>6, <2>3 DEF Applies
    <3>2. Length[t] \in Nat
      BY PoolAssumption
    <3>3. \A i \in DOMAIN db' : IF i \in (Len(db) + 1)..(Len(db) + Length[t])
                                THEN db'[i][1] = t /\ db'[i][2] = i - Len(db)
                                ELSE db'[i][1] # t
      BY <1>1, <1>2, <2>3, <3>1, <3>2 DEF NothingIn
    <3>4. AppliedIn(db', t, Len(db))
      BY <1>1, <3>1, <3>2, <3>3 DEF AppliedIn
    <3> QED BY <1>1, <3>4
  <2> QED BY <2>2, <2>3
<1>9. OrderInv'
  <2>1. \A i \in DOMAIN db' :
           /\ \A j \in DOMAIN queue : Before(sent, db'[i][1], queue[j])
           /\ task[db'[i][3]] # NoTask => Before(sent, db'[i][1], task[db'[i][3]])
    BY <1>2, <1>3, <1>4 DEF EffectInv, OrderInv
  <2> QED BY <1>3, <2>1 DEF EffectInv, OrderInv
<1>10. OrderKept'
  <2>1. \A i, j \in DOMAIN db' : i < j /\ db'[i][3] = db'[j][3] =>
           Before(sent, db'[i][1], db'[j][1])
    <3> SUFFICES ASSUME NEW i \in DOMAIN db', NEW j \in DOMAIN db', i < j, db'[i][3] = db'[j][3]
                 PROVE  Before(sent, db'[i][1], db'[j][1])
      OBVIOUS
    <3>1. CASE j \in DOMAIN db
      <4>1. i \in DOMAIN db
        BY <1>1, <3>1
      <4> QED BY <3>1, <4>1, KeptIsBefore DEF EffectInv, Applies
    <3>2. CASE i \in DOMAIN db /\ j \notin DOMAIN db
      BY <1>2, <1>3, <3>2 DEF EffectInv, OrderInv
    <3>3. CASE i \notin DOMAIN db /\ j \notin DOMAIN db
      BY <1>2, <1>4, <3>3
    <3> QED BY <3>1, <3>2, <3>3
  <2> QED BY <1>3, <2>1, KeptIsBefore
<1> QED BY <1>7, <1>8, <1>9, <1>10 DEF EffectInv
\* A sequence that is appended to the database.
LEMMA AppendFacts ==
  ASSUME TypeOK, NEW s \in Seq(Writes), db' = db \o s
  PROVE  /\ Len(db') \in Nat /\ DOMAIN db' = 1..Len(db') /\ Len(db') = Len(db) + Len(s)
         /\ Len(db) \in Nat /\ Len(s) \in Nat
         /\ \A i \in DOMAIN db : db'[i] = db[i]
         /\ \A i : New(i) => i - Len(db) \in DOMAIN s /\ db'[i] = s[i - Len(db)]
<1>1. db \in Seq(Writes)
  BY DEF TypeOK, Writes
<1> QED BY <1>1 DEF New

\* The answers of MySQL either leave the database alone or apply a task.
LEMMA StatementApplies ==
  ASSUME TypeOK, PlaceInv, StatementInv, EffectInv, NEW w \in Workers,
         \/ Start(w) \/ ExecuteStatement(w) \/ Commit(w) \/ Rollback(w)
         \/ (\E deadlock \in BOOLEAN : FailStatement(w, deadlock))
         \/ LoseConnection(w) \/ Refuse(w) \/ NotConnected(w)
  PROVE  EffectInv'
<1>1. UNCHANGED <<queue, sent, task>>
  BY DEF Start, ExecuteStatement, Commit, Rollback, FailStatement, LoseConnection,
         Refuse, NotConnected, Keep, queueVars
<1>2. at[w] # "done" /\ task[w] \in Tasks /\ task[w] # NoTask /\ Executing(w)
  BY PoolAssumption DEF TypeOK, PlaceInv, Start, ExecuteStatement, Commit, Rollback, FailStatement,
     LoseConnection, Refuse, NotConnected, Goto, Executing
<1>3. \A v \in Workers \ {w} : at'[v] = at[v]
  BY DEF TypeOK, Start, ExecuteStatement, Commit, Rollback, FailStatement, LoseConnection,
     Refuse, NotConnected, Goto, Proceed
<1>4. Own(w)
  BY DEF StatementInv, WorkInv, LineInv, Own
<1>5. work[w] \in Seq(Writes) /\ <<Write(w)>> \in Seq(Writes) /\ db \in Seq(Writes)
  BY SMTT(30), <1>2, WriteType DEF TypeOK, Writes
<1>6. Length[task[w]] \in Nat \ {0}
  BY <1>2, PoolAssumption
<1>7. Write(w)[1] = task[w] /\ Write(w)[2] = line[w] /\ Write(w)[3] = w
  BY DEF Write
<1>8. CASE UNCHANGED <<db, hit>>
  BY <1>1, <1>2, <1>3, <1>8, EffectUnchanged
<1>9. ASSUME NEW s \in Seq(Writes), db' = db \o s, hit \subseteq hit',
             \A i \in DOMAIN s : s[i][1] = task[w] /\ s[i][3] = w,
             \/ task[w] \in hit'
             \/ /\ at'[w] = "done" /\ Len(s) = Length[task[w]]
                /\ \A i \in DOMAIN s : s[i][2] = i
      PROVE  EffectInv'
  <2>1. \A i : New(i) => db'[i][1] = task[w] /\ db'[i][3] = w
    <3>1. \A i : New(i) => i - Len(db) \in DOMAIN s /\ db'[i] = s[i - Len(db)]
      BY <1>9, AppendFacts
    <3>2. \A i \in DOMAIN s : s[i][1] = task[w] /\ s[i][3] = w
      BY <1>9
    <3> QED BY <3>1, <3>2
  <2>2. \/ task[w] \in hit'
        \/ /\ at'[w] = "done" /\ Len(db') = Len(db) + Length[task[w]]
           /\ \A i : New(i) => db'[i][2] = i - Len(db)
    <3>1. CASE task[w] \in hit'
      BY <3>1
    <3>2. CASE at'[w] = "done" /\ Len(s) = Length[task[w]] /\ \A i \in DOMAIN s : s[i][2] = i
      <4>1. Len(db') = Len(db) + Len(s)
        BY <1>9, AppendFacts
      <4>2. \A i : New(i) => i - Len(db) \in DOMAIN s /\ db'[i] = s[i - Len(db)]
        BY <1>9, AppendFacts
      <4> QED BY <3>2, <4>1, <4>2
    <3> QED BY <1>9, <3>1, <3>2
  <2>3. /\ Len(db') \in Nat /\ DOMAIN db' = 1..Len(db') /\ Len(db) <= Len(db')
        /\ \A i \in DOMAIN db : db'[i] = db[i]
    BY <1>9, AppendFacts
  <2>4. Applies(w)
    BY <1>1, <1>2, <1>3, <1>9, <2>1, <2>2, <2>3 DEF Applies
  <2> QED BY <2>4, EffectOfApplies
<1>10. CASE Start(w)
  <2>1. at[w] = "start" /\ db' = db \o work[w] /\ UNCHANGED hit
    BY <1>10 DEF Start, Goto
  <2>2. work[w] = <<>>
    BY <1>4, <2>1 DEF Own
  <2> QED BY <1>5, <1>8, <2>1, <2>2
<1>11. CASE ExecuteStatement(w)
  <2>1. CASE open[w]
    BY <1>8, <1>11, <2>1 DEF ExecuteStatement
  <2>2. CASE ~open[w]
    <3>1. /\ at[w] = "statement" /\ connected[w] /\ UNCHANGED hit
          /\ db' = db \o <<Write(w)>>
      BY <1>5, <1>11, <2>2 DEF ExecuteStatement
    <3>2. task[w] \in hit \/ task[w] \in Statements
      BY <1>2, <1>4, <2>2, <3>1 DEF Own, Tasks
    <3>3. task[w] \notin hit => Length[task[w]] = 1 /\ line[w] = 1 /\ at'[w] = "done"
      <4> SUFFICES ASSUME task[w] \notin hit
                   PROVE  Length[task[w]] = 1 /\ line[w] = 1 /\ at'[w] = "done"
        OBVIOUS
      <4>1. Length[task[w]] = 1 /\ task[w] \notin Transactions
        <5>1. task[w] \in Statements
          BY <3>2
        <5> QED BY <5>1, PoolAssumption
      <4>2. line[w] = 1
        <5>1. line[w] \in Nat \ {0} /\ line[w] <= 1
          BY <1>4, <3>1, <4>1 DEF Own, TypeOK
        <5> QED BY <5>1
      <4> QED BY <1>11, <4>1, <4>2 DEF ExecuteStatement, Proceed, TypeOK
    <3>4. /\ DOMAIN <<Write(w)>> = {1} /\ <<Write(w)>>[1] = Write(w) /\ Len(<<Write(w)>>) = 1
      OBVIOUS
    <3> QED BY <1>5, <1>7, <1>9, <3>1, <3>3, <3>4
  <2> QED BY <2>1, <2>2
<1>12. CASE Commit(w)
  <2>1. at[w] = "commit" /\ at'[w] = "done" /\ db' = db \o work[w] /\ UNCHANGED hit
    BY <1>12 DEF Commit, Goto, TypeOK
  <2>2. \A i \in DOMAIN work[w] : work[w][i][1] = task[w] /\ work[w][i][3] = w
    BY <1>4 DEF Own
  <2>3. task[w] \notin hit => /\ Len(work[w]) = Length[task[w]]
                              /\ \A i \in DOMAIN work[w] : work[w][i][2] = i
    BY <1>4, <2>1 DEF Own
  <2>4. \/ task[w] \in hit'
        \/ /\ at'[w] = "done" /\ Len(work[w]) = Length[task[w]]
           /\ \A i \in DOMAIN work[w] : work[w][i][2] = i
    BY <2>1, <2>3
  <2> QED BY <1>5, <1>9, <2>1, <2>2, <2>4
<1>13. CASE LoseConnection(w)
  <2>1. hit \subseteq hit' /\ task[w] \in hit'
    BY <1>13 DEF LoseConnection
  <2>2. db' \in {db, db \o <<Write(w)>>, db \o work[w]}
    <3>1. Append(db, Write(w)) = db \o <<Write(w)>>
      BY <1>5
    <3> HIDE DEF Write
    <3>2. db' \in {db, Append(db, Write(w)), db \o work[w]}
      BY <1>13 DEF LoseConnection
    <3> QED BY <3>1, <3>2
  <2>3. CASE db' = db
    <3>1. db' = db \o <<>> /\ <<>> \in Seq(Writes) /\ DOMAIN <<>> = {}
      BY <1>5, <2>3, Empties
    <3> QED BY <1>9, <2>1, <3>1
  <2>4. CASE db' = db \o <<Write(w)>>
    <3>1. DOMAIN <<Write(w)>> = {1} /\ <<Write(w)>>[1] = Write(w)
      OBVIOUS
    <3> QED BY <1>5, <1>7, <1>9, <2>1, <2>4, <3>1
  <2>5. CASE db' = db \o work[w]
    <3>1. \A i \in DOMAIN work[w] : work[w][i][1] = task[w] /\ work[w][i][3] = w
      BY <1>4 DEF Own
    <3> QED BY <1>5, <1>9, <2>1, <2>5, <3>1
  <2> QED BY <2>2, <2>3, <2>4, <2>5
<1>14. CASE Rollback(w) \/ (\E deadlock \in BOOLEAN : FailStatement(w, deadlock)) \/ NotConnected(w)
  BY <1>8, <1>14 DEF Rollback, FailStatement, NotConnected, mysqlVars
<1>15. CASE Refuse(w)
  <2>1. db' = db /\ hit \subseteq hit' /\ hit' \subseteq hit \cup {task[w]}
    BY <1>15 DEF Refuse
  <2>2. CASE task[w] \in hit'
    <3>1. db' = db \o <<>> /\ <<>> \in Seq(Writes) /\ DOMAIN <<>> = {}
      BY <1>5, <2>1, Empties
    <3> QED BY <1>9, <2>1, <2>2, <3>1
  <2>3. CASE task[w] \notin hit'
    <3>1. UNCHANGED <<db, hit>>
      BY <2>1, <2>3
    <3> QED BY <1>8, <3>1
  <2> QED BY <2>2, <2>3
<1> QED BY <1>10, <1>11, <1>12, <1>13, <1>14, <1>15

LEMMA EffectStep ==
  ASSUME TypeOK, PlaceInv, StatementInv, EffectInv, [Next]_vars
  PROVE  EffectInv'
<1>1. CASE BeginClose \/ SetToken \/ Join \/ Closed \/ UNCHANGED vars
  <2>1. UNCHANGED <<queue, sent, task, at, db, hit>>
    BY <1>1 DEF BeginClose, SetToken, Join, Closed, vars, queueVars, threadVars, mysqlVars
  <2> QED BY <2>1, EffectUnchanged
<1>2. ASSUME NEW w \in Workers,
             \/ WorkerBlock(w) \/ WorkerWakes(w) \/ WorkerReturnEmpty(w) \/ WorkerExit(w)
             \/ CallTask(w) \/ Retry(w) \/ GiveUp(w)
      PROVE  EffectInv'
  <2>1. UNCHANGED <<queue, sent, task, db, hit>>
    BY <1>2 DEF WorkerBlock, Block, WorkerWakes, SpuriousWakeup, WorkerReturnEmpty, ReturnEmpty,
       WorkerExit, CallTask, Retry, GiveUp, threadVars, queueVars, mysqlVars
  <2>2. \A v \in Workers : at[v] = "done" => at'[v] = "done"
    BY <1>2 DEF TypeOK, WorkerBlock, WorkerWakes, WorkerReturnEmpty,
       WorkerExit, CallTask, Retry, GiveUp, Goto, threadVars
  <2> QED BY <2>1, <2>2, EffectUnchanged
<1> QED
  BY <1>1, <1>2, EffectOfEnqueue, EffectOfCancel, EffectOfTake, EffectOfFinish, StatementApplies
  DEF Next, WorkerStep, CloseStep

-----------------------------------------------------------------------------
(* The theorems.                                                           *)

LEMMA InitInv == Init => PlaceInv /\ StatementInv /\ EffectInv
<1> SUFFICES ASSUME Init PROVE PlaceInv /\ StatementInv /\ EffectInv
  OBVIOUS
<1>1. queue = <<>> /\ db = <<>> /\ DOMAIN queue = {} /\ DOMAIN db = {}
  BY DEF Init, QueueInit
<1>2. PlaceInv
  BY <1>1 DEF Init, PlaceInv
<1>3. StatementInv
  BY DEF Init, StatementInv, WorkInv, LineInv
<1>4. EffectInv
  BY <1>1 DEF Init, EffectInv, AppliedInv, AllOrNothing, NotApplied, NothingIn, OrderInv, OrderKept
<1> QED BY <1>2, <1>3, <1>4

LEMMA TypeStep ==
  ASSUME TypeOK, PlaceInv, [Next]_vars
  PROVE  TypeOK'
<1>1. CASE UNCHANGED vars
  BY <1>1 DEF TypeOK, vars, queueVars, threadVars, mysqlVars, closeVars
<1> QED BY <1>1, OutsideType, ThreadStepType, StatementType DEF Next, WorkerStep

PoolInv == TypeOK /\ PlaceInv /\ StatementInv /\ EffectInv

LEMMA PoolInvariant == Spec => []PoolInv
<1>1. Init => PoolInv
  BY InitType, InitInv DEF PoolInv
<1>2. PoolInv /\ [Next]_vars => PoolInv'
  BY TypeStep, PlaceStep, StatementStep, EffectStep DEF PoolInv
<1> QED BY <1>1, <1>2, PTL DEF Spec

\* The state of the pool is well formed (TypeOK of DatabasePool).
THEOREM PoolTypeCorrect == Spec => []TypeOK
<1>1. PoolInv => TypeOK
  BY DEF PoolInv
<1> QED BY <1>1, PoolInvariant, PTL

\* Through errors, deadlocks and retries a task takes effect once, as a whole and
\* in one piece, or not at all, unless its own connection was lost or its START
\* TRANSACTION refused: also when COMMIT or ROLLBACK is refused, whatever the
\* other workers do, for any number of connections and any transactions
\* (MySQLConnection::ExecuteTransaction, TransactionTask::Execute).
THEOREM TasksAreAtomic == Spec => []AllOrNothing
<1>1. PoolInv => AllOrNothing
  BY DEF PoolInv, EffectInv
<1> QED BY <1>1, PoolInvariant, PTL

\* What one connection executes takes effect in the order it was enqueued
\* (DatabaseWorker::WorkerThread and the queue it pops from).
THEOREM OrderIsKept == Spec => []OrderKept
<1>1. PoolInv => OrderKept
  BY DEF PoolInv, EffectInv
<1> QED BY <1>1, PoolInvariant, PTL
=============================================================================
