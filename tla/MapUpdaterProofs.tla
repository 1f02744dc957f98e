---------------------------- MODULE MapUpdaterProofs ----------------------------
(***************************************************************************)
(* For every set of maps and of workers: wait() returns only when no       *)
(* request is left anywhere, so the world thread never shares a map with a *)
(* worker.  The argument is the count: pending_requests is the number of   *)
(* queued requests plus the number of workers that hold one, it is zero    *)
(* whenever the world thread is outside its scheduling loop, and workers   *)
(* only ever schedule while they hold a request themselves.                *)
(***************************************************************************)
EXTENDS MapUpdater, FiniteSetTheorems, TLAPS

\* What the threads' positions say about the token and the requests they hold.
ControlInv ==
    /\ world \notin {"schedule", "wait"} => pending = 0
    /\ cancel <=> world \in {"drain", "cancel", "join", "stopped"}
    /\ shutdown => cancel
    /\ \A w \in Workers :
          /\ at[w] = "pop" => request[w] = NoMap
          /\ at[w] = "update" => request[w] # NoMap
          /\ at[w] = "popped" /\ request[w] = NoMap => cancel

IInv == TypeOK /\ PendingCountsRequests /\ ControlInv

USE DEF Maps

LEMMA NoMapIsNoMap == NoMap \notin Maps
  BY MapsAssumption

\* The workers that hold a request are finitely many.
LEMMA BusyFinite == IsFiniteSet(Busy) /\ Cardinality(Busy) \in Nat
  <1>1. Busy \subseteq Workers
    BY DEF Busy
  <1>2. IsFiniteSet(Busy)
    BY <1>1, FS_Subset, ActivatedAssumption
  <1> QED
    BY <1>2, FS_CardinalityType

\* With no pending request nothing is queued and no worker holds a request.
LEMMA NothingPending ==
  ASSUME TypeOK, PendingCountsRequests, pending = 0
  PROVE  queue = <<>> /\ Busy = {}
  <1>1. Len(queue) \in Nat
    BY DEF TypeOK
  <1>2. Len(queue) = 0 /\ Cardinality(Busy) = 0
    BY <1>1, BusyFinite DEF PendingCountsRequests, TypeOK
  <1>3. Busy = {}
    BY <1>2, BusyFinite, FS_EmptySet
  <1> QED
    BY <1>2, <1>3 DEF TypeOK

\* A worker that holds a request is counted.
LEMMA BusyIsPending ==
  ASSUME TypeOK, PendingCountsRequests, Busy # {}
  PROVE  pending > 0
  <1>1. CASE pending = 0
    BY <1>1, NothingPending
  <1> QED
    BY <1>1 DEF TypeOK

LEMMA InitIInv == Init => IInv
  <1> SUFFICES ASSUME Init PROVE IInv
    OBVIOUS
  <1>1. TypeOK
    <2>1. queue \in Seq(Maps)
      BY DEF Init, QueueInit
    <2>2. updates \in [Maps -> Nat] /\ todo \in [Workers -> SUBSET Instances]
      BY DEF Init
    <2> QED
      BY <2>1, <2>2 DEF Init, QueueInit, TypeOK
  <1>2. Busy = {}
    BY DEF Init, Busy
  <1>3. PendingCountsRequests
    BY <1>2, FS_EmptySet DEF Init, QueueInit, PendingCountsRequests
  <1>4. ControlInv
    BY DEF Init, QueueInit, ControlInv
  <1> QED
    BY <1>1, <1>3, <1>4 DEF IInv

\* Every step keeps the variables in their types.
LEMMA TypeStep ==
  ASSUME IInv, [Next]_vars
  PROVE  TypeOK'
  <1> USE DEF IInv
  <1>1. CASE WorldStep
    <2>1. ASSUME NEW m \in Maps, CreateMap(m)
          PROVE  TypeOK'
      BY <2>1 DEF TypeOK, CreateMap, queueVars, workerVars
    <2>2. ASSUME NEW m \in Maps, ScheduleMap(m)
          PROVE  TypeOK'
      <3>1. queue' \in Seq(Maps) /\ pending' \in Nat
        BY <2>2 DEF TypeOK, ScheduleMap, ScheduleUpdate, Push
      <3>2. waiting' \subseteq Workers /\ shutdown' \in BOOLEAN
        BY <2>2 DEF TypeOK, ScheduleMap, ScheduleUpdate, Push, NotifyOne
      <3> QED
        BY <2>2, <3>1, <3>2 DEF TypeOK, ScheduleMap, workerVars
    <2>3. CASE StartUpdate
      BY <2>3 DEF TypeOK, StartUpdate, queueVars, workerVars
    <2>4. CASE AllScheduled
      BY <2>4 DEF TypeOK, AllScheduled, queueVars, workerVars
    <2>5. CASE Wait
      BY <2>5 DEF TypeOK, Wait, WaitForPending, queueVars, workerVars
    <2>6. CASE DelayedUpdate
      BY <2>6 DEF TypeOK, DelayedUpdate, queueVars, workerVars
    <2>7. CASE UnloadAll
      BY <2>7 DEF TypeOK, UnloadAll, queueVars, workerVars
    <2>8. CASE SetCancelationToken
      BY <2>8 DEF TypeOK, SetCancelationToken, queueVars, workerVars
    <2>9. CASE Drain
      BY <2>9 DEF TypeOK, Drain, WaitForPending, queueVars, workerVars
    <2>10. CASE CancelQueue
      BY <2>10 DEF TypeOK, CancelQueue, Cancel, workerVars
    <2>11. CASE Join
      BY <2>11 DEF TypeOK, Join, queueVars, workerVars
    <2> QED
      BY <1>1, <2>1, <2>2, <2>3, <2>4, <2>5, <2>6, <2>7, <2>8, <2>9, <2>10,
         <2>11 DEF WorldStep
  <1>2. ASSUME NEW w \in Workers, WorkerStep(w) \/ WorkerWakes(w)
        PROVE  TypeOK'
    <2>1. CASE WorkerBlock(w)
      BY <2>1 DEF TypeOK, WorkerBlock, Block, worldVars, workerVars
    <2>2. CASE WorkerWakes(w)
      BY <2>2 DEF TypeOK, WorkerWakes, SpuriousWakeup, worldVars, workerVars
    <2>3. CASE WorkerTake(w)
      <3>1. queue' \in Seq(Maps) /\ Head(queue) \in Maps
        BY <2>3 DEF TypeOK, WorkerTake, Take
      <3> QED
        BY <2>3, <3>1 DEF TypeOK, WorkerTake, Take, Goto, worldVars
    <2>4. CASE WorkerReturnEmpty(w)
      BY <2>4 DEF TypeOK, WorkerReturnEmpty, ReturnEmpty, Goto, queueVars, worldVars
    <2>5. CASE WorkerExit(w)
      BY <2>5 DEF TypeOK, WorkerExit, Goto, queueVars, worldVars
    <2>6. CASE BeginUpdate(w)
      <3>1. request[w] \in Maps
        BY <2>6 DEF TypeOK, ControlInv, BeginUpdate, Goto
      <3>2. updates' \in [Maps -> Nat]
        BY <2>6, <3>1 DEF TypeOK, BeginUpdate
      <3>3. todo' \in [Workers -> SUBSET Instances]
        BY <2>6 DEF TypeOK, BeginUpdate
      <3> QED
        BY <2>6, <3>2, <3>3 DEF TypeOK, BeginUpdate, Goto, queueVars, worldVars
    <2>7. CASE FinishUpdate(w)
      <3>1. w \in Busy
        BY <2>7 DEF ControlInv, FinishUpdate, Goto, Busy
      <3>2. pending' \in Nat
        BY <2>7, <3>1, BusyIsPending DEF TypeOK, FinishUpdate, UpdateFinished
      <3> QED
        BY <2>7, <3>2 DEF TypeOK, FinishUpdate, UpdateFinished, Goto, queueVars
    <2>8. ASSUME NEW i \in Instances, ScheduleInstance(w, i)
          PROVE  TypeOK'
      <3>1. queue' \in Seq(Maps) /\ pending' \in Nat
        BY <2>8 DEF TypeOK, ScheduleInstance, ScheduleUpdate, Push
      <3>2. waiting' \subseteq Workers /\ shutdown' \in BOOLEAN
        BY <2>8 DEF TypeOK, ScheduleInstance, ScheduleUpdate, Push, NotifyOne
      <3> QED
        BY <2>8, <3>1, <3>2 DEF TypeOK, ScheduleInstance, worldVars
    <2>9. ASSUME NEW i \in Instances, DestroyInstance(w, i)
          PROVE  TypeOK'
      BY <2>9 DEF TypeOK, DestroyInstance, queueVars
    <2>10. ASSUME NEW i \in Instances, KeepInstance(w, i)
           PROVE  TypeOK'
      BY <2>10 DEF TypeOK, KeepInstance, queueVars, worldVars
    <2> QED
      BY <1>2, <2>1, <2>2, <2>3, <2>4, <2>5, <2>6, <2>7, <2>8, <2>9, <2>10
      DEF WorkerStep
  <1>3. CASE Stopped \/ UNCHANGED vars
    BY <1>3 DEF TypeOK, Stopped, vars, queueVars, workerVars
  <1> QED
    BY <1>1, <1>2, <1>3 DEF Next

\* Adding or dropping the request of one worker changes the count by one.
LEMMA BusyCount ==
  ASSUME NEW w \in Workers
  PROVE  /\ w \notin Busy /\ Busy' = Busy \cup {w}
              => Cardinality(Busy') = Cardinality(Busy) + 1
         /\ w \in Busy /\ Busy' = Busy \ {w}
              => Cardinality(Busy') = Cardinality(Busy) - 1
  BY BusyFinite, FS_AddElement, FS_RemoveElement

\* Every step keeps pending_requests equal to the requests there are.
LEMMA CountStep ==
  ASSUME IInv, [Next]_vars
  PROVE  PendingCountsRequests'
  <1> USE DEF IInv
  <1>1. ASSUME UNCHANGED <<pending, queue, request>>
        PROVE  PendingCountsRequests'
    BY <1>1 DEF PendingCountsRequests, Busy
  <1>2. CASE WorldStep
    <2>1. ASSUME NEW m \in Maps, ScheduleMap(m)
          PROVE  PendingCountsRequests'
      <3>1. Len(queue') = Len(queue) + 1 /\ pending' = pending + 1
        BY <2>1 DEF TypeOK, ScheduleMap, ScheduleUpdate, Push
      <3>2. Busy' = Busy
        BY <2>1 DEF ScheduleMap, workerVars, Busy
      <3> QED
        BY <3>1, <3>2, BusyFinite DEF TypeOK, PendingCountsRequests
    <2>2. CASE CancelQueue
      <3>1. queue = <<>>
        BY <2>2, NothingPending DEF ControlInv, CancelQueue
      <3> QED
        BY <2>2, <3>1, <1>1 DEF CancelQueue, Cancel, workerVars
    <2>3. CASE ~CancelQueue /\ ~\E m \in Maps : ScheduleMap(m)
      <3>1. UNCHANGED <<pending, queue, request>>
        BY <1>2, <2>3 DEF WorldStep, CreateMap, StartUpdate, AllScheduled,
           Wait, DelayedUpdate, UnloadAll, SetCancelationToken, Drain, Join,
           queueVars, workerVars
      <3> QED
        BY <3>1, <1>1
    <2> QED
      BY <1>2, <2>1, <2>2, <2>3
  <1>3. ASSUME NEW w \in Workers, WorkerStep(w) \/ WorkerWakes(w)
        PROVE  PendingCountsRequests'
    <2>1. CASE WorkerTake(w)
      <3>1. Len(queue') = Len(queue) - 1 /\ Len(queue) \in Nat
        BY <2>1 DEF TypeOK, WorkerTake, Take
      <3>2. w \notin Busy
        BY <2>1 DEF ControlInv, WorkerTake, Goto, Busy
      <3>3. Head(queue) \in Maps
        BY <2>1 DEF TypeOK, WorkerTake, Take
      <3>4. Busy' = Busy \cup {w}
        BY <2>1, <3>3, NoMapIsNoMap DEF TypeOK, WorkerTake, Busy
      <3>5. Cardinality(Busy') = Cardinality(Busy) + 1
        BY <3>2, <3>4, BusyCount
      <3>6. pending' = pending
        BY <2>1 DEF WorkerTake
      <3> QED
        BY <3>1, <3>5, <3>6, BusyFinite DEF PendingCountsRequests
    <2>2. CASE WorkerReturnEmpty(w)
      <3>1. request' = request
        BY <2>2 DEF TypeOK, ControlInv, WorkerReturnEmpty, Goto
      <3> QED
        BY <2>2, <3>1, <1>1 DEF WorkerReturnEmpty, ReturnEmpty, queueVars
    <2>3. CASE FinishUpdate(w)
      <3>1. w \in Busy
        BY <2>3 DEF ControlInv, FinishUpdate, Goto, Busy
      <3>2. Busy' = Busy \ {w}
        BY <2>3 DEF TypeOK, FinishUpdate, Busy
      <3>3. Cardinality(Busy') = Cardinality(Busy) - 1
        BY <3>1, <3>2, BusyCount
      <3>4. pending' = pending - 1 /\ queue' = queue
        BY <2>3 DEF FinishUpdate, UpdateFinished, queueVars
      <3>5. Len(queue) \in Nat
        BY DEF TypeOK
      <3> QED
        BY <3>3, <3>4, <3>5, BusyFinite DEF TypeOK, PendingCountsRequests
    <2>4. ASSUME NEW i \in Instances, ScheduleInstance(w, i)
          PROVE  PendingCountsRequests'
      <3>1. Len(queue') = Len(queue) + 1 /\ pending' = pending + 1
        BY <2>4 DEF TypeOK, ScheduleInstance, ScheduleUpdate, Push
      <3>2. Busy' = Busy
        BY <2>4 DEF ScheduleInstance, Busy
      <3> QED
        BY <3>1, <3>2, BusyFinite DEF TypeOK, PendingCountsRequests
    <2>5. ASSUME NEW i \in Instances, DestroyInstance(w, i) \/ KeepInstance(w, i)
          PROVE  PendingCountsRequests'
      BY <2>5, <1>1 DEF DestroyInstance, KeepInstance, queueVars
    <2>6. CASE WorkerBlock(w) \/ WorkerWakes(w) \/ WorkerExit(w) \/ BeginUpdate(w)
      BY <2>6, <1>1 DEF WorkerBlock, WorkerWakes, WorkerExit, BeginUpdate,
         Block, SpuriousWakeup, queueVars, workerVars
    <2> QED
      BY <1>3, <2>1, <2>2, <2>3, <2>4, <2>5, <2>6 DEF WorkerStep
  <1>4. CASE Stopped \/ UNCHANGED vars
    BY <1>4, <1>1 DEF Stopped, vars, queueVars, workerVars
  <1> QED
    BY <1>2, <1>3, <1>4 DEF Next

\* Every step keeps what the threads' positions say.
LEMMA ControlStep ==
  ASSUME IInv, [Next]_vars
  PROVE  ControlInv'
  <1> USE DEF IInv
  <1>1. CASE WorldStep
    <2>1. ASSUME NEW m \in Maps, CreateMap(m) \/ ScheduleMap(m)
          PROVE  ControlInv'
      BY <2>1 DEF ControlInv, CreateMap, ScheduleMap, ScheduleUpdate, Push,
         queueVars, workerVars
    <2>2. CASE StartUpdate \/ AllScheduled \/ DelayedUpdate \/ UnloadAll
      BY <2>2 DEF ControlInv, StartUpdate, AllScheduled, DelayedUpdate,
         UnloadAll, queueVars, workerVars
    <2>3. CASE Wait \/ Drain
      BY <2>3 DEF TypeOK, ControlInv, Wait, Drain, WaitForPending, queueVars, workerVars
    <2>4. CASE SetCancelationToken
      BY <2>4 DEF TypeOK, ControlInv, SetCancelationToken, queueVars, workerVars
    <2>5. CASE CancelQueue
      <3>1. cancel
        BY <2>5 DEF ControlInv, CancelQueue
      <3> QED
        BY <2>5, <3>1 DEF TypeOK, ControlInv, CancelQueue, Cancel, workerVars
    <2>6. CASE Join
      BY <2>6 DEF TypeOK, ControlInv, Join, queueVars, workerVars
    <2> QED
      BY <1>1, <2>1, <2>2, <2>3, <2>4, <2>5, <2>6 DEF WorldStep
  <1>2. ASSUME NEW w \in Workers, WorkerStep(w) \/ WorkerWakes(w)
        PROVE  ControlInv'
    <2>1. CASE WorkerBlock(w) \/ WorkerWakes(w)
      BY <2>1 DEF ControlInv, WorkerBlock, Block, WorkerWakes, SpuriousWakeup,
         worldVars, workerVars
    <2>2. CASE WorkerTake(w)
      <3>1. Head(queue) # NoMap
        BY <2>2, NoMapIsNoMap DEF TypeOK, WorkerTake, Take
      <3> QED
        BY <2>2, <3>1 DEF TypeOK, ControlInv, WorkerTake, Take, Goto, worldVars
    <2>3. CASE WorkerReturnEmpty(w)
      BY <2>3 DEF TypeOK, ControlInv, WorkerReturnEmpty, ReturnEmpty, Goto,
         queueVars, worldVars
    <2>4. CASE WorkerExit(w) \/ BeginUpdate(w)
      BY <2>4 DEF TypeOK, ControlInv, WorkerExit, BeginUpdate, Goto, queueVars, worldVars
    <2>5. CASE FinishUpdate(w)
      <3>1. pending > 0
        BY <2>5, BusyIsPending DEF ControlInv, FinishUpdate, Goto, Busy
      <3> QED
        BY <2>5, <3>1 DEF TypeOK, ControlInv, FinishUpdate, UpdateFinished,
           Goto, queueVars
    <2>6. ASSUME NEW i \in Instances, ScheduleInstance(w, i)
          PROVE  ControlInv'
      <3>1. pending > 0
        BY <2>6, BusyIsPending DEF ControlInv, ScheduleInstance, Busy
      <3> QED
        BY <2>6, <3>1 DEF ControlInv, ScheduleInstance, ScheduleUpdate, Push, worldVars
    <2>7. ASSUME NEW i \in Instances, DestroyInstance(w, i) \/ KeepInstance(w, i)
          PROVE  ControlInv'
      BY <2>7 DEF ControlInv, DestroyInstance, KeepInstance, queueVars, worldVars
    <2> QED
      BY <1>2, <2>1, <2>2, <2>3, <2>4, <2>5, <2>6, <2>7 DEF WorkerStep
  <1>3. CASE Stopped \/ UNCHANGED vars
    BY <1>3 DEF ControlInv, Stopped, vars, queueVars, workerVars
  <1> QED
    BY <1>1, <1>2, <1>3 DEF Next

LEMMA InductiveInvariant == Spec => []IInv
  <1>1. Init => IInv
    BY InitIInv
  <1>2. IInv /\ [Next]_vars => IInv'
    BY TypeStep, CountStep, ControlStep DEF IInv
  <1> QED
    BY <1>1, <1>2, PTL DEF Spec

\* The state of the map updater is always well typed: in particular
\* pending_requests, an unsigned counter, is never decremented below zero.
THEOREM TypeCorrect == Spec => []TypeOK
  <1>1. IInv => TypeOK
    BY DEF IInv
  <1> QED
    BY <1>1, InductiveInvariant, PTL

\* pending_requests always is the number of requests queued or held.
THEOREM PendingIsExact == Spec => []PendingCountsRequests
  <1>1. IInv => PendingCountsRequests
    BY DEF IInv
  <1> QED
    BY <1>1, InductiveInvariant, PTL

\* Packet handlers, DelayedUpdate and UnloadAll never overlap a map update,
\* however many maps, instances and worker threads there are.
THEOREM WorldThreadExclusion == Spec => []WorldThreadAlone
  <1>1. IInv => WorldThreadAlone
    BY NothingPending DEF IInv, ControlInv, WorldThreadAlone
  <1> QED
    BY <1>1, InductiveInvariant, PTL

\* No worker ever calls a null request.
THEOREM NeverCallsNull == Spec => []NoNullCall
  <1>1. IInv => NoNullCall
    BY DEF IInv, ControlInv, NoNullCall
  <1> QED
    BY <1>1, InductiveInvariant, PTL
=============================================================================
