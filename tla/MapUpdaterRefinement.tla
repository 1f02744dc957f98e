-------------------------- MODULE MapUpdaterRefinement --------------------------
(***************************************************************************)
(* What happens to each map in a tick, for every set of maps and workers:  *)
(* a map that was not yet updated is still to be scheduled, queued, or     *)
(* held by one worker, and it is in one of these places only; an instance  *)
(* may also wait for its MapInstanced.  From this follow the properties    *)
(* about single maps and the refinement of WorldTick.                      *)
(***************************************************************************)
EXTENDS MapUpdaterProofs

QueuedMaps == {queue[i] : i \in 1..Len(queue)}

QueueDistinct == \A i, j \in 1..Len(queue) : queue[i] = queue[j] => i = j

Held(m) == \E w \in Workers : request[w] = m

Popped(m) == \E w \in Workers : at[w] = "popped" /\ request[w] = m

\* The update of m in this tick is due and has not begun.
Awaited(m) == m \in unscheduled \/ m \in QueuedMaps \/ Popped(m)

\* A map is in one place.
PlaceInv ==
    /\ QueueDistinct
    /\ \A v, w \in Workers : request[v] = request[w] /\ request[v] # NoMap => v = w
    /\ \A w \in Workers : request[w] \notin QueuedMaps
    /\ \A m \in unscheduled : m \notin QueuedMaps /\ ~Held(m)
    /\ \A w \in Workers : \A i \in todo[w] :
          at[w] = "update" /\ Parent[i] = request[w] /\ i \notin QueuedMaps /\ ~Held(i)

\* ... and exists.
LiveInv ==
    /\ unscheduled \subseteq maps
    /\ QueuedMaps \subseteq maps
    /\ \A w \in Workers : request[w] # NoMap => request[w] \in maps
    /\ \A w \in Workers : todo[w] \subseteq maps
    /\ \A i \in maps \cap Instances : Parent[i] \in maps

\* Maps are updated once, and instances after their MapInstanced.
OnceInv ==
    /\ \A m \in Maps : updates[m] \in {0, 1}
    /\ \A m \in kept : updates[m] = 0
    /\ \A m \in Maps : Awaited(m) => updates[m] = 0 /\ m \notin kept
    /\ \A w \in Workers : at[w] = "update" => updates[request[w]] = 1
    /\ \A w \in Workers : \A i \in todo[w] : updates[i] = 0 /\ i \notin kept
    /\ \A i \in Instances : updates[Parent[i]] = 0 =>
          updates[i] = 0 /\ i \notin kept /\ i \notin QueuedMaps /\ ~Held(i)

\* No map is forgotten.
NoneLostInv ==
    /\ world # "schedule" => unscheduled = {}
    /\ world \in {"schedule", "wait"} => \A m \in maps :
          updates[m] = 0 /\ m \notin kept =>
              \/ Awaited(m)
              \/ \E w \in Workers : m \in todo[w]
              \/ m \in Instances /\ updates[Parent[m]] = 0
    /\ TickComplete

MapInv == PlaceInv /\ LiveInv /\ OnceInv /\ NoneLostInv

mapVars == <<queue, maps, unscheduled, at, request, todo, updates, kept>>

USE DEF Maps

-----------------------------------------------------------------------------
(* The queue as a set. *)

LEMMA QueueIsFinite ==
  ASSUME TypeOK
  PROVE  QueuedMaps \subseteq Maps /\ Len(queue) \in Nat
  BY DEF TypeOK, QueuedMaps

LEMMA EmptyQueue == queue = <<>> => QueuedMaps = {} /\ QueueDistinct
  BY DEF QueuedMaps, QueueDistinct

\* A map that was not queued is queued once after Push.
LEMMA PushQueues ==
  ASSUME TypeOK, NEW m \in Maps, queue' = Append(queue, m)
  PROVE  /\ QueuedMaps' = QueuedMaps \cup {m}
         /\ QueueDistinct /\ m \notin QueuedMaps => QueueDistinct'
  <1>1. queue \in Seq(Maps)
    BY DEF TypeOK
  <1>2. /\ Len(queue) \in Nat /\ Len(queue') = Len(queue) + 1
        /\ queue'[Len(queue) + 1] = m
        /\ \A i \in 1..Len(queue) : queue'[i] = queue[i]
    BY <1>1
  <1>3. QueuedMaps' = QueuedMaps \cup {m}
    BY <1>2 DEF QueuedMaps
  <1>4. QueueDistinct /\ m \notin QueuedMaps => QueueDistinct'
    BY <1>2 DEF QueuedMaps, QueueDistinct
  <1> QED
    BY <1>3, <1>4

\* The oldest map leaves the queue.
LEMMA TakeUnqueues ==
  ASSUME TypeOK, QueueDistinct, queue # <<>>, queue' = Tail(queue)
  PROVE  /\ Head(queue) \in QueuedMaps
         /\ QueuedMaps' = QueuedMaps \ {Head(queue)}
         /\ QueueDistinct'
  <1>1. queue \in Seq(Maps)
    BY DEF TypeOK
  <1>2. /\ Len(queue) \in Nat \ {0} /\ Len(queue') = Len(queue) - 1
        /\ Head(queue) = queue[1]
        /\ \A i \in 1..Len(queue') : queue'[i] = queue[i + 1]
    BY <1>1
  <1>3. Head(queue) \in QueuedMaps
    BY <1>2 DEF QueuedMaps
  <1>4. QueueDistinct'
    BY <1>2 DEF QueueDistinct
  <1>5. ASSUME NEW x \in QueuedMaps'
        PROVE  x \in QueuedMaps \ {Head(queue)}
    <2>1. PICK i \in 1..Len(queue') : queue'[i] = x
      BY <1>5 DEF QueuedMaps
    <2>2. queue[i + 1] = x /\ i + 1 \in 1..Len(queue) /\ 1 \in 1..Len(queue) /\ i + 1 # 1
      BY <1>2, <2>1
    <2>3. queue[i + 1] # queue[1]
      BY <2>2 DEF QueueDistinct
    <2> QED
      BY <1>2, <2>2, <2>3 DEF QueuedMaps
  <1>6. ASSUME NEW x \in QueuedMaps \ {Head(queue)}
        PROVE  x \in QueuedMaps'
    <2>1. PICK i \in 1..Len(queue) : queue[i] = x
      BY <1>6 DEF QueuedMaps
    <2>2. i - 1 \in 1..Len(queue') /\ (i - 1) + 1 = i
      BY <1>2, <1>6, <2>1
    <2>3. queue'[i - 1] = x
      BY <1>2, <2>1, <2>2
    <2> QED
      BY <2>2, <2>3 DEF QueuedMaps
  <1>7. QueuedMaps' = QueuedMaps \ {Head(queue)}
    BY <1>5, <1>6
  <1> QED
    BY <1>3, <1>4, <1>7

-----------------------------------------------------------------------------
(* The initial state and the steps of the world thread. *)

LEMMA InitMapInv == Init => MapInv
  <1> SUFFICES ASSUME Init PROVE MapInv
    OBVIOUS
  <1>1. queue = <<>> /\ QueuedMaps = {} /\ QueueDistinct
    BY EmptyQueue DEF Init, QueueInit
  <1>2. \A m \in Maps : ~Held(m) /\ ~Popped(m)
    BY NoMapIsNoMap DEF Init, Held, Popped
  <1>3. PlaceInv /\ LiveInv
    BY <1>1, <1>2 DEF Init, PlaceInv, LiveInv
  <1>4. OnceInv
    BY <1>1, <1>2, MapsAssumption DEF Init, OnceInv, Awaited
  <1>5. NoneLostInv
    BY DEF Init, NoneLostInv, TickComplete
  <1> QED
    BY <1>3, <1>4, <1>5 DEF MapInv

\* The requests stay where they are and the maps as they are.
LEMMA SamePlaces ==
  ASSUME PlaceInv, LiveInv, OnceInv, UNCHANGED mapVars
  PROVE  PlaceInv' /\ LiveInv' /\ OnceInv'
  <1>1. QueuedMaps' = QueuedMaps /\ (QueueDistinct <=> QueueDistinct')
    BY DEF mapVars, QueuedMaps, QueueDistinct
  <1>2. PlaceInv'
    BY <1>1 DEF mapVars, PlaceInv, Held
  <1>3. LiveInv'
    BY <1>1 DEF mapVars, LiveInv
  <1>4. OnceInv'
    BY <1>1 DEF mapVars, OnceInv, Awaited, Held, Popped
  <1> QED
    BY <1>2, <1>3, <1>4

LEMMA QuietStep ==
  ASSUME MapInv, UNCHANGED mapVars, UNCHANGED world
  PROVE  MapInv'
  <1>1. QueuedMaps' = QueuedMaps
    BY DEF mapVars, QueuedMaps
  <1>2. NoneLostInv'
    BY <1>1 DEF MapInv, NoneLostInv, TickComplete, mapVars, Awaited, Popped
  <1> QED
    BY <1>2, SamePlaces DEF MapInv

\* Nothing is queued, held or left to visit while the world thread is alone.
LEMMA WorldAlone ==
  ASSUME IInv, MapInv, pending = 0
  PROVE  /\ queue = <<>> /\ QueuedMaps = {} /\ QueueDistinct
         /\ \A w \in Workers : request[w] = NoMap /\ todo[w] = {} /\ at[w] # "update"
         /\ \A m \in Maps : ~Held(m) /\ ~Popped(m)
  <1>1. queue = <<>> /\ Busy = {}
    BY NothingPending DEF IInv
  <1>2. \A w \in Workers : request[w] = NoMap /\ at[w] # "update"
    BY <1>1 DEF Busy, IInv, ControlInv
  <1>3. \A w \in Workers : todo[w] = {}
    BY <1>2 DEF MapInv, PlaceInv
  <1>4. \A m \in Maps : ~Held(m) /\ ~Popped(m)
    BY <1>2, NoMapIsNoMap DEF Held, Popped
  <1> QED
    BY <1>1, <1>2, <1>3, <1>4, EmptyQueue

LEMMA CreateMapStep ==
  ASSUME IInv, MapInv, NEW m \in Maps, CreateMap(m)
  PROVE  MapInv'
  <1>1. UNCHANGED <<queue, unscheduled, at, request, todo, updates, kept, world>>
    BY DEF CreateMap, queueVars, workerVars
  <1>2. world = "world" /\ maps' = maps \cup {m} /\ (m \in Instances => Parent[m] \in maps)
    BY DEF CreateMap
  <1>3. QueuedMaps' = QueuedMaps /\ (QueueDistinct <=> QueueDistinct')
    BY <1>1 DEF QueuedMaps, QueueDistinct
  <1>4. PlaceInv'
    BY <1>1, <1>3 DEF MapInv, PlaceInv, Held
  <1>5. LiveInv'
    BY <1>1, <1>2, <1>3 DEF MapInv, LiveInv
  <1>6. OnceInv'
    BY <1>1, <1>3 DEF MapInv, OnceInv, Awaited, Held, Popped
  <1>7. NoneLostInv'
    BY <1>1, <1>2 DEF MapInv, NoneLostInv, TickComplete
  <1> QED
    BY <1>4, <1>5, <1>6, <1>7 DEF MapInv

LEMMA StartUpdateStep ==
  ASSUME IInv, MapInv, StartUpdate
  PROVE  MapInv'
  <1>1. pending = 0
    BY DEF StartUpdate, IInv, ControlInv
  <1>2. UNCHANGED <<queue, maps, at, request, todo>>
    BY DEF StartUpdate, queueVars, workerVars
  <1>3. /\ unscheduled' = maps \cap BaseMaps /\ world' = "schedule" /\ kept' = {}
        /\ \A m \in Maps : updates'[m] = 0
    BY DEF StartUpdate
  <1>4. QueuedMaps' = {} /\ QueueDistinct'
    BY <1>1, <1>2, WorldAlone DEF QueuedMaps, QueueDistinct
  <1>5. \A w \in Workers : request'[w] = NoMap /\ todo'[w] = {} /\ at'[w] # "update"
    BY <1>1, <1>2, WorldAlone
  <1>6. \A m \in Maps : ~Held(m)' /\ ~Popped(m)'
    BY <1>5, NoMapIsNoMap DEF Held, Popped
  <1>7. PlaceInv' /\ LiveInv'
    <2>1. maps \subseteq Maps
      BY DEF IInv, TypeOK
    <2>2. \A m \in unscheduled' : m \notin QueuedMaps' /\ ~Held(m)'
      BY <1>3, <1>4, <1>6
    <2> QED
      BY <1>2, <1>3, <1>4, <1>5, <2>2, NoMapIsNoMap DEF MapInv, PlaceInv, LiveInv
  <1>8. OnceInv'
    BY <1>3, <1>4, <1>5, <1>6, MapsAssumption DEF OnceInv
  <1>9. NoneLostInv'
    <2>1. ASSUME NEW m \in maps'
          PROVE  Awaited(m)' \/ (m \in Instances /\ updates'[Parent[m]] = 0)
      BY <1>2, <1>3, <2>1, MapsAssumption DEF IInv, TypeOK, Awaited
    <2> QED
      BY <1>3, <2>1 DEF NoneLostInv, TickComplete
  <1> QED
    BY <1>7, <1>8, <1>9 DEF MapInv

LEMMA ScheduleMapStep ==
  ASSUME IInv, MapInv, NEW m \in Maps, ScheduleMap(m)
  PROVE  MapInv'
  <1>1. UNCHANGED <<maps, world, at, request, todo, updates, kept>>
    BY DEF ScheduleMap, workerVars
  <1>2. m \in unscheduled /\ unscheduled' = unscheduled \ {m} /\ world = "schedule"
    BY DEF ScheduleMap
  <1>3. m \notin QueuedMaps /\ ~Held(m) /\ m \in maps /\ m \notin Instances
    BY <1>2, MapsAssumption DEF MapInv, PlaceInv, LiveInv, IInv, TypeOK
  <1>4. QueuedMaps' = QueuedMaps \cup {m} /\ QueueDistinct'
    BY <1>3, PushQueues DEF ScheduleMap, ScheduleUpdate, Push, IInv, MapInv, PlaceInv
  <1>5. \A x : (Held(x)' <=> Held(x)) /\ (Popped(x)' <=> Popped(x))
    BY <1>1 DEF Held, Popped
  <1>6. \A x \in Maps : Awaited(x)' <=> Awaited(x)
    BY <1>2, <1>4, <1>5 DEF Awaited
  <1>7. PlaceInv'
    <2>1. \A w \in Workers : request[w] # m
      BY <1>3 DEF Held
    <2>2. \A w \in Workers : m \notin todo[w]
      BY <1>3 DEF IInv, TypeOK
    <2> QED
      BY <1>1, <1>2, <1>3, <1>4, <1>5, <2>1, <2>2 DEF MapInv, PlaceInv
  <1>8. LiveInv'
    BY <1>1, <1>2, <1>3, <1>4 DEF MapInv, LiveInv
  <1>9. OnceInv'
    BY <1>1, <1>3, <1>4, <1>5, <1>6 DEF MapInv, OnceInv
  <1>10. NoneLostInv'
    BY <1>1, <1>2, <1>6 DEF MapInv, NoneLostInv, TickComplete, IInv, TypeOK
  <1> QED
    BY <1>7, <1>8, <1>9, <1>10 DEF MapInv

LEMMA AllScheduledStep ==
  ASSUME IInv, MapInv, AllScheduled
  PROVE  MapInv'
  <1>1. UNCHANGED mapVars /\ world = "schedule" /\ world' = "wait" /\ unscheduled = {}
    BY DEF AllScheduled, mapVars, queueVars, workerVars
  <1>2. QueuedMaps' = QueuedMaps
    BY <1>1 DEF mapVars, QueuedMaps
  <1>3. NoneLostInv'
    BY <1>1, <1>2 DEF MapInv, NoneLostInv, TickComplete, mapVars, Awaited, Popped
  <1> QED
    BY <1>1, <1>3, SamePlaces DEF MapInv

\* When wait() returns, every map has been updated or kept.
LEMMA WaitStep ==
  ASSUME IInv, MapInv, Wait
  PROVE  MapInv' /\ (world' # world => maps \subseteq {m \in Maps : updates[m] > 0} \cup kept)
  <1>1. UNCHANGED mapVars /\ world = "wait"
    BY DEF Wait, mapVars, queueVars, workerVars
  <1>2. CASE world' = world
    BY <1>1, <1>2, QuietStep
  <1>3. CASE world' # world
    <2>1. pending = 0 /\ world' = "delayed"
      BY <1>3 DEF Wait, WaitForPending
    <2>2. \A m \in Maps : ~Awaited(m)
      BY <1>1, <2>1, WorldAlone DEF Awaited, MapInv, NoneLostInv
    <2>3. \A m \in maps \cap BaseMaps : ~(updates[m] = 0 /\ m \notin kept)
      BY <1>1, <2>1, <2>2, WorldAlone, MapsAssumption DEF MapInv, NoneLostInv
    <2>4. \A m \in maps \cap BaseMaps : updates[m] # 0
      BY <2>3, MapsAssumption DEF IInv, TypeOK
    <2>5. \A m \in maps \cap Instances : ~(updates[m] = 0 /\ m \notin kept)
      <3>1. \A m \in maps \cap Instances : updates[Parent[m]] # 0
        BY <2>4, MapsAssumption DEF MapInv, LiveInv
      <3> QED
        BY <1>1, <2>1, <2>2, <3>1, WorldAlone DEF MapInv, NoneLostInv
    <2>6. maps \subseteq Maps
      BY DEF IInv, TypeOK
    <2>7. \A m \in maps : updates[m] = (IF m \in kept THEN 0 ELSE 1)
      BY <2>3, <2>5, <2>6 DEF MapInv, OnceInv
    <2>8. NoneLostInv'
      BY <1>1, <2>1, <2>7 DEF MapInv, NoneLostInv, TickComplete, mapVars
    <2>9. maps \subseteq {m \in Maps : updates[m] > 0} \cup kept
      BY <2>6, <2>7
    <2> QED
      BY <1>1, <2>8, <2>9, SamePlaces DEF MapInv
  <1> QED
    BY <1>2, <1>3

LEMMA UnloadAllStep ==
  ASSUME IInv, MapInv, UnloadAll
  PROVE  MapInv'
  <1>1. pending = 0 /\ unscheduled = {}
    BY DEF UnloadAll, IInv, ControlInv, MapInv, NoneLostInv
  <1>2. /\ UNCHANGED <<queue, unscheduled, at, request, todo, updates, kept>>
        /\ maps' = {} /\ world' = "deactivate"
    BY DEF UnloadAll, queueVars, workerVars
  <1>3. QueuedMaps' = {} /\ QueueDistinct'
    BY <1>1, <1>2, WorldAlone DEF QueuedMaps, QueueDistinct
  <1>4. PlaceInv'
    BY <1>1, <1>2, <1>3, WorldAlone DEF MapInv, PlaceInv
  <1>5. LiveInv'
    BY <1>1, <1>2, <1>3, WorldAlone DEF LiveInv
  <1>6. OnceInv'
    <2>1. QueuedMaps = {}
      BY <1>1, WorldAlone
    <2>2. \A m : (Held(m)' <=> Held(m)) /\ (Awaited(m)' <=> Awaited(m))
      BY <1>2, <1>3, <2>1 DEF Held, Awaited, Popped
    <2> QED
      BY <1>2, <1>3, <2>1, <2>2 DEF MapInv, OnceInv
  <1>7. NoneLostInv'
    BY <1>1, <1>2 DEF NoneLostInv, TickComplete
  <1> QED
    BY <1>4, <1>5, <1>6, <1>7 DEF MapInv

\* The other steps of the world thread move no request.
LEMMA OtherWorldStep ==
  ASSUME IInv, MapInv, DelayedUpdate \/ SetCancelationToken \/ Drain \/ CancelQueue \/ Join
  PROVE  MapInv'
  <1>1. UNCHANGED mapVars
    <2>1. CASE CancelQueue
      <3>1. queue = <<>>
        BY <2>1, WorldAlone DEF CancelQueue, IInv, ControlInv
      <3> QED
        BY <2>1, <3>1 DEF CancelQueue, Cancel, mapVars, workerVars
    <2>2. CASE DelayedUpdate \/ SetCancelationToken \/ Drain \/ Join
      BY <2>2 DEF DelayedUpdate, SetCancelationToken, Drain, Join, mapVars,
         queueVars, workerVars
    <2> QED
      BY <2>1, <2>2
  <1>2. world \notin {"schedule"} /\ world' \notin {"schedule", "wait", "delayed"}
    BY DEF DelayedUpdate, SetCancelationToken, Drain, CancelQueue, Join, WaitForPending
  <1>3. NoneLostInv'
    BY <1>1, <1>2 DEF MapInv, NoneLostInv, TickComplete, mapVars
  <1> QED
    BY <1>1, <1>3, SamePlaces DEF MapInv

-----------------------------------------------------------------------------
(* The steps of a worker. *)

\* A worker without a request moves.
LEMMA IdleStep ==
  ASSUME IInv, MapInv, NEW w \in Workers,
         WorkerBlock(w) \/ WorkerWakes(w) \/ WorkerReturnEmpty(w) \/ WorkerExit(w)
  PROVE  MapInv'
  <1>1. UNCHANGED <<queue, maps, world, unscheduled, request, todo, updates, kept>>
    BY DEF WorkerBlock, Block, WorkerWakes, SpuriousWakeup, WorkerReturnEmpty,
       ReturnEmpty, WorkerExit, Goto, queueVars, worldVars, workerVars, IInv,
       ControlInv, TypeOK
  <1>2. CASE at' = at
    BY <1>1, <1>2, QuietStep DEF mapVars
  <1>3. CASE at' # at
    <2>1. /\ request[w] = NoMap /\ at[w] # "update" /\ at'[w] # "update"
          /\ \A v \in Workers \ {w} : at'[v] = at[v]
      <3>1. CASE WorkerReturnEmpty(w)
        BY <3>1 DEF WorkerReturnEmpty, Goto, IInv, ControlInv, TypeOK
      <3>2. CASE WorkerExit(w)
        <4>1. pending = 0
          BY <3>2 DEF WorkerExit, IInv, ControlInv
        <4> QED
          BY <3>2, <4>1, WorldAlone DEF WorkerExit, Goto, IInv, TypeOK
      <3> QED
        BY <1>3, <3>1, <3>2 DEF WorkerBlock, Block, WorkerWakes, workerVars
    <2>2. QueuedMaps' = QueuedMaps /\ (QueueDistinct <=> QueueDistinct')
      BY <1>1 DEF QueuedMaps, QueueDistinct
    <2>3. \A m \in Maps : (Popped(m)' <=> Popped(m))
      BY <1>1, <2>1, NoMapIsNoMap DEF Popped
    <2>4. \A m : (Held(m)' <=> Held(m))
      BY <1>1 DEF Held
    <2>5. \A m \in Maps : (Awaited(m)' <=> Awaited(m))
      BY <1>1, <2>2, <2>3 DEF Awaited
    <2>6. PlaceInv'
      BY <1>1, <2>1, <2>2, <2>4 DEF MapInv, PlaceInv
    <2>7. LiveInv'
      BY <1>1, <2>2 DEF MapInv, LiveInv
    <2>8. OnceInv'
      BY <1>1, <2>1, <2>2, <2>4, <2>5 DEF MapInv, OnceInv
    <2>9. NoneLostInv'
      BY <1>1, <2>5 DEF MapInv, NoneLostInv, TickComplete, IInv, TypeOK
    <2> QED
      BY <2>6, <2>7, <2>8, <2>9 DEF MapInv
  <1> QED
    BY <1>2, <1>3

\* The oldest request goes from the queue to a worker.
LEMMA TakeStep ==
  ASSUME IInv, MapInv, NEW w \in Workers, WorkerTake(w)
  PROVE  MapInv'
  <1> DEFINE m == Head(queue)
  <1>1. UNCHANGED <<maps, world, unscheduled, todo, updates, kept>>
    BY DEF WorkerTake, worldVars
  <1>2. /\ at[w] = "pop" /\ at' = [at EXCEPT ![w] = "popped"] /\ request[w] = NoMap
        /\ request' = [request EXCEPT ![w] = m]
        /\ queue # <<>> /\ queue' = Tail(queue)
    BY DEF WorkerTake, Take, Goto, IInv, ControlInv
  <1>3. /\ at'[w] = "popped" /\ request'[w] = m
        /\ \A v \in Workers \ {w} : at'[v] = at[v] /\ request'[v] = request[v]
    BY <1>2 DEF IInv, TypeOK
  <1>4. m \in QueuedMaps /\ QueuedMaps' = QueuedMaps \ {m} /\ QueueDistinct'
    BY <1>2, TakeUnqueues DEF IInv, MapInv, PlaceInv
  <1>5. m \in Maps /\ m # NoMap /\ m \in maps
    BY <1>4, QueueIsFinite, NoMapIsNoMap DEF IInv, MapInv, LiveInv
  <1>6. \A v \in Workers : request[v] # m
    BY <1>4 DEF MapInv, PlaceInv
  <1>7. \A x \in Maps : (Held(x)' <=> Held(x) \/ x = m) /\ (Popped(x)' <=> Popped(x) \/ x = m)
    BY <1>2, <1>3, NoMapIsNoMap DEF Held, Popped
  <1>8. \A x \in Maps : Awaited(x)' <=> Awaited(x)
    BY <1>1, <1>4, <1>7 DEF Awaited
  <1> HIDE DEF m
  <1>9. PlaceInv'
    <2>1. \A u, v \in Workers : request'[u] = request'[v] /\ request'[u] # NoMap => u = v
      BY <1>2, <1>3, <1>6 DEF MapInv, PlaceInv
    <2>2. \A v \in Workers : request'[v] \notin QueuedMaps'
      BY <1>3, <1>4 DEF MapInv, PlaceInv
    <2>3. \A x \in unscheduled' : x \notin QueuedMaps' /\ ~Held(x)'
      BY <1>1, <1>4, <1>7 DEF MapInv, PlaceInv, IInv, TypeOK
    <2>4. \A v \in Workers : \A i \in todo'[v] :
             at'[v] = "update" /\ Parent[i] = request'[v] /\ i \notin QueuedMaps' /\ ~Held(i)'
      BY <1>1, <1>2, <1>3, <1>4, <1>7 DEF MapInv, PlaceInv, IInv, TypeOK
    <2> QED
      BY <1>4, <2>1, <2>2, <2>3, <2>4 DEF PlaceInv
  <1>10. LiveInv'
    BY <1>1, <1>3, <1>4, <1>5 DEF MapInv, LiveInv
  <1>11. OnceInv'
    <2>1. \A i \in Instances : i \in QueuedMaps' \/ Held(i)' => i \in QueuedMaps \/ Held(i)
      BY <1>4, <1>7
    <2> QED
      BY <1>1, <1>3, <1>8, <2>1 DEF MapInv, OnceInv
  <1>12. NoneLostInv'
    BY <1>1, <1>8 DEF MapInv, NoneLostInv, TickComplete, IInv, TypeOK
  <1> QED
    BY <1>9, <1>10, <1>11, <1>12 DEF MapInv

\* A map whose update begins: it was not updated in this tick, and none of its
\* instances is on its way.
LEMMA BeginIsFirst ==
  ASSUME IInv, MapInv, NEW w \in Workers, BeginUpdate(w)
  PROVE  /\ request[w] \in maps /\ request[w] \in Maps
         /\ updates[request[w]] = 0 /\ request[w] \notin kept
  <1>1. at[w] = "popped" /\ ~cancel
    BY DEF BeginUpdate, Goto
  <1>2. request[w] # NoMap
    BY <1>1 DEF IInv, ControlInv
  <1>3. request[w] \in maps /\ request[w] \in Maps
    BY <1>2 DEF IInv, TypeOK, MapInv, LiveInv
  <1>4. Awaited(request[w])
    BY <1>1 DEF Awaited, Popped
  <1> QED
    BY <1>3, <1>4 DEF MapInv, OnceInv

LEMMA BeginUpdateStep ==
  ASSUME IInv, MapInv, NEW w \in Workers, BeginUpdate(w)
  PROVE  MapInv'
  <1> DEFINE m == request[w]
  <1>1. UNCHANGED <<queue, maps, world, unscheduled, request, kept>>
    BY DEF BeginUpdate, worldVars, queueVars
  <1>2. /\ at[w] = "popped" /\ at'[w] = "update"
        /\ \A v \in Workers \ {w} : at'[v] = at[v] /\ todo'[v] = todo[v]
        /\ todo'[w] = {i \in Instances \cap maps : Parent[i] = m}
    BY DEF BeginUpdate, Goto, IInv, TypeOK
  <1>3. m \in Maps /\ m \in maps /\ updates[m] = 0 /\ m \notin kept /\ m # NoMap
    BY BeginIsFirst, NoMapIsNoMap
  <1>4. updates'[m] = 1 /\ \A x \in Maps \ {m} : updates'[x] = updates[x]
    BY <1>3 DEF BeginUpdate, IInv, TypeOK
  <1>5. QueuedMaps' = QueuedMaps /\ (QueueDistinct <=> QueueDistinct')
    BY <1>1 DEF QueuedMaps, QueueDistinct
  <1>6. \A x : Held(x)' <=> Held(x)
    BY <1>1 DEF Held
  <1>7. \A v \in Workers : request[v] = m => v = w
    BY <1>3 DEF MapInv, PlaceInv
  <1>8. \A x : Popped(x)' <=> Popped(x) /\ x # m
    BY <1>1, <1>2, <1>7 DEF Popped
  <1>9. m \notin unscheduled /\ m \notin QueuedMaps /\ Held(m) /\ \A v \in Workers : m \notin todo[v]
    BY DEF MapInv, PlaceInv, Held
  <1>10. \A x : Awaited(x)' <=> Awaited(x) /\ x # m
    BY <1>1, <1>5, <1>8, <1>9 DEF Awaited
  <1>11. todo[w] = {}
    BY <1>2 DEF MapInv, PlaceInv
  <1>12. \A i \in todo'[w] : /\ i \in Instances /\ Parent[i] = m /\ i # m /\ updates[i] = 0
                             /\ i \notin kept /\ i \notin QueuedMaps /\ ~Held(i)
    <2>1. \A i \in todo'[w] : i \in Instances /\ Parent[i] = m
      BY <1>2
    <2>2. \A i \in Instances : i # Parent[i]
      BY MapsAssumption
    <2> QED
      BY <1>3, <2>1, <2>2 DEF MapInv, OnceInv
  <1> HIDE DEF m
  <1>13. PlaceInv'
    <2>1. \A v \in Workers : \A i \in todo'[v] :
             at'[v] = "update" /\ Parent[i] = request'[v] /\ i \notin QueuedMaps' /\ ~Held(i)'
      <3>1. request[w] = m
        BY DEF m
      <3> QED
        BY <1>1, <1>2, <1>5, <1>6, <1>12, <3>1 DEF MapInv, PlaceInv
    <2> QED
      BY <1>1, <1>5, <1>6, <2>1 DEF MapInv, PlaceInv
  <1>14. LiveInv'
    BY <1>1, <1>2, <1>5 DEF MapInv, LiveInv
  <1>15. OnceInv'
    <2>1. \A x \in Maps : updates'[x] \in {0, 1}
      BY <1>4 DEF MapInv, OnceInv
    <2>2. \A x \in kept' : updates'[x] = 0
      BY <1>1, <1>3, <1>4 DEF MapInv, OnceInv, IInv, TypeOK
    <2>3. \A x \in Maps : Awaited(x)' => updates'[x] = 0 /\ x \notin kept'
      BY <1>1, <1>4, <1>10 DEF MapInv, OnceInv
    <2>4. \A v \in Workers : at'[v] = "update" => updates'[request'[v]] = 1
      <3>1. \A v \in Workers \ {w} : at[v] = "update" =>
               request[v] \in Maps /\ request[v] # m /\ updates[request[v]] = 1
        BY <1>7 DEF MapInv, OnceInv, IInv, TypeOK, ControlInv
      <3>2. request[w] = m
        BY DEF m
      <3> QED
        BY <1>1, <1>2, <1>4, <3>1, <3>2
    <2>5. \A v \in Workers : \A i \in todo'[v] : updates'[i] = 0 /\ i \notin kept'
      BY <1>1, <1>2, <1>4, <1>9, <1>12 DEF MapInv, OnceInv, IInv, TypeOK
    <2>6. ASSUME NEW i \in Instances, updates'[Parent[i]] = 0
          PROVE  updates'[i] = 0 /\ i \notin kept' /\ i \notin QueuedMaps' /\ ~Held(i)'
      <3>1. Parent[i] \in Maps /\ Parent[i] # m /\ updates[Parent[i]] = 0
        BY <1>3, <1>4, <2>6, MapsAssumption
      <3>2. i # m
        BY <1>9, <3>1 DEF MapInv, OnceInv
      <3> QED
        BY <1>1, <1>4, <1>5, <1>6, <3>1, <3>2 DEF MapInv, OnceInv
    <2> QED
      BY <2>1, <2>2, <2>3, <2>4, <2>5, <2>6 DEF OnceInv
  <1>16. NoneLostInv'
    <2>1. world \in {"schedule", "wait"}
      <3>1. pending > 0
        BY <1>3, BusyIsPending DEF IInv, Busy, m
      <3> QED
        BY <3>1 DEF IInv, ControlInv
    <2>2. ASSUME NEW x \in maps', updates'[x] = 0, x \notin kept'
          PROVE  \/ Awaited(x)'
                 \/ \E v \in Workers : x \in todo'[v]
                 \/ x \in Instances /\ updates'[Parent[x]] = 0
      <3>1. x \in Maps /\ x # m /\ updates[x] = 0 /\ x \notin kept /\ x \in maps
        BY <1>1, <1>3, <1>4, <2>2 DEF IInv, TypeOK
      <3>2. CASE Awaited(x)
        BY <1>10, <3>1, <3>2
      <3>3. ASSUME NEW v \in Workers, x \in todo[v]
            PROVE  x \in todo'[v]
        BY <1>2, <1>11, <3>3
      <3>4. CASE x \in Instances /\ updates[Parent[x]] = 0
        <4>1. CASE Parent[x] = m
          BY <1>2, <3>1, <3>4, <4>1 DEF m
        <4>2. CASE Parent[x] # m
          BY <1>4, <3>4, <4>2, MapsAssumption
        <4> QED
          BY <4>1, <4>2
      <3> QED
        BY <2>1, <3>1, <3>2, <3>3, <3>4 DEF MapInv, NoneLostInv
    <2> QED
      BY <1>1, <2>1, <2>2 DEF MapInv, NoneLostInv, TickComplete
  <1> QED
    BY <1>13, <1>14, <1>15, <1>16 DEF MapInv

\* A map is in one todo set only.
LEMMA VisitedByOne ==
  ASSUME MapInv, NEW v \in Workers, NEW w \in Workers,
         NEW i \in todo[w], i \in todo[v], IInv
  PROVE  v = w
  <1>1. request[v] = request[w] /\ at[w] = "update"
    BY DEF MapInv, PlaceInv
  <1> QED
    BY <1>1 DEF MapInv, PlaceInv, IInv, ControlInv

\* The parallel phase is on while a worker visits instances.
LEMMA Visiting ==
  ASSUME IInv, NEW w \in Workers, at[w] = "update"
  PROVE  world \in {"schedule", "wait"} /\ request[w] \in Maps
  <1>1. request[w] # NoMap
    BY DEF IInv, ControlInv
  <1>2. pending > 0
    BY <1>1, BusyIsPending DEF IInv, Busy
  <1> QED
    BY <1>1, <1>2 DEF IInv, ControlInv, TypeOK

LEMMA ScheduleInstanceStep ==
  ASSUME IInv, MapInv, NEW w \in Workers, NEW i \in Instances, ScheduleInstance(w, i)
  PROVE  MapInv'
  <1>1. UNCHANGED <<maps, world, unscheduled, at, request, updates, kept>>
    BY DEF ScheduleInstance, worldVars
  <1>2. /\ at[w] = "update" /\ i \in todo[w] /\ todo'[w] = todo[w] \ {i}
        /\ \A v \in Workers \ {w} : todo'[v] = todo[v]
    BY DEF ScheduleInstance, IInv, TypeOK
  <1>3. i \notin QueuedMaps /\ ~Held(i) /\ i \in maps /\ updates[i] = 0 /\ i \notin kept
    BY <1>2 DEF MapInv, PlaceInv, LiveInv, OnceInv
  <1>4. QueuedMaps' = QueuedMaps \cup {i} /\ QueueDistinct'
    BY <1>3, PushQueues DEF ScheduleInstance, ScheduleUpdate, Push, IInv, MapInv, PlaceInv
  <1>5. \A x : (Held(x)' <=> Held(x)) /\ (Popped(x)' <=> Popped(x))
    BY <1>1 DEF Held, Popped
  <1>6. \A x : Awaited(x)' <=> Awaited(x) \/ x = i
    BY <1>1, <1>4, <1>5 DEF Awaited
  <1>7. \A v \in Workers : i \notin todo'[v] /\ todo'[v] \subseteq todo[v]
    BY <1>2, VisitedByOne
  <1>8. PlaceInv'
    <2>1. \A v \in Workers : request'[v] \notin QueuedMaps'
      BY <1>1, <1>3, <1>4 DEF MapInv, PlaceInv, Held
    <2>2. \A x \in unscheduled' : x \notin QueuedMaps' /\ ~Held(x)'
      BY <1>1, <1>4, <1>5, MapsAssumption DEF MapInv, PlaceInv, IInv, TypeOK
    <2>3. \A v \in Workers : \A x \in todo'[v] :
             at'[v] = "update" /\ Parent[x] = request'[v] /\ x \notin QueuedMaps' /\ ~Held(x)'
      BY <1>1, <1>4, <1>5, <1>7 DEF MapInv, PlaceInv
    <2> QED
      BY <1>1, <1>4, <2>1, <2>2, <2>3 DEF MapInv, PlaceInv
  <1>9. LiveInv'
    BY <1>1, <1>3, <1>4, <1>7 DEF MapInv, LiveInv
  <1>10. OnceInv'
    <2>1. updates[Parent[i]] = 1
      BY <1>2 DEF MapInv, PlaceInv, OnceInv
    <2>2. \A x \in Instances : updates[Parent[x]] = 0 => x \notin QueuedMaps'
      BY <1>4, <2>1 DEF MapInv, OnceInv
    <2> QED
      BY <1>1, <1>3, <1>5, <1>6, <1>7, <2>2 DEF MapInv, OnceInv
  <1>11. NoneLostInv'
    <2>1. \A x, v : v \in Workers /\ x \in todo[v] => x = i \/ x \in todo'[v]
      BY <1>2
    <2> QED
      BY <1>1, <1>6, <2>1 DEF MapInv, NoneLostInv, TickComplete
  <1> QED
    BY <1>8, <1>9, <1>10, <1>11 DEF MapInv

\* Deleted or kept, an instance is not visited again in this tick.
LEMMA DestroyOrKeepStep ==
  ASSUME IInv, MapInv, NEW w \in Workers, NEW i \in Instances,
         DestroyInstance(w, i) \/ KeepInstance(w, i)
  PROVE  MapInv'
  <1>1. UNCHANGED <<queue, world, unscheduled, at, request, updates>>
    BY DEF DestroyInstance, KeepInstance, worldVars, queueVars
  <1>2. /\ at[w] = "update" /\ i \in todo[w] /\ todo'[w] = todo[w] \ {i}
        /\ \A v \in Workers \ {w} : todo'[v] = todo[v]
    BY DEF DestroyInstance, KeepInstance, IInv, TypeOK
  <1>3. \/ maps' = maps \ {i} /\ kept' = kept
        \/ maps' = maps /\ kept' = kept \cup {i}
    BY DEF DestroyInstance, KeepInstance, worldVars
  <1>4. i \notin QueuedMaps /\ ~Held(i) /\ updates[i] = 0
    BY <1>2 DEF MapInv, PlaceInv, OnceInv
  <1>5. QueuedMaps' = QueuedMaps /\ (QueueDistinct <=> QueueDistinct')
    BY <1>1 DEF QueuedMaps, QueueDistinct
  <1>6. \A x : (Held(x)' <=> Held(x)) /\ (Popped(x)' <=> Popped(x)) /\ (Awaited(x)' <=> Awaited(x))
    BY <1>1, <1>5 DEF Held, Popped, Awaited
  <1>7. \A v \in Workers : i \notin todo'[v] /\ todo'[v] \subseteq todo[v]
    BY <1>2, VisitedByOne
  <1>8. PlaceInv'
    BY <1>1, <1>5, <1>6, <1>7 DEF MapInv, PlaceInv
  <1>9. i \notin unscheduled /\ ~Popped(i) /\ ~Awaited(i)
    BY <1>4, MapsAssumption DEF Held, Popped, Awaited, IInv, TypeOK
  <1>10. LiveInv'
    <2>1. \A v \in Workers : request[v] # i
      BY <1>4 DEF Held
    <2>2. \A x \in maps \cap Instances : Parent[x] \in maps /\ Parent[x] # i
      BY MapsAssumption DEF MapInv, LiveInv
    <2> QED
      BY <1>1, <1>3, <1>4, <1>5, <1>7, <1>9, <2>1, <2>2 DEF MapInv, LiveInv
  <1>11. OnceInv'
    <2>1. updates[Parent[i]] = 1
      BY <1>2 DEF MapInv, PlaceInv, OnceInv
    <2>2. \A x \in kept' : x \in kept \/ x = i
      BY <1>3
    <2> QED
      BY <1>1, <1>4, <1>5, <1>6, <1>7, <1>9, <2>1, <2>2 DEF MapInv, OnceInv
  <1>12. NoneLostInv'
    <2>1. \A x, v : v \in Workers /\ x \in todo[v] => x = i \/ x \in todo'[v]
      BY <1>2
    <2>2. world \in {"schedule", "wait"}
      BY <1>2, Visiting
    <2>3. \A x \in maps' : x \in maps /\ (x \notin kept' => x \notin kept /\ x # i)
      BY <1>3
    <2> QED
      BY <1>1, <1>6, <2>1, <2>2, <2>3 DEF MapInv, NoneLostInv, TickComplete
  <1> QED
    BY <1>8, <1>10, <1>11, <1>12 DEF MapInv

LEMMA FinishUpdateStep ==
  ASSUME IInv, MapInv, NEW w \in Workers, FinishUpdate(w)
  PROVE  MapInv'
  <1>1. UNCHANGED <<queue, maps, world, unscheduled, todo, updates, kept>>
    BY DEF FinishUpdate, queueVars
  <1>2. /\ at[w] = "update" /\ at'[w] = "pop" /\ request'[w] = NoMap /\ todo[w] = {}
        /\ \A v \in Workers \ {w} : at'[v] = at[v] /\ request'[v] = request[v]
    BY DEF FinishUpdate, Goto, IInv, TypeOK
  <1>3. QueuedMaps' = QueuedMaps /\ (QueueDistinct <=> QueueDistinct')
    BY <1>1 DEF QueuedMaps, QueueDistinct
  <1>4. QueuedMaps \subseteq Maps
    BY QueueIsFinite DEF IInv
  <1>5. \A x \in Maps : Held(x)' => Held(x)
    BY <1>2, NoMapIsNoMap DEF Held
  <1>6. \A x : Popped(x)' <=> Popped(x)
    BY <1>2 DEF Popped
  <1>7. \A x : Awaited(x)' <=> Awaited(x)
    BY <1>1, <1>3, <1>6 DEF Awaited
  <1>8. PlaceInv'
    <2>1. \A u, v \in Workers : request'[u] = request'[v] /\ request'[u] # NoMap => u = v
      BY <1>2 DEF MapInv, PlaceInv
    <2>2. \A v \in Workers : request'[v] \notin QueuedMaps'
      BY <1>2, <1>3, <1>4, NoMapIsNoMap DEF MapInv, PlaceInv
    <2>3. \A x \in unscheduled' : x \notin QueuedMaps' /\ ~Held(x)'
      BY <1>1, <1>3, <1>5 DEF MapInv, PlaceInv, IInv, TypeOK
    <2>4. \A v \in Workers : \A x \in todo'[v] :
             at'[v] = "update" /\ Parent[x] = request'[v] /\ x \notin QueuedMaps' /\ ~Held(x)'
      BY <1>1, <1>2, <1>3, <1>5 DEF MapInv, PlaceInv, IInv, TypeOK
    <2> QED
      BY <1>3, <2>1, <2>2, <2>3, <2>4 DEF MapInv, PlaceInv
  <1>9. LiveInv'
    BY <1>1, <1>2, <1>3 DEF MapInv, LiveInv
  <1>10. OnceInv'
    BY <1>1, <1>2, <1>3, <1>5, <1>7 DEF MapInv, OnceInv
  <1>11. NoneLostInv'
    BY <1>1, <1>7 DEF MapInv, NoneLostInv, TickComplete
  <1> QED
    BY <1>8, <1>9, <1>10, <1>11 DEF MapInv

LEMMA MapStep ==
  ASSUME IInv, MapInv, [Next]_vars
  PROVE  MapInv'
  <1>1. CASE WorldStep
    BY <1>1, CreateMapStep, ScheduleMapStep, StartUpdateStep, AllScheduledStep,
       WaitStep, UnloadAllStep, OtherWorldStep DEF WorldStep
  <1>2. ASSUME NEW w \in Workers, WorkerStep(w) \/ WorkerWakes(w)
        PROVE  MapInv'
    BY <1>2, IdleStep, TakeStep, BeginUpdateStep, ScheduleInstanceStep,
       DestroyOrKeepStep, FinishUpdateStep DEF WorkerStep
  <1>3. CASE Stopped \/ UNCHANGED vars
    BY <1>3, QuietStep DEF Stopped, vars, mapVars, queueVars, workerVars
  <1> QED
    BY <1>1, <1>2, <1>3 DEF Next

LEMMA MapInvariant == Spec => [](IInv /\ MapInv)
  <1>1. Init => IInv /\ MapInv
    BY InitIInv, InitMapInv
  <1>2. IInv /\ MapInv /\ [Next]_vars => IInv' /\ MapInv'
    BY TypeStep, CountStep, ControlStep, MapStep DEF IInv
  <1> QED
    BY <1>1, <1>2, PTL DEF Spec

-----------------------------------------------------------------------------
(* The properties. *)

\* No map has two requests or shares a worker, and no request outlives the
\* map that DestroyInstance deleted, whatever the workers' order of steps.
THEOREM RequestsAreUnique == Spec => []OneRequestPerLiveMap
  <1>1. IInv /\ MapInv => OneRequestPerLiveMap
    <2> SUFFICES ASSUME IInv, MapInv PROVE OneRequestPerLiveMap
      OBVIOUS
    <2>1. \A i \in 1..Len(queue) : queue[i] \in QueuedMaps
      BY DEF QueuedMaps
    <2> QED
      BY <2>1 DEF MapInv, PlaceInv, LiveInv, QueueDistinct, OneRequestPerLiveMap, Busy, IInv,
                  ControlInv, NoNullCall
  <1> QED
    BY <1>1, MapInvariant, PTL

\* DelayedUpdate always finds a complete tick: each live map was updated
\* exactly once, or is an instance whose unloading was refused.
THEOREM TicksAreComplete == Spec => []TickComplete
  <1>1. MapInv => TickComplete
    BY DEF MapInv, NoneLostInv
  <1> QED
    BY <1>1, MapInvariant, PTL

\* What a step of the map updater is for WorldTick.
LEMMA RefinesStep ==
  ASSUME IInv, MapInv, [Next]_vars
  PROVE  [Tick!TickNext]_(Tick!tickVars)
  <1> USE DEF Tick!TickNext, Tick!tickVars
  <1>1. CASE WorldStep
    <2>1. ASSUME NEW m \in Maps, CreateMap(m)
          PROVE  Tick!Create(m)
      BY <2>1 DEF CreateMap, Tick!Create
    <2>2. CASE StartUpdate
      <3>1. {m \in Maps : updates'[m] > 0} \cup kept' = {}
        BY <2>2 DEF StartUpdate
      <3> QED
        BY <2>2, <3>1 DEF StartUpdate, Tick!BeginTick
    <2>3. CASE Wait
      <3>1. UNCHANGED <<maps, updates, kept>> /\ world = "wait"
        BY <2>3 DEF Wait
      <3>2. CASE world' = world
        BY <3>1, <3>2
      <3>3. CASE world' # world
        <4>1. world' = "delayed"
          BY <2>3, <3>3 DEF Wait, WaitForPending
        <4>2. maps \subseteq {m \in Maps : updates[m] > 0} \cup kept
          BY <2>3, <3>3, WaitStep
        <4> QED
          BY <3>1, <4>1, <4>2 DEF Tick!EndTick
      <3> QED
        BY <3>2, <3>3
    <2>4. CASE UnloadAll
      BY <2>4 DEF UnloadAll, Tick!StopTicking
    <2>5. ASSUME NEW m \in Maps, ScheduleMap(m)
          PROVE  UNCHANGED Tick!tickVars
      BY <2>5 DEF ScheduleMap
    <2>6. CASE AllScheduled \/ DelayedUpdate \/ SetCancelationToken \/ Drain
               \/ CancelQueue \/ Join
      <3>1. UNCHANGED <<maps, updates, kept>>
        BY <2>6 DEF AllScheduled, DelayedUpdate, SetCancelationToken, Drain, CancelQueue, Join
      <3>2. \/ world = "schedule" /\ world' = "wait"
            \/ world = "delayed" /\ world' = "world"
            \/ world \in {"deactivate", "drain", "cancel", "join"}
                 /\ world' \in {"drain", "cancel", "join", "stopped"}
        BY <2>6 DEF AllScheduled, DelayedUpdate, SetCancelationToken, Drain,
           CancelQueue, Join, WaitForPending
      <3> QED
        BY <3>1, <3>2
    <2> QED
      BY <1>1, <2>1, <2>2, <2>3, <2>4, <2>5, <2>6 DEF WorldStep
  <1>2. ASSUME NEW w \in Workers, WorkerStep(w) \/ WorkerWakes(w)
        PROVE  [Tick!TickNext]_(Tick!tickVars)
    <2>1. CASE BeginUpdate(w)
      <3>1. /\ request[w] \in maps /\ request[w] \in Maps
            /\ updates[request[w]] = 0 /\ request[w] \notin kept
        BY <2>1, BeginIsFirst
      <3>2. world \in {"schedule", "wait"}
        <4>1. pending > 0
          BY <3>1, NoMapIsNoMap, BusyIsPending DEF IInv, Busy
        <4> QED
          BY <4>1 DEF IInv, ControlInv
      <3>3. UNCHANGED <<maps, world, kept>>
        BY <2>1 DEF BeginUpdate, worldVars
      <3>4. {m \in Maps : updates'[m] > 0} = {m \in Maps : updates[m] > 0} \cup {request[w]}
        BY <2>1, <3>1 DEF BeginUpdate, IInv, TypeOK
      <3>5. PICK m \in Maps : m = request[w]
        BY <3>1
      <3>6. Tick!Handle(m)
        BY <3>1, <3>2, <3>3, <3>4, <3>5 DEF Tick!Handle
      <3> QED
        BY <3>6
    <2>2. ASSUME NEW i \in Instances, DestroyInstance(w, i) \/ KeepInstance(w, i)
          PROVE  Tick!Unload(i) \/ Tick!Handle(i)
      <3>1. at[w] = "update" /\ i \in todo[w] /\ UNCHANGED <<world, updates>>
        BY <2>2 DEF DestroyInstance, KeepInstance, worldVars
      <3>2. world \in {"schedule", "wait"}
        BY <3>1, Visiting
      <3>3. i \in maps /\ updates[i] = 0 /\ i \notin kept
        BY <3>1 DEF MapInv, LiveInv, OnceInv
      <3>4. CASE DestroyInstance(w, i)
        BY <3>1, <3>2, <3>3, <3>4 DEF DestroyInstance, Tick!Unload
      <3>5. CASE KeepInstance(w, i)
        BY <3>1, <3>2, <3>3, <3>5 DEF KeepInstance, worldVars, Tick!Handle
      <3> QED
        BY <2>2, <3>4, <3>5
    <2>3. ASSUME NEW i \in Instances, ScheduleInstance(w, i)
          PROVE  UNCHANGED Tick!tickVars
      BY <2>3 DEF ScheduleInstance, worldVars
    <2>4. CASE WorkerBlock(w) \/ WorkerWakes(w) \/ WorkerTake(w) \/ WorkerReturnEmpty(w)
               \/ WorkerExit(w) \/ FinishUpdate(w)
      BY <2>4 DEF WorkerBlock, WorkerWakes, WorkerTake, WorkerReturnEmpty,
         WorkerExit, FinishUpdate, worldVars
    <2> QED
      BY <1>2, <2>1, <2>2, <2>3, <2>4 DEF WorkerStep
  <1>3. CASE Stopped \/ UNCHANGED vars
    BY <1>3 DEF Stopped, vars
  <1> QED
    BY <1>1, <1>2, <1>3 DEF Next

\* The threaded map update implements the one-owner tick: however the worker
\* threads interleave, the world loop sees ticks that handle every map once.
THEOREM UpdateImplementsTick == Spec => ImplementsWorldTick
  <1>1. Init => Tick!TickInit
    <2> SUFFICES ASSUME Init PROVE Tick!TickInit
      OBVIOUS
    <2>1. {m \in Maps : updates[m] > 0} \cup kept = {}
      BY DEF Init
    <2> QED
      BY <2>1 DEF Init, Tick!TickInit
  <1>2. IInv /\ MapInv /\ [Next]_vars => [Tick!TickNext]_(Tick!tickVars)
    BY RefinesStep
  <1> QED
    BY <1>1, <1>2, MapInvariant, PTL DEF Spec, ImplementsWorldTick, Tick!TickSpec
=============================================================================
