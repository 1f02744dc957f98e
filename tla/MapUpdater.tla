------------------------------- MODULE MapUpdater -------------------------------
(***************************************************************************)
(* One world tick over all maps: MapManager::Update on the world thread,   *)
(* MapUpdater's worker threads behind a ProducerConsumerQueue, and the     *)
(* update requests that MapInstanced::Update schedules from inside a       *)
(* worker.  Shutdown (MapManager::UnloadAll and MapUpdater::deactivate) is *)
(* part of it.  A request is the map it updates.                           *)
(*                                                                         *)
(* schedule_update and update_finished hold MapUpdater::_lock throughout,  *)
(* and wait() holds it between its test and its sleep: one step each.      *)
(***************************************************************************)
EXTENDS ProducerConsumerQueue, Integers, FiniteSets

CONSTANTS
    BaseMaps,   \* the keys i_maps may hold
    Instances,  \* instance maps that may exist under a MapInstanced
    Parent,     \* the MapInstanced of each instance
    Workers,    \* MapUpdate.Threads worker threads
    NoMap       \* the null request

ASSUME MapsAssumption ==
    /\ IsFiniteSet(BaseMaps) /\ IsFiniteSet(Instances)
    /\ BaseMaps \cap Instances = {}
    /\ Parent \in [Instances -> BaseMaps]
    /\ NoMap \notin BaseMaps \cup Instances

\* activated(): without worker threads MapManager::Update calls the maps
\* itself and nothing runs concurrently.
ASSUME ActivatedAssumption == IsFiniteSet(Workers) /\ Workers # {}

Maps == BaseMaps \cup Instances

VARIABLES
    maps,           \* the live maps: i_maps and every m_InstancedMaps
    world,          \* where the world thread is
    worldAsleep,    \* the world thread sleeps on MapUpdater::_condition
    unscheduled,    \* base maps the loop of MapManager::Update has still to visit
    pending,        \* pending_requests
    cancel,         \* _cancelationToken
    at,             \* where each worker is
    request,        \* the request each worker holds
    todo,           \* instances the worker's MapInstanced::Update has still to visit
    updates,        \* history: Update calls of each map in this tick
    kept            \* history: instances DestroyInstance refused to unload in this tick

vars == <<queueVars, maps, world, worldAsleep, unscheduled, pending, cancel,
          at, request, todo, updates, kept>>
worldVars == <<maps, world, worldAsleep, unscheduled>>
workerVars == <<at, request, todo>>

Init ==
    /\ QueueInit
    /\ maps = {}
    /\ world = "world"
    /\ worldAsleep = FALSE
    /\ unscheduled = {}
    /\ pending = 0
    /\ cancel = FALSE
    /\ at = [w \in Workers |-> "pop"]
    /\ request = [w \in Workers |-> NoMap]
    /\ todo = [w \in Workers |-> {}]
    /\ updates = [m \in Maps |-> 0]
    /\ kept = {}

-----------------------------------------------------------------------------
(* MapUpdater's operations. *)

\* Mutant of ScheduleUpdate: the request is not counted.
ScheduleUncounted(m) == Push(m) /\ UNCHANGED pending

ScheduleUpdate(m) ==
    /\ pending' = pending + 1
    /\ Push(m)

\* Mutants of UpdateFinished: nothing is counted down; nobody is woken.
FinishUncounted == worldAsleep' = FALSE /\ UNCHANGED pending
FinishSilently == pending' = pending - 1 /\ UNCHANGED worldAsleep

\* notify_all: the world thread is the only thread that waits.
UpdateFinished ==
    /\ pending' = pending - 1
    /\ worldAsleep' = FALSE

\* Mutant of WaitForPending: the last request is not waited for.
WaitOffByOne(next) ==
    /\ ~worldAsleep
    /\ \/ pending > 1 /\ worldAsleep' = TRUE /\ UNCHANGED world
       \/ pending <= 1 /\ world' = next /\ UNCHANGED worldAsleep

\* wait(): `next` is where the world thread continues.
WaitForPending(next) ==
    /\ ~worldAsleep
    /\ \/ pending > 0 /\ worldAsleep' = TRUE /\ UNCHANGED world
       \/ pending = 0 /\ world' = next /\ UNCHANGED worldAsleep

-----------------------------------------------------------------------------
(* The world thread. *)

\* Packet handlers run on the world thread between two ticks: CreateBaseMap
\* and MapInstanced::CreateInstance or CreateBattleground.
CreateMap(m) ==
    /\ world = "world"
    /\ m \notin maps
    /\ m \in Instances => Parent[m] \in maps
    /\ maps' = maps \cup {m}
    /\ UNCHANGED <<queueVars, world, worldAsleep, unscheduled, pending, cancel,
                   workerVars, updates, kept>>

StartUpdate ==
    /\ world = "world"
    /\ world' = "schedule"
    /\ unscheduled' = maps \cap BaseMaps
    /\ updates' = [m \in Maps |-> 0]
    /\ kept' = {}
    /\ UNCHANGED <<queueVars, maps, worldAsleep, pending, cancel, workerVars>>

ScheduleMap(m) ==
    /\ world = "schedule"
    /\ m \in unscheduled
    /\ unscheduled' = unscheduled \ {m}
    /\ ScheduleUpdate(m)
    /\ UNCHANGED <<maps, world, worldAsleep, cancel, workerVars, updates, kept>>

\* Mutant of AllScheduled: wait() is not called.
NoWait ==
    /\ world = "schedule" /\ unscheduled = {}
    /\ world' = "delayed"
    /\ UNCHANGED <<queueVars, maps, worldAsleep, unscheduled, pending, cancel,
                   workerVars, updates, kept>>

AllScheduled ==
    /\ world = "schedule"
    /\ unscheduled = {}
    /\ world' = "wait"
    /\ UNCHANGED <<queueVars, maps, worldAsleep, unscheduled, pending, cancel,
                   workerVars, updates, kept>>

Wait ==
    /\ world = "wait"
    /\ WaitForPending("delayed")
    /\ UNCHANGED <<queueVars, maps, unscheduled, pending, cancel, workerVars,
                   updates, kept>>

\* DelayedUpdate of every map and its instances, on the world thread.
DelayedUpdate ==
    /\ world = "delayed"
    /\ world' = "world"
    /\ UNCHANGED <<queueVars, maps, worldAsleep, unscheduled, pending, cancel,
                   workerVars, updates, kept>>

\* UnloadAll deletes every map before it stops the threads.
UnloadAll ==
    /\ world = "world"
    /\ maps' = {}
    /\ world' = "deactivate"
    /\ UNCHANGED <<queueVars, worldAsleep, unscheduled, pending, cancel,
                   workerVars, updates, kept>>

SetCancelationToken ==
    /\ world = "deactivate"
    /\ cancel' = TRUE
    /\ world' = "drain"
    /\ UNCHANGED <<queueVars, maps, worldAsleep, unscheduled, pending,
                   workerVars, updates, kept>>

Drain ==
    /\ world = "drain"
    /\ WaitForPending("cancel")
    /\ UNCHANGED <<queueVars, maps, unscheduled, pending, cancel, workerVars,
                   updates, kept>>

CancelQueue ==
    /\ world = "cancel"
    /\ Cancel
    /\ world' = "join"
    /\ UNCHANGED <<maps, worldAsleep, unscheduled, pending, cancel, workerVars,
                   updates, kept>>

Join ==
    /\ world = "join"
    /\ \A w \in Workers : at[w] = "exit"
    /\ world' = "stopped"
    /\ UNCHANGED <<queueVars, maps, worldAsleep, unscheduled, pending, cancel,
                   workerVars, updates, kept>>

-----------------------------------------------------------------------------
(* A worker thread. *)

Goto(w, from, to) ==
    /\ at[w] = from
    /\ at' = [at EXCEPT ![w] = to]

WorkerBlock(w) ==
    /\ at[w] = "pop"
    /\ Block(w)
    /\ UNCHANGED <<worldVars, pending, cancel, workerVars, updates, kept>>

WorkerWakes(w) ==
    /\ SpuriousWakeup(w)
    /\ UNCHANGED <<worldVars, pending, cancel, workerVars, updates, kept>>

WorkerTake(w) ==
    /\ Goto(w, "pop", "popped")
    /\ Take(w)
    /\ request' = [request EXCEPT ![w] = Head(queue)]
    /\ UNCHANGED <<worldVars, pending, cancel, todo, updates, kept>>

WorkerReturnEmpty(w) ==
    /\ Goto(w, "pop", "popped")
    /\ ReturnEmpty(w)
    /\ request' = [request EXCEPT ![w] = NoMap]
    /\ UNCHANGED <<worldVars, pending, cancel, todo, updates, kept>>

\* The token is read after the pop: a request popped by then is abandoned,
\* and pending_requests still counts it.
WorkerExit(w) ==
    /\ cancel
    /\ Goto(w, "popped", "exit")
    /\ UNCHANGED <<queueVars, worldVars, pending, cancel, request, todo,
                   updates, kept>>

\* request->call(): Map::Update, after which MapInstanced::Update goes
\* through the instances of the map.
BeginUpdate(w) ==
    /\ ~cancel
    /\ Goto(w, "popped", "update")
    /\ updates' = [updates EXCEPT ![request[w]] = @ + 1]
    /\ todo' = [todo EXCEPT ![w] = {i \in Instances \cap maps : Parent[i] = request[w]}]
    /\ UNCHANGED <<queueVars, worldVars, pending, cancel, request, kept>>

ScheduleInstance(w, i) ==
    /\ at[w] = "update"
    /\ i \in todo[w]
    /\ todo' = [todo EXCEPT ![w] = @ \ {i}]
    /\ ScheduleUpdate(i)
    /\ UNCHANGED <<worldVars, cancel, at, request, updates, kept>>

\* Mutant of DestroyInstance: the instance is visited again after its deletion.
DestroyAndVisit(w, i) ==
    /\ at[w] = "update" /\ i \in todo[w]
    /\ maps' = maps \ {i}
    /\ UNCHANGED <<queueVars, world, worldAsleep, unscheduled, pending, cancel,
                   workerVars, updates, kept>>

\* DestroyInstance of an instance whose unload timer ran out...
DestroyInstance(w, i) ==
    /\ at[w] = "update"
    /\ i \in todo[w]
    /\ todo' = [todo EXCEPT ![w] = @ \ {i}]
    /\ maps' = maps \ {i}
    /\ UNCHANGED <<queueVars, world, worldAsleep, unscheduled, pending, cancel,
                   at, request, updates, kept>>

\* ... and of one that still holds players that are being teleported out.
KeepInstance(w, i) ==
    /\ at[w] = "update"
    /\ i \in todo[w]
    /\ todo' = [todo EXCEPT ![w] = @ \ {i}]
    /\ kept' = kept \cup {i}
    /\ UNCHANGED <<queueVars, worldVars, pending, cancel, at, request, updates>>

\* Mutant of FinishUpdate: the update ends before all instances are visited.
FinishEarly(w) ==
    /\ Goto(w, "update", "pop")
    /\ UpdateFinished
    /\ request' = [request EXCEPT ![w] = NoMap]
    /\ todo' = [todo EXCEPT ![w] = {}]
    /\ UNCHANGED <<queueVars, maps, world, unscheduled, cancel, updates, kept>>

FinishUpdate(w) ==
    /\ Goto(w, "update", "pop")
    /\ todo[w] = {}
    /\ UpdateFinished
    /\ request' = [request EXCEPT ![w] = NoMap]
    /\ UNCHANGED <<queueVars, maps, world, unscheduled, cancel, todo, updates, kept>>

-----------------------------------------------------------------------------
WorldStep ==
    \/ \E m \in Maps : CreateMap(m) \/ ScheduleMap(m)
    \/ StartUpdate \/ AllScheduled \/ Wait \/ DelayedUpdate
    \/ UnloadAll \/ SetCancelationToken \/ Drain \/ CancelQueue \/ Join

WorkerStep(w) ==
    \/ WorkerBlock(w) \/ WorkerTake(w) \/ WorkerReturnEmpty(w)
    \/ WorkerExit(w) \/ BeginUpdate(w) \/ FinishUpdate(w)
    \/ \E i \in Instances :
          ScheduleInstance(w, i) \/ DestroyInstance(w, i) \/ KeepInstance(w, i)

\* The server has shut down.
Stopped == world = "stopped" /\ UNCHANGED vars

Next ==
    \/ WorldStep
    \/ \E w \in Workers : WorkerStep(w) \/ WorkerWakes(w)
    \/ Stopped

Spec == Init /\ [][Next]_vars

\* The threads are scheduled by the operating system: a thread that can take
\* a step eventually takes one.  The world thread is not obliged to shut down.
FairSpec ==
    /\ Spec
    /\ WF_vars(\E m \in Maps : ScheduleMap(m))
    /\ WF_vars(AllScheduled) /\ WF_vars(Wait) /\ WF_vars(DelayedUpdate)
    /\ WF_vars(SetCancelationToken) /\ WF_vars(Drain)
    /\ WF_vars(CancelQueue) /\ WF_vars(Join)
    /\ \A w \in Workers : WF_vars(WorkerStep(w))

-----------------------------------------------------------------------------
(* Properties. *)

TypeOK ==
    /\ queue \in Seq(Maps)
    /\ waiting \subseteq Workers
    /\ shutdown \in BOOLEAN
    /\ maps \subseteq Maps
    /\ world \in {"world", "schedule", "wait", "delayed", "deactivate", "drain",
                  "cancel", "join", "stopped"}
    /\ worldAsleep \in BOOLEAN
    /\ unscheduled \subseteq BaseMaps
    /\ pending \in Nat
    /\ cancel \in BOOLEAN
    /\ at \in [Workers -> {"pop", "popped", "update", "exit"}]
    /\ request \in [Workers -> Maps \cup {NoMap}]
    /\ todo \in [Workers -> SUBSET Instances]
    /\ updates \in [Maps -> Nat]
    /\ kept \subseteq Instances

Busy == {w \in Workers : request[w] # NoMap}

\* pending_requests is the number of requests that are queued or held by a
\* worker: the counter wait() trusts neither loses nor keeps a request, not
\* even one scheduled from inside a worker or abandoned at shutdown.
PendingCountsRequests == pending = Len(queue) + Cardinality(Busy)

\* Outside the part of MapManager::Update between the first schedule_update
\* and the return of wait(), no worker touches a map and none is queued: the
\* packet handlers, DelayedUpdate and UnloadAll have the maps to themselves.
WorldThreadAlone ==
    world \notin {"schedule", "wait"} => queue = <<>> /\ Busy = {}

\* When DelayedUpdate runs, the tick is complete: every live map was updated
\* once, nested instances included, except those whose unloading was refused.
TickComplete ==
    world = "delayed" => \A m \in maps : updates[m] = (IF m \in kept THEN 0 ELSE 1)

\* A worker that WaitAndPop released without a request leaves its loop: it
\* never calls a null request.
NoNullCall == \A w \in Workers : at[w] = "update" => request[w] # NoMap

\* No map is queued twice, updated by two workers at once, or queued and
\* updated at once, and no request outlives the map DestroyInstance deleted.
OneRequestPerLiveMap ==
    /\ \A i, j \in 1..Len(queue) : queue[i] = queue[j] => i = j
    /\ \A v, w \in Busy : request[v] = request[w] => v = w
    /\ \A w \in Busy : \A i \in 1..Len(queue) : queue[i] # request[w]
    /\ \A i \in 1..Len(queue) : queue[i] \in maps
    /\ \A w \in Busy : request[w] \in maps
    /\ NoNullCall

\* wait() returns: the world thread gets through every tick it starts.
TickEnds == world = "schedule" ~> world = "world"

\* deactivate() joins every worker once UnloadAll has begun.
ShutdownEnds == world = "deactivate" ~> world = "stopped"

\* The threaded update implements the one-owner tick of WorldTick.
Tick == INSTANCE WorldTick WITH
    phase <- CASE world \in {"schedule", "wait"} -> "updating"
               [] world \in {"delayed", "world"} -> "world"
               [] OTHER -> "stopped",
    live <- maps,
    handled <- {m \in Maps : updates[m] > 0} \cup kept

\* Every step of the threads is a step of WorldTick or changes nothing of it.
ImplementsWorldTick == Tick!TickSpec
=============================================================================
