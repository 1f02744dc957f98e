# Formal model of the emulator's server core

TLA+ modules, TLC configurations and TLAPS proofs for the parts of the server where
the order of steps matters: threads, callbacks, restarts, and structures that refer
to each other and live for different times. The rules of the game (spells, AI,
content scripts) are not modelled. Paths below are relative to `src/src/server/`.

## 1. The system

| Part | State | Operations | Works with |
|---|---|---|---|
| Blocking queue `shared/Threading/ProducerConsumerQueue.h` | deque, condition variable, shutdown flag | Push, WaitAndPop, Cancel | map updater, database pool |
| Parallel map update `game/Maps/{MapManager,MapUpdater,MapInstanced}.cpp` | the maps, `pending_requests`, cancellation token, worker threads | one tick (`MapManager::Update`), nested requests of `MapInstanced::Update`, `DestroyInstance`, shutdown | queue; every map |
| Instance ids `game/Maps/MapManager.cpp` | `vector<bool>` of taken ids, next id | load, generate, free | instance lifecycle |
| Instance lifecycle `game/Instances/InstanceSaveMgr.cpp`, `MapInstanced.cpp`, `InstanceMap` in `Map.cpp`, binds in `Player.cpp` and `Group.cpp` | saves, binds of players and groups, map objects, reset events, four database tables | enter, leave, log in and out, reset by the leader, scheduled reset, unloading of the map, restart | ids, database, sessions |
| Asynchronous database pool `shared/Database/` | queue of tasks, a worker and a MySQL connection each, the open transaction | execute, commit, retry after a deadlock, reconnect, close | every subsystem that saves |
| World sessions and login queue `game/World/World.cpp`, `game/Server/WorldSession.cpp` | sessions by account, queue, recent disconnections, received packets | add, replace, queue, admit, time out, log out | sockets, players |
| World network `game/Server/WorldSocket.cpp`, `shared/Networking/` | sockets on network threads, write buffers and queues, outstanding completions | authentication, hand-over of the session, send, update, complete, close | sessions |
| Battleground queue `game/Battlegrounds/` | queued groups by bracket, invitations, timed events | join, invite, remind, remove, free slots (switched off: the handlers of `BattleGroundHandler.cpp` return at once) | players, events |
| Dungeon finder `game/DungeonFinding/` | state of players and groups, role checks, proposals, boots | join, vote, time out, leave (switched off for clients: every answer of `LFGHandler.cpp` returns before it sends) | groups, instances |
| Groups and loot rolls `game/Groups/`, `game/Loot/`, corpses in `Creature.cpp` | members, leader, binds; the rolls of a group, the flags of the items, the timer of a corpse | join, leave, disband; open, vote, loot, end of the timer, release, removal of the corpse | instances, players |
| Trade window `game/Handlers/TradeHandler.cpp`, `TradeData` in `Player.cpp` | both sides of each open trade, accept flags; bags and gold | begin, offer, accept, take back, cancel, exchange, save | players, spells, database |
| Auctions, mail `game/AuctionHouse/`, `game/Mails/`, `game/Handlers/` | bids, mails | bid, buy out, expire, send, take | database transactions |
| Motion, threat, events `game/Movement/`, `game/Combat/` | stacks and lists changed from inside their own callbacks | push, pop, delayed clean | one map |
| Authentication server `authserver/` | status of each connection | challenge, proof, realm list | login database |

How they interact. The world thread runs `World::Update`: sessions handle their packets,
then `MapManager::Update` hands every map to the worker threads and waits, then
`InstanceSaveManager::Update` fires resets. All of them enqueue writes in the database
pool, whose workers execute them later. Network threads hand new sessions over through a
locked queue.

What is hard, and what makes each part correct:

* **Map update** (interleaving, lost wakeups, shutdown). Maps have no locks. They are
  safe only because the world thread touches them outside of the parallel phase and one
  worker touches each of them inside. So: the counter of pending requests is exact, no map
  has two requests, no request outlives its map, each tick updates each map once, ticks
  end and the shutdown ends.
* **Instance ids and lifecycle** (structures with different lifetimes, restart). An id is
  not handed out while a save or a row has it; binds point to live saves; what is stored is
  reset one day; a player's instance is not lost by a restart; two parties never share an
  instance.
* **Database pool** (retry, lost connections, shutdown). Transactions are atomic, happen
  once and in order; each task is executed; `Close()` returns.
* **Sessions** (network threads beside the world thread, raw pointers in three places).
  Never more ordinary players than the limit, nobody waits while a slot is free, the queue
  is left in order, one session per account, no packet for a deleted session; sessions
  without a socket end, and the shutdown logs everybody out.
* **Socket writer** (three threads, partial writes). The bytes leave in the order in which
  their headers were encrypted; one completion at a time; nothing that was sent is forgotten.
* **Trade** (two players, checks first and moves later). A trade has two sides; an accept is
  for what is on the table; items and gold are conserved and go where both agreed; the
  database never has half a trade.

* **Loot rolls** (members come and go while they vote). Each item is handed out once; what is
  rolled for is held back and its roll will end; who wins wanted the item most.

The hazards of the code are listed line by line in `PROJECT.json`, with the properties
that would catch each one going wrong.

## 2. Modules

| Module | Models | Used by |
|---|---|---|
| `ProducerConsumerQueue` | the blocking queue | `MapUpdater`, `DatabasePool` (both EXTEND it) |
| `WorldTick` | abstract: a tick in which one owner at a time has the maps | refined by `MapUpdater` |
| `MapUpdater` | world thread and worker threads of the map update | `MCMapUpdater`, `MapUpdaterProofs` |
| `MapUpdaterProofs` | inductive invariant and theorems about `MapUpdater` | |
| `MapUpdaterRefinement` | what happens to each map in a tick; proofs of the refinement | |
| `InstanceIds` | the id allocator as operators over its state | `InstanceIdPool`, `InstanceLifecycle` |
| `InstanceIdPool` | the allocator under every load and any order of use | |
| `InstanceLifecycle` | instances from creation to reset | `MCInstanceLifecycle` |
| `InstanceLifecycleProofs` | proofs that parties never share an instance, resets stay scheduled, and binds, saves, rows and ids agree | |
| `DatabasePool` | the asynchronous connections of the database pool | `MCDatabasePool`, `DatabasePoolProofs` |
| `DatabasePoolProofs` | proofs that transactions are atomic and in order | |
| `WorldSessions` | sockets, sessions and the login queue | `MCWorldSessions`, `WorldSessionsProofs` |
| `WorldSessionsProofs` | proofs that nothing dangles, and that the login queue is exact, fair and honest | |
| `SocketWriter` | the sending half of one socket | `MCSocketWriter`, `SocketWriterProofs` |
| `SocketWriterProofs` | proofs that the stream stays in order | |
| `TradeWindow` | the trade window, and what else happens to the two players | `MCTradeWindow`, `TradeWindowProofs` |
| `TradeWindowProofs` | proofs that trades are paired, accepts up to date, nothing is lost and saves go together | |
| `LootRolls` | the rolls of one group, its members and the corpses | `MCLootRolls`, `LootRollsProofs` |
| `LootRollsProofs` | proofs that the sums are right, rolls end and are fair | |

Some definitions are marked "Mutant of ...": each is the neighbouring definition with a
plausible bug. Nothing uses them; put in the place of the definition they must break a
named property (`PROJECT.json`, "mutants").

### Map update

`maps` is `i_maps` together with all `m_InstancedMaps`; a request is the map it updates;
`world` says where the world thread is, `at` where each worker is. `ScheduleUpdate`,
`UpdateFinished` and `WaitForPending` are the methods of `MapUpdater`; they hold
`MapUpdater::_lock` for the whole body, so each is one step. Between them everything
interleaves. `WaitAndPop` is three actions, one for each way its predicate goes, and may
wake spuriously. `BeginUpdate` is `MapUpdateRequest::call` up to the loop of
`MapInstanced::Update`; the loop is one step per instance (`ScheduleInstance`,
`DestroyInstance`, `KeepInstance`). `updates` and `kept` are history variables.
What `Map::Update` does inside one map is left out, since no property looks inside.
The server runs without worker threads when `MapUpdate.Threads` is 0 or a script engine
forbids it; then nothing is concurrent and the model does not apply.

`WorldTick` says what the world loop relies on. The mapping sends the scheduling and
waiting of the world thread to "updating", and a map counts as handled once a worker has
begun its update or has refused to unload it. It holds from that moment because nobody
else may look at the map before the tick ends, which `EndTick` requires.

### Instances

One action per handler: the acknowledgement of a teleport (`Arrive`, `ArriveRefused`,
`ArriveOutside`), the teleport itself (`Leave`), `Login`, `Logout`, `ResetInstances`,
`KillCreature`, and for the world `UnloadMap`, `FireResets`, `Tick`, `Restart`. They are
atomic because packet handlers and `InstanceSaveManager::Update` run on the world thread.
A map may be unloaded by a worker in the parallel phase, when the world thread waits.
Points where the code is subtle and the model follows it:

* A player is linked to a map (`Player::SetMap`) before it is added to it, and stays
  linked after it was removed until the client acknowledges the teleport. `HavePlayers()`
  counts links. `leaving` is the set of players in between.
* `UnloadIfEmpty` removes a save only when it has no holders and its map has no links.
* `ResetInstances` does not free the id; the scheduled event does, later.
* A restart first deletes what expired, registers the ids that remain and schedules their
  resets; groups are bound at once, players when they log in.
* The rows of the database change in the same step as the memory they belong to.

`InstanceIds` keeps the size and the capacity of the `vector<bool>`. A write outside the
size is undefined behaviour; the model takes the outcome in which the bit is not seen.

### Database pool

Callers enqueue, workers execute; `Start`, `ExecuteStatement`, `FailStatement`, `Commit`,
`Rollback` are the statements `ExecuteTransaction` sends, one step each, with MySQL's
answer chosen freely. `LoseConnection` is `_HandleMySQLErrno` for a lost connection: MySQL
may or may not have executed what was sent, and the connection is reopened (with
autocommit) or stays closed for good (`NotConnected`). `Retry` and `GiveUp` are
`TransactionTask::Execute`. `SetToken`, `CancelQueue`, `Join` are the destructor of a
worker, called for one connection after the other. `Refuse` is an error of `START TRANSACTION`,
`COMMIT` or `ROLLBACK`: nobody looks at its result (`MySQLConnection.cpp:345-358`). MySQL is taken
to leave no transaction open then, as InnoDB does; so a refused commit drops a transaction that
counts as executed, and after a refused start the statements are executed without one.

### Sessions

A connection stands for a `WorldSocket` and its `WorldSession`. `socket` is `_closed`
together with "shut", the moment of a network thread between `_closed.exchange(true)` and
`OnClose`; `worldSession` says which sockets still point to their session, and `reading` in which
of them a handler of a packet or a ping (`ReadData`, `ReadDone`) uses the session while it holds
`_worldSessionLock`, which `OnClose` takes too. `NetworkThreads` threads read and close sockets;
a socket is closed by the world thread, or by the thread that reads it, since its handlers are called
one after the other. With I/O completion ports (`Iocp`) the end of a write closes it as well, on
another thread. The world thread
runs `UpdateSessions`: it takes what `addSessQueue` holds (`RefuseSession`, `AddSession_`),
then updates one session after the other in any order (`CloseIdle`, the login of a
character, `KeepSession`, `RemoveSession`). `RemoveQueuedPlayer` is one operator over the
state of the login queue, because the code calls it twice for one departure and the second
call counts differently. `told` is the last position a client was sent. Whether an idle
client, a failed login, a command or a handler closes or kicks is left open: any of them
may happen at any time. `Tolerance` follows `difftime(i->second, time(NULL)) < tolerance`
(`World.cpp:302`): the operands are swapped, the difference is never positive, so an
account that has left once is tolerated for good; such accounts are not "ordinary".
Packets are handled only inside `UpdateSession`, and login packets of queued sessions
are dropped.

### Socket writer

One socket. `sent` is the stream as it was encrypted, byte by byte; `wire` what the kernel
took. `lock` is `_writeLock` together with the place where its holder is, so that
`CloseSocket` and `DelayedCloseSocket`, which do not take it, fall between any two steps of
`WriteHandler` and `HandleQueue`. The kernel takes any number of bytes up to its room. A
message of the queue is what is left of its packet: `FrontSize`. Builds with I/O completion
ports use other code, which is not modelled.

### Trade window

`trade[p]` is the `TradeData` of a player. Each opcode is one action: they are
`PROCESS_THREADUNSAFE`, so handlers do not overlap. `AcceptTrade` goes through the checks of
`HandleAcceptTradeOpcode` in their order; distance and the castability of spells are chosen
freely. `ItemAt` is `GetItem`: an item that has left its owner's bags is silently missing
from the table. `MoveItems` removes all items, then stores slot by slot with the fallback of
`moveItems`. Between the opcodes items are lost, gained and bound, gold is earned and
spent, players log out and in (`Meanwhile`), and the database executes the saves
(`Execute`) in the order they were queued, or drops one after an error or five more deadlocks.
The order is that of the one worker that `CharacterDatabase.WorkerThreads` gives by default
(`worldserver.conf.dist:102-116`). `seen`, `deals` and `dropped` are history variables. An item
is single and needs one place; bank, bags inside bags and stacks are abstracted from, and so is
what the spells that are cast at the exchange (lines 517-521) do to the items.

`StorePair` is one round of `moveItems`. When one of the two items can not be stored, both go
back, and `CanStoreItem` gets the same vector of positions as before: it appends and does not clear.
If a place for the other side's item is in it already, the owner needs one place more, and `StoreItem`
stores his item at both positions, the first time as a copy (`TakenBack`, `Copy`). Neither can
happen while templates are harmless (section 5); it is what loses the item in `trade_limited`.

### Loot rolls

One group. `roll[i]` is the `Roll` of an item in `RollId`, with the votes of all players: a
player who is not in `playerVote` has "not_valid". `item` stands for `is_blocked` and
`is_looted`, `timer` for the corpses whose `m_groupLootTimer` runs. `SendLoot` opens a corpse
for the first time and starts the rolls (`GroupLoot`); `CountRollVote` counts a vote and
decides the roll when the sums say that everybody voted; the code lets a player vote again, or after
he passed automatically, and adds that vote to the sums, so the model does (`repeated` remembers it); `EndRoll` is the branch of
`Creature::Update` for a corpse whose timer is over. The number of a roll is any number, so
any of those who may win does; if votes were changed so that the sums say "need" and nobody's
vote does, `maxguid` stays the first of `playerVote`, which is taken for anybody (`Drawn`). `RemoveMember` takes a leaver out of the sums; the vote it
counts afterwards is nobody's, since it erased the voter first, so only another vote or the
timer ends such a roll. A group that has one member left in the world disbands and forgets
its rolls.

What is left free: who may open and loot the corpse (the model lets any connected player
do it, so the properties do not rest on the permissions), who is near, who passes at once, and
when a creature dies or is despawned. What is restricted: the method of looting does not
change during a roll, items are for one player, gold is left out, and all members near the corpse may
have its items. The rolls of a loot that was cleared stay in `RollId` for good, but nothing finds
them again; the model drops them.

## 3. Runs

| Run | Bounds | Shows |
|---|---|---|
| `map_updater` | 3 base maps (two with instances), 3 instances, 2 workers | the invariants of the update, ticks and shutdown end, implements `WorldTick` |
| `instance_reuse` | 2 dungeons, one id, a solo player and a group of two, 4 units of time | binds and saves, scheduled resets, persistence, separation of parties, ids not handed out twice and lowest first |
| `database_pool` | 2 connections, transactions of 2 statements and of one, 2 retries, one lost connection or refused command | atomicity, order, nothing is forgotten, retries do not block each other, Close returns |
| `login_queue` | 4 connections of 3 accounts (one twice, one privileged), limits 1 and 2, 2 network threads, no IOCP | limit, order and positions of the queue, lists and sockets point to live sessions |
| `sessions_end` | 2 connections of 1 account, limits 0 and 1, tolerance, shutdown, 2 network threads, no IOCP | everybody is logged out, closed sessions end |
| `socket_writer` | packets of 1, 2 and 4 bytes, buffer of 3, kernel with room for 2 | the order of the stream, everything is written |
| `trade_window` | 3 players, 3 items, 2 traded slots, a spell, 1 trade to completion, 2 outside events, saves executed or dropped | pairing, accepts, conservation, saves |
| `loot_rolls` | 3 players (a group of 2 or 3), 2 corpses, 3 items of which 2 are rolled for, 2 changes of the group, of connections or of a vote | items handed out once, rolls held and ended, winners |
| `instance_scheduled_inside`, `instance_id_pool`, `database_saves`, `trade_limited` | as above; `database_saves`: one connection; `trade_limited`: full bags of 3 places, a template of which one may have 2 | the findings of section 6 |

Distinct states: `database_pool` 201 586, `login_queue` 791 849, `sessions_end` 16 812, `trade_window`
411 630, `loot_rolls` 217 354. In `instance_reuse` there is one id, so ids are not freed in any
order and the vector does not grow; for that see `instance_id_pool` and the theorem `RecordedIdsTaken`.

The properties of each run, each stated in a comment above its definition:

* `map_updater` (`MCMapUpdater.cfg`): `TypeOK`, `PendingCountsRequests`, `WorldThreadAlone`, `TickComplete`, `OneRequestPerLiveMap`, `TickEnds`, `ShutdownEnds`, `ImplementsWorldTick`
* `instance_reuse` (`MCInstanceReuse.cfg`): `TypeOK`, `BindsMatchSaves`, `StoredInstancesWillReset`, `BindsArePersistent`, `PartiesDoNotMeet`, `RecordedIdsAreTaken`
* `database_pool` (`MCDatabasePool.cfg`): `TypeOK`, `AllOrNothing`, `OrderKept`, `TasksRun`, `CloseEnds`
* `login_queue` (`MCWorldSessions.cfg`): `TypeOK`, `NoDanglingSession`, `OrdinaryWithinLimit`, `NobodyWaitsBesideFreeSlot`, `PositionsAreTold`, `FirstComeFirstServed`
* `sessions_end` (`MCSessionsEnd.cfg`): `ShutdownLogsOut`, `ClosedSessionsEnd`
* `socket_writer` (`MCSocketWriter.cfg`): `TypeOK`, `StreamInOrder`, `PacketsAreWritten`
* `trade_window` (`MCTradeWindow.cfg`): `TypeOK`, `TradesArePaired`, `AcceptedAsSeen`, `NothingLost`, `SavedTogether`, `ExchangeAsAccepted`
* `loot_rolls` (`MCLootRolls.cfg`): `TypeOK`, `LootAddsUp`, `RollsHoldItems`, `RollsAreFair`
* `instance_scheduled_inside` (`MCInstanceScheduledInside.cfg`, expected to be violated): `ResetOnlyScheduledWhenEmpty`
* `instance_id_pool` (`InstanceIdPool.cfg`, expected to be violated): `NextIsAvailable`
* `database_saves` (`MCDatabaseSaves.cfg`, expected to be violated): `SavesAreExecuted`
* `trade_limited` (`MCTradeLimited.cfg`, expected to be violated): `NothingLost`

Why the bounds are enough. Two workers and two sibling instances are what it takes for a
request to be nested, for siblings to run at once and for a worker to sleep while another
works; a third thread in the same roles adds no new role. The maps of `map_updater` are
created in any order over any number of ticks, so a map is destroyed and created again.
One id shared by two dungeons forces every freed id to be taken by somebody else, which is
where stale references would show. `MaxTime` lets an
instance be created, reset, and its id reused until the second reset is due; `ResetDelay`
is the unit of time. Ids stay far below 32 in the lifecycle runs, so the size of the vector
does not matter there; `InstanceIdPool` shrinks the chunk to 2 and the word to 4 to make it
matter. Two retries stand for five: first, last, and one more would repeat a middle one.
`MaxDrops` 1 lets the loss hit every statement, and a refusal every command. Two transactions on
two connections are what it takes to compete for `_deadlockLock`; a lone statement, which has no retry,
is executed in `database_saves` only, and the theorems of section 5 are about any mixture.
Two connections of one account are what a replacement needs, a third account is one to wait
beside it, a privileged one fills the server above its limit; a connection is used again, so
the number of logins is not bounded. Two network threads (`ThreadPool` of `worldserver.conf.dist`) let
one use a session while the other closes another socket. The packets of `socket_writer` are one that fits, one
that fills the buffer, and one that never fits and is written in three parts. In
`trade_window` one ring each with a limit of one ring, and bags that are full, make every
check of an accept fail or succeed; two outside events can take an item from the table and
bring another one into its place, or log a player out and back in; a third player shows who
can be drawn into a trade. `MaxMoney` 2 puts both players at the limit of `ModifyMoney`.

In `loot_rolls` the two corpses keep the rolls of one from being ended by the timer of the
other, the three items are one that is rolled for beside one that is not, and one alone; two
changes let a member leave and return while a roll goes on, or two members leave, so that the
group disbands, or one vote twice. Corpses come and go any number of times.

Deadlock checking is on wherever the system can not stop; `Stopped` and `Closed` are the
explicit stuttering steps after a completed shutdown. Only `InstanceIdPool` turns it off:
with all ids handed out and bounded, a step may not exist.

## 4. Fairness

`MapUpdater!FairSpec` and `DatabasePool!FairSpec` assume weak fairness of each thread: the
operating system runs every thread that can run. Nothing obliges the world thread to shut
down, a map to be created, a timer to expire, or `Close()` to be called. No fairness is
assumed between the threads that compete for a mutex beyond this: in `Retry` a worker
waits for `_deadlockLock` only while another one executes a bounded number of retries.
The number of lost connections is bounded; without a bound a worker may reconnect for ever.

`WorldSessions!FairSpec`: the world loop goes on, and so do network threads that use a session or are inside
`CloseSocket`. The world thread needs `_worldSessionLock` to close a socket; strong fairness of
`RefuseSession` and `AddSession_` says that it gets the lock between two packets of a client.
Strong fairness of `StartSessions` says that new sessions do not come faster than the world
thread takes them (the loop of `UpdateSessions` has no bound of its own), and of
`RemoveSession` that a session which is found without its socket again and again runs out
of `expireTime`, which every update lowers (`WorldSession.cpp:446`). No client has to do
anything, log in, or be idle.

`SocketWriter!FairSpec`: the network thread updates its sockets, boost completes a write when
the socket is writable, the holder of the lock goes on, and the client reads; of a client that
never reads nothing is claimed.

`LootRolls` states no fairness. That a roll ends is stated as an invariant instead: its corpse
is there, its timer runs, and `EndRoll` is possible at once (`RollsHoldItems`); the corpse is updated
as long as its grid is loaded.

## 5. Proofs

`MapUpdaterProofs` proves, for any finite sets of base maps, instances and worker threads
(`MapsAssumption`, `ActivatedAssumption`):

* `TypeCorrect`: `Spec => []TypeOK`
* `PendingIsExact`: `Spec => []PendingCountsRequests`
* `WorldThreadExclusion`: `Spec => []WorldThreadAlone`
* `NeverCallsNull`: `Spec => []NoNullCall`

The argument. `PendingCountsRequests` relates a number to the length of the queue and the
cardinality of the busy workers, and `WorldThreadAlone` follows from it at the moment
`wait()` sees zero: a queue of length zero and an empty set of busy workers. Neither is
inductive alone. The invariant `IInv` adds that `pending_requests` stays zero while the
world thread is outside scheduling and waiting; that the token is set exactly from the
drain of the shutdown on, and the queue's shutdown flag only after it; that a worker
holds no request while it pops and holds one while it updates; and that a worker which
came back from `WaitAndPop` without a request finds the token set. Lemmas treat
cardinality once: `BusyFinite`, `BusyCount` (a worker that takes or gives back a request
changes the count by one), `NothingPending`, `BusyIsPending`. `TypeStep`, `CountStep` and
`ControlStep` show that each action preserves one part of the invariant.

`MapUpdaterRefinement` proves, from the same assumptions:

* `RequestsAreUnique`: `Spec => []OneRequestPerLiveMap`
* `TicksAreComplete`: `Spec => []TickComplete`
* `UpdateImplementsTick`: `Spec => ImplementsWorldTick` (safety; `WorldTick` has no fairness)

`TickComplete` says nothing of the steps before the tick is complete, so its invariant
follows every map through the tick. `PlaceInv`: a map is in one place, to be scheduled,
queued, held by one worker, or waiting for the worker that walks its `MapInstanced`.
`LiveInv`: the map in that place exists. `OnceInv`: the update counters agree with the
place. `NoneLostInv`: during the tick a map that is neither updated nor kept is in some
place. Together with `IInv` they are inductive (`MapInvariant`). At the end of `wait()`
all places are empty, so all maps are handled, which is also what `EndTick` of
`WorldTick` demands.

`InstanceLifecycleProofs` proves, for any sets of players, groups, dungeons and any number
of ids (`LifecycleAssumption` and `IdsAssumption`, of which the first theorem needs neither):

* `PartiesStayApart`: `Spec => []PartiesDoNotMeet`
* `LifecycleTypeCorrect`: `Spec => []TypeOK`
* `StoredInstancesReset`: `Spec => []StoredInstancesWillReset`
* `BindsMatch`: `Spec /\ []IdsFit => []BindsMatchSaves`
* `BindsPersist`: `Spec /\ []IdsFit => []BindsArePersistent`
* `RecordedIdsTaken`: `Spec /\ []IdsFit => []RecordedIdsAreTaken`
* `IdsAlwaysFit`: if `MaxId < Chunk`, then `Spec => []` of `IdsFit` and of the three properties

Parties: `PartyInv` only adds that the map objects are well formed. Nothing about ids, saves
or binds is assumed: whatever goes wrong there, `CanEnter` keeps strangers apart. `CanEnter`
looks at one player inside; `JoinedParty` shows this is enough because those inside are
one party already. All other steps shrink the maps (`ShrinkingMaps`). The theorem rests
on the model's restriction that nobody changes group.

Binds, saves, rows and ids: none of the three properties is inductive alone. A freed id leads a new
instance to the save of another one unless recorded ids are taken; recorded ids are taken only
while what the database has is what memory will load again. `BindsInv` therefore adds that the
database binds a holder, player or group, to one instance of a map (`OneInstancePerMap`) and an instance
to one holder (`OneHolder`), that a loaded holder has the binds that are stored for it
(`StoredBindsLoaded`) and one that is not loaded has none (`UnloadedHaveNone`), that saves and rows name the
same maps (`SavesMatchRows`) and that all their ids are taken (`RecordsTaken`). `NextIsLowest` follows the allocator:
`FirstFreeFound` shows by well-founded induction that the search of `GenerateInstanceId` finds the
lowest free id within its bound.

`IdsFit` says that no id in use lies beyond the vector of bits. The code does not guarantee it: a
stored id that is a multiple of 32 is lost when the server starts, which the run `instance_id_pool`
of section 3 shows, and id 64 when the vector is full. The hypothesis is on the behaviour, not on a constant, and `IdsAlwaysFit` shows
that it holds of every behaviour with fewer ids than the first chunk, such as those of the run.

`DatabasePoolProofs` proves, from `PoolAssumption` alone, for any number of connections, tasks,
statements and retries:

* `PoolTypeCorrect`: `Spec => []TypeOK`
* `TasksAreAtomic`: `Spec => []AllOrNothing`
* `OrderIsKept`: `Spec => []OrderKept`

Excepted from `AllOrNothing` are the tasks whose connection was lost or whose `START TRANSACTION` was
refused. The argument. A task is in one place, the queue or one worker. What MySQL holds back belongs to
the worker's own open transaction, and unless the task is excepted the length of it is the line
the worker has reached; so a commit appends the whole block, and a rollback leaves nothing of it.
For the order: what a worker has written was sent before what it holds, and that was sent
before what is queued.

`SocketWriterProofs` proves, for any packets, any sizes, any buffer and any room of the kernel:

* `WriterTypeCorrect`: `Spec => []TypeOK`
* `PacketsStayInOrder`: `Spec => []StreamInOrder`
* `CompletionsDoNotOverlap`: `Spec => []OneCompletion`

`WriterInv` adds who may hold the lock: nobody writes while a completion is
outstanding, and `HandleQueue` begins with an empty buffer, so that what it takes from the queue
is next in the stream.

`TradeWindowProofs` proves, for any players, slots and spells and any finite set of items:

* `TypeCorrect`: `Spec => []TypeOK`
* `TradesPaired`: `Spec => []TradesArePaired`
* `AcceptancesUpToDate`: `Spec => []AcceptedAsSeen`
* `TradesSavedTogether`: `Spec => []SavedTogether`
* `NoItemLost`: if `HarmlessLimits`, then `Spec => []NothingLost`
* `ExchangedAsAccepted`: if `HarmlessLimits`, then `Spec => ExchangeAsAccepted`

Assumed are `Absent`, `Sizes`, `Templates`, `Room`, `FiniteItems`, `NoTradeIsNone` and, of the
beginning, that an item is in one player's bags and nobody has more of a template than he may
(`Beginning`).

The sides of a trade: each opcode is followed through the two sides it changes. Whatever changes an
offer takes both accepts back, and whatever ends a trade ends it for both. `Sides` carries along
that an item is in one slot of an offer at most.

The saves: `Pipe` describes the transactions that wait. What one saves of a player lies between
what the database has and what the player has done, is part of every later save of the same player,
and whatever trade it contains has reached the database for both sides by the time it is
executed (`Sent`), or has been dropped (`dropped`, which the property excepts). The exchange appends one
transaction for both players (`SaveStep`); a regular save or a logout in between can only repeat what
was sent; `ExecuteStep` treats the transaction that is executed and the one that is dropped.

The bags: `moveItems` is a loop over the slots, here a recursive function. `StoredExists` proves by
induction on the bound that the function exists, `SlotBySlot` is the induction over the slots that the
rest uses. `RoomForItem` shows that the check of `CanStoreItems` before the exchange is enough for each
single store in the loop: the items received so far and the next one all fit into the room that was
counted, because no item is twice in an offer and the players' bags are disjoint; and no similar
item stands in the way, because nobody has two of an item that he may have once (`OneOfAKind`).
`ExchangedBags` concludes that the bags afterwards are exactly exchanged.

`HarmlessLimits`: a player may have one item of a template, or all there are. The check before the
exchange counts items that are about to leave, the stores count those that came; with a limit
between, one of them may fail and the item is gone: `trade_limited` (finding 4). So the
theorem needs the hypothesis, and the run shows what happens without it.

`WorldSessionsProofs` proves, for any finite set of connections (`ConnectionsFinite`), any accounts,
privileges and limits:

* `TypeCorrect`: `Spec => []TypeOK`
* `NothingDangles`: `Spec => []NoDanglingSession`, whose part about readers is for builds without IOCP
* `LimitHolds`: `Spec => []OrdinaryWithinLimit`
* `NobodyWaitsInVain`: `Spec => []NobodyWaitsBesideFreeSlot`
* `PositionsKnown`: `Spec => []PositionsAreTold`
* `EveryoneLoggedOut`: `Spec => []ShutdownLogsOut`
* `InOrder`: `Spec => FirstComeFirstServed`

The argument. `IInv` has a part for each list the code keeps: `SessionsInv` (a session is in
`m_sessions`, in `addSessQueue` or nowhere), `SocketInv` (a closed socket has let go of its session, and without IOCP nobody reads a socket that a
network thread is closing),
`TodoInv` (what `UpdateSessions` has yet to visit exists), `ShutdownInv` (what `KickAll` found is still to
be reached by the update that is running, or gone) and `QueueInv`. The last one is the hard part:
one step of the world thread makes a departure, an arrival, or several of them one after the other,
since `UpdateSessions` removes a session from the queue twice and an arrival may replace a session. So the
login queue is treated as a value (`LoginQueue`) with the property `Settled`: the limit holds, nobody
waits in vain, all know their positions. Lemmas show what one departure and one arrival make of a
settled queue, also when the queue is not settled in between (a session that left is still
listed), and each action composes them. `FirstComeFirstServed` follows the same composition with the
order of the ones who wait.

`LootRollsProofs` proves, for any corpses, any players and items that can be counted in 8 bits
(`FitsUint8`), and items that lie on a corpse (`ItemsLie`):

* `LootTypeCorrect`: `Spec => []TypeOK`; no subtraction of a `uint8` wraps around
* `EachItemOnce`: `Spec => []LootAddsUp`
* `RollsWillEnd`: `Spec => []RollsHoldItems`
* `LootIsFair`: `Spec => RollsAreFair`

`LootInv` adds what the sums of a roll have to do with its votes (`TalliesMatchVotes`),
that the loot of a corpse nobody opened is untouched, and that a group without members has no rolls.
The sums are related to the votes in two ways. As long as nobody voted twice, each is the number of its
voters (`Tally`). Always, they are at least these numbers, and as a repeated vote is counted under what
it is now and stays counted under what it was, none is ever less than what a leaver takes from it
(`Covers`); that is why no `uint8` wraps around although votes are repeated. `NewRollTally`,
`VotedTally`, `VotedCovers`, `WithoutVoterTally` and `WithoutVoterCovers` show that the three ways
in which a roll changes keep both; `VotesAddUp` that sums which add up to the players leave nobody
undecided; `CountKeeps` that deciding any set of rolls keeps the invariant. From `Covers` follows that a
roll ends with as many votes as it has voters and that one of them wins; from `Tally`, for rolls
without a repeated vote, that nobody is undecided and the winner needed the item, or greeded
while nobody needed it.

Only model-checked: the liveness properties (`TickEnds`, `ShutdownEnds`, `TasksRun`, `CloseEnds`,
`ClosedSessionsEnd`, `PacketsAreWritten`), which are out of the reach of the prover. Every safety and
action property of a passing run is stated by a theorem; three of them for behaviours in which no id
is lost, and two for templates with harmless limits, as said above.

## 6. Findings

Four places where a comment of the code says one thing and the code does another, each with
a run that TLC finds violated (`PROJECT.json`, "findings"):

1. The reset of a new instance is not canceled when its first player enters (`Map.cpp:3017`
   sees the player it is about); it fires with players inside.
2. A stored instance id that is a multiple of 32 may be handed out again
   (`MapManager.cpp:350`). So may one that is handed out when the vector is full (line 390: with 63
   instances in use the next one, 64, is lost), since the size is computed the same way.
3. Saves still queued at shutdown are discarded (`DatabaseWorker.cpp:35`).
4. A trade may lose an item for which its owner is at the limit (`TradeHandler.cpp:187`).

Met while modelling, without a run:

* A connection lost in a transaction is reopened and the rest of the transaction is executed
  outside of any transaction (`MySQLConnection.cpp:169`), although `DatabaseWorkerPool.h:347`
  promises a rollback. A refused `START TRANSACTION` has the same effect (line 347), and after a refused
  `COMMIT` the transaction counts as executed (line 357, 408). `AllOrNothing` excepts the tasks of the first two.
* The comment at `World.cpp:228` says that there is still a race in the `WorldSession*` that sockets use.
  Without I/O completion ports the model does not have it: the thread that closes a socket is the one that
  reads it, or the world thread, and both take the lock (`NoDanglingSession`). With them and at least
  two network threads it is there: the end of a write sets `_closed` (`Socket.h:210-214`), and the world thread,
  which sees the socket closed, deletes the session while a packet is being queued under a lock it does not
  take. `NoDanglingSession` without its condition `~Iocp` fails in `login_queue` with `Iocp = TRUE`, and holds
  again with `NetworkThreads = 1`. A second `CMSG_AUTH_SESSION` on one socket (`WorldSocket.cpp:171-176`) logs
  through `_worldSession` without a check for null; it is not modelled.
* `worldserver.conf.dist:199` says of `PlayerLimit` "Maximum number of players in the world. Excluding Mods,
  GMs and Admins". The code lets them in at any time, but counts their sessions (`World.cpp:259-268`,
  338-366): with a limit of one, a game master in the world keeps an ordinary player in the queue.
  `OrdinaryWithinLimit` agrees with both readings; `NobodyWaitsBesideFreeSlot` is stated as the code counts and
  fails in `login_queue` if privileged sessions are left out of the count.
* Two players that leave an instance at the same time leave a map that never unloads
  (`Map.cpp:3047`). At startup only one instance gets the reset time of its dead creatures
  (`InstanceSaveMgr.cpp:355`).
* `difftime` gets its operands in the wrong order (`World.cpp:302`): the tolerance never ends.
* `Socket.h:147` says that a delayed close waits for the write buffer to become empty; `IsOpen` is
  false from the call on, so the next `Update` returns false and the socket is dropped.
* A refused accept may leave its own side accepted (`TradeHandler.cpp:321-343`), although line 266
  says that the flag is set first so that it can be undone; an item that left the bags is silently missing from the table;
  with a limit of two of one item a trade may be executed in part.
* A transaction that fails with an error, or with deadlocks six times, is dropped (`Transaction.cpp:67-87`)
  and nobody is told. If it was an exchange, memory has the trade and the database does not; the
  next save of one of the two writes his gold, while his items count as saved: half a trade.
  `SavedTogether` excepts exactly the trades whose own transaction was dropped.
* `CountRollVote` and `HandleLootRoll` do not ask whether a player has voted (`Group.cpp:1258-1293`,
  `GroupHandler.cpp:440-453`). A second `CMSG_LOOT_ROLL` is added to the sums: the roll ends before the
  others have voted, the item may go to one who passed in the end, as the first of `playerVote`, or stay blocked
  for good when his vote is no wish. `RollsAreFair` says what holds nevertheless.
* When a winner is offline, or the group disbands during a roll, the item stays blocked for good.
  Whoever leaves never completes a roll (`Group.cpp:565` erases the voter whose vote it then counts).
  Quest items that are rolled for are not protected by `is_blocked` (`Player.cpp:25125`), and
  `HandleLootMasterGiveOpcode` does not look at it if the method changes during a roll. The
  rolls of a group are ended by the threads of the maps its corpses are on (`Creature.cpp:504`),
  without a lock.
* `Player.cpp:21437` cancels a trade on the thread of a map when a script starts a flight.
* `ReturnOrDeleteOldMails` (`ObjectMgr.cpp:5514`) reads rows whose writes may still be queued.

## 7. Not modelled, and the plan

Done: queue, map update with its theorems and refinement, ids, lifecycle, asynchronous database
pool with its theorems, sessions and login queue, socket writer, trade window, loot rolls.

Two subsystems are out of use in this server, so their hazards can not occur: battlegrounds (the
handlers return at once, `BattleGroundHandler.cpp:40`, 69, 77-78) and the dungeon finder (every
answer of `LFGHandler.cpp` returns before it sends, among others lines 316, 354, 399, 412).

What could follow:

1. Auctions and mail: bids, buyout, expiry and mails; conservation of items and money, with
   the writes as transactions of `DatabasePool` and a restart in between.
2. Raid resets and permanent binds in `InstanceLifecycle`; rows written one by one.
3. Synchronous database connections, maps created from worker threads, packets before
   authentication, the account's online flag.
4. Master loot and round robin, quest items, invitations and leadership of groups.
5. `MotionMaster` and the state of grids.

Theorems that could follow: that the only ids the allocator loses are multiples of 32, for
any number of ids (`Word` being one too); how much of a trade is executed when a template's limit lies between one and
all of its items.

Left out for good: geometry, spells, AI and content scripts (sequential and data driven),
the arithmetic of SRP6, sockets and file formats, the console and remote access, tools and
vendored libraries. `PROJECT.json` lists each component with the reason.
