---------------------------- MODULE InstanceLifecycle ----------------------------
(***************************************************************************)
(* The life of normal dungeon instances: the id (MapManager), the save     *)
(* (InstanceSaveManager), the binds of players and groups, the map object  *)
(* (MapInstanced, InstanceMap), the rows in the character database and the *)
(* scheduled resets.  Everything here runs on the world thread; what makes *)
(* it hard is that six structures refer to one instance by its number and  *)
(* live and die at different moments.                                      *)
(*                                                                         *)
(* A player belongs to no group or to one group for good; raid and heroic  *)
(* instances (permanent binds, global resets) are not modelled.  The clock *)
(* counts in units of the reset delay's granularity.                       *)
(***************************************************************************)
EXTENDS InstanceIds, Functions

CONSTANTS
    Dungeons,   \* map ids of normal dungeons
    Players,
    Groups,
    GroupOf,    \* the group of each player, or NoGroup
    NoGroup,
    ResetDelay, \* 2 hours: from the creation of an instance, or a respawn, to the reset
    RespawnDelay,   \* the respawn time of creatures
    MaxTime     \* bound on the clock

ASSUME LifecycleAssumption ==
    /\ GroupOf \in [Players -> Groups \cup {NoGroup}]
    /\ NoGroup \notin Groups
    /\ Players \cap Groups = {}
    /\ ResetDelay \in Nat \ {0} /\ RespawnDelay \in Nat /\ MaxTime \in Nat

VARIABLES
    now,        \* time(NULL)
    saves,      \* m_instanceSaveById: id -> map, reset time and the bound holders
    binds,      \* m_boundInstances of each online player and each group; 0 is none
    instances,  \* m_InstancedMaps: <<map, id>> -> linked players, whether the unload
                \* timer runs, and m_resetAfterUnload
    loc,        \* Offline, Outside, or the <<map, id>> a player is linked to
    leaving,    \* players teleporting out: removed from the map, still linked to it
    events,     \* m_resetTimeQueue; equal events count once, firing twice changes nothing
    rows,       \* DB table `instance`: id -> map and resettime
    respawns,   \* DB table `creature_respawn`: <<map, id>> -> its last respawn + ResetDelay
    dbBinds,    \* DB tables `character_instance` and `group_instance`
    missed      \* history: the instances the last startup kept but did not schedule

vars == <<idVars, now, saves, binds, instances, loc, leaving, events, rows,
          respawns, dbBinds, missed>>

Holders == {p \in Players : GroupOf[p] = NoGroup} \cup Groups

\* Whose bind decides which instance a player enters.
HolderOf(p) == IF GroupOf[p] = NoGroup THEN p ELSE GroupOf[p]

Offline == <<"offline">>
Outside == <<"outside">>

NoBinds == [d \in Dungeons |-> 0]
Keys == Dungeons \X Ids

Put(f, k, v) == [x \in DOMAIN f \cup {k} |-> IF x = k THEN v ELSE f[x]]
Drop(f, S) == [x \in DOMAIN f \ S |-> f[x]]

\* The players linked to the map of a key, as HavePlayers counts them.
LinkedIn(M, key) == IF key \in DOMAIN M THEN M[key].players ELSE {}

\* Mutant of Unloadable: the holders are not looked at.
UnloadableWhileBound(S, M, ids) ==
    {id \in ids \cap DOMAIN S : LinkedIn(M, <<S[id].map, id>>) = {}}

\* UnloadIfEmpty of the saves of a set: those without holders whose map is
\* empty leave m_instanceSaveById and are deleted.
Unloadable(S, M, ids) ==
    {id \in ids \cap DOMAIN S : S[id].holders = {} /\ LinkedIn(M, <<S[id].map, id>>) = {}}

\* RemoveInstanceSave writes the reset time of the saves it unloads.
WriteResetTimes(R, S, ids) ==
    [id \in DOMAIN R |-> IF id \in ids THEN [R[id] EXCEPT !.reset = S[id].reset] ELSE R[id]]

Release(S, h, ids) ==
    [id \in DOMAIN S |-> IF id \in ids THEN [S[id] EXCEPT !.holders = @ \ {h}] ELSE S[id]]

\* Mutant of SetResetSchedule: players inside do not keep it from canceling.
CancelOnEntry(on, key, P, S, E) ==
    LET id == key[2]
    IN  IF id \notin DOMAIN S \/ (on /\ P # {}) THEN E
        ELSE IF on THEN E \cup {[at |-> S[id].reset, map |-> key[1], id |-> id]}
        ELSE {e \in E : e.id # id}

\* InstanceMap::SetResetSchedule on a map with players P still linked.
SetResetSchedule(on, key, P, S, E) ==
    LET id == key[2]
    IN  IF P # {} \/ id \notin DOMAIN S THEN E
        ELSE IF on THEN E \cup {[at |-> S[id].reset, map |-> key[1], id |-> id]}
        ELSE {e \in E : e.id # id}

\* MAX(respawnTime) of the creatures of an instance, whatever its map.
RespawnOf(id, C) == Largest({C[k] : k \in {l \in DOMAIN C : l[2] = id}})

\* LoadResetTimes moves the reset time of the instances with dead creatures,
\* but loops on the wrong result set: it does so for the first of them only.
WithRespawnTimes(R, C) ==
    LET dead == {k[2] : k \in DOMAIN C}
    IN  IF dead = {} THEN {R} ELSE {[R EXCEPT ![id].reset = RespawnOf(id, C)] : id \in dead}

\* Startup on the database contents (LoadInstances, GroupMgr::LoadGroups):
\* expired rows, rows nobody is bound to and dangling binds are deleted, the
\* remaining ids are registered, resets are scheduled, groups are bound.
Startup(R, B, C) ==
    LET bound == {b \in B : b[2] \in DOMAIN R /\ R[b[2]].reset >= now}
        kept == {id \in DOMAIN R : \E b \in bound : b[2] = id}
        ofGroup == {b \in bound : b[1] \in Groups}
    IN  /\ respawns' = Restrict(C, {k \in DOMAIN C : k[2] \in kept})
        /\ rows' \in WithRespawnTimes(Restrict(R, kept), respawns')
        /\ dbBinds' = bound
        /\ LoadInstanceIds(kept)
        /\ missed' = {id \in kept : rows'[id].reset <= now}
        /\ events' = {[at |-> rows'[id].reset, map |-> R[id].map, id |-> id] :
                        id \in kept \ missed'}
        /\ saves' = [id \in {b[2] : b \in ofGroup} |->
                        [map |-> R[id].map, reset |-> rows'[id].reset,
                         holders |-> {b[1] : b \in {c \in ofGroup : c[2] = id}}]]
        /\ binds' = [h \in Holders |-> [d \in Dungeons |->
                        Largest({id \in kept : R[id].map = d /\ <<h, id>> \in ofGroup})]]
        /\ instances' = <<>>
        /\ loc' = [p \in Players |-> Offline]
        /\ leaving' = {}

Init ==
    /\ now = 0
    /\ bits = {} /\ size = 0 /\ capacity = 0 /\ next = 1
    /\ saves = <<>> /\ instances = <<>> /\ rows = <<>> /\ respawns = <<>>
    /\ binds = [h \in Holders |-> NoBinds]
    /\ loc = [p \in Players |-> Offline]
    /\ leaving = {} /\ events = {} /\ dbBinds = {} /\ missed = {}

-----------------------------------------------------------------------------
(* Players. *)

\* _LoadBoundInstances: a player without a group loads the saves it is bound
\* to; a bind whose instance row is gone is deleted.  A player that logged
\* out inside an instance is taken to log in outside it and to enter again.
Login(p) ==
    LET mine == {b \in dbBinds : b[1] = p}
        live == {b[2] : b \in {c \in mine : c[2] \in DOMAIN rows}}
        loaded == [id \in DOMAIN saves \cup live |->
                    IF id \in DOMAIN saves THEN saves[id]
                    ELSE [map |-> rows[id].map, reset |-> rows[id].reset, holders |-> {}]]
    IN  /\ loc[p] = Offline
        /\ loc' = [loc EXCEPT ![p] = Outside]
        /\ saves' = [id \in DOMAIN loaded |-> IF id \in live
                        THEN [loaded[id] EXCEPT !.holders = @ \cup {p}] ELSE loaded[id]]
        /\ binds' = IF p \in Holders
                    THEN [binds EXCEPT ![p] = [d \in Dungeons |->
                            Largest({id \in live : loaded[id].map = d})]]
                    ELSE binds
        /\ dbBinds' = {b \in dbBinds : b \in mine => b[2] \in live}
        /\ UNCHANGED <<idVars, now, instances, leaving, events, rows, respawns, missed>>

\* Mutant of MayEnter: any group may join those inside.
MayEnterInGroup(p, inside) == inside = {} \/ GroupOf[p] # NoGroup

\* InstanceMap::CanEnter: the first player found inside must share the group.
MayEnter(p, inside) ==
    inside = {} \/ \E q \in inside : GroupOf[p] # NoGroup /\ GroupOf[q] = GroupOf[p]
MayNotEnter(p, inside) ==
    \E q \in inside : GroupOf[p] = NoGroup \/ GroupOf[q] # GroupOf[p]

CanArrive(p, d) == loc[p] = Outside \/ (p \in leaving /\ loc[p][1] # d)

\* ResetMap and SetMap: the player is unlinked from the old map, if any, and
\* linked to the new one, whose unload timer stops.
Relink(p, key, M) ==
    LET left == [k \in DOMAIN M |-> [M[k] EXCEPT !.players = @ \ {p}]]
    IN  Put(left, key, [players |-> LinkedIn(left, key) \cup {p},
                        unloading |-> FALSE, resetting |-> FALSE])

\* Mutant of BindToInstance: the bind is kept in memory only.
BindInMemory(h, d, id) == binds' = [binds EXCEPT ![h][d] = id] /\ UNCHANGED dbBinds

\* BindToInstance of a player or a group.
BindToInstance(h, d, id) ==
    /\ binds' = [binds EXCEPT ![h][d] = id]
    /\ dbBinds' = dbBinds \cup {<<h, id>>}

\* The worldport ack of a teleport into a dungeon: CreateInstanceForPlayer
\* finds the bound instance or generates an id, and AddPlayerToMap finds or
\* creates the save, binds the holder to it and updates the reset schedule.
Arrive(p, d) ==
    LET h == HolderOf(p)
        id == IF binds[h][d] # 0 THEN binds[h][d] ELSE next
        key == <<d, id>>
        save == IF id \in DOMAIN saves THEN saves[id]
                ELSE [map |-> d, reset |-> now + ResetDelay, holders |-> {}]
        created == IF id \in DOMAIN saves THEN {}
                   ELSE {[at |-> save.reset, map |-> d, id |-> id]}
    IN  /\ CanArrive(p, d)
        /\ id <= MaxId
        /\ MayEnter(p, LinkedIn(instances, key))
        /\ IF binds[h][d] # 0 THEN UNCHANGED idVars ELSE GenerateInstanceId
        /\ saves' = Put(saves, id, [save EXCEPT !.holders = @ \cup {h}])
        /\ BindToInstance(h, save.map, id)
        /\ rows' = IF created = {} THEN rows
                   ELSE Put(rows, id, [map |-> d, reset |-> save.reset])
        /\ instances' = Relink(p, key, instances)
        /\ events' = SetResetSchedule(FALSE, key, instances'[key].players, saves',
                                      events \cup created)
        /\ loc' = [loc EXCEPT ![p] = key]
        /\ leaving' = leaving \ {p}
        /\ UNCHANGED <<now, respawns, missed>>

\* The same, refused at the door: the id and the map stay, the player is sent home.
ArriveRefused(p, d) ==
    LET h == HolderOf(p)
        id == IF binds[h][d] # 0 THEN binds[h][d] ELSE next
    IN  /\ CanArrive(p, d)
        /\ id <= MaxId
        /\ MayNotEnter(p, LinkedIn(instances, <<d, id>>))
        /\ IF binds[h][d] # 0 THEN UNCHANGED idVars ELSE GenerateInstanceId
        /\ UNCHANGED <<now, saves, binds, instances, loc, leaving, events, rows,
                       respawns, dbBinds, missed>>

\* TeleportTo out of an instance: RemovePlayerFromMap runs while the player
\* is still linked, so neither a reset is scheduled nor the save unloaded.
Leave(p) ==
    LET key == loc[p]
        inside == LinkedIn(instances, key)
    IN  /\ key \in DOMAIN instances
        /\ p \notin leaving
        /\ leaving' = leaving \cup {p}
        /\ instances' = [instances EXCEPT ![key].unloading = @ \/ inside = {p}]
        /\ events' = SetResetSchedule(TRUE, key, inside, saves, events)
        /\ UNCHANGED <<idVars, now, saves, binds, loc, rows, respawns, dbBinds, missed>>

\* Mutant of ArriveOutside: the teleport stays pending.
ArriveStillLeaving(p) ==
    /\ p \in leaving
    /\ instances' = [instances EXCEPT ![loc[p]].players = @ \ {p}]
    /\ loc' = [loc EXCEPT ![p] = Outside]
    /\ UNCHANGED <<idVars, now, saves, binds, leaving, events, rows, respawns, dbBinds, missed>>

\* The worldport ack of a teleport to a continent.
ArriveOutside(p) ==
    /\ p \in leaving
    /\ leaving' = leaving \ {p}
    /\ instances' = [instances EXCEPT ![loc[p]].players = @ \ {p}]
    /\ loc' = [loc EXCEPT ![p] = Outside]
    /\ UNCHANGED <<idVars, now, saves, binds, events, rows,
                       respawns, dbBinds, missed>>

\* LogoutPlayer, after the pending teleport was finished: CleanupsBeforeDelete
\* takes the player off its saves while it is still linked to the map;
\* RemovePlayerFromMap then deletes the player, schedules the reset if nobody
\* is left, and unloads the save if nobody is bound to it either.
Logout(p) ==
    LET key == loc[p]
        mine == IF p \in Holders THEN {binds[p][d] : d \in Dungeons} ELSE {}
        S1 == Release(saves, p, mine)
        gone1 == Unloadable(S1, instances, mine)
        S2 == Drop(S1, gone1)
        inside == LinkedIn(instances, key) \ {p}
        M2 == IF key \in DOMAIN instances
              THEN [instances EXCEPT ![key] =
                      [@ EXCEPT !.players = inside, !.unloading = @ \/ inside = {}]]
              ELSE instances
        gone2 == IF key \in DOMAIN instances THEN Unloadable(S2, M2, {key[2]}) ELSE {}
    IN  /\ loc[p] # Offline
        /\ p \notin leaving
        /\ loc' = [loc EXCEPT ![p] = Offline]
        /\ binds' = IF p \in Holders THEN [binds EXCEPT ![p] = NoBinds] ELSE binds
        /\ instances' = M2
        /\ events' = IF key \in DOMAIN instances
                     THEN SetResetSchedule(TRUE, key, inside, S2, events) ELSE events
        /\ saves' = Drop(S2, gone2)
        /\ rows' = WriteResetTimes(rows, S1, gone1 \cup gone2)
        /\ UNCHANGED <<idVars, now, leaving, respawns, dbBinds, missed>>

\* ResetInstances(INSTANCE_RESET_ALL) by a player or a group leader: bound
\* instances without players inside are deleted with their binds and saves;
\* a loaded map will unload, the id stays taken until its reset event fires.
ResetInstances(h) ==
    LET reset == {d \in Dungeons : binds[h][d] # 0 /\ LinkedIn(instances, <<d, binds[h][d]>>) = {}}
        ids == {binds[h][d] : d \in reset}
        S1 == Release(saves, h, ids)
    IN  /\ \E p \in Players : HolderOf(p) = h /\ loc[p] # Offline
        /\ reset # {}
        /\ instances' = [key \in DOMAIN instances |->
                            IF key[1] \in reset /\ key[2] = binds[h][key[1]]
                            THEN [instances[key] EXCEPT !.unloading = TRUE, !.resetting = TRUE]
                            ELSE instances[key]]
        /\ rows' = Drop(rows, ids)
        /\ dbBinds' = {b \in dbBinds : b[2] \notin ids}
        /\ binds' = [binds EXCEPT ![h] = [d \in Dungeons |-> IF d \in reset THEN 0 ELSE @[d]]]
        /\ saves' = Drop(S1, Unloadable(S1, instances, ids))
        /\ UNCHANGED <<idVars, now, loc, leaving, events, respawns, missed>>

\* A creature with a respawn timer dies in an instance: the respawn time is
\* stored and the reset time of the save with the instance's number moves out.
KillCreature(p) ==
    LET id == loc[p][2]
        reset == now + RespawnDelay + ResetDelay
    IN  /\ loc[p] \in DOMAIN instances
        /\ p \notin leaving
        /\ respawns' = Put(respawns, loc[p], reset)
        /\ saves' = IF id \in DOMAIN saves /\ saves[id].reset < reset
                    THEN [saves EXCEPT ![id].reset = reset] ELSE saves
        /\ UNCHANGED <<idVars, now, binds, instances, loc, leaving, events, rows, dbBinds, missed>>

-----------------------------------------------------------------------------
(* The world. *)

\* MapInstanced::Update finds the unload timer expired: DestroyInstance.
UnloadMap(key) ==
    /\ key \in DOMAIN instances
    /\ instances[key].unloading /\ instances[key].players = {}
    /\ instances' = Drop(instances, {key})
    /\ respawns' = IF instances[key].resetting THEN Drop(respawns, {key}) ELSE respawns
    /\ UNCHANGED <<idVars, now, saves, binds, loc, leaving, events, rows, dbBinds, missed>>

\* InstanceSaveManager::Update runs _ResetInstance for every event that is
\* due: all holders are unbound, save and rows deleted, the map told to
\* unload once it is empty, and the id freed.
FireResets ==
    LET due == {e \in events : e.at < now}
        ids == {e.id : e \in due}
        keys == {<<e.map, e.id>> : e \in due}
    IN  /\ due # {}
        /\ events' = events \ due
        /\ saves' = Drop(saves, ids)
        /\ binds' = [h \in Holders |-> [d \in Dungeons |->
                        IF binds[h][d] \in ids THEN 0 ELSE binds[h][d]]]
        /\ rows' = Drop(rows, ids)
        /\ dbBinds' = {b \in dbBinds : b[2] \notin ids}
        /\ instances' = [key \in DOMAIN instances |->
                            IF key \in keys
                            THEN [instances[key] EXCEPT !.resetting = TRUE,
                                     !.unloading = @ \/ instances[key].players = {}]
                            ELSE instances[key]]
        /\ respawns' = Drop(respawns, keys)
        /\ missed' = missed \ ids
        /\ FreeInstanceIds(ids)
        /\ UNCHANGED <<now, loc, leaving>>

\* Time passes; the world updates often enough that no reset is left overdue.
Tick ==
    /\ now < MaxTime
    /\ \A e \in events : e.at >= now
    /\ now' = now + 1
    /\ UNCHANGED <<idVars, saves, binds, instances, loc, leaving, events, rows,
                       respawns, dbBinds, missed>>

\* The server stops in any state and starts again on the same database.
Restart ==
    /\ Startup(rows, dbBinds, respawns)
    /\ UNCHANGED now

Next ==
    \/ \E p \in Players : Login(p) \/ Leave(p) \/ ArriveOutside(p) \/ Logout(p) \/ KillCreature(p)
    \/ \E p \in Players, d \in Dungeons : Arrive(p, d) \/ ArriveRefused(p, d)
    \/ \E h \in Holders : ResetInstances(h)
    \/ \E key \in DOMAIN instances : UnloadMap(key)
    \/ FireResets \/ Tick \/ Restart

Spec == Init /\ [][Next]_vars

-----------------------------------------------------------------------------
(* Properties. *)

Save == [map : Dungeons, reset : Nat, holders : SUBSET Holders]

TypeOK ==
    /\ now \in 0..MaxTime
    /\ bits \subseteq Ids /\ next \in 1..(MaxId + 1)
    /\ DOMAIN saves \subseteq Ids /\ \A id \in DOMAIN saves : saves[id] \in Save
    /\ binds \in [Holders -> [Dungeons -> Ids \cup {0}]]
    /\ DOMAIN instances \subseteq Keys
    /\ \A key \in DOMAIN instances :
          instances[key] \in [players : SUBSET Players, unloading : BOOLEAN, resetting : BOOLEAN]
    /\ loc \in [Players -> {Offline, Outside} \cup Keys]
    /\ leaving \subseteq {p \in Players : loc[p] \in Keys}
    /\ events \subseteq [at : Nat, map : Dungeons, id : Ids]
    /\ DOMAIN rows \subseteq Ids
    /\ \A id \in DOMAIN rows : rows[id] \in [map : Dungeons, reset : Nat]
    /\ DOMAIN respawns \subseteq Keys /\ \A key \in DOMAIN respawns : respawns[key] \in Nat
    /\ dbBinds \subseteq Holders \X Ids
    /\ missed \subseteq Ids

\* A bind is a pointer to a save and the save lists the binds that point to
\* it: no bind outlives its save, whichever of logout, reset by the owner,
\* scheduled reset or unloading of the map deletes the save first.
BindsMatchSaves ==
    /\ \A h \in Holders, d \in Dungeons : binds[h][d] # 0 =>
          /\ binds[h][d] \in DOMAIN saves
          /\ saves[binds[h][d]].map = d
          /\ h \in saves[binds[h][d]].holders
    /\ \A id \in DOMAIN saves : \A h \in saves[id].holders : binds[h][saves[id].map] = id

\* The id of a save in memory or of a stored instance is taken, so it is never
\* handed out to a new instance, across logouts, resets and restarts.  The next
\* one handed out is the lowest free id, as GenerateInstanceId relies on.
RecordedIdsAreTaken ==
    /\ DOMAIN saves \cup DOMAIN rows \subseteq bits
    /\ next \notin bits /\ 1..(next - 1) \subseteq bits

\* A stored instance has a reset scheduled, whatever holder or map of it comes
\* and goes: otherwise neither its row nor its id comes back before a restart.
\* It rests on AddPlayerToMap never canceling the reset of the creation: the
\* teleport out of the last player would not schedule another one.
StoredInstancesWillReset ==
    \A id \in DOMAIN rows \ missed : \E e \in events : e.id = id

\* A bound save stays known to the database: an online holder never keeps a
\* bind that a restart would silently lose.
BindsArePersistent ==
    \A h \in Holders, d \in Dungeons : binds[h][d] # 0 =>
        <<h, binds[h][d]>> \in dbBinds /\ binds[h][d] \in DOMAIN rows

\* Players of different parties are never in one instance at the same time,
\* not even when a freed id leads a stranger to an instance still in use.
PartiesDoNotMeet ==
    \A key \in DOMAIN instances : \A p, q \in instances[key].players :
        p # q => GroupOf[p] # NoGroup /\ GroupOf[p] = GroupOf[q]

\* Map.cpp:3187-3188 "only for normal instances / the reset time is only
\* scheduled when there are no payers inside".
ResetOnlyScheduledWhenEmpty ==
    \A e \in events : LinkedIn(instances, <<e.map, e.id>>) = {}
=============================================================================
