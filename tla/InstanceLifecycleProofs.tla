------------------------ MODULE InstanceLifecycleProofs ------------------------
(***************************************************************************)
(* For every number of dungeons, players, groups and ids.  First: the      *)
(* players linked to a map belong to one party.  The argument needs only   *)
(* who is linked to which map, so it holds whatever ids, saves and binds   *)
(* say: CanEnter is the last line of defence when they go wrong.           *)
(* Then the types, the scheduled resets, and the agreement of binds,       *)
(* saves, rows and ids, which needs that the allocator loses no id.        *)
(***************************************************************************)
EXTENDS InstanceLifecycle, FiniteSetTheorems, WellFoundedInduction, TLAPS

MapType == [players : SUBSET Players, unloading : BOOLEAN, resetting : BOOLEAN]

\* The map objects are well formed and each holds one party.
PartyInv ==
    /\ instances = [key \in DOMAIN instances |-> instances[key]]
    /\ \A key \in DOMAIN instances : instances[key] \in MapType
    /\ PartiesDoNotMeet

\* Those of one party, as PartiesDoNotMeet has it.
Party(S) == \A p, q \in S : p # q => GroupOf[p] # NoGroup /\ GroupOf[p] = GroupOf[q]

\* A party that loses members is a party.
LEMMA SmallerParty == ASSUME NEW S, NEW T, T \subseteq S, Party(S) PROVE Party(T)
  BY DEF Party

\* CanEnter lets a player join their own party only.
LEMMA JoinedParty ==
  ASSUME NEW S, NEW T, NEW p, T \subseteq S, Party(S), MayEnter(p, S)
  PROVE  Party(T \cup {p})
  BY DEF Party, MayEnter

LEMMA PartyMeaning ==
  PartiesDoNotMeet <=> \A key \in DOMAIN instances : Party(instances[key].players)
  BY DEF PartiesDoNotMeet, Party

\* Maps may disappear, lose players and change flags.
LEMMA ShrinkingMaps ==
  ASSUME PartyInv,
         instances' = [key \in DOMAIN instances' |-> instances'[key]],
         DOMAIN instances' \subseteq DOMAIN instances,
         \A key \in DOMAIN instances' :
            instances'[key] \in MapType /\ instances'[key].players \subseteq instances[key].players
  PROVE  PartyInv'
  <1>1. \A key \in DOMAIN instances : Party(instances[key].players)
    BY PartyMeaning DEF PartyInv
  <1>2. \A key \in DOMAIN instances' : Party(instances'[key].players)
    BY <1>1, SmallerParty
  <1>3. PartiesDoNotMeet'
    BY <1>2 DEF PartiesDoNotMeet, Party
  <1> QED
    BY <1>3 DEF PartyInv

LEMMA ArriveStep ==
  ASSUME PartyInv, NEW p \in Players, NEW d \in Dungeons, Arrive(p, d)
  PROVE  PartyInv'
  <1> DEFINE left == [k \in DOMAIN instances |-> [instances[k] EXCEPT !.players = @ \ {p}]]
  <1>1. PICK key : /\ MayEnter(p, LinkedIn(instances, key))
                   /\ instances' = Relink(p, key, instances)
    <2> DEFINE id == IF binds[HolderOf(p)][d] # 0 THEN binds[HolderOf(p)][d] ELSE next
    <2>1. /\ MayEnter(p, LinkedIn(instances, <<d, id>>))
          /\ instances' = Relink(p, <<d, id>>, instances)
      BY Zenon DEF Arrive
    <2> QED
      BY <2>1, Zenon
  <1>2. /\ DOMAIN left = DOMAIN instances
        /\ \A k \in DOMAIN instances :
              left[k] \in MapType /\ left[k].players = instances[k].players \ {p}
    BY DEF PartyInv, MapType
  <1>3. LinkedIn(left, key) \subseteq LinkedIn(instances, key) /\ LinkedIn(left, key) \subseteq Players
    BY <1>2 DEF LinkedIn, MapType
  <1>4. instances' = Put(left, key, [players |-> LinkedIn(left, key) \cup {p},
                                     unloading |-> FALSE, resetting |-> FALSE])
    BY <1>1 DEF Relink
  <1> HIDE DEF left
  <1>5. /\ DOMAIN instances' = DOMAIN instances \cup {key}
        /\ instances' = [k \in DOMAIN instances' |-> instances'[k]]
        /\ instances'[key] = [players |-> LinkedIn(left, key) \cup {p},
                              unloading |-> FALSE, resetting |-> FALSE]
        /\ \A k \in DOMAIN instances \ {key} : instances'[k] = left[k]
    BY <1>2, <1>4 DEF Put
  <1>6. \A k \in DOMAIN instances' : instances'[k] \in MapType
    <2>1. LinkedIn(left, key) \cup {p} \in SUBSET Players
      BY <1>3
    <2>2. instances'[key] \in MapType
      BY <1>5, <2>1 DEF MapType
    <2>3. \A k \in DOMAIN instances \ {key} : instances'[k] \in MapType
      BY <1>2, <1>5
    <2> QED
      BY <1>5, <2>2, <2>3
  <1>7. \A k \in DOMAIN instances : Party(instances[k].players)
    BY PartyMeaning DEF PartyInv
  <1>8. Party(LinkedIn(instances, key))
    BY <1>7 DEF LinkedIn, Party
  <1>9. Party(instances'[key].players)
    BY <1>1, <1>3, <1>5, <1>8, JoinedParty
  <1>10. \A k \in DOMAIN instances \ {key} : Party(instances'[k].players)
    BY <1>2, <1>5, <1>7, SmallerParty
  <1>11. \A k \in DOMAIN instances' : Party(instances'[k].players)
    BY <1>5, <1>9, <1>10
  <1>12. PartiesDoNotMeet'
    BY <1>11 DEF PartiesDoNotMeet, Party
  <1> QED
    BY <1>5, <1>6, <1>12 DEF PartyInv

LEMMA PartyStep ==
  ASSUME PartyInv, [Next]_vars
  PROVE  PartyInv'
  <1>1. ASSUME UNCHANGED instances
        PROVE  PartyInv'
    BY <1>1 DEF PartyInv, PartiesDoNotMeet
  <1>2. ASSUME NEW p \in Players,
               Login(p) \/ Leave(p) \/ ArriveOutside(p) \/ Logout(p) \/ KillCreature(p)
        PROVE  PartyInv'
    <2>1. CASE Login(p) \/ KillCreature(p)
      BY <2>1, <1>1 DEF Login, KillCreature
    <2>2. CASE Leave(p)
      BY <2>2, ShrinkingMaps DEF Leave, PartyInv, MapType
    <2>3. CASE ArriveOutside(p)
      BY <2>3, ShrinkingMaps DEF ArriveOutside, PartyInv, MapType
    <2>4. CASE Logout(p)
      <3>1. CASE loc[p] \in DOMAIN instances
        <4>1. instances' = [instances EXCEPT ![loc[p]] =
                 [@ EXCEPT !.players = LinkedIn(instances, loc[p]) \ {p},
                           !.unloading = @ \/ (LinkedIn(instances, loc[p]) \ {p}) = {}]]
          BY <2>4, <3>1 DEF Logout
        <4> QED
          BY ZenonT(30), <3>1, <4>1, ShrinkingMaps DEF LinkedIn, PartyInv, MapType
      <3>2. CASE loc[p] \notin DOMAIN instances
        BY <2>4, <3>2, <1>1 DEF Logout
      <3> QED
        BY <3>1, <3>2
    <2> QED
      BY <1>2, <2>1, <2>2, <2>3, <2>4
  <1>3. ASSUME NEW p \in Players, NEW d \in Dungeons, Arrive(p, d) \/ ArriveRefused(p, d)
        PROVE  PartyInv'
    BY <1>3, <1>1, ArriveStep DEF ArriveRefused
  <1>4. ASSUME NEW h \in Holders, ResetInstances(h)
        PROVE  PartyInv'
    <2> DEFINE Hit(key) == /\ key[1] \in Dungeons /\ binds[h][key[1]] # 0
                           /\ LinkedIn(instances, <<key[1], binds[h][key[1]]>>) = {}
                           /\ key[2] = binds[h][key[1]]
    <2>1. instances' = [key \in DOMAIN instances |->
             IF Hit(key) THEN [instances[key] EXCEPT !.unloading = TRUE, !.resetting = TRUE]
             ELSE instances[key]]
      BY <1>4 DEF ResetInstances
    <2> HIDE DEF Hit
    <2> QED
      BY <2>1, ShrinkingMaps DEF PartyInv, MapType
  <1>5. ASSUME NEW key \in DOMAIN instances, UnloadMap(key)
        PROVE  PartyInv'
    BY <1>5, ShrinkingMaps DEF UnloadMap, Drop, PartyInv
  <1>6. CASE FireResets
    BY ZenonT(30), <1>6, ShrinkingMaps DEF FireResets, PartyInv, MapType
  <1>7. CASE Tick
    BY <1>7, <1>1 DEF Tick
  <1>8. CASE Restart
    <2>1. instances' = <<>>
      BY <1>8 DEF Restart, Startup
    <2> QED
      BY <2>1 DEF PartyInv, PartiesDoNotMeet
  <1>9. CASE UNCHANGED vars
    BY <1>9, <1>1 DEF vars
  <1> QED
    BY <1>2, <1>3, <1>4, <1>5, <1>6, <1>7, <1>8, <1>9 DEF Next

\* Players of different parties are never in one instance at the same time,
\* for every number of players, groups, dungeons and ids, through resets,
\* reuse of ids and restarts.
THEOREM PartiesStayApart == Spec => []PartiesDoNotMeet
  <1>1. Init => PartyInv
    BY DEF Init, PartyInv, PartiesDoNotMeet
  <1>2. PartyInv /\ [Next]_vars => PartyInv'
    BY PartyStep
  <1>3. PartyInv => PartiesDoNotMeet
    BY DEF PartyInv
  <1> QED
    BY <1>1, <1>2, <1>3, PTL DEF Spec

-----------------------------------------------------------------------------
(* What the operators of the allocator choose.                             *)

LEMMA LeastElement ==
  ASSUME NEW S \in SUBSET Nat, S # {}
  PROVE  \E m \in S : \A k \in S : m <= k
  <1>1. PICK m \in S : \A k \in S : ~(<<k, m>> \in OpToRel(<, Nat))
    BY NatLessThanWellFounded, WFMin
  <1>2. ASSUME NEW k \in S, k < m
        PROVE  FALSE
    <2>1. <<k, m>> \in OpToRel(<, Nat)
      BY <1>2 DEF OpToRel
    <2> QED BY <1>1, <2>1
  <1> QED BY <1>2

LEMMA LargestOf ==
  ASSUME NEW S \in SUBSET Nat, NEW bound \in Nat, \A n \in S : n <= bound
  PROVE  /\ S = {} => Largest(S) = 0
         /\ S # {} => Largest(S) \in S /\ \A n \in S : n <= Largest(S)
  <1>1. ASSUME S # {}
        PROVE  \E n \in S : \A k \in S : k <= n
    <2> DEFINE Above == {n \in Nat : \A k \in S : k <= n}
    <2>1. bound \in Above
      OBVIOUS
    <2>2. PICK m \in Above : \A n \in Above : m <= n
      BY <2>1, LeastElement
    <2>3. ASSUME m \notin S
          PROVE  FALSE
      <3>1. \A k \in S : k <= m - 1
        BY <2>2, <2>3
      <3>2. m - 1 \in Above
        <4>1. PICK k \in S : k <= m - 1
          BY <1>1, <3>1
        <4>2. m - 1 \in Nat
          BY <2>2, <4>1
        <4> QED BY <3>1, <4>2
      <3> QED BY <2>2, <3>2
    <2> QED BY <2>2, <2>3
  <1> QED BY <1>1 DEF Largest

LEMMA LargestId ==
  ASSUME NEW S \in SUBSET Ids
  PROVE  /\ S = {} => Largest(S) = 0
         /\ S # {} => Largest(S) \in S /\ \A n \in S : n <= Largest(S)
         /\ Largest(S) \in Ids \cup {0}
         /\ \A id \in S : S \subseteq {id} => Largest(S) = id
  <1>1. S \in SUBSET Nat /\ MaxId \in Nat /\ \A n \in S : n <= MaxId
    BY IdsAssumption DEF Ids
  <1>2. /\ S = {} => Largest(S) = 0
        /\ S # {} => Largest(S) \in S /\ \A n \in S : n <= Largest(S)
    BY <1>1, LargestOf
  <1> QED BY <1>2

\* The lowest number of a set and another number, as FreeInstanceId keeps it.
LEMMA LowestId ==
  ASSUME NEW S \in SUBSET Ids, NEW k \in Nat
  PROVE  LET m == CHOOSE n \in S \cup {k} : \A j \in S \cup {k} : n <= j
         IN  m \in S \cup {k} /\ \A j \in S \cup {k} : m <= j
  <1>1. S \cup {k} \in SUBSET Nat
    BY DEF Ids
  <1>2. \E n \in S \cup {k} : \A j \in S \cup {k} : n <= j
    BY <1>1, LeastElement
  <1> QED BY <1>2

\* FirstFree looks far enough: it finds the first id that is not set.
LEMMA FirstFreeFound ==
  ASSUME NEW from \in 1..(MaxId + 1), NEW B \in SUBSET Ids
  PROVE  /\ FirstFree(from, B) \in from..(MaxId + 1)
         /\ FirstFree(from, B) \notin B
         /\ from..(FirstFree(from, B) - 1) \subseteq B
  <1> DEFINE Free == {i \in Nat : i >= from /\ i \notin B}
  <1>1. /\ MaxId \in Nat /\ from \in Nat /\ Ids = 1..MaxId
        /\ IsFiniteSet(B) /\ Cardinality(B) \in Nat
    <2>1. IsFiniteSet(1..MaxId)
      BY IdsAssumption, FS_Interval
    <2>2. IsFiniteSet(B) /\ Cardinality(B) \in Nat
      BY <2>1, FS_Subset, FS_CardinalityType DEF Ids
    <2> QED BY <2>2, IdsAssumption DEF Ids
  <1>2. MaxId + 1 \in Free
    BY <1>1
  <1>3. PICK m \in Free : \A i \in Free : m <= i
    BY <1>2, LeastElement
  <1>4. m \in from..(MaxId + 1) /\ m \notin B /\ from..(m - 1) \subseteq B
    BY <1>1, <1>2, <1>3
  <1>5. m <= from + Cardinality(B)
    <2>1. Cardinality(from..(m - 1)) = m - from
      BY <1>1, <1>4, FS_Interval
    <2>2. Cardinality(from..(m - 1)) <= Cardinality(B)
      BY <1>1, <1>4, FS_Subset
    <2> QED BY <1>1, <1>4, <2>1, <2>2
  <1>6. m \in from..(from + Cardinality(B)) /\ \A j \in from..(m - 1) : j \in B
    BY <1>1, <1>4, <1>5
  <1>7. /\ FirstFree(from, B) \in from..(from + Cardinality(B))
        /\ FirstFree(from, B) \notin B
        /\ \A j \in from..(FirstFree(from, B) - 1) : j \in B
    BY <1>4, <1>6 DEF FirstFree
  <1>8. FirstFree(from, B) <= MaxId + 1
    BY <1>1, <1>7
  <1> QED BY <1>1, <1>7, <1>8

-----------------------------------------------------------------------------
(* Types.                                                                  *)

SavesTyped(S) == DOMAIN S \subseteq Ids /\ \A id \in DOMAIN S : S[id] \in Save
RowsTyped(R) ==
  DOMAIN R \subseteq Ids /\ \A id \in DOMAIN R : R[id] \in [map : Dungeons, reset : Nat]
Event == [at : Nat, map : Dungeons, id : Ids]

\* Respawns are stored a bounded time ahead.
RespawnsBounded ==
  \A key \in DOMAIN respawns : respawns[key] <= now + RespawnDelay + ResetDelay

TypeInv == TypeOK /\ RespawnsBounded

LEMMA ScheduleTyped ==
  ASSUME NEW on, NEW key \in Keys, NEW P, NEW S, SavesTyped(S), NEW E, E \subseteq Event
  PROVE  SetResetSchedule(on, key, P, S, E) \subseteq Event
  <1>1. ASSUME key[2] \in DOMAIN S
        PROVE  [at |-> S[key[2]].reset, map |-> key[1], id |-> key[2]] \in Event
    BY <1>1 DEF SavesTyped, Save, Keys, Event
  <1> QED BY <1>1 DEF SetResetSchedule

LEMMA ReleaseTyped ==
  ASSUME NEW S, SavesTyped(S), NEW h, NEW ids
  PROVE  SavesTyped(Release(S, h, ids))
  <1>1. ASSUME NEW id \in DOMAIN S
        PROVE  [S[id] EXCEPT !.holders = @ \ {h}] \in Save
    BY DEF SavesTyped, Save
  <1> QED BY <1>1 DEF SavesTyped, Release

LEMMA DropTyped ==
  ASSUME NEW S, NEW ids
  PROVE  /\ SavesTyped(S) => SavesTyped(Drop(S, ids))
         /\ RowsTyped(S) => RowsTyped(Drop(S, ids))
  BY DEF SavesTyped, RowsTyped, Drop

LEMMA WriteTyped ==
  ASSUME NEW R, RowsTyped(R), NEW S, SavesTyped(S), NEW ids, ids \subseteq DOMAIN S
  PROVE  RowsTyped(WriteResetTimes(R, S, ids))
  <1>1. ASSUME NEW id \in DOMAIN R, id \in ids
        PROVE  [R[id] EXCEPT !.reset = S[id].reset] \in [map : Dungeons, reset : Nat]
    BY <1>1 DEF RowsTyped, SavesTyped, Save
  <1> QED BY <1>1 DEF RowsTyped, WriteResetTimes

LEMMA GenerateTyped ==
  ASSUME bits \subseteq Ids, next \in Ids, GenerateInstanceId
  PROVE  /\ bits' \subseteq Ids
         /\ next' \in (next + 1)..(MaxId + 1) /\ next' \notin bits
         /\ (next + 1)..(next' - 1) \subseteq bits
  <1>1. next + 1 \in 1..(MaxId + 1)
    BY IdsAssumption DEF Ids
  <1>2. next' = FirstFree(next + 1, bits)
    BY DEF GenerateInstanceId
  <1>3. bits' \subseteq bits \cup {next}
    BY DEF GenerateInstanceId
  <1> QED BY <1>1, <1>2, <1>3, FirstFreeFound

LEMMA LoadTyped ==
  ASSUME NEW stored \in SUBSET Ids, LoadInstanceIds(stored)
  PROVE  /\ bits' \subseteq stored /\ next' \in 1..(MaxId + 1) /\ next' \notin stored
         /\ 1..(next' - 1) \subseteq stored
  <1>1. 1 \in 1..(MaxId + 1)
    BY IdsAssumption
  <1>2. next' = FirstFree(1, stored) /\ bits' \subseteq stored
    BY DEF LoadInstanceIds
  <1> QED BY <1>1, <1>2, FirstFreeFound

LEMMA FreeTyped ==
  ASSUME NEW ids \in SUBSET Ids, next \in 1..(MaxId + 1), FreeInstanceIds(ids)
  PROVE  /\ next' \in ids \cup {next} /\ \A k \in ids \cup {next} : next' <= k
         /\ bits' = bits \ ids /\ next' \in 1..(MaxId + 1)
  <1>1. next \in Nat /\ ids \subseteq 1..(MaxId + 1)
    BY IdsAssumption DEF Ids
  <1>2. next' = CHOOSE n \in ids \cup {next} : \A k \in ids \cup {next} : n <= k
    BY DEF FreeInstanceIds
  <1>3. next' \in ids \cup {next} /\ \A k \in ids \cup {next} : next' <= k
    BY <1>1, <1>2, LowestId
  <1> QED BY <1>1, <1>3 DEF FreeInstanceIds

LEMMA InitTypes == Init => TypeInv
  <1> SUFFICES ASSUME Init PROVE TypeInv
    OBVIOUS
  <1>1. DOMAIN <<>> = {}
    OBVIOUS
  <1> QED BY <1>1, IdsAssumption, LifecycleAssumption
          DEF Init, TypeInv, TypeOK, RespawnsBounded, NoBinds, Offline, Ids

LEMMA LoginTypes ==
  ASSUME TypeInv, NEW p \in Players, Login(p)
  PROVE  TypeInv'
  <1> DEFINE mine == {b \in dbBinds : b[1] = p}
             live == {b[2] : b \in {c \in mine : c[2] \in DOMAIN rows}}
             loaded == [id \in DOMAIN saves \cup live |->
                          IF id \in DOMAIN saves THEN saves[id]
                          ELSE [map |-> rows[id].map, reset |-> rows[id].reset, holders |-> {}]]
  <1>1. live \subseteq Ids /\ live \subseteq DOMAIN rows
    BY DEF TypeInv, TypeOK
  <1>2. p \notin Holders => live = {}
    BY DEF TypeInv, TypeOK
  <1>3. SavesTyped(loaded)
    BY <1>1 DEF TypeInv, TypeOK, SavesTyped, Save
  <1>4. /\ saves' = [id \in DOMAIN loaded |-> IF id \in live
                       THEN [loaded[id] EXCEPT !.holders = @ \cup {p}] ELSE loaded[id]]
        /\ binds' = IF p \in Holders
                    THEN [binds EXCEPT ![p] = [d \in Dungeons |->
                            Largest({id \in live : loaded[id].map = d})]]
                    ELSE binds
        /\ loc' = [loc EXCEPT ![p] = Outside] /\ loc[p] = Offline
        /\ dbBinds' \subseteq dbBinds
        /\ UNCHANGED <<idVars, now, instances, leaving, events, rows, respawns, missed>>
    BY DEF Login
  <1> HIDE DEF loaded, live
  <1>5. SavesTyped(saves')
    <2>1. ASSUME NEW id \in DOMAIN loaded, id \in live
          PROVE  [loaded[id] EXCEPT !.holders = @ \cup {p}] \in Save
      BY <1>2, <1>3, <2>1 DEF SavesTyped, Save
    <2> QED BY <1>3, <1>4, <2>1 DEF SavesTyped
  <1>6. binds' \in [Holders -> [Dungeons -> Ids \cup {0}]]
    <2>1. [d \in Dungeons |-> Largest({id \in live : loaded[id].map = d})]
             \in [Dungeons -> Ids \cup {0}]
      <3>1. ASSUME NEW d \in Dungeons
            PROVE  Largest({id \in live : loaded[id].map = d}) \in Ids \cup {0}
        <4>1. {id \in live : loaded[id].map = d} \in SUBSET Ids
          BY <1>1
        <4> QED BY <4>1, LargestId
      <3> QED BY <3>1
    <2> QED BY <1>4, <2>1 DEF TypeInv, TypeOK
  <1>7. loc' \in [Players -> {Offline, Outside} \cup Keys]
    BY <1>4 DEF TypeInv, TypeOK
  <1>8. leaving' \subseteq {q \in Players : loc'[q] \in Keys}
    <2>1. Offline \notin Keys
      BY DEF Offline, Keys
    <2> QED BY <1>4, <2>1 DEF TypeInv, TypeOK
  <1>9. TypeOK'
    BY <1>4, <1>5, <1>6, <1>7, <1>8 DEF TypeInv, TypeOK, idVars, SavesTyped
  <1>10. RespawnsBounded'
    BY <1>4 DEF TypeInv, RespawnsBounded
  <1> QED BY <1>9, <1>10 DEF TypeInv

\* The instance a player arrives in, and the save it has or gets.
ArriveId(p, d) == IF binds[HolderOf(p)][d] # 0 THEN binds[HolderOf(p)][d] ELSE next
ArriveSave(id, d) ==
  IF id \in DOMAIN saves THEN saves[id]
  ELSE [map |-> d, reset |-> now + ResetDelay, holders |-> {}]
ArriveCreated(id, d) ==
  IF id \in DOMAIN saves THEN {}
  ELSE {[at |-> ArriveSave(id, d).reset, map |-> d, id |-> id]}

LEMMA ArriveUnfolded ==
  ASSUME NEW p, NEW d, Arrive(p, d)
  PROVE  LET h == HolderOf(p)
             id == ArriveId(p, d)
             key == <<d, id>>
             save == ArriveSave(id, d)
         IN  /\ CanArrive(p, d) /\ id <= MaxId
             /\ IF binds[h][d] # 0 THEN UNCHANGED idVars ELSE GenerateInstanceId
             /\ saves' = Put(saves, id, [save EXCEPT !.holders = @ \cup {h}])
             /\ binds' = [binds EXCEPT ![h][save.map] = id]
             /\ dbBinds' = dbBinds \cup {<<h, id>>}
             /\ rows' = IF ArriveCreated(id, d) = {} THEN rows
                        ELSE Put(rows, id, [map |-> d, reset |-> save.reset])
             /\ instances' = Relink(p, key, instances)
             /\ events' = SetResetSchedule(FALSE, key, instances'[key].players, saves',
                                           events \cup ArriveCreated(id, d))
             /\ loc' = [loc EXCEPT ![p] = key]
             /\ leaving' = leaving \ {p}
             /\ UNCHANGED <<now, respawns, missed>>
  BY DEF Arrive, ArriveId, ArriveSave, ArriveCreated, BindToInstance

LEMMA HolderIsHolder == \A p \in Players : HolderOf(p) \in Holders
  BY LifecycleAssumption DEF HolderOf, Holders

LEMMA ArriveIdTyped ==
  ASSUME TypeInv, NEW p \in Players, NEW d \in Dungeons, ArriveId(p, d) <= MaxId
  PROVE  ArriveId(p, d) \in Ids /\ (binds[HolderOf(p)][d] = 0 => next \in Ids)
  <1>1. HolderOf(p) \in Holders /\ Ids = 1..MaxId /\ MaxId \in Nat
    BY HolderIsHolder, IdsAssumption DEF Ids
  <1>2. next \in 1..(MaxId + 1) /\ binds[HolderOf(p)][d] \in Ids \cup {0}
    BY <1>1 DEF TypeInv, TypeOK
  <1> QED BY <1>1, <1>2 DEF ArriveId

\* A player is linked to the new map and to no other.
LEMMA RelinkTyped ==
  ASSUME NEW M, NEW p \in Players, NEW key \in Keys, DOMAIN M \subseteq Keys,
         \A k \in DOMAIN M : M[k] \in MapType
  PROVE  /\ \A k : k \in DOMAIN Relink(p, key, M) <=> k \in DOMAIN M \/ k = key
         /\ \A k \in DOMAIN Relink(p, key, M) : Relink(p, key, M)[k] \in MapType
         /\ p \in Relink(p, key, M)[key].players
         /\ Relink(p, key, M)[key].players = LinkedIn(M, key) \cup {p}
         /\ \A k \in DOMAIN M \ {key} : Relink(p, key, M)[k].players = M[k].players \ {p}
  <1> DEFINE left == [k \in DOMAIN M |-> [M[k] EXCEPT !.players = @ \ {p}]]
             new == [players |-> LinkedIn(left, key) \cup {p}, unloading |-> FALSE, resetting |-> FALSE]
  <1>1. \A k \in DOMAIN M : left[k] \in MapType /\ left[k].players = M[k].players \ {p}
    BY DEF MapType
  <1>2. DOMAIN left = DOMAIN M /\ Relink(p, key, M) = Put(left, key, new)
    BY DEF Relink
  <1> HIDE DEF left
  <1>3. LinkedIn(left, key) \in SUBSET Players /\ LinkedIn(left, key) \cup {p} = LinkedIn(M, key) \cup {p}
    BY <1>1, <1>2 DEF LinkedIn, MapType
  <1>4. new \in MapType /\ new.players = LinkedIn(M, key) \cup {p}
    BY <1>3 DEF MapType
  <1> HIDE DEF new
  <1> QED BY <1>1, <1>2, <1>4 DEF Put

LEMMA ArriveTypes ==
  ASSUME TypeInv, NEW p \in Players, NEW d \in Dungeons, Arrive(p, d)
  PROVE  TypeInv'
  <1> DEFINE h == HolderOf(p)
             id == ArriveId(p, d)
             key == <<d, id>>
             save == ArriveSave(id, d)
  <1>1. /\ id <= MaxId
        /\ IF binds[h][d] # 0 THEN UNCHANGED idVars ELSE GenerateInstanceId
        /\ saves' = Put(saves, id, [save EXCEPT !.holders = @ \cup {h}])
        /\ binds' = [binds EXCEPT ![h][save.map] = id]
        /\ dbBinds' = dbBinds \cup {<<h, id>>}
        /\ rows' = IF ArriveCreated(id, d) = {} THEN rows
                   ELSE Put(rows, id, [map |-> d, reset |-> save.reset])
        /\ instances' = Relink(p, key, instances)
        /\ events' = SetResetSchedule(FALSE, key, instances'[key].players, saves',
                                      events \cup ArriveCreated(id, d))
        /\ loc' = [loc EXCEPT ![p] = key]
        /\ leaving' = leaving \ {p}
        /\ UNCHANGED <<now, respawns, missed>>
    BY ArriveUnfolded
  <1>2. h \in Holders /\ id \in Ids /\ key \in Keys
    BY <1>1, HolderIsHolder, ArriveIdTyped DEF Keys
  <1>3. save \in Save /\ [save EXCEPT !.holders = @ \cup {h}] \in Save
    <2>1. now + ResetDelay \in Nat
      BY LifecycleAssumption DEF TypeInv, TypeOK
    <2>2. save \in Save
      BY <2>1 DEF ArriveSave, TypeInv, TypeOK, Save
    <2> HIDE DEF save
    <2> QED BY <1>2, <2>2 DEF Save
  <1>4. ArriveCreated(id, d) \subseteq Event
    BY <1>2, <1>3 DEF ArriveCreated, Event, Save
  <1>5. bits' \subseteq Ids /\ next' \in 1..(MaxId + 1)
    <2>1. CASE binds[h][d] # 0
      BY <1>1, <2>1 DEF idVars, TypeInv, TypeOK
    <2>2. CASE binds[h][d] = 0
      <3>1. next \in Ids /\ GenerateInstanceId
        BY <1>1, <2>2, ArriveIdTyped
      <3>2. next \in Nat /\ MaxId \in Nat
        BY <3>1, IdsAssumption DEF Ids
      <3> QED BY <3>1, <3>2, GenerateTyped DEF TypeInv, TypeOK
    <2> QED BY <2>1, <2>2
  <1> HIDE DEF h, id, key, save
  <1>6. SavesTyped(saves')
    BY <1>1, <1>2, <1>3 DEF SavesTyped, Put, TypeInv, TypeOK
  <1>7. RowsTyped(rows')
    BY <1>1, <1>2, <1>3 DEF RowsTyped, Put, TypeInv, TypeOK, Save
  <1>8. binds' \in [Holders -> [Dungeons -> Ids \cup {0}]]
    BY <1>1, <1>2, <1>3 DEF TypeInv, TypeOK, Save
  <1>9. /\ DOMAIN instances' \subseteq Keys
        /\ \A k \in DOMAIN instances' : instances'[k] \in MapType
    <2>1. DOMAIN instances \subseteq Keys /\ \A k \in DOMAIN instances : instances[k] \in MapType
      BY DEF TypeInv, TypeOK, MapType
    <2>2. /\ \A k : k \in DOMAIN Relink(p, key, instances) <=> k \in DOMAIN instances \/ k = key
          /\ \A k \in DOMAIN Relink(p, key, instances) : Relink(p, key, instances)[k] \in MapType
      BY <1>2, <2>1, RelinkTyped
    <2> QED BY <1>1, <1>2, <2>1, <2>2
  <1>10. events' \subseteq Event
    BY <1>1, <1>2, <1>4, <1>6, ScheduleTyped DEF TypeInv, TypeOK, Event
  <1>11. /\ loc' \in [Players -> {Offline, Outside} \cup Keys]
         /\ leaving' \subseteq {q \in Players : loc'[q] \in Keys}
    BY <1>1, <1>2 DEF TypeInv, TypeOK
  <1>12. dbBinds' \subseteq Holders \X Ids
    BY <1>1, <1>2 DEF TypeInv, TypeOK
  <1>13. TypeOK'
    BY <1>1, <1>5, <1>6, <1>7, <1>8, <1>9, <1>10, <1>11, <1>12
       DEF TypeInv, TypeOK, SavesTyped, RowsTyped, MapType, Event
  <1>14. RespawnsBounded'
    BY <1>1 DEF TypeInv, RespawnsBounded
  <1> QED BY <1>13, <1>14 DEF TypeInv

LEMMA ArriveRefusedTypes ==
  ASSUME TypeInv, NEW p \in Players, NEW d \in Dungeons, ArriveRefused(p, d)
  PROVE  TypeInv'
  <1>1. /\ ArriveId(p, d) <= MaxId
        /\ IF binds[HolderOf(p)][d] # 0 THEN UNCHANGED idVars ELSE GenerateInstanceId
        /\ UNCHANGED <<now, saves, binds, instances, loc, leaving, events, rows,
                       respawns, dbBinds, missed>>
    BY DEF ArriveRefused, ArriveId
  <1>2. bits' \subseteq Ids /\ next' \in 1..(MaxId + 1)
    <2>1. CASE binds[HolderOf(p)][d] # 0
      BY <1>1, <2>1 DEF idVars, TypeInv, TypeOK
    <2>2. CASE binds[HolderOf(p)][d] = 0
      <3>1. next \in Ids /\ GenerateInstanceId
        BY <1>1, <2>2, ArriveIdTyped
      <3>2. next \in Nat /\ MaxId \in Nat
        BY <3>1, IdsAssumption DEF Ids
      <3> QED BY <3>1, <3>2, GenerateTyped DEF TypeInv, TypeOK
    <2> QED BY <2>1, <2>2
  <1> QED BY <1>1, <1>2 DEF TypeInv, TypeOK, RespawnsBounded

LEMMA LeaveTypes ==
  ASSUME TypeInv, NEW p \in Players, Leave(p) \/ ArriveOutside(p) \/ KillCreature(p)
  PROVE  TypeInv'
  <1>1. /\ SavesTyped(saves) /\ events \subseteq Event
        /\ DOMAIN instances \subseteq Keys /\ \A k \in DOMAIN instances : instances[k] \in MapType
    BY DEF TypeInv, TypeOK, SavesTyped, Event, MapType
  <1>2. CASE Leave(p)
    <2> DEFINE key == loc[p]
    <2>1. /\ key \in DOMAIN instances /\ leaving' = leaving \cup {p}
          /\ instances' = [instances EXCEPT ![key].unloading = @ \/ LinkedIn(instances, key) = {p}]
          /\ events' = SetResetSchedule(TRUE, key, LinkedIn(instances, key), saves, events)
          /\ UNCHANGED <<idVars, now, saves, binds, loc, rows, respawns, dbBinds, missed>>
      BY <1>2 DEF Leave
    <2>2. key \in Keys
      BY <1>1, <2>1
    <2> HIDE DEF key
    <2>3. DOMAIN instances' = DOMAIN instances /\ \A k \in DOMAIN instances : instances'[k] \in MapType
      BY ZenonT(30), <1>1, <2>1 DEF MapType
    <2>4. events' \subseteq Event
      BY <1>1, <2>1, <2>2, ScheduleTyped
    <2>5. leaving' \subseteq {q \in Players : loc'[q] \in Keys}
      BY <2>1, <2>2 DEF TypeInv, TypeOK, key
    <2> QED BY <1>1, <2>1, <2>3, <2>4, <2>5
            DEF TypeInv, TypeOK, RespawnsBounded, idVars, MapType, Event
  <1>3. CASE ArriveOutside(p)
    <2>1. /\ p \in leaving /\ leaving' = leaving \ {p} /\ loc' = [loc EXCEPT ![p] = Outside]
          /\ instances' = [instances EXCEPT ![loc[p]].players = @ \ {p}]
          /\ UNCHANGED <<idVars, now, saves, binds, events, rows, respawns, dbBinds, missed>>
      BY <1>3 DEF ArriveOutside
    <2>2. /\ loc' \in [Players -> {Offline, Outside} \cup Keys]
          /\ leaving' \subseteq {q \in Players : loc'[q] \in Keys}
      BY <2>1 DEF TypeInv, TypeOK
    <2>3. DOMAIN instances' = DOMAIN instances /\ \A k \in DOMAIN instances : instances'[k] \in MapType
      BY <1>1, <2>1 DEF MapType
    <2> QED BY <2>1, <2>2, <2>3 DEF TypeInv, TypeOK, RespawnsBounded, idVars, MapType
  <1>4. CASE KillCreature(p)
    <2> DEFINE id == loc[p][2]
               reset == now + RespawnDelay + ResetDelay
    <2>1. /\ loc[p] \in DOMAIN instances /\ respawns' = Put(respawns, loc[p], reset)
          /\ saves' = IF id \in DOMAIN saves /\ saves[id].reset < reset
                      THEN [saves EXCEPT ![id].reset = reset] ELSE saves
          /\ UNCHANGED <<idVars, now, binds, instances, loc, leaving, events, rows, dbBinds, missed>>
      BY <1>4 DEF KillCreature
    <2>2. reset \in Nat
      BY LifecycleAssumption DEF TypeInv, TypeOK
    <2>3. loc[p] \in Keys
      BY <1>1, <2>1
    <2> HIDE DEF id, reset
    <2>4. SavesTyped(saves')
      BY <1>1, <2>1, <2>2 DEF SavesTyped, Save
    <2>5. /\ DOMAIN respawns' \subseteq Keys
          /\ \A k \in DOMAIN respawns' : respawns'[k] \in Nat /\ respawns'[k] <= reset
      BY <2>1, <2>2, <2>3 DEF Put, TypeInv, TypeOK, RespawnsBounded, reset
    <2>6. RespawnsBounded'
      BY <2>1, <2>5 DEF RespawnsBounded, reset
    <2>7. TypeOK'
      BY <2>1, <2>4, <2>5 DEF TypeInv, TypeOK, SavesTyped, idVars
    <2> QED BY <2>6, <2>7 DEF TypeInv
  <1> QED BY <1>2, <1>3, <1>4

LEMMA UnloadableSaves == \A S, M, ids : Unloadable(S, M, ids) \subseteq ids \cap DOMAIN S
  BY DEF Unloadable

LEMMA LogoutUnfolded ==
  ASSUME NEW p, Logout(p)
  PROVE  LET key == loc[p]
             mine == IF p \in Holders THEN {binds[p][d] : d \in Dungeons} ELSE {}
             S1 == Release(saves, p, mine)
         IN  /\ loc[p] # Offline /\ p \notin leaving
             /\ loc' = [loc EXCEPT ![p] = Offline]
             /\ binds' = IF p \in Holders THEN [binds EXCEPT ![p] = NoBinds] ELSE binds
             /\ \E gone1, gone2, P, S2 :
                  /\ gone1 \subseteq DOMAIN S1 /\ gone2 \subseteq DOMAIN S1
                  /\ S2 = Drop(S1, gone1)
                  /\ \A id \in gone1 \cup gone2 : S1[id].holders = {}
                  /\ saves' = Drop(S2, gone2)
                  /\ rows' = WriteResetTimes(rows, S1, gone1 \cup gone2)
                  /\ events' = IF key \in DOMAIN instances
                               THEN SetResetSchedule(TRUE, key, P, S2, events) ELSE events
             /\ instances' =
                  IF key \in DOMAIN instances
                  THEN [instances EXCEPT ![key] =
                          [@ EXCEPT !.players = LinkedIn(instances, key) \ {p},
                                    !.unloading = @ \/ (LinkedIn(instances, key) \ {p}) = {}]]
                  ELSE instances
             /\ UNCHANGED <<idVars, now, leaving, respawns, dbBinds, missed>>
  <1> DEFINE key == loc[p]
             mine == IF p \in Holders THEN {binds[p][d] : d \in Dungeons} ELSE {}
             S1 == Release(saves, p, mine)
             gone1 == Unloadable(S1, instances, mine)
             S2 == Drop(S1, gone1)
             inside == LinkedIn(instances, key) \ {p}
             M2 == IF key \in DOMAIN instances
                   THEN [instances EXCEPT ![key] =
                           [@ EXCEPT !.players = inside, !.unloading = @ \/ inside = {}]]
                   ELSE instances
             gone2 == IF key \in DOMAIN instances THEN Unloadable(S2, M2, {key[2]}) ELSE {}
  <1>1. /\ loc[p] # Offline /\ p \notin leaving
        /\ loc' = [loc EXCEPT ![p] = Offline]
        /\ binds' = IF p \in Holders THEN [binds EXCEPT ![p] = NoBinds] ELSE binds
        /\ instances' = M2
        /\ events' = IF key \in DOMAIN instances
                     THEN SetResetSchedule(TRUE, key, inside, S2, events) ELSE events
        /\ saves' = Drop(S2, gone2)
        /\ rows' = WriteResetTimes(rows, S1, gone1 \cup gone2)
        /\ UNCHANGED <<idVars, now, leaving, respawns, dbBinds, missed>>
    BY DEF Logout
  <1>2. /\ gone1 \subseteq DOMAIN S1 /\ \A id \in gone1 : S1[id].holders = {}
        /\ gone2 \subseteq DOMAIN S2 /\ \A id \in gone2 : S2[id].holders = {}
    BY DEF Unloadable
  <1>3. /\ DOMAIN S2 \subseteq DOMAIN S1 /\ \A id \in DOMAIN S2 : S2[id] = S1[id]
    BY DEF Drop
  <1> HIDE DEF S1, gone1, gone2, S2, inside, mine
  <1>4. gone2 \subseteq DOMAIN S1 /\ \A id \in gone1 \cup gone2 : S1[id].holders = {}
    BY <1>2, <1>3
  <1>5. \E g1, g2, P, S :
          /\ g1 \subseteq DOMAIN S1 /\ g2 \subseteq DOMAIN S1
          /\ S = Drop(S1, g1)
          /\ \A id \in g1 \cup g2 : S1[id].holders = {}
          /\ saves' = Drop(S, g2)
          /\ rows' = WriteResetTimes(rows, S1, g1 \cup g2)
          /\ events' = IF key \in DOMAIN instances
                       THEN SetResetSchedule(TRUE, key, P, S, events) ELSE events
    <2> WITNESS gone1, gone2, inside, S2
    <2> QED BY <1>1, <1>2, <1>4 DEF S2
  <1> QED BY <1>1, <1>5 DEF S1, mine, inside

LEMMA LogoutTypes ==
  ASSUME TypeInv, NEW p \in Players, Logout(p)
  PROVE  TypeInv'
  <1> DEFINE key == loc[p]
             mine == IF p \in Holders THEN {binds[p][d] : d \in Dungeons} ELSE {}
             S1 == Release(saves, p, mine)
             inside == LinkedIn(instances, key) \ {p}
  <1>1. /\ loc[p] # Offline /\ p \notin leaving
        /\ loc' = [loc EXCEPT ![p] = Offline]
        /\ binds' = IF p \in Holders THEN [binds EXCEPT ![p] = NoBinds] ELSE binds
        /\ instances' = IF key \in DOMAIN instances
             THEN [instances EXCEPT ![key] =
                     [@ EXCEPT !.players = inside, !.unloading = @ \/ inside = {}]]
             ELSE instances
        /\ UNCHANGED <<idVars, now, leaving, respawns, dbBinds, missed>>
    BY LogoutUnfolded
  <1>2. PICK gone1, gone2, P, S2 :
          /\ gone1 \subseteq DOMAIN S1 /\ gone2 \subseteq DOMAIN S1
          /\ S2 = Drop(S1, gone1)
          /\ \A id \in gone1 \cup gone2 : S1[id].holders = {}
          /\ saves' = Drop(S2, gone2)
          /\ rows' = WriteResetTimes(rows, S1, gone1 \cup gone2)
          /\ events' = IF key \in DOMAIN instances
                       THEN SetResetSchedule(TRUE, key, P, S2, events) ELSE events
    BY LogoutUnfolded
  <1>3. /\ SavesTyped(saves) /\ RowsTyped(rows) /\ events \subseteq Event
        /\ DOMAIN instances \subseteq Keys /\ \A k \in DOMAIN instances : instances[k] \in MapType
    BY DEF TypeInv, TypeOK, SavesTyped, RowsTyped, Event, MapType
  <1> HIDE DEF mine
  <1>4. SavesTyped(S1)
    BY <1>3, ReleaseTyped
  <1> HIDE DEF S1
  <1>5. SavesTyped(S2) /\ SavesTyped(saves')
    BY <1>2, <1>4, DropTyped
  <1>6. RowsTyped(rows')
    BY <1>2, <1>3, <1>4, WriteTyped
  <1>7. events' \subseteq Event
    BY <1>2, <1>3, <1>5, ScheduleTyped
  <1>8. DOMAIN instances' = DOMAIN instances /\ \A k \in DOMAIN instances : instances'[k] \in MapType
    <2>1. CASE key \notin DOMAIN instances
      BY <1>1, <1>3, <2>1
    <2>2. CASE key \in DOMAIN instances
      <3>1. inside \in SUBSET Players
        BY <1>3, <2>2 DEF LinkedIn, MapType
      <3>2. instances' = [instances EXCEPT ![key] =
                            [@ EXCEPT !.players = inside, !.unloading = @ \/ inside = {}]]
        BY <1>1, <2>2
      <3> HIDE DEF key, inside
      <3> QED BY ZenonT(30), <1>3, <2>2, <3>1, <3>2 DEF MapType
    <2> QED BY <2>1, <2>2
  <1>9. binds' \in [Holders -> [Dungeons -> Ids \cup {0}]]
    BY <1>1 DEF NoBinds, TypeInv, TypeOK
  <1>10. /\ loc' \in [Players -> {Offline, Outside} \cup Keys]
         /\ leaving' \subseteq {q \in Players : loc'[q] \in Keys}
    BY <1>1 DEF TypeInv, TypeOK
  <1>11. TypeOK'
    BY <1>1, <1>3, <1>5, <1>6, <1>7, <1>8, <1>9, <1>10
       DEF TypeInv, TypeOK, SavesTyped, RowsTyped, MapType, Event, idVars
  <1>12. RespawnsBounded'
    BY <1>1 DEF TypeInv, RespawnsBounded
  <1> QED BY <1>11, <1>12 DEF TypeInv

\* The dungeons whose instances a holder may reset, and those instances.
ResetDungeons(h) ==
  {d \in Dungeons : binds[h][d] # 0 /\ LinkedIn(instances, <<d, binds[h][d]>>) = {}}
ResetIds(h) == {binds[h][d] : d \in ResetDungeons(h)}

LEMMA ResetInstancesUnfolded ==
  ASSUME NEW h, ResetInstances(h)
  PROVE  /\ \A key \in DOMAIN instances :
              /\ instances'[key] = instances[key] \/
                   instances'[key] = [instances[key] EXCEPT !.unloading = TRUE, !.resetting = TRUE]
         /\ DOMAIN instances' = DOMAIN instances
         /\ rows' = Drop(rows, ResetIds(h))
         /\ dbBinds' = {b \in dbBinds : b[2] \notin ResetIds(h)}
         /\ binds' = [binds EXCEPT ![h] =
                        [d \in Dungeons |-> IF d \in ResetDungeons(h) THEN 0 ELSE @[d]]]
         /\ \E gone : /\ \A id \in gone : Release(saves, h, ResetIds(h))[id].holders = {}
                      /\ saves' = Drop(Release(saves, h, ResetIds(h)), gone)
         /\ UNCHANGED <<idVars, now, loc, leaving, events, respawns, missed>>
  <1> DEFINE S1 == Release(saves, h, ResetIds(h))
             gone == Unloadable(S1, instances, ResetIds(h))
  <1>1. saves' = Drop(S1, gone)
    BY DEF ResetInstances, ResetDungeons, ResetIds
  <1>2. \A id \in gone : S1[id].holders = {}
    BY DEF Unloadable
  <1>3. \E g : (\A id \in g : S1[id].holders = {}) /\ saves' = Drop(S1, g)
    BY <1>1, <1>2
  <1>4. instances' = [key \in DOMAIN instances |->
                        IF key[1] \in ResetDungeons(h) /\ key[2] = binds[h][key[1]]
                        THEN [instances[key] EXCEPT !.unloading = TRUE, !.resetting = TRUE]
                        ELSE instances[key]]
    BY DEF ResetInstances, ResetDungeons
  <1>5. /\ DOMAIN instances' = DOMAIN instances
        /\ \A key \in DOMAIN instances :
             instances'[key] = instances[key] \/
               instances'[key] = [instances[key] EXCEPT !.unloading = TRUE, !.resetting = TRUE]
    BY <1>4
  <1> QED BY <1>3, <1>5 DEF ResetInstances, ResetDungeons, ResetIds

LEMMA ResetInstancesTypes ==
  ASSUME TypeInv, NEW h \in Holders, ResetInstances(h)
  PROVE  TypeInv'
  <1>1. /\ rows' = Drop(rows, ResetIds(h)) /\ dbBinds' \subseteq dbBinds
        /\ binds' = [binds EXCEPT ![h] =
                       [d \in Dungeons |-> IF d \in ResetDungeons(h) THEN 0 ELSE @[d]]]
        /\ UNCHANGED <<idVars, now, loc, leaving, events, respawns, missed>>
    BY ResetInstancesUnfolded
  <1>2. PICK gone : saves' = Drop(Release(saves, h, ResetIds(h)), gone)
    BY ResetInstancesUnfolded
  <1>3. /\ SavesTyped(saves) /\ RowsTyped(rows)
        /\ DOMAIN instances \subseteq Keys /\ \A k \in DOMAIN instances : instances[k] \in MapType
    BY DEF TypeInv, TypeOK, SavesTyped, RowsTyped, MapType
  <1>4. SavesTyped(saves') /\ RowsTyped(rows')
    BY <1>1, <1>2, <1>3, ReleaseTyped, DropTyped
  <1>5. DOMAIN instances' = DOMAIN instances /\ \A k \in DOMAIN instances : instances'[k] \in MapType
    <2>1. \A m \in MapType : [m EXCEPT !.unloading = TRUE, !.resetting = TRUE] \in MapType
      BY DEF MapType
    <2> QED BY <1>3, <2>1, ResetInstancesUnfolded
  <1>6. binds' \in [Holders -> [Dungeons -> Ids \cup {0}]]
    BY <1>1 DEF TypeInv, TypeOK
  <1>7. TypeOK'
    BY <1>1, <1>3, <1>4, <1>5, <1>6 DEF TypeInv, TypeOK, SavesTyped, RowsTyped, MapType, idVars
  <1>8. RespawnsBounded'
    BY <1>1 DEF TypeInv, RespawnsBounded
  <1> QED BY <1>7, <1>8 DEF TypeInv

\* The events that are due, and their instances.
Due == {e \in events : e.at < now}
DueIds == {e.id : e \in Due}

LEMMA FireResetsTypes ==
  ASSUME TypeInv, FireResets
  PROVE  TypeInv'
  <1> DEFINE keys == {<<e.map, e.id>> : e \in Due}
  <1>1. /\ events' = events \ Due /\ saves' = Drop(saves, DueIds) /\ rows' = Drop(rows, DueIds)
        /\ binds' = [h \in Holders |-> [d \in Dungeons |->
                       IF binds[h][d] \in DueIds THEN 0 ELSE binds[h][d]]]
        /\ dbBinds' \subseteq dbBinds /\ missed' \subseteq missed
        /\ respawns' = Drop(respawns, keys)
        /\ FreeInstanceIds(DueIds) /\ UNCHANGED <<now, loc, leaving>>
    BY DEF FireResets, Due, DueIds
  <1>2. instances' = [key \in DOMAIN instances |->
                        IF key \in keys
                        THEN [instances[key] EXCEPT !.resetting = TRUE,
                                 !.unloading = @ \/ instances[key].players = {}]
                        ELSE instances[key]]
    BY DEF FireResets, Due
  <1>3. DueIds \in SUBSET Ids
    BY DEF TypeInv, TypeOK, Due, DueIds
  <1>4. /\ SavesTyped(saves) /\ RowsTyped(rows) /\ events \subseteq Event
        /\ DOMAIN instances \subseteq Keys /\ \A k \in DOMAIN instances : instances[k] \in MapType
        /\ bits \subseteq Ids /\ next \in 1..(MaxId + 1)
    BY DEF TypeInv, TypeOK, SavesTyped, RowsTyped, Event, MapType
  <1>5. bits' \subseteq Ids /\ next' \in 1..(MaxId + 1)
    BY <1>1, <1>3, <1>4, FreeTyped
  <1> HIDE DEF keys
  <1>6. DOMAIN instances' = DOMAIN instances /\ \A k \in DOMAIN instances : instances'[k] \in MapType
    BY ZenonT(30), <1>2, <1>4 DEF MapType
  <1>7. SavesTyped(saves') /\ RowsTyped(rows')
    BY <1>1, <1>4, DropTyped
  <1>8. binds' \in [Holders -> [Dungeons -> Ids \cup {0}]]
    BY <1>1 DEF TypeInv, TypeOK
  <1>9. /\ DOMAIN respawns' \subseteq DOMAIN respawns
        /\ \A k \in DOMAIN respawns' : respawns'[k] = respawns[k]
    BY <1>1 DEF Drop
  <1>10. TypeOK'
    BY <1>1, <1>4, <1>5, <1>6, <1>7, <1>8, <1>9
       DEF TypeInv, TypeOK, SavesTyped, RowsTyped, Event, MapType
  <1>11. RespawnsBounded'
    BY <1>1, <1>9 DEF TypeInv, RespawnsBounded
  <1> QED BY <1>10, <1>11 DEF TypeInv

\* What a startup keeps of the database.
Bound == {b \in dbBinds : b[2] \in DOMAIN rows /\ rows[b[2]].reset >= now}
Kept == {id \in DOMAIN rows : \E b \in Bound : b[2] = id}
OfGroups == {b \in Bound : b[1] \in Groups}

LEMMA RestartUnfolded ==
  ASSUME Restart
  PROVE  /\ respawns' = Restrict(respawns, {k \in DOMAIN respawns : k[2] \in Kept})
         /\ rows' \in WithRespawnTimes(Restrict(rows, Kept), respawns')
         /\ dbBinds' = Bound /\ LoadInstanceIds(Kept)
         /\ missed' = {id \in Kept : rows'[id].reset <= now}
         /\ events' = {[at |-> rows'[id].reset, map |-> rows[id].map, id |-> id] :
                         id \in Kept \ missed'}
         /\ saves' = [id \in {b[2] : b \in OfGroups} |->
                        [map |-> rows[id].map, reset |-> rows'[id].reset,
                         holders |-> {b[1] : b \in {c \in OfGroups : c[2] = id}}]]
         /\ binds' = [h \in Holders |-> [d \in Dungeons |->
                        Largest({id \in Kept : rows[id].map = d /\ <<h, id>> \in OfGroups})]]
         /\ instances' = <<>> /\ loc' = [p \in Players |-> Offline] /\ leaving' = {}
         /\ now' = now
  BY DEF Restart, Startup, Bound, Kept, OfGroups

\* The times that LoadResetTimes moves are stored respawn times.
LEMMA RespawnTimesTyped ==
  ASSUME NEW R, RowsTyped(R), NEW C, NEW bound \in Nat,
         \A k \in DOMAIN C : k[2] \in DOMAIN R /\ C[k] \in Nat /\ C[k] <= bound,
         NEW RR \in WithRespawnTimes(R, C)
  PROVE  /\ RowsTyped(RR) /\ DOMAIN RR = DOMAIN R
         /\ \A id \in DOMAIN R : RR[id].map = R[id].map
  <1>1. CASE DOMAIN C = {}
    <2>1. RR = R
      BY <1>1 DEF WithRespawnTimes
    <2> QED BY <2>1
  <1>2. CASE DOMAIN C # {}
    <2>1. PICK k \in DOMAIN C : RR = [R EXCEPT ![k[2]].reset = RespawnOf(k[2], C)]
      <3> DEFINE dead == {m[2] : m \in DOMAIN C}
                 Moved(id) == [R EXCEPT ![id].reset = RespawnOf(id, C)]
      <3>1. dead # {}
        BY <1>2
      <3>2. RR \in {Moved(id) : id \in dead}
        BY <3>1 DEF WithRespawnTimes
      <3> HIDE DEF Moved
      <3>3. PICK k \in DOMAIN C : RR = Moved(k[2])
        BY <3>2
      <3> QED BY <3>3 DEF Moved
    <2> DEFINE S == {C[l] : l \in {m \in DOMAIN C : m[2] = k[2]}}
    <2>2. S \in SUBSET Nat /\ S # {} /\ \A n \in S : n <= bound
      OBVIOUS
    <2> HIDE DEF S
    <2>3. Largest(S) \in Nat
      BY <2>2, LargestOf
    <2>4. RespawnOf(k[2], C) \in Nat
      BY <2>3 DEF RespawnOf, S
    <2>5. k[2] \in DOMAIN R
      OBVIOUS
    <2> QED BY <2>1, <2>4, <2>5 DEF RowsTyped
  <1> QED BY <1>1, <1>2

LEMMA RestartTypes ==
  ASSUME TypeInv, Restart
  PROVE  /\ TypeInv' /\ DOMAIN rows' = Kept /\ \A id \in Kept : rows'[id].map = rows[id].map
  <1>1. /\ RowsTyped(rows) /\ Kept \in SUBSET Ids /\ Kept \subseteq DOMAIN rows
        /\ Bound \subseteq dbBinds /\ OfGroups \subseteq Bound /\ \A b \in Bound : b[2] \in Kept
        /\ dbBinds \subseteq Holders \X Ids
    BY DEF TypeInv, TypeOK, RowsTyped, Kept, Bound, OfGroups
  <1>2. /\ DOMAIN respawns' = {k \in DOMAIN respawns : k[2] \in Kept}
        /\ \A k \in DOMAIN respawns' : respawns'[k] = respawns[k]
    BY RestartUnfolded DEF Restrict
  <1>3. /\ DOMAIN Restrict(rows, Kept) = Kept
        /\ \A id \in Kept : Restrict(rows, Kept)[id] = rows[id]
    BY <1>1 DEF Restrict
  <1>4. RowsTyped(Restrict(rows, Kept))
    BY <1>1, <1>3 DEF RowsTyped
  <1>5. /\ RowsTyped(rows') /\ DOMAIN rows' = Kept
        /\ \A id \in Kept : rows'[id].map = rows[id].map
    <2> DEFINE bound == now + RespawnDelay + ResetDelay
    <2>1. bound \in Nat
      BY LifecycleAssumption DEF TypeInv, TypeOK
    <2>2. \A k \in DOMAIN respawns' : k[2] \in Kept /\ respawns'[k] \in Nat /\ respawns'[k] <= bound
      BY <1>2 DEF TypeInv, TypeOK, RespawnsBounded
    <2> HIDE DEF bound
    <2>3. rows' \in WithRespawnTimes(Restrict(rows, Kept), respawns')
      BY RestartUnfolded
    <2> QED BY <1>3, <1>4, <2>1, <2>2, <2>3, RespawnTimesTyped
  <1>6. bits' \subseteq Ids /\ next' \in 1..(MaxId + 1)
    BY <1>1, RestartUnfolded, LoadTyped
  <1>7. events' \subseteq Event
    <2>1. \A id \in Kept : [at |-> rows'[id].reset, map |-> rows[id].map, id |-> id] \in Event
      BY <1>1, <1>5 DEF RowsTyped, Event
    <2>2. events' = {[at |-> rows'[id].reset, map |-> rows[id].map, id |-> id] :
                       id \in Kept \ missed'}
      BY RestartUnfolded
    <2> QED BY <2>1, <2>2
  <1>8. SavesTyped(saves')
    <2>1. saves' = [id \in {b[2] : b \in OfGroups} |->
                      [map |-> rows[id].map, reset |-> rows'[id].reset,
                       holders |-> {b[1] : b \in {c \in OfGroups : c[2] = id}}]]
      BY RestartUnfolded
    <2>2. {b[2] : b \in OfGroups} \subseteq Kept
      BY <1>1
    <2>3. \A id : {b[1] : b \in {c \in OfGroups : c[2] = id}} \in SUBSET Holders
      BY <1>1
    <2>4. \A id \in Kept : [map |-> rows[id].map, reset |-> rows'[id].reset,
                            holders |-> {b[1] : b \in {c \in OfGroups : c[2] = id}}] \in Save
      BY <1>1, <1>5, <2>3 DEF RowsTyped, Save
    <2> QED BY <1>1, <2>1, <2>2, <2>4 DEF SavesTyped
  <1>9. binds' \in [Holders -> [Dungeons -> Ids \cup {0}]]
    <2> DEFINE OwnIds(h, d) == {id \in Kept : rows[id].map = d /\ <<h, id>> \in OfGroups}
    <2>1. binds' = [h \in Holders |-> [d \in Dungeons |-> Largest(OwnIds(h, d))]]
      BY RestartUnfolded
    <2>2. \A h, d : OwnIds(h, d) \in SUBSET Ids
      BY <1>1
    <2> HIDE DEF OwnIds
    <2>3. \A h, d : Largest(OwnIds(h, d)) \in Ids \cup {0}
      BY <2>2, LargestId
    <2> QED BY <2>1, <2>3
  <1>10. /\ loc' \in [Players -> {Offline, Outside} \cup Keys] /\ leaving' = {}
         /\ DOMAIN instances' = {} /\ now' = now
    BY RestartUnfolded
  <1>11. dbBinds' \subseteq Holders \X Ids /\ missed' \subseteq Ids
    BY <1>1, RestartUnfolded
  <1>12. RespawnsBounded'
    BY <1>2, <1>10 DEF TypeInv, RespawnsBounded
  <1>13. DOMAIN respawns' \subseteq Keys /\ \A k \in DOMAIN respawns' : respawns'[k] \in Nat
    BY <1>2 DEF TypeInv, TypeOK
  <1>14. TypeOK'
    BY <1>5, <1>6, <1>7, <1>8, <1>9, <1>10, <1>11, <1>13
       DEF TypeInv, TypeOK, RowsTyped, SavesTyped, Event
  <1> QED BY <1>5, <1>12, <1>14 DEF TypeInv

LEMMA TypesStep == TypeInv /\ [Next]_vars => TypeInv'
  <1> SUFFICES ASSUME TypeInv, [Next]_vars PROVE TypeInv'
    OBVIOUS
  <1>1. ASSUME NEW key \in DOMAIN instances, UnloadMap(key)
        PROVE  TypeInv'
    <2>1. /\ instances' = Drop(instances, {key})
          /\ respawns' = IF instances[key].resetting THEN Drop(respawns, {key}) ELSE respawns
          /\ UNCHANGED <<idVars, now, saves, binds, loc, leaving, events, rows, dbBinds, missed>>
      BY <1>1 DEF UnloadMap
    <2>2. /\ DOMAIN instances' \subseteq DOMAIN instances
          /\ \A k \in DOMAIN instances' : instances'[k] = instances[k]
      BY <2>1 DEF Drop
    <2>3. /\ DOMAIN respawns' \subseteq DOMAIN respawns
          /\ \A k \in DOMAIN respawns' : respawns'[k] = respawns[k]
      BY <2>1 DEF Drop
    <2> QED BY <2>1, <2>2, <2>3 DEF TypeInv, TypeOK, RespawnsBounded, idVars
  <1>2. CASE Tick
    <2>1. /\ now < MaxTime /\ now' = now + 1
          /\ UNCHANGED <<idVars, saves, binds, instances, loc, leaving, events, rows,
                         respawns, dbBinds, missed>>
      BY <1>2 DEF Tick
    <2>2. now' \in 0..MaxTime
      BY <2>1, LifecycleAssumption DEF TypeInv, TypeOK
    <2>3. RespawnsBounded'
      <3>1. now \in Nat /\ \A k \in DOMAIN respawns : respawns[k] \in Nat
        BY DEF TypeInv, TypeOK
      <3> QED BY <2>1, <3>1, LifecycleAssumption DEF TypeInv, RespawnsBounded
    <2>4. TypeOK'
      BY <2>1, <2>2 DEF TypeInv, TypeOK, idVars
    <2> QED BY <2>3, <2>4 DEF TypeInv
  <1>3. CASE UNCHANGED vars
    BY <1>3 DEF vars, idVars, TypeInv, TypeOK, RespawnsBounded
  <1> QED
    BY <1>1, <1>2, <1>3, LoginTypes, LeaveTypes, LogoutTypes, ArriveTypes, ArriveRefusedTypes,
       ResetInstancesTypes, FireResetsTypes, RestartTypes
    DEF Next

\* Every variable keeps its type: ids stay within the pool though the search for
\* the next free one is unbounded in the code, and the reset times that a
\* startup takes from stored respawns are times.
THEOREM LifecycleTypeCorrect == Spec => []TypeOK
  <1>1. TypeInv => TypeOK
    BY DEF TypeInv
  <1> QED BY <1>1, InitTypes, TypesStep, PTL DEF Spec

-----------------------------------------------------------------------------
(* Every stored instance has a reset scheduled.                            *)

\* Resets are only added, and stored instances only deleted.
LEMMA ResetsKept ==
  ASSUME StoredInstancesWillReset, events \subseteq events', DOMAIN rows' \subseteq DOMAIN rows,
         missed' = missed
  PROVE  StoredInstancesWillReset'
  BY DEF StoredInstancesWillReset

LEMMA ScheduleAdds == \A key, P, S, E : E \subseteq SetResetSchedule(TRUE, key, P, S, E)
  BY DEF SetResetSchedule

LEMMA ResetsStep == TypeInv /\ StoredInstancesWillReset /\ [Next]_vars => StoredInstancesWillReset'
  <1> SUFFICES ASSUME TypeInv, StoredInstancesWillReset, [Next]_vars
               PROVE  StoredInstancesWillReset'
    OBVIOUS
  <1>1. CASE UNCHANGED <<events, rows, missed>>
    BY <1>1, ResetsKept
  <1>2. ASSUME NEW p \in Players, Leave(p)
        PROVE  StoredInstancesWillReset'
    BY <1>2, ResetsKept, ScheduleAdds DEF Leave
  <1>3. ASSUME NEW p \in Players, Logout(p)
        PROVE  StoredInstancesWillReset'
    <2>1. DOMAIN rows' = DOMAIN rows
      <3>1. \E S, ids : rows' = WriteResetTimes(rows, S, ids)
        BY <1>3 DEF Logout
      <3> QED BY <3>1 DEF WriteResetTimes
    <2>2. events \subseteq events' /\ missed' = missed
      <3>1. \/ events' = events
            \/ \E key, P, S : events' = SetResetSchedule(TRUE, key, P, S, events)
        BY <1>3 DEF Logout
      <3>2. missed' = missed
        BY <1>3 DEF Logout
      <3> QED BY <3>1, <3>2, ScheduleAdds
    <2> QED BY <2>1, <2>2, ResetsKept
  <1>4. ASSUME NEW p \in Players, NEW d \in Dungeons, Arrive(p, d)
        PROVE  StoredInstancesWillReset'
    <2> DEFINE id == ArriveId(p, d)
    <2>1. /\ id <= MaxId
          /\ rows' = IF ArriveCreated(id, d) = {} THEN rows
                     ELSE Put(rows, id, [map |-> d, reset |-> ArriveSave(id, d).reset])
          /\ instances' = Relink(p, <<d, id>>, instances)
          /\ events' = SetResetSchedule(FALSE, <<d, id>>, instances'[<<d, id>>].players, saves',
                                        events \cup ArriveCreated(id, d))
          /\ missed' = missed
      BY <1>4, ArriveUnfolded
    <2>2. <<d, id>> \in Keys
      BY <2>1, ArriveIdTyped DEF Keys
    <2>3. p \in instances'[<<d, id>>].players
      <3>1. DOMAIN instances \subseteq Keys /\ \A k \in DOMAIN instances : instances[k] \in MapType
        BY DEF TypeInv, TypeOK, MapType
      <3> DEFINE key == <<d, id>>
      <3> HIDE DEF key
      <3>2. key \in Keys => p \in Relink(p, key, instances)[key].players
        BY <3>1, RelinkTyped
      <3> QED BY <2>1, <2>2, <3>2 DEF key
    <2>4. events' = events \cup ArriveCreated(id, d)
      <3> DEFINE P == instances'[<<d, id>>].players
                 key == <<d, id>>
      <3>1. P # {} /\ events' = SetResetSchedule(FALSE, key, P, saves', events \cup ArriveCreated(id, d))
        BY <2>1, <2>3
      <3> HIDE DEF P, key
      <3>3. SetResetSchedule(FALSE, key, P, saves', events \cup ArriveCreated(id, d))
              = events \cup ArriveCreated(id, d)
        BY <3>1 DEF SetResetSchedule
      <3> QED BY <3>1, <3>3
    <2> HIDE DEF id
    <2>5. CASE ArriveCreated(id, d) = {}
      BY <2>1, <2>4, <2>5, ResetsKept
    <2>6. CASE ArriveCreated(id, d) # {}
      <3>1. \E e \in events' : e.id = id
        BY <2>4, <2>6 DEF ArriveCreated
      <3>2. DOMAIN rows' = DOMAIN rows \cup {id}
        BY <2>1, <2>6 DEF Put
      <3> QED BY <2>1, <2>4, <3>1, <3>2 DEF StoredInstancesWillReset
    <2> QED BY <2>5, <2>6
  <1>5. ASSUME NEW h \in Holders, ResetInstances(h)
        PROVE  StoredInstancesWillReset'
    BY <1>5, ResetInstancesUnfolded, ResetsKept DEF Drop
  <1>6. CASE FireResets
    <2>1. /\ events' = events \ Due /\ DOMAIN rows' = DOMAIN rows \ DueIds
          /\ missed' = missed \ DueIds
      BY <1>6 DEF FireResets, Due, DueIds, Drop
    <2> SUFFICES ASSUME NEW id \in DOMAIN rows' \ missed'
                 PROVE  \E e \in events' : e.id = id
      BY DEF StoredInstancesWillReset
    <2>2. id \in DOMAIN rows \ missed /\ id \notin DueIds
      BY <2>1
    <2>3. PICK e \in events : e.id = id
      BY <2>2 DEF StoredInstancesWillReset
    <2>4. e \notin Due
      BY <2>2, <2>3 DEF DueIds
    <2> QED BY <2>1, <2>3, <2>4
  <1>7. CASE Restart
    <2>1. DOMAIN rows' = Kept
      BY <1>7, RestartTypes
    <2>2. events' = {[at |-> rows'[id].reset, map |-> rows[id].map, id |-> id] :
                       id \in Kept \ missed'}
      BY <1>7, RestartUnfolded
    <2> SUFFICES ASSUME NEW id \in DOMAIN rows' \ missed'
                 PROVE  \E e \in events' : e.id = id
      BY DEF StoredInstancesWillReset
    <2> DEFINE r == [at |-> rows'[id].reset, map |-> rows[id].map, id |-> id]
    <2>3. id \in Kept \ missed'
      BY <2>1
    <2>4. r \in events'
      BY <2>2, <2>3
    <2>5. r.id = id
      OBVIOUS
    <2> QED BY <2>4, <2>5
  <1> QED BY <1>1, <1>2, <1>3, <1>4, <1>5, <1>6, <1>7
          DEF Next, vars, Login, ArriveOutside, KillCreature, ArriveRefused, UnloadMap, Tick

\* A stored instance has a reset scheduled, for any number of players, groups,
\* dungeons and ids, and whatever the bits of the allocator say: AddPlayerToMap
\* creates both at once, nothing cancels a reset, and a startup schedules all it keeps.
THEOREM StoredInstancesReset == Spec => []StoredInstancesWillReset
  <1>1. Init => StoredInstancesWillReset
    <2>1. DOMAIN <<>> = {}
      OBVIOUS
    <2> QED BY <2>1 DEF Init, StoredInstancesWillReset
  <1> QED BY <1>1, InitTypes, TypesStep, ResetsStep, PTL DEF Spec

-----------------------------------------------------------------------------
(* Binds, saves, rows and ids agree.  A bind has four copies: the holder's  *)
(* pointer, the save's list, the row of the bind and the instance's row;   *)
(* which of them exist depends on whether the holder is loaded.  The       *)
(* argument needs that a recorded id is taken, which the allocator grants  *)
(* only while its vector is long enough for the ids handed out (IdsFit).   *)

Stored(h, id) == <<h, id>> \in dbBinds
Loaded(h) == h \in Groups \/ loc[h] # Offline

\* A holder is bound to one instance of a map.
OneInstancePerMap ==
  \A h \in Holders : \A i, j \in Ids :
    Stored(h, i) /\ Stored(h, j) /\ rows[i].map = rows[j].map => i = j

\* An instance belongs to one holder.
OneHolder == \A g, h \in Holders : \A i \in Ids : Stored(g, i) /\ Stored(h, i) => g = h

\* What the database knows of a loaded holder is in memory, and a holder that
\* is not loaded has nothing there.
StoredBindsLoaded ==
  \A h \in Holders : \A i \in Ids : Stored(h, i) =>
    i \in DOMAIN rows /\ (Loaded(h) => binds[h][rows[i].map] = i)
UnloadedHaveNone ==
  \A h \in Holders : ~Loaded(h) => \A d \in Dungeons : binds[h][d] = 0

SavesMatchRows == \A i \in DOMAIN saves \cap DOMAIN rows : saves[i].map = rows[i].map
RecordsTaken == DOMAIN saves \cup DOMAIN rows \subseteq bits

BindsInv ==
  /\ BindsMatchSaves /\ BindsArePersistent
  /\ OneInstancePerMap /\ OneHolder /\ StoredBindsLoaded /\ UnloadedHaveNone
  /\ SavesMatchRows /\ RecordsTaken

\* The next id is the lowest that is free.
NextIsLowest == next \notin bits /\ 1..(next - 1) \subseteq bits

\* The vector of bits is long enough: no bit that was set is lost.
IdsFit == \A id \in 1..(next - 1) \cup DOMAIN rows : id < size

\* Steps that leave binds, saves and rows alone and free no id.
LEMMA BindsUnaffected ==
  ASSUME TypeInv, BindsInv, UNCHANGED <<binds, rows, dbBinds>>,
         DOMAIN saves' = DOMAIN saves,
         \A i \in DOMAIN saves : saves'[i].map = saves[i].map /\ saves'[i].holders = saves[i].holders,
         \A h \in Holders : Loaded(h)' <=> Loaded(h),
         bits \subseteq bits'
  PROVE  BindsInv'
  <1>1. BindsMatchSaves'
    BY DEF BindsInv, BindsMatchSaves
  <1>2. BindsArePersistent' /\ OneInstancePerMap' /\ OneHolder'
    BY DEF BindsInv, BindsArePersistent, OneInstancePerMap, OneHolder, Stored
  <1>3. StoredBindsLoaded' /\ UnloadedHaveNone'
    BY DEF BindsInv, StoredBindsLoaded, UnloadedHaveNone, Stored
  <1>4. SavesMatchRows' /\ RecordsTaken'
    BY DEF BindsInv, SavesMatchRows, RecordsTaken
  <1> QED BY <1>1, <1>2, <1>3, <1>4 DEF BindsInv

LEMMA BindsLogin ==
  ASSUME TypeInv, BindsInv, NEW p \in Players, Login(p)
  PROVE  BindsInv'
  <1> DEFINE mine == {b \in dbBinds : b[1] = p}
             live == {b[2] : b \in {c \in mine : c[2] \in DOMAIN rows}}
             loaded == [id \in DOMAIN saves \cup live |->
                          IF id \in DOMAIN saves THEN saves[id]
                          ELSE [map |-> rows[id].map, reset |-> rows[id].reset, holders |-> {}]]
             MapOf(i) == IF i \in DOMAIN saves THEN saves[i].map ELSE rows[i].map
  <1>1. /\ loc[p] = Offline /\ loc' = [loc EXCEPT ![p] = Outside]
        /\ saves' = [id \in DOMAIN loaded |-> IF id \in live
                       THEN [loaded[id] EXCEPT !.holders = @ \cup {p}] ELSE loaded[id]]
        /\ binds' = IF p \in Holders
                    THEN [binds EXCEPT ![p] = [d \in Dungeons |->
                            Largest({id \in live : loaded[id].map = d})]]
                    ELSE binds
        /\ dbBinds' = {b \in dbBinds : b \in mine => b[2] \in live}
        /\ UNCHANGED <<idVars, rows>>
    BY DEF Login
  <1>2. /\ dbBinds \subseteq Holders \X Ids
        /\ binds \in [Holders -> [Dungeons -> Ids \cup {0}]]
        /\ loc \in [Players -> {Offline, Outside} \cup Keys]
        /\ \A i \in DOMAIN saves : saves[i] \in Save
        /\ DOMAIN saves \subseteq Ids /\ DOMAIN rows \subseteq Ids
        /\ \A i \in DOMAIN rows : rows[i].map \in Dungeons /\ rows[i].reset \in Nat
    BY DEF TypeInv, TypeOK
  <1>3. \A i : i \in live <=> p \in Holders /\ i \in Ids /\ Stored(p, i)
    <2>1. \A h \in Holders : \A i \in Ids : Stored(h, i) => i \in DOMAIN rows
      BY DEF BindsInv, StoredBindsLoaded
    <2>2. ASSUME NEW i \in live
          PROVE  p \in Holders /\ i \in Ids /\ Stored(p, i)
      <3>1. PICK b \in mine : b[2] = i
        OBVIOUS
      <3>2. b = <<p, i>> /\ p \in Holders /\ i \in Ids
        BY <1>2, <3>1
      <3> QED BY <3>2 DEF Stored
    <2>3. ASSUME NEW i \in Ids, p \in Holders, Stored(p, i)
          PROVE  i \in live
      <3>1. <<p, i>> \in mine /\ i \in DOMAIN rows
        BY <2>1, <2>3 DEF Stored
      <3> QED BY <3>1
    <2> QED BY <2>2, <2>3
  <1>4. \A i \in live : i \in DOMAIN rows
    OBVIOUS
  <1>5. dbBinds' = dbBinds
    BY <1>1, <1>2, <1>3 DEF Stored
  <1>6. /\ \A i : i \in DOMAIN saves' <=> i \in DOMAIN saves \/ i \in live
        /\ \A i \in DOMAIN saves' :
             /\ saves'[i].map = MapOf(i)
             /\ \A h : h \in saves'[i].holders <=>
                  \/ i \in DOMAIN saves /\ h \in saves[i].holders
                  \/ i \in live /\ h = p
    <2>1. /\ DOMAIN loaded = DOMAIN saves \cup live
          /\ \A i \in DOMAIN loaded :
               /\ loaded[i].map = MapOf(i)
               /\ loaded[i].holders = IF i \in DOMAIN saves THEN saves[i].holders ELSE {}
      OBVIOUS
    <2>2. \A i \in DOMAIN loaded : loaded[i] \in Save
      BY <1>2, <1>4 DEF Save
    <2> HIDE DEF loaded, live, MapOf, mine
    <2>3. DOMAIN saves' = DOMAIN loaded
      BY <1>1
    <2>4. ASSUME NEW i \in DOMAIN loaded
          PROVE  /\ saves'[i].map = MapOf(i)
                 /\ \A h : h \in saves'[i].holders <=>
                      \/ i \in DOMAIN saves /\ h \in saves[i].holders
                      \/ i \in live /\ h = p
      <3>1. saves'[i] = IF i \in live THEN [loaded[i] EXCEPT !.holders = @ \cup {p}] ELSE loaded[i]
        BY <1>1
      <3>2. /\ saves'[i].map = loaded[i].map
            /\ saves'[i].holders = IF i \in live THEN loaded[i].holders \cup {p} ELSE loaded[i].holders
        BY <2>2, <3>1 DEF Save
      <3>3. i \in DOMAIN saves \/ i \in live
        BY <2>1
      <3> QED BY <2>1, <3>2, <3>3
    <2> QED BY <2>1, <2>3, <2>4
  <1>7. \A i \in live : MapOf(i) = rows[i].map
    BY <1>4 DEF BindsInv, SavesMatchRows
  <1>8. /\ \A h \in Holders \ {p} : binds'[h] = binds[h]
        /\ p \in Holders => \A d \in Dungeons : LET mapped == {i \in live : rows[i].map = d}
             IN  /\ mapped = {} => binds'[p][d] = 0
                 /\ \A i \in mapped : binds'[p][d] = i
    <2>1. \A h \in Holders \ {p} : binds'[h] = binds[h]
      BY <1>1, <1>2
    <2>2. ASSUME p \in Holders, NEW d \in Dungeons
          PROVE  LET mapped == {i \in live : rows[i].map = d}
                 IN  /\ mapped = {} => binds'[p][d] = 0
                     /\ \A i \in mapped : binds'[p][d] = i
      <3> DEFINE mapped == {i \in live : rows[i].map = d}
      <3>1. binds'[p][d] = Largest({i \in live : loaded[i].map = d})
        BY <1>1, <1>2, <2>2
      <3>2. {i \in live : loaded[i].map = d} = mapped
        BY <1>7
      <3>3. mapped \in SUBSET Ids
        BY <1>3
      <3>4. \A i, j \in mapped : i = j
        BY <1>3, <2>2 DEF BindsInv, OneInstancePerMap
      <3> HIDE DEF mapped
      <3>5. /\ mapped = {} => Largest(mapped) = 0
            /\ \A i \in mapped : mapped \subseteq {i} => Largest(mapped) = i
        BY <3>3, LargestId
      <3>6. binds'[p][d] = Largest(mapped)
        BY <3>1, <3>2
      <3>7. (mapped = {} => binds'[p][d] = 0) /\ \A i \in mapped : binds'[p][d] = i
        BY <3>4, <3>5, <3>6
      <3> QED BY <3>7 DEF mapped
    <2> QED BY <2>1, <2>2
  <1> HIDE DEF mine, live, loaded
  <1>9. Offline # Outside /\ ~(p \in Groups) /\ (p \in Holders => ~Loaded(p))
    BY <1>1, LifecycleAssumption DEF Offline, Outside, Loaded
  <1>10. \A h \in Holders \ {p} : Loaded(h)' <=> Loaded(h)
    BY <1>1, <1>2, LifecycleAssumption DEF Loaded, Holders
  <1>11. p \in Holders => \A i \in DOMAIN saves : p \notin saves[i].holders
    <2> SUFFICES ASSUME p \in Holders, NEW i \in DOMAIN saves, p \in saves[i].holders
                 PROVE  FALSE
      OBVIOUS
    <2>1. binds[p][saves[i].map] = i /\ saves[i].map \in Dungeons /\ i # 0
      BY <1>2 DEF BindsInv, BindsMatchSaves, Save, Ids
    <2> QED BY <1>9, <2>1 DEF BindsInv, UnloadedHaveNone
  <1>12. BindsMatchSaves'
    <2>1. ASSUME NEW h \in Holders, NEW d \in Dungeons, binds'[h][d] # 0
          PROVE  /\ binds'[h][d] \in DOMAIN saves'
                 /\ saves'[binds'[h][d]].map = d
                 /\ h \in saves'[binds'[h][d]].holders
      <3>1. CASE h # p
        <4>1. /\ binds[h][d] \in DOMAIN saves /\ saves[binds[h][d]].map = d
              /\ h \in saves[binds[h][d]].holders /\ binds'[h][d] = binds[h][d]
          BY <1>8, <2>1, <3>1 DEF BindsInv, BindsMatchSaves
        <4> QED BY <1>6, <4>1
      <3>2. CASE h = p
        <4>1. PICK i \in live : rows[i].map = d /\ binds'[p][d] = i
          BY <1>8, <2>1, <3>2
        <4> QED BY <1>6, <1>7, <3>2, <4>1
      <3> QED BY <3>1, <3>2
    <2>2. ASSUME NEW i \in DOMAIN saves', NEW h \in saves'[i].holders
          PROVE  binds'[h][saves'[i].map] = i
      <3>1. CASE h # p
        <4>1. i \in DOMAIN saves /\ h \in saves[i].holders
          BY <1>6, <2>2, <3>1
        <4>2. h \in Holders /\ binds[h][saves[i].map] = i
          BY <1>2, <4>1 DEF BindsInv, BindsMatchSaves, Save
        <4> QED BY <1>6, <1>8, <3>1, <4>1, <4>2
      <3>2. CASE h = p
        <4>1. i \in live
          <5>1. i \in DOMAIN saves => saves[i].holders \subseteq Holders
            BY <1>2 DEF Save
          <5> QED BY <1>6, <1>11, <2>2, <3>2, <5>1
        <4>2. p \in Holders /\ rows[i].map \in Dungeons
          BY <1>2, <1>3, <1>4, <4>1
        <4>3. binds'[p][rows[i].map] = i
          BY <1>8, <4>1, <4>2
        <4> QED BY <1>6, <1>7, <2>2, <3>2, <4>1, <4>3
      <3> QED BY <3>1, <3>2
    <2> QED BY <2>1, <2>2 DEF BindsMatchSaves
  <1>13. BindsArePersistent'
    <2> SUFFICES ASSUME NEW h \in Holders, NEW d \in Dungeons, binds'[h][d] # 0
                 PROVE  <<h, binds'[h][d]>> \in dbBinds /\ binds'[h][d] \in DOMAIN rows
      BY <1>1, <1>5 DEF BindsArePersistent
    <2>1. CASE h # p
      BY <1>8, <2>1 DEF BindsInv, BindsArePersistent
    <2>2. CASE h = p
      <3>1. PICK i \in live : rows[i].map = d /\ binds'[p][d] = i
        BY <1>8, <2>2
      <3> QED BY <1>3, <1>4, <2>2, <3>1 DEF Stored
    <2> QED BY <2>1, <2>2
  <1>14. OneInstancePerMap' /\ OneHolder'
    BY <1>1, <1>5 DEF BindsInv, OneInstancePerMap, OneHolder, Stored
  <1>15. StoredBindsLoaded'
    <2> SUFFICES ASSUME NEW h \in Holders, NEW i \in Ids, Stored(h, i)
                 PROVE  i \in DOMAIN rows /\ (Loaded(h)' => binds'[h][rows[i].map] = i)
      BY <1>1, <1>5 DEF StoredBindsLoaded, Stored
    <2>1. i \in DOMAIN rows /\ rows[i].map \in Dungeons /\ (Loaded(h) => binds[h][rows[i].map] = i)
      BY <1>2 DEF BindsInv, StoredBindsLoaded
    <2>2. CASE h # p
      BY <1>8, <1>10, <2>1, <2>2
    <2>3. CASE h = p
      BY <1>3, <1>8, <2>1, <2>3
    <2> QED BY <2>2, <2>3
  <1>16. UnloadedHaveNone'
    <2>1. p \in Holders => Loaded(p)'
      BY <1>1, <1>2, <1>9 DEF Loaded
    <2> QED BY <1>8, <1>10, <2>1 DEF BindsInv, UnloadedHaveNone
  <1>17. SavesMatchRows' /\ RecordsTaken'
    BY <1>1, <1>4, <1>6 DEF BindsInv, SavesMatchRows, RecordsTaken, idVars
  <1> QED BY <1>12, <1>13, <1>14, <1>15, <1>16, <1>17 DEF BindsInv

\* Release and Drop, element by element.
LEMMA ReleasedSaves ==
  ASSUME NEW S, SavesTyped(S), NEW h, NEW ids, NEW gone,
         NEW R, R = Release(S, h, ids), NEW T, T = Drop(R, gone)
  PROVE  /\ \A i : i \in DOMAIN T <=> i \in DOMAIN S /\ i \notin gone
         /\ \A i \in DOMAIN S : \A g :
              g \in R[i].holders <=> g \in S[i].holders /\ (i \in ids => g # h)
         /\ \A i \in DOMAIN T : T[i] = R[i] /\ R[i].map = S[i].map
  <1>1. /\ DOMAIN R = DOMAIN S
        /\ \A i \in DOMAIN S :
             /\ R[i].map = S[i].map
             /\ R[i].holders = IF i \in ids THEN S[i].holders \ {h} ELSE S[i].holders
    BY DEF Release, SavesTyped, Save
  <1> QED BY <1>1 DEF Drop

LEMMA BindsLogout ==
  ASSUME TypeInv, BindsInv, NEW p \in Players, Logout(p)
  PROVE  BindsInv'
  <1> DEFINE mine == IF p \in Holders THEN {binds[p][d] : d \in Dungeons} ELSE {}
             S1 == Release(saves, p, mine)
  <1>1. /\ loc' = [loc EXCEPT ![p] = Offline]
        /\ binds' = IF p \in Holders THEN [binds EXCEPT ![p] = NoBinds] ELSE binds
        /\ UNCHANGED <<idVars, dbBinds>>
    BY LogoutUnfolded
  <1>2. /\ binds \in [Holders -> [Dungeons -> Ids \cup {0}]]
        /\ loc \in [Players -> {Offline, Outside} \cup Keys]
        /\ SavesTyped(saves) /\ RowsTyped(rows)
    BY DEF TypeInv, TypeOK, SavesTyped, RowsTyped
  <1>3. PICK gone1, gone2, P, S2 :
          /\ gone1 \subseteq DOMAIN S1 /\ gone2 \subseteq DOMAIN S1
          /\ S2 = Drop(S1, gone1)
          /\ \A id \in gone1 \cup gone2 : S1[id].holders = {}
          /\ saves' = Drop(S2, gone2)
          /\ rows' = WriteResetTimes(rows, S1, gone1 \cup gone2)
          /\ events' = IF loc[p] \in DOMAIN instances
                       THEN SetResetSchedule(TRUE, loc[p], P, S2, events) ELSE events
    BY LogoutUnfolded
  <1>4. DOMAIN rows' = DOMAIN rows /\ \A i \in DOMAIN rows : rows'[i].map = rows[i].map
    BY <1>2, <1>3 DEF WriteResetTimes, RowsTyped
  <1>5. /\ \A i : i \in DOMAIN saves' <=> i \in DOMAIN saves /\ i \notin gone1 \cup gone2
        /\ \A i \in DOMAIN saves' : saves'[i].map = saves[i].map
        /\ \A i \in DOMAIN saves' : \A g :
             g \in saves'[i].holders <=> g \in saves[i].holders /\ (i \in mine => g # p)
        /\ \A i \in DOMAIN saves \ DOMAIN saves' : \A g \in saves[i].holders : i \in mine /\ g = p
    <2> HIDE DEF mine
    <2>4. S1 = Release(saves, p, mine) /\ S2 = Drop(S1, gone1) /\ saves' = Drop(S2, gone2)
      BY <1>3
    <2>5. \A i \in gone1 \cup gone2 : S1[i].holders = {}
      BY <1>3
    <2> HIDE DEF S1
    <2>1. /\ \A i : i \in DOMAIN S2 <=> i \in DOMAIN saves /\ i \notin gone1
          /\ \A i \in DOMAIN saves : \A g :
               g \in S1[i].holders <=> g \in saves[i].holders /\ (i \in mine => g # p)
          /\ \A i \in DOMAIN S2 : S2[i] = S1[i] /\ S1[i].map = saves[i].map
      BY <1>2, <2>4, ReleasedSaves
    <2>2. /\ \A i : i \in DOMAIN saves' <=> i \in DOMAIN S2 /\ i \notin gone2
          /\ \A i \in DOMAIN saves' : saves'[i] = S2[i]
      BY <2>4 DEF Drop
    <2> QED BY <2>1, <2>2, <2>5
  <1> HIDE DEF S1
  <1>6. /\ p \notin Holders => mine = {}
        /\ p \in Holders => \A i \in DOMAIN saves : p \in saves[i].holders => i \in mine
    BY <1>2 DEF BindsInv, BindsMatchSaves, SavesTyped, Save
  <1>7. /\ \A h \in Holders \ {p} : binds'[h] = binds[h]
        /\ p \in Holders => \A d \in Dungeons : binds'[p][d] = 0
    BY <1>1, <1>2 DEF NoBinds
  <1> HIDE DEF mine
  <1>12. \A i \in DOMAIN saves : \A h \in saves[i].holders :
           h # p => i \in DOMAIN saves' /\ h \in saves'[i].holders
    BY <1>5
  <1>8. BindsMatchSaves'
    <2>1. ASSUME NEW h \in Holders, NEW d \in Dungeons, binds'[h][d] # 0
          PROVE  /\ binds'[h][d] \in DOMAIN saves'
                 /\ saves'[binds'[h][d]].map = d
                 /\ h \in saves'[binds'[h][d]].holders
      <3>1. h # p /\ binds'[h][d] = binds[h][d]
        BY <1>7, <2>1
      <3>2. /\ binds[h][d] \in DOMAIN saves /\ saves[binds[h][d]].map = d
            /\ h \in saves[binds[h][d]].holders
        BY <2>1, <3>1 DEF BindsInv, BindsMatchSaves
      <3> QED BY <1>5, <1>12, <3>1, <3>2
    <2>2. ASSUME NEW i \in DOMAIN saves', NEW h \in saves'[i].holders
          PROVE  binds'[h][saves'[i].map] = i
      <3>1. i \in DOMAIN saves /\ h \in saves[i].holders /\ saves'[i].map = saves[i].map
        BY <1>5, <2>2
      <3>2. h \in Holders
        BY <1>2, <3>1 DEF SavesTyped, Save
      <3>3. h # p
        BY <1>5, <1>6, <2>2, <3>1, <3>2
      <3> QED BY <1>7, <3>1, <3>2, <3>3 DEF BindsInv, BindsMatchSaves
    <2> QED BY <2>1, <2>2 DEF BindsMatchSaves
  <1>9. BindsArePersistent' /\ OneInstancePerMap' /\ OneHolder'
    <2>1. BindsArePersistent'
      BY <1>1, <1>4, <1>7 DEF BindsInv, BindsArePersistent
    <2>2. OneInstancePerMap'
      <3>1. \A h \in Holders : \A i \in Ids : Stored(h, i) => i \in DOMAIN rows
        BY DEF BindsInv, StoredBindsLoaded
      <3> QED BY <1>1, <1>4, <3>1 DEF BindsInv, OneInstancePerMap, Stored
    <2>3. OneHolder'
      BY <1>1 DEF BindsInv, OneHolder, Stored
    <2> QED BY <2>1, <2>2, <2>3
  <1>10. StoredBindsLoaded' /\ UnloadedHaveNone'
    <2>1. \A h \in Holders \ {p} : Loaded(h)' <=> Loaded(h)
      BY <1>1, <1>2, LifecycleAssumption DEF Loaded, Holders
    <2>2. ~Loaded(p)'
      BY <1>1, <1>2, LifecycleAssumption DEF Loaded
    <2> QED BY <1>1, <1>4, <1>7, <2>1, <2>2 DEF BindsInv, StoredBindsLoaded, UnloadedHaveNone, Stored
  <1>11. SavesMatchRows' /\ RecordsTaken'
    BY <1>1, <1>4, <1>5 DEF BindsInv, SavesMatchRows, RecordsTaken, idVars
  <1> QED BY <1>8, <1>9, <1>10, <1>11 DEF BindsInv

LEMMA BindsResetInstances ==
  ASSUME TypeInv, BindsInv, NEW h \in Holders, ResetInstances(h)
  PROVE  BindsInv'
  <1> DEFINE ids == ResetIds(h)
  <1>1. /\ rows' = Drop(rows, ids)
        /\ dbBinds' = {b \in dbBinds : b[2] \notin ids}
        /\ binds' = [binds EXCEPT ![h] =
                       [d \in Dungeons |-> IF d \in ResetDungeons(h) THEN 0 ELSE @[d]]]
        /\ UNCHANGED <<idVars, loc>>
    BY ResetInstancesUnfolded
  <1>2. PICK gone : /\ \A id \in gone : Release(saves, h, ids)[id].holders = {}
                    /\ saves' = Drop(Release(saves, h, ids), gone)
    BY ResetInstancesUnfolded
  <1>3. /\ binds \in [Holders -> [Dungeons -> Ids \cup {0}]]
        /\ SavesTyped(saves) /\ DOMAIN rows \subseteq Ids
    BY DEF TypeInv, TypeOK, SavesTyped
  <1>4. /\ \A i : i \in ids <=> \E d \in Dungeons : d \in ResetDungeons(h) /\ binds[h][d] = i
        /\ \A i \in ids : i # 0
    BY DEF ResetIds, ResetDungeons
  <1> HIDE DEF ids
  <1>5. \A g \in Holders \ {h} : \A d \in Dungeons : binds[g][d] \notin ids
    <2> SUFFICES ASSUME NEW g \in Holders, NEW d \in Dungeons, binds[g][d] \in ids
                 PROVE  g = h
      OBVIOUS
    <2>1. Stored(g, binds[g][d]) /\ Stored(h, binds[g][d]) /\ binds[g][d] \in Ids
      BY <1>3, <1>4 DEF BindsInv, BindsArePersistent, Stored
    <2> QED BY <2>1 DEF BindsInv, OneHolder
  <1>6. \A d \in Dungeons : binds[h][d] \in ids => d \in ResetDungeons(h)
    <2> SUFFICES ASSUME NEW d \in Dungeons, binds[h][d] \in ids
                 PROVE  d \in ResetDungeons(h)
      OBVIOUS
    <2>1. PICK e \in Dungeons : e \in ResetDungeons(h) /\ binds[h][e] = binds[h][d]
      BY <1>4
    <2>2. d = e
      BY <1>4, <2>1 DEF BindsInv, BindsMatchSaves
    <2> QED BY <2>1, <2>2
  <1>7. \A g \in Holders : \A d \in Dungeons :
          binds'[g][d] = IF binds[g][d] \in ids THEN 0 ELSE binds[g][d]
    BY <1>1, <1>3, <1>4, <1>5, <1>6
  <1>8. /\ \A i : i \in DOMAIN saves' <=> i \in DOMAIN saves /\ i \notin gone
        /\ \A i \in DOMAIN saves' : saves'[i].map = saves[i].map
        /\ \A i \in DOMAIN saves' : \A g :
             g \in saves'[i].holders <=> g \in saves[i].holders /\ (i \in ids => g # h)
        /\ \A i \in DOMAIN saves \ DOMAIN saves' : \A g \in saves[i].holders : i \in ids /\ g = h
    <2> DEFINE S1 == Release(saves, h, ids)
    <2>1. /\ S1 = Release(saves, h, ids) /\ saves' = Drop(S1, gone)
          /\ \A i \in gone : S1[i].holders = {}
      BY <1>2
    <2> HIDE DEF S1
    <2>2. /\ \A i : i \in DOMAIN saves' <=> i \in DOMAIN saves /\ i \notin gone
          /\ \A i \in DOMAIN saves : \A g :
               g \in S1[i].holders <=> g \in saves[i].holders /\ (i \in ids => g # h)
          /\ \A i \in DOMAIN saves' : saves'[i] = S1[i] /\ S1[i].map = saves[i].map
      BY <1>3, <2>1, ReleasedSaves
    <2> QED BY <2>1, <2>2
  <1>9. BindsMatchSaves'
    <2>1. ASSUME NEW g \in Holders, NEW d \in Dungeons, binds'[g][d] # 0
          PROVE  /\ binds'[g][d] \in DOMAIN saves'
                 /\ saves'[binds'[g][d]].map = d
                 /\ g \in saves'[binds'[g][d]].holders
      <3>1. binds[g][d] \notin ids /\ binds'[g][d] = binds[g][d]
        BY <1>7, <2>1
      <3>2. /\ binds[g][d] \in DOMAIN saves /\ saves[binds[g][d]].map = d
            /\ g \in saves[binds[g][d]].holders
        BY <2>1, <3>1 DEF BindsInv, BindsMatchSaves
      <3> QED BY <1>8, <3>1, <3>2
    <2>2. ASSUME NEW i \in DOMAIN saves', NEW g \in saves'[i].holders
          PROVE  binds'[g][saves'[i].map] = i
      <3>1. i \in DOMAIN saves /\ g \in saves[i].holders /\ saves'[i].map = saves[i].map
        BY <1>8, <2>2
      <3>2. g \in Holders /\ saves[i].map \in Dungeons /\ binds[g][saves[i].map] = i
        BY <1>3, <3>1 DEF SavesTyped, Save, BindsInv, BindsMatchSaves
      <3>3. i \notin ids
        BY <1>5, <1>8, <2>2, <3>2
      <3> QED BY <1>7, <3>1, <3>2, <3>3
    <2> QED BY <2>1, <2>2 DEF BindsMatchSaves
  <1>10. /\ \A g, i : Stored(g, i)' <=> Stored(g, i) /\ i \notin ids
         /\ \A i : i \in DOMAIN rows' <=> i \in DOMAIN rows /\ i \notin ids
         /\ \A i \in DOMAIN rows' : rows'[i] = rows[i]
    BY <1>1 DEF Stored, Drop
  <1>11. \A g, i : g \in Holders /\ i \in Ids /\ Stored(g, i) => i \in DOMAIN rows
    BY DEF BindsInv, StoredBindsLoaded
  <1>12. BindsArePersistent'
    <2> SUFFICES ASSUME NEW g \in Holders, NEW d \in Dungeons, binds'[g][d] # 0
                 PROVE  <<g, binds'[g][d]>> \in dbBinds' /\ binds'[g][d] \in DOMAIN rows'
      BY DEF BindsArePersistent
    <2>1. binds[g][d] \notin ids /\ binds'[g][d] = binds[g][d]
      BY <1>7
    <2>2. Stored(g, binds[g][d]) /\ binds[g][d] \in DOMAIN rows
      BY <2>1 DEF BindsInv, BindsArePersistent, Stored
    <2> QED BY <1>10, <2>1, <2>2 DEF Stored
  <1>13. OneInstancePerMap' /\ OneHolder'
    BY <1>10, <1>11 DEF BindsInv, OneInstancePerMap, OneHolder
  <1>14. StoredBindsLoaded' /\ UnloadedHaveNone'
    <2>1. \A g : Loaded(g)' <=> Loaded(g)
      BY <1>1 DEF Loaded
    <2>2. \A i \in DOMAIN rows : rows[i].map \in Dungeons
      BY DEF TypeInv, TypeOK
    <2> QED BY <1>7, <1>10, <2>1, <2>2 DEF BindsInv, StoredBindsLoaded, UnloadedHaveNone
  <1>15. SavesMatchRows' /\ RecordsTaken'
    BY <1>1, <1>8, <1>10 DEF BindsInv, SavesMatchRows, RecordsTaken, idVars
  <1> QED BY <1>9, <1>12, <1>13, <1>14, <1>15 DEF BindsInv

LEMMA BindsFireResets ==
  ASSUME TypeInv, BindsInv, FireResets
  PROVE  BindsInv'
  <1> DEFINE ids == DueIds
  <1>1. /\ saves' = Drop(saves, ids) /\ rows' = Drop(rows, ids)
        /\ dbBinds' = {b \in dbBinds : b[2] \notin ids}
        /\ binds' = [h \in Holders |-> [d \in Dungeons |->
                       IF binds[h][d] \in ids THEN 0 ELSE binds[h][d]]]
        /\ bits' = bits \ ids /\ loc' = loc
    BY DEF FireResets, FreeInstanceIds, Due, DueIds
  <1>2. \A i \in ids : i \in Ids /\ i # 0
    BY DEF Due, DueIds, TypeInv, TypeOK, Ids
  <1> HIDE DEF ids
  <1>3. \A h \in Holders : \A d \in Dungeons :
          binds'[h][d] = IF binds[h][d] \in ids THEN 0 ELSE binds[h][d]
    BY <1>1
  <1>4. /\ \A i : i \in DOMAIN saves' <=> i \in DOMAIN saves /\ i \notin ids
        /\ \A i \in DOMAIN saves' : saves'[i] = saves[i]
        /\ \A i : i \in DOMAIN rows' <=> i \in DOMAIN rows /\ i \notin ids
        /\ \A i \in DOMAIN rows' : rows'[i] = rows[i]
    BY <1>1 DEF Drop
  <1>5. \A h, i : Stored(h, i)' <=> Stored(h, i) /\ i \notin ids
    BY <1>1 DEF Stored
  <1>6. BindsMatchSaves'
    <2>1. ASSUME NEW h \in Holders, NEW d \in Dungeons, binds'[h][d] # 0
          PROVE  /\ binds'[h][d] \in DOMAIN saves'
                 /\ saves'[binds'[h][d]].map = d
                 /\ h \in saves'[binds'[h][d]].holders
      <3>1. binds[h][d] \notin ids /\ binds'[h][d] = binds[h][d]
        BY <1>3, <2>1
      <3>2. /\ binds[h][d] \in DOMAIN saves /\ saves[binds[h][d]].map = d
            /\ h \in saves[binds[h][d]].holders
        BY <2>1, <3>1 DEF BindsInv, BindsMatchSaves
      <3> QED BY <1>4, <3>1, <3>2
    <2>2. ASSUME NEW i \in DOMAIN saves', NEW h \in saves'[i].holders
          PROVE  binds'[h][saves'[i].map] = i
      <3>1. i \in DOMAIN saves /\ i \notin ids /\ h \in saves[i].holders /\ saves'[i].map = saves[i].map
        BY <1>4, <2>2
      <3>2. h \in Holders /\ saves[i].map \in Dungeons /\ binds[h][saves[i].map] = i
        BY <3>1 DEF TypeInv, TypeOK, Save, BindsInv, BindsMatchSaves
      <3> QED BY <1>3, <3>1, <3>2
    <2> QED BY <2>1, <2>2 DEF BindsMatchSaves
  <1>7. BindsArePersistent'
    <2> SUFFICES ASSUME NEW h \in Holders, NEW d \in Dungeons, binds'[h][d] # 0
                 PROVE  <<h, binds'[h][d]>> \in dbBinds' /\ binds'[h][d] \in DOMAIN rows'
      BY DEF BindsArePersistent
    <2>1. binds[h][d] \notin ids /\ binds'[h][d] = binds[h][d]
      BY <1>3
    <2>2. Stored(h, binds[h][d]) /\ binds[h][d] \in DOMAIN rows
      BY <2>1 DEF BindsInv, BindsArePersistent, Stored
    <2> QED BY <1>4, <1>5, <2>1, <2>2 DEF Stored
  <1>8. OneInstancePerMap' /\ OneHolder'
    <2>1. \A h \in Holders : \A i \in Ids : Stored(h, i) => i \in DOMAIN rows
      BY DEF BindsInv, StoredBindsLoaded
    <2> QED BY <1>4, <1>5, <2>1 DEF BindsInv, OneInstancePerMap, OneHolder
  <1>9. StoredBindsLoaded' /\ UnloadedHaveNone'
    <2>1. \A h : Loaded(h)' <=> Loaded(h)
      BY <1>1 DEF Loaded
    <2>2. \A i \in DOMAIN rows : rows[i].map \in Dungeons
      BY DEF TypeInv, TypeOK
    <2> QED BY <1>3, <1>4, <1>5, <2>1, <2>2 DEF BindsInv, StoredBindsLoaded, UnloadedHaveNone
  <1>10. SavesMatchRows' /\ RecordsTaken'
    BY <1>1, <1>4 DEF BindsInv, SavesMatchRows, RecordsTaken
  <1> QED BY <1>6, <1>7, <1>8, <1>9, <1>10 DEF BindsInv

LEMMA BindsArrive ==
  ASSUME TypeInv, BindsInv, NextIsLowest, IdsFit', NEW p \in Players, NEW d \in Dungeons, Arrive(p, d)
  PROVE  BindsInv'
  <1> DEFINE h == HolderOf(p)
             id == ArriveId(p, d)
             save == ArriveSave(id, d)
  <1>1. /\ CanArrive(p, d) /\ id <= MaxId
        /\ IF binds[h][d] # 0 THEN UNCHANGED idVars ELSE GenerateInstanceId
        /\ saves' = Put(saves, id, [save EXCEPT !.holders = @ \cup {h}])
        /\ binds' = [binds EXCEPT ![h][save.map] = id]
        /\ dbBinds' = dbBinds \cup {<<h, id>>}
        /\ rows' = IF ArriveCreated(id, d) = {} THEN rows
                   ELSE Put(rows, id, [map |-> d, reset |-> save.reset])
        /\ loc' = [loc EXCEPT ![p] = <<d, id>>]
    BY ArriveUnfolded
  <1>2. h \in Holders /\ id \in Ids /\ id # 0 /\ (binds[h][d] = 0 => next \in Ids)
    BY <1>1, HolderIsHolder, ArriveIdTyped DEF Ids
  <1>3. /\ binds \in [Holders -> [Dungeons -> Ids \cup {0}]]
        /\ loc \in [Players -> {Offline, Outside} \cup Keys]
        /\ \A i \in DOMAIN saves : saves[i] \in Save
        /\ DOMAIN saves \subseteq Ids /\ DOMAIN rows \subseteq Ids
        /\ \A i \in DOMAIN rows : rows[i].map \in Dungeons
        /\ leaving \subseteq {q \in Players : loc[q] \in Keys}
    BY DEF TypeInv, TypeOK
  <1>4. loc[p] # Offline /\ loc'[p] # Offline /\ Offline # Outside /\ Offline \notin Keys
    <2>1. Offline # Outside /\ Offline \notin Keys
      BY DEF Offline, Outside, Keys
    <2>2. loc[p] # Offline
      BY <1>1, <1>3, <2>1 DEF CanArrive
    <2>3. <<d, id>> \in Keys
      BY <1>2 DEF Keys
    <2>4. loc'[p] = <<d, id>>
      BY <1>1, <1>3
    <2> QED BY <2>1, <2>2, <2>3, <2>4
  <1>5. \A g \in Holders : Loaded(g)' <=> Loaded(g)
    BY <1>1, <1>3, <1>4 DEF Loaded
  <1>6. Loaded(h)
    BY <1>4, LifecycleAssumption DEF Loaded, HolderOf
  <1>7. CASE binds[h][d] # 0
    <2>1. id = binds[h][d] /\ bits' = bits
      BY <1>1, <1>7 DEF ArriveId, idVars
    <2> HIDE DEF h, id
    <2>2. /\ id \in DOMAIN saves /\ saves[id].map = d /\ h \in saves[id].holders
          /\ Stored(h, id)
      BY <1>2, <1>7, <2>1 DEF BindsInv, BindsMatchSaves, BindsArePersistent, Stored
    <2>3. save = saves[id] /\ ArriveCreated(id, d) = {}
      BY <2>2 DEF ArriveSave, ArriveCreated
    <2>4. UNCHANGED <<rows, dbBinds>>
      BY <1>1, <2>2, <2>3 DEF Stored
    <2>5. binds' = binds
      BY <1>1, <1>2, <1>3, <2>1, <2>2, <2>3
    <2>6. /\ DOMAIN saves' = DOMAIN saves
          /\ \A i \in DOMAIN saves : saves'[i].map = saves[i].map /\ saves'[i].holders = saves[i].holders
      <3>1. saves[id] \in Save
        BY <1>3, <2>2
      <3>2. /\ DOMAIN saves' = DOMAIN saves
            /\ \A i \in DOMAIN saves \ {id} : saves'[i] = saves[i]
            /\ saves'[id] = [saves[id] EXCEPT !.holders = @ \cup {h}]
        BY <1>1, <2>2, <2>3 DEF Put
      <3>3. saves'[id].map = saves[id].map /\ saves'[id].holders = saves[id].holders
        BY <2>2, <3>1, <3>2 DEF Save
      <3> QED BY <3>2, <3>3
    <2> QED BY <1>5, <2>1, <2>4, <2>5, <2>6, BindsUnaffected
  <1>8. CASE binds[h][d] = 0
    <2>1. id = next /\ next \in Ids /\ GenerateInstanceId
      BY <1>1, <1>2, <1>8 DEF ArriveId
    <2>2. id \notin bits /\ id \notin DOMAIN saves /\ id \notin DOMAIN rows
      BY <2>1 DEF NextIsLowest, BindsInv, RecordsTaken
    <2>3. bits' = bits \cup {id}
      <3>1. next' \in (next + 1)..(MaxId + 1)
        BY <2>1, GenerateTyped DEF TypeInv, TypeOK
      <3>2. next \in 1..(next' - 1)
        <4>1. next \in Nat /\ next >= 1 /\ MaxId \in Nat
          BY <2>1, IdsAssumption DEF Ids
        <4>2. next' \in Int /\ next + 1 <= next'
          BY <3>1, <4>1
        <4>3. \A m \in Nat, n \in Int : m >= 1 /\ m + 1 <= n => m \in 1..(n - 1)
          OBVIOUS
        <4> QED BY <4>1, <4>2, <4>3
      <3>3. next < size'
        BY <3>2 DEF IdsFit
      <3> QED BY <2>1, <3>3 DEF GenerateInstanceId
    <2>4. \A g \in Holders : ~Stored(g, id)
      BY <1>2, <2>2 DEF BindsInv, StoredBindsLoaded
    <2>5. /\ save = [map |-> d, reset |-> now + ResetDelay, holders |-> {}]
          /\ ArriveCreated(id, d) # {}
      BY <2>2 DEF ArriveSave, ArriveCreated
    <2> HIDE DEF h, id, save
    <2>6. /\ \A i : i \in DOMAIN saves' <=> i \in DOMAIN saves \/ i = id
          /\ \A i \in DOMAIN saves : saves'[i] = saves[i]
          /\ saves'[id].map = d /\ saves'[id].holders = {h}
      BY <1>1, <2>2, <2>5 DEF Put
    <2>7. /\ \A i : i \in DOMAIN rows' <=> i \in DOMAIN rows \/ i = id
          /\ \A i \in DOMAIN rows : rows'[i] = rows[i]
          /\ rows'[id].map = d
      BY <1>1, <2>2, <2>5 DEF Put
    <2>8. \A g \in Holders : \A e \in Dungeons :
            binds'[g][e] = IF g = h /\ e = d THEN id ELSE binds[g][e]
      BY <1>1, <1>2, <1>3, <2>5
    <2>9. \A g, i : Stored(g, i)' <=> Stored(g, i) \/ (g = h /\ i = id)
      BY <1>1 DEF Stored
    <2>10. BindsMatchSaves'
      <3>1. ASSUME NEW g \in Holders, NEW e \in Dungeons, binds'[g][e] # 0
            PROVE  /\ binds'[g][e] \in DOMAIN saves'
                   /\ saves'[binds'[g][e]].map = e
                   /\ g \in saves'[binds'[g][e]].holders
        <4>1. CASE g = h /\ e = d
          BY <2>6, <2>8, <4>1
        <4>2. CASE ~(g = h /\ e = d)
          <5>1. binds'[g][e] = binds[g][e]
            BY <2>8, <4>2
          <5>2. /\ binds[g][e] \in DOMAIN saves /\ saves[binds[g][e]].map = e
                /\ g \in saves[binds[g][e]].holders
            BY <3>1, <5>1 DEF BindsInv, BindsMatchSaves
          <5> QED BY <2>6, <5>1, <5>2
        <4> QED BY <4>1, <4>2
      <3>2. ASSUME NEW i \in DOMAIN saves', NEW g \in saves'[i].holders
            PROVE  binds'[g][saves'[i].map] = i
        <4>1. CASE i = id
          BY <1>2, <2>6, <2>8, <3>2, <4>1
        <4>2. CASE i # id
          <5>1. i \in DOMAIN saves /\ g \in saves[i].holders /\ saves'[i].map = saves[i].map
            BY <2>6, <3>2, <4>2
          <5>2. /\ g \in Holders /\ saves[i].map \in Dungeons /\ binds[g][saves[i].map] = i
                /\ i # 0
            BY <1>3, <5>1 DEF Save, BindsInv, BindsMatchSaves, Ids
          <5> QED BY <1>8, <2>8, <5>1, <5>2
        <4> QED BY <4>1, <4>2
      <3> QED BY <3>1, <3>2 DEF BindsMatchSaves
    <2>11. BindsArePersistent'
      <3> SUFFICES ASSUME NEW g \in Holders, NEW e \in Dungeons, binds'[g][e] # 0
                   PROVE  <<g, binds'[g][e]>> \in dbBinds' /\ binds'[g][e] \in DOMAIN rows'
        BY DEF BindsArePersistent
      <3>1. CASE g = h /\ e = d
        BY <2>7, <2>8, <2>9, <3>1 DEF Stored
      <3>2. CASE ~(g = h /\ e = d)
        <4>1. binds'[g][e] = binds[g][e]
          BY <2>8, <3>2
        <4>2. <<g, binds[g][e]>> \in dbBinds /\ binds[g][e] \in DOMAIN rows
          BY <4>1 DEF BindsInv, BindsArePersistent
        <4> QED BY <1>1, <2>7, <4>1, <4>2
      <3> QED BY <3>1, <3>2
    <2>12. OneInstancePerMap'
      <3> SUFFICES ASSUME NEW g \in Holders, NEW i \in Ids, NEW j \in Ids,
                          Stored(g, i)', Stored(g, j)', rows'[i].map = rows'[j].map
                   PROVE  i = j
        BY DEF OneInstancePerMap
      <3>1. \A k \in Ids : Stored(g, k) => k # id /\ k \in DOMAIN rows /\ rows'[k] = rows[k]
        BY <2>4, <2>7 DEF BindsInv, StoredBindsLoaded
      <3>2. \A k \in Ids : g = h /\ Stored(g, k) => rows[k].map # d
        BY <1>6, <1>8 DEF BindsInv, StoredBindsLoaded, Ids
      <3> QED BY <2>7, <2>9, <3>1, <3>2 DEF BindsInv, OneInstancePerMap
    <2>13. OneHolder'
      BY <2>4, <2>9 DEF BindsInv, OneHolder
    <2>14. StoredBindsLoaded'
      <3> SUFFICES ASSUME NEW g \in Holders, NEW i \in Ids, Stored(g, i)'
                   PROVE  i \in DOMAIN rows' /\ (Loaded(g)' => binds'[g][rows'[i].map] = i)
        BY DEF StoredBindsLoaded
      <3>1. CASE g = h /\ i = id
        BY <2>7, <2>8, <3>1
      <3>2. CASE ~(g = h /\ i = id)
        <4>1. /\ i \in DOMAIN rows /\ rows[i].map \in Dungeons /\ i # 0
              /\ Loaded(g) => binds[g][rows[i].map] = i
          BY <1>3, <2>9, <3>2 DEF BindsInv, StoredBindsLoaded, Ids
        <4> QED BY <1>5, <1>8, <2>7, <2>8, <4>1
      <3> QED BY <3>1, <3>2
    <2>15. UnloadedHaveNone'
      BY <1>5, <1>6, <2>8 DEF BindsInv, UnloadedHaveNone
    <2>16. SavesMatchRows' /\ RecordsTaken'
      BY <2>2, <2>3, <2>6, <2>7 DEF BindsInv, SavesMatchRows, RecordsTaken
    <2> QED BY <2>10, <2>11, <2>12, <2>13, <2>14, <2>15, <2>16 DEF BindsInv
  <1> QED BY <1>7, <1>8

LEMMA BindsRestart ==
  ASSUME TypeInv, BindsInv, IdsFit', Restart
  PROVE  BindsInv'
  <1> DEFINE Own(h, i) == <<h, i>> \in OfGroups
             OwnIds(h, d) == {i \in Kept : rows[i].map = d /\ Own(h, i)}
  <1>1. /\ dbBinds' = Bound /\ LoadInstanceIds(Kept)
        /\ saves' = [id \in {b[2] : b \in OfGroups} |->
                       [map |-> rows[id].map, reset |-> rows'[id].reset,
                        holders |-> {b[1] : b \in {c \in OfGroups : c[2] = id}}]]
        /\ binds' = [h \in Holders |-> [d \in Dungeons |-> Largest(OwnIds(h, d))]]
        /\ loc' = [p \in Players |-> Offline]
    BY RestartUnfolded
  <1>2. /\ DOMAIN rows' = Kept /\ \A i \in Kept : rows'[i].map = rows[i].map
        /\ Kept \subseteq DOMAIN rows /\ Kept \subseteq Ids
        /\ \A i \in Kept : rows[i].map \in Dungeons
        /\ dbBinds \subseteq Holders \X Ids
    BY RestartTypes DEF TypeInv, TypeOK, Kept
  <1>3. \A h, i : Stored(h, i)' => h \in Holders /\ i \in Kept /\ Stored(h, i)
    BY <1>1, <1>2 DEF Stored, Bound, Kept
  <1>4. \A h, i : Own(h, i) <=> h \in Groups /\ Stored(h, i)'
    BY <1>1 DEF OfGroups, Stored
  <1>5. \A b \in OfGroups : b = <<b[1], b[2]>>
    BY <1>2 DEF OfGroups, Bound
  <1>6. /\ \A i : i \in DOMAIN saves' <=> \E g : Own(g, i)
        /\ \A i \in DOMAIN saves' :
             saves'[i].map = rows[i].map /\ \A g : g \in saves'[i].holders <=> Own(g, i)
    <2>1. \A i : i \in DOMAIN saves' <=> \E b \in OfGroups : b[2] = i
      BY <1>1
    <2>2. \A i \in DOMAIN saves' :
            /\ saves'[i].map = rows[i].map
            /\ \A g : g \in saves'[i].holders <=> \E b \in OfGroups : b[2] = i /\ b[1] = g
      BY <1>1
    <2>3. \A g, i : Own(g, i) <=> \E b \in OfGroups : b[2] = i /\ b[1] = g
      BY <1>5
    <2>4. \A b \in OfGroups : Own(b[1], b[2])
      BY <1>5
    <2> HIDE DEF Own
    <2>5. \A i : i \in DOMAIN saves' <=> \E g : Own(g, i)
      BY <2>1, <2>3, <2>4
    <2> QED BY <2>2, <2>3, <2>5
  <1>7. \A h \in Holders : \A d \in Dungeons :
          /\ OwnIds(h, d) = {} => binds'[h][d] = 0
          /\ \A i \in OwnIds(h, d) : binds'[h][d] = i
    <2> SUFFICES ASSUME NEW h \in Holders, NEW d \in Dungeons
                 PROVE  /\ OwnIds(h, d) = {} => binds'[h][d] = 0
                        /\ \A i \in OwnIds(h, d) : binds'[h][d] = i
      OBVIOUS
    <2>1. OwnIds(h, d) \in SUBSET Ids
      BY <1>2
    <2>2. \A i, j \in OwnIds(h, d) : i = j
      <3> HIDE DEF Own
      <3> QED BY <1>2, <1>3, <1>4 DEF BindsInv, OneInstancePerMap
    <2>3. binds'[h][d] = Largest(OwnIds(h, d))
      BY <1>1
    <2> HIDE DEF OwnIds
    <2>4. /\ OwnIds(h, d) = {} => Largest(OwnIds(h, d)) = 0
          /\ \A i \in OwnIds(h, d) : OwnIds(h, d) \subseteq {i} => Largest(OwnIds(h, d)) = i
      BY <2>1, LargestId
    <2> QED BY <2>2, <2>3, <2>4
  <1> HIDE DEF Own
  <1>8. \A h \in Holders : \A d \in Dungeons :
          /\ binds'[h][d] # 0 => binds'[h][d] \in Kept /\ rows[binds'[h][d]].map = d
                                 /\ Own(h, binds'[h][d])
          /\ \A i : Own(h, i) /\ rows[i].map = d => binds'[h][d] = i
    <2>1. \A h, i : Own(h, i) => i \in Kept
      BY <1>3, <1>4
    <2> QED BY <1>7, <2>1
  <1> HIDE DEF OwnIds
  <1>9. bits' = Kept
    BY <1>1, <1>2 DEF LoadInstanceIds, IdsFit
  <1>10. BindsMatchSaves'
    <2>1. ASSUME NEW h \in Holders, NEW d \in Dungeons, binds'[h][d] # 0
          PROVE  /\ binds'[h][d] \in DOMAIN saves'
                 /\ saves'[binds'[h][d]].map = d
                 /\ h \in saves'[binds'[h][d]].holders
      BY <1>6, <1>8, <2>1
    <2>2. ASSUME NEW i \in DOMAIN saves', NEW h \in saves'[i].holders
          PROVE  binds'[h][saves'[i].map] = i
      <3>1. Own(h, i) /\ saves'[i].map = rows[i].map
        BY <1>6, <2>2
      <3>2. h \in Holders /\ i \in Kept /\ rows[i].map \in Dungeons
        BY <1>2, <1>3, <1>4, <3>1
      <3> QED BY <1>8, <3>1, <3>2
    <2> QED BY <2>1, <2>2 DEF BindsMatchSaves
  <1>11. BindsArePersistent'
    <2> SUFFICES ASSUME NEW h \in Holders, NEW d \in Dungeons, binds'[h][d] # 0
                 PROVE  <<h, binds'[h][d]>> \in dbBinds' /\ binds'[h][d] \in DOMAIN rows'
      BY DEF BindsArePersistent
    <2>1. binds'[h][d] \in Kept /\ Own(h, binds'[h][d])
      BY <1>8
    <2>2. \A i : Own(h, i) => <<h, i>> \in dbBinds'
      BY <1>1 DEF Own, OfGroups
    <2> QED BY <1>2, <2>1, <2>2
  <1>12. OneInstancePerMap' /\ OneHolder'
    BY <1>2, <1>3 DEF BindsInv, OneInstancePerMap, OneHolder
  <1>13. StoredBindsLoaded' /\ UnloadedHaveNone'
    <2>1. \A h \in Holders : Loaded(h)' <=> h \in Groups
      BY <1>1 DEF Loaded, Holders
    <2>2. StoredBindsLoaded'
      BY <1>2, <1>3, <1>4, <1>8, <2>1 DEF StoredBindsLoaded
    <2>3. UnloadedHaveNone'
      BY <1>4, <1>8, <2>1 DEF UnloadedHaveNone
    <2> QED BY <2>2, <2>3
  <1>14. SavesMatchRows' /\ RecordsTaken'
    <2>1. \A i \in DOMAIN saves' : i \in Kept
      BY <1>3, <1>4, <1>6
    <2> QED BY <1>2, <1>6, <1>9, <2>1 DEF SavesMatchRows, RecordsTaken
  <1> QED BY <1>10, <1>11, <1>12, <1>13, <1>14 DEF BindsInv

\* The next id stays the lowest free one, whatever the allocator's vector loses
\* at its end: what is handed out is below it.
LEMMA NextStep ==
  ASSUME TypeInv, NextIsLowest, IdsFit', [Next]_vars
  PROVE  NextIsLowest'
  <1>1. CASE UNCHANGED <<bits, next>>
    BY <1>1 DEF NextIsLowest
  <1>2. ASSUME next \in Ids, GenerateInstanceId
        PROVE  NextIsLowest'
    <2>1. /\ bits \subseteq Ids /\ next' \in (next + 1)..(MaxId + 1) /\ next' \notin bits
          /\ (next + 1)..(next' - 1) \subseteq bits
      BY <1>2, GenerateTyped DEF TypeInv, TypeOK
    <2>2. next \in Nat /\ next >= 1 /\ MaxId \in Nat
      BY <1>2, IdsAssumption DEF Ids
    <2>3. next' \in Int /\ next + 1 <= next'
      BY <2>1, <2>2
    <2>4. \A m \in Nat, n \in Int : m >= 1 /\ m + 1 <= n =>
            /\ m \in 1..(n - 1) /\ m # n
            /\ \A k \in 1..(n - 1) : k \in 1..(m - 1) \/ k = m \/ k \in (m + 1)..(n - 1)
      OBVIOUS
    <2>5. next \in 1..(next' - 1) /\ next # next'
      BY <2>2, <2>3, <2>4
    <2>6. next < size'
      BY <2>5 DEF IdsFit
    <2>7. bits' = bits \cup {next}
      BY <1>2, <2>6 DEF GenerateInstanceId
    <2>8. \A k \in 1..(next' - 1) : k \in 1..(next - 1) \/ k = next \/ k \in (next + 1)..(next' - 1)
      BY <2>2, <2>3, <2>4
    <2> QED BY <2>1, <2>5, <2>7, <2>8 DEF NextIsLowest
  <1>3. ASSUME NEW p \in Players, NEW d \in Dungeons, Arrive(p, d) \/ ArriveRefused(p, d)
        PROVE  NextIsLowest'
    <2>1. /\ ArriveId(p, d) <= MaxId
          /\ IF binds[HolderOf(p)][d] # 0 THEN UNCHANGED idVars ELSE GenerateInstanceId
      BY <1>3, ArriveUnfolded DEF ArriveRefused, ArriveId
    <2> QED BY <1>1, <1>2, <2>1, ArriveIdTyped DEF idVars
  <1>4. CASE FireResets
    <2>1. FreeInstanceIds(DueIds) /\ DueIds \in SUBSET Ids
      BY <1>4 DEF FireResets, Due, DueIds, TypeInv, TypeOK
    <2>2. /\ next' \in DueIds \cup {next} /\ \A k \in DueIds \cup {next} : next' <= k
          /\ bits' = bits \ DueIds
      BY <2>1, FreeTyped DEF TypeInv, TypeOK
    <2>3. next \in Nat /\ \A k \in DueIds : k \in Nat
      BY <2>1 DEF TypeInv, TypeOK, Ids
    <2>4. next' \in Nat /\ next' <= next
      BY <2>2, <2>3
    <2>5. \A m, n \in Nat : m <= n => \A k \in 1..(m - 1) : k \in 1..(n - 1) /\ ~(m <= k)
      OBVIOUS
    <2>6. \A k \in 1..(next' - 1) : k \in 1..(next - 1) /\ k \notin DueIds
      BY <2>2, <2>3, <2>4, <2>5
    <2> QED BY <2>2, <2>6 DEF NextIsLowest
  <1>5. CASE Restart
    <2>1. LoadInstanceIds(Kept) /\ Kept \in SUBSET Ids /\ DOMAIN rows' = Kept
      BY <1>5, RestartUnfolded, RestartTypes DEF TypeInv, TypeOK, Kept
    <2>2. next' \notin Kept /\ 1..(next' - 1) \subseteq Kept
      BY <2>1, LoadTyped
    <2>3. bits' = Kept
      BY <2>1 DEF LoadInstanceIds, IdsFit
    <2> QED BY <2>2, <2>3 DEF NextIsLowest
  <1> QED BY <1>1, <1>3, <1>4, <1>5
          DEF Next, vars, idVars, Login, Leave, ArriveOutside, Logout, KillCreature,
              ResetInstances, UnloadMap, Tick

LEMMA BindsStep ==
  ASSUME TypeInv, BindsInv, NextIsLowest, IdsFit', [Next]_vars
  PROVE  BindsInv'
  <1>1. CASE UNCHANGED <<saves, binds, loc, rows, dbBinds, bits>>
    <2>1. \A h : Loaded(h)' <=> Loaded(h)
      BY <1>1 DEF Loaded
    <2> QED BY <1>1, <2>1, BindsUnaffected
  <1>2. ASSUME NEW p \in Players, ArriveOutside(p)
        PROVE  BindsInv'
    <2>1. /\ p \in leaving /\ loc' = [loc EXCEPT ![p] = Outside]
          /\ UNCHANGED <<saves, binds, rows, dbBinds, bits>>
      BY <1>2 DEF ArriveOutside, idVars
    <2>2. Offline # Outside /\ Offline \notin Keys
      BY DEF Offline, Outside, Keys
    <2>3. loc \in [Players -> {Offline, Outside} \cup Keys] /\ loc[p] \in Keys
      BY <2>1 DEF TypeInv, TypeOK
    <2>4. \A h \in Holders : Loaded(h)' <=> Loaded(h)
      BY <2>1, <2>2, <2>3 DEF Loaded, Holders
    <2> QED BY <2>1, <2>4, BindsUnaffected
  <1>3. ASSUME NEW p \in Players, KillCreature(p)
        PROVE  BindsInv'
    <2> DEFINE id == loc[p][2]
               reset == now + RespawnDelay + ResetDelay
    <2>1. /\ saves' = IF id \in DOMAIN saves /\ saves[id].reset < reset
                      THEN [saves EXCEPT ![id].reset = reset] ELSE saves
          /\ UNCHANGED <<binds, loc, rows, dbBinds, bits>>
      BY <1>3 DEF KillCreature, idVars
    <2> HIDE DEF id, reset
    <2>2. /\ DOMAIN saves' = DOMAIN saves
          /\ \A i \in DOMAIN saves :
               saves'[i].map = saves[i].map /\ saves'[i].holders = saves[i].holders
      BY <2>1 DEF TypeInv, TypeOK, Save
    <2>3. \A h : Loaded(h)' <=> Loaded(h)
      BY <2>1 DEF Loaded
    <2> QED BY <2>1, <2>2, <2>3, BindsUnaffected
  <1>4. ASSUME NEW p \in Players, NEW d \in Dungeons, ArriveRefused(p, d)
        PROVE  BindsInv'
    <2>1. /\ UNCHANGED idVars \/ GenerateInstanceId
          /\ UNCHANGED <<saves, binds, loc, rows, dbBinds>>
      BY <1>4 DEF ArriveRefused
    <2>2. bits \subseteq bits'
      BY <2>1 DEF idVars, GenerateInstanceId
    <2>3. \A h : Loaded(h)' <=> Loaded(h)
      BY <2>1 DEF Loaded
    <2> QED BY <2>1, <2>2, <2>3, BindsUnaffected
  <1>5. CASE UNCHANGED vars
    BY <1>1, <1>5 DEF vars, idVars
  <1>6. ASSUME NEW p \in Players, Leave(p)
        PROVE  BindsInv'
    BY <1>1, <1>6 DEF Leave, idVars
  <1>7. ASSUME NEW key \in DOMAIN instances, UnloadMap(key)
        PROVE  BindsInv'
    BY <1>1, <1>7 DEF UnloadMap, idVars
  <1>8. CASE Tick
    BY <1>1, <1>8 DEF Tick, idVars
  <1> QED BY <1>2, <1>3, <1>4, <1>5, <1>6, <1>7, <1>8, BindsLogin, BindsLogout, BindsArrive,
             BindsResetInstances, BindsFireResets, BindsRestart
          DEF Next

LEMMA InitBinds == Init => BindsInv /\ NextIsLowest
  <1> SUFFICES ASSUME Init PROVE BindsInv /\ NextIsLowest
    OBVIOUS
  <1>1. /\ DOMAIN saves = {} /\ DOMAIN rows = {} /\ dbBinds = {} /\ bits = {} /\ next = 1
        /\ \A h \in Holders : \A d \in Dungeons : binds[h][d] = 0
    BY DEF Init, NoBinds
  <1>2. BindsInv
    BY <1>1 DEF BindsInv, BindsMatchSaves, BindsArePersistent, OneInstancePerMap, OneHolder,
                StoredBindsLoaded, UnloadedHaveNone, SavesMatchRows, RecordsTaken, Stored
  <1>3. NextIsLowest
    BY <1>1 DEF NextIsLowest
  <1> QED BY <1>2, <1>3

\* While the allocator's vector is long enough, binds, saves, rows and ids agree.
LEMMA BindsAlwaysAgree == Spec /\ []IdsFit => [](BindsInv /\ NextIsLowest)
  <1> DEFINE Inv == TypeInv /\ BindsInv /\ NextIsLowest
  <1>1. Init => Inv
    BY InitTypes, InitBinds
  <1>2. Inv /\ IdsFit' /\ [Next]_vars => Inv'
    BY TypesStep, BindsStep, NextStep
  <1>3. Inv => BindsInv /\ NextIsLowest
    OBVIOUS
  <1> HIDE DEF Inv
  <1> QED BY <1>1, <1>2, <1>3, PTL DEF Spec

\* A bind and its save point at each other, whichever of logout, reset by the
\* owner, scheduled reset or restart deletes one of them first, for any number
\* of players, groups and dungeons, while no bit of the allocator is lost.
THEOREM BindsMatch == Spec /\ []IdsFit => []BindsMatchSaves
  <1>1. BindsInv => BindsMatchSaves
    BY DEF BindsInv
  <1> QED BY <1>1, BindsAlwaysAgree, PTL

\* An online holder's bind and its instance are stored, so a restart keeps them,
\* while no bit of the allocator is lost.
THEOREM BindsPersist == Spec /\ []IdsFit => []BindsArePersistent
  <1>1. BindsInv => BindsArePersistent
    BY DEF BindsInv
  <1> QED BY <1>1, BindsAlwaysAgree, PTL

\* The id of a save or of a stored instance is never handed out again, and the
\* next one handed out is the lowest free id, while no bit is lost.
THEOREM RecordedIdsTaken == Spec /\ []IdsFit => []RecordedIdsAreTaken
  <1>1. BindsInv /\ NextIsLowest => RecordedIdsAreTaken
    BY DEF BindsInv, RecordsTaken, NextIsLowest, RecordedIdsAreTaken
  <1> QED BY <1>1, BindsAlwaysAgree, PTL

-----------------------------------------------------------------------------
(* With fewer ids than the first chunk of the vector no bit is lost.       *)

\* The vector is empty as long as no id was handed out, then a chunk at least.
SizeInv ==
  /\ size \in Nat
  /\ \/ size = 0 /\ capacity = 0 /\ next = 1 /\ DOMAIN rows = {}
     \/ Chunk <= size

LEMMA SmallIdsFit ==
  ASSUME MaxId < Chunk, TypeInv, SizeInv
  PROVE  IdsFit
  <1>1. /\ next \in 1..(MaxId + 1) /\ DOMAIN rows \subseteq 1..MaxId
        /\ MaxId \in Nat /\ Chunk \in Nat
    BY IdsAssumption DEF TypeInv, TypeOK, Ids
  <1>2. CASE next = 1 /\ DOMAIN rows = {}
    BY <1>2 DEF IdsFit
  <1>3. CASE Chunk <= size
    <2>1. \A id \in 1..(next - 1) \cup DOMAIN rows : id \in Nat /\ id <= MaxId
      BY <1>1
    <2> QED BY <1>1, <1>3, <2>1 DEF IdsFit, SizeInv
  <1> QED BY <1>2, <1>3 DEF SizeInv

\* The first chunk holds every id below its size.
LEMMA FirstChunk ==
  ASSUME NEW id \in Nat, 1 <= id, id < Chunk
  PROVE  SizeFor(id) = Chunk
  <1>1. Chunk \in Nat /\ Chunk > 0
    BY IdsAssumption
  <1>2. id \div Chunk = 0 /\ id % Chunk = id
    BY <1>1
  <1> QED BY <1>1, <1>2 DEF SizeFor

LEMMA SizeStep ==
  ASSUME MaxId < Chunk, TypeInv, BindsInv, SizeInv, [Next]_vars
  PROVE  SizeInv'
  <1>1. /\ next \in 1..(MaxId + 1) /\ MaxId \in Nat /\ Chunk \in Nat /\ Chunk > 0
        /\ \A id \in Ids : id \in Nat /\ 1 <= id /\ id <= MaxId
    BY IdsAssumption DEF TypeInv, TypeOK, Ids
  <1>2. CASE UNCHANGED idVars /\ DOMAIN rows' \subseteq DOMAIN rows
    BY <1>2 DEF SizeInv, idVars
  <1>3. ASSUME next \in Ids, GenerateInstanceId
        PROVE  SizeInv'
    <2>1. next \in Nat /\ next < Chunk /\ SizeFor(next) = Chunk
      BY <1>1, <1>3, FirstChunk
    <2>2. size' = IF next < size THEN size ELSE IF size < capacity THEN capacity ELSE SizeFor(next)
      BY <1>3 DEF GenerateInstanceId
    <2>3. CASE size = 0 /\ capacity = 0
      BY <1>1, <2>1, <2>2, <2>3 DEF SizeInv
    <2>4. CASE Chunk <= size
      <3>1. size' = size
        BY <1>1, <2>1, <2>2, <2>4 DEF SizeInv
      <3> QED BY <2>4, <3>1 DEF SizeInv
    <2> QED BY <2>3, <2>4 DEF SizeInv
  <1>4. ASSUME NEW p \in Players, NEW d \in Dungeons, Arrive(p, d)
        PROVE  SizeInv'
    <2>1. /\ ArriveId(p, d) <= MaxId
          /\ IF binds[HolderOf(p)][d] # 0 THEN UNCHANGED idVars ELSE GenerateInstanceId
          /\ ArriveCreated(ArriveId(p, d), d) = {} => rows' = rows
      BY <1>4, ArriveUnfolded
    <2>2. CASE binds[HolderOf(p)][d] # 0
      <3>1. ArriveId(p, d) \in DOMAIN saves
        BY <2>2, HolderIsHolder DEF ArriveId, BindsInv, BindsMatchSaves
      <3>2. ArriveCreated(ArriveId(p, d), d) = {}
        BY <3>1 DEF ArriveCreated
      <3> QED BY <1>2, <2>1, <2>2, <3>2
    <2> QED BY <1>3, <2>1, <2>2, ArriveIdTyped
  <1>5. ASSUME NEW p \in Players, NEW d \in Dungeons, ArriveRefused(p, d)
        PROVE  SizeInv'
    <2>1. /\ ArriveId(p, d) <= MaxId /\ rows' = rows
          /\ IF binds[HolderOf(p)][d] # 0 THEN UNCHANGED idVars ELSE GenerateInstanceId
      BY <1>5 DEF ArriveRefused, ArriveId
    <2> QED BY <1>2, <1>3, <2>1, ArriveIdTyped
  <1>6. CASE FireResets
    <2>1. FreeInstanceIds(DueIds) /\ DueIds \in SUBSET Ids /\ rows' = Drop(rows, DueIds)
      BY <1>6 DEF FireResets, Due, DueIds, TypeInv, TypeOK
    <2>2. /\ next' \in DueIds \cup {next} /\ next' <= next
          /\ UNCHANGED <<size, capacity>>
      BY <2>1, FreeTyped DEF TypeInv, TypeOK, FreeInstanceIds
    <2>3. DOMAIN rows' \subseteq DOMAIN rows
      BY <2>1 DEF Drop
    <2>4. next = 1 => next' = 1
      BY <1>1, <2>1, <2>2
    <2> QED BY <2>2, <2>3, <2>4 DEF SizeInv
  <1>7. CASE Restart
    <2>1. LoadInstanceIds(Kept) /\ Kept \in SUBSET Ids /\ DOMAIN rows' = Kept
      BY <1>7, RestartUnfolded, RestartTypes DEF TypeInv, TypeOK, Kept
    <2>2. size' = SizeFor(Largest(Kept)) /\ capacity' = GrownCapacity(0, 0, size')
      BY <2>1 DEF LoadInstanceIds
    <2>3. CASE Kept = {}
      <3>1. SizeFor(0) = 0
        <4>1. 0 \div Chunk = 0 /\ 0 % Chunk = 0
          BY <1>1
        <4> QED BY <1>1, <4>1 DEF SizeFor
      <3>2. size' = 0 /\ capacity' = 0
        BY <2>2, <2>3, <3>1 DEF Largest, GrownCapacity
      <3>3. next' = 1
        <4>1. next' \in 1..(MaxId + 1) /\ 1..(next' - 1) \subseteq {}
          BY <2>1, <2>3, LoadTyped
        <4>2. \A n \in 1..(MaxId + 1) : n # 1 => 1 \in 1..(n - 1)
          BY <1>1
        <4> QED BY <4>1, <4>2
      <3> QED BY <2>1, <2>3, <3>2, <3>3 DEF SizeInv
    <2>4. CASE Kept # {}
      <3>1. Largest(Kept) \in Ids
        BY <2>1, <2>4, LargestId
      <3>2. Largest(Kept) \in Nat /\ 1 <= Largest(Kept) /\ Largest(Kept) < Chunk
        BY <1>1, <3>1
      <3>3. size' = Chunk
        BY <2>2, <3>2, FirstChunk
      <3> QED BY <1>1, <3>3 DEF SizeInv
    <2> QED BY <2>3, <2>4
  <1>8. ASSUME NEW p \in Players, Logout(p)
        PROVE  SizeInv'
    <2>1. UNCHANGED idVars /\ \E S, ids : rows' = WriteResetTimes(rows, S, ids)
      BY <1>8 DEF Logout
    <2> QED BY <1>2, <2>1 DEF WriteResetTimes
  <1>9. ASSUME NEW h \in Holders, ResetInstances(h)
        PROVE  SizeInv'
    <2>1. UNCHANGED idVars /\ rows' = Drop(rows, ResetIds(h))
      BY <1>9, ResetInstancesUnfolded
    <2> QED BY <1>2, <2>1 DEF Drop
  <1>10. CASE UNCHANGED vars
    BY <1>2, <1>10 DEF vars
  <1> QED BY <1>2, <1>4, <1>5, <1>6, <1>7, <1>8, <1>9, <1>10
          DEF Next, Login, Leave, ArriveOutside, KillCreature, UnloadMap, Tick

\* With fewer ids than a chunk no bit is lost: the hypothesis of the theorems
\* above holds on every behaviour, so binds, saves, rows and ids always agree.
THEOREM IdsAlwaysFit ==
  ASSUME MaxId < Chunk
  PROVE  Spec => [](IdsFit /\ BindsMatchSaves /\ BindsArePersistent /\ RecordedIdsAreTaken)
  <1> DEFINE Inv == TypeInv /\ BindsInv /\ NextIsLowest /\ SizeInv
  <1>1. Init => Inv
    <2>1. Init => SizeInv
      BY DEF Init, SizeInv
    <2> QED BY <2>1, InitTypes, InitBinds
  <1>2. Inv /\ [Next]_vars => TypeInv' /\ SizeInv'
    BY TypesStep, SizeStep
  <1>3. TypeInv /\ SizeInv => IdsFit
    BY SmallIdsFit
  <1>4. Inv /\ IdsFit' /\ [Next]_vars => BindsInv' /\ NextIsLowest'
    BY BindsStep, NextStep
  <1>5. Inv => BindsMatchSaves /\ BindsArePersistent /\ RecordedIdsAreTaken
    BY DEF BindsInv, RecordsTaken, NextIsLowest, RecordedIdsAreTaken
  <1> QED BY <1>1, <1>2, <1>3, <1>4, <1>5, PTL DEF Spec
=============================================================================
