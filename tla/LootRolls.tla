------------------------------- MODULE LootRolls -------------------------------
(***************************************************************************)
(* A group that rolls for the items of the creatures it killed.  When a    *)
(* corpse is first opened, each item of quality gets a roll; the members   *)
(* nearby vote, and the roll is decided when everybody voted or when the   *)
(* corpse's timer runs out.  Meanwhile members leave, are removed, lose    *)
(* their connection and come back, strangers join, the group disbands, the *)
(* other items are looted, and the corpse may go.  The opcodes are all     *)
(* PROCESS_THREADUNSAFE (Opcodes.cpp): handlers do not overlap.            *)
(*                                                                         *)
(* Nothing keeps a player from answering a roll again, or after he passed  *)
(* on loot beforehand: such a vote replaces his former one and is counted  *)
(* on top of it.                                                           *)
(*                                                                         *)
(* One group, whose method of looting does not change, and items of        *)
(* Loot::items that one player may have.                                   *)
(***************************************************************************)
EXTENDS Naturals, FiniteSets

CONSTANTS
    Players, Nobody,
    Corpses, Items,
    CorpseOf,      \* where each item lies
    Rare,          \* the items whose quality reaches the group's threshold
    NoRoll,
    MaxChanges     \* bound: how often a player leaves, joins, logs out, logs in or votes again

Choices == {"pass", "need", "greed", "disenchant"}
Votes   == Choices \cup {"not_valid", "not_emited_yet"}
Sums    == 0 .. Cardinality(Players)
Rolls   == [vote : [Players -> Votes], playersRolling : Sums, need : Sums, greed : Sums, pass : Sums]

ASSUME Absent == Nobody \notin Players /\ NoRoll \notin Rolls
ASSUME ItemsLie == CorpseOf \in [Items -> Corpses] /\ Rare \subseteq Items
ASSUME FitsUint8 ==
    /\ IsFiniteSet(Players) /\ Cardinality(Players) < 255
    /\ IsFiniteSet(Items) /\ Cardinality(Items) < 256
ASSUME Bounds == MaxChanges \in Nat

VARIABLES
    group,      \* m_memberSlots; empty once the group is disbanded
    connected,  \* the players FindConnectedPlayer finds
    corpse,     \* "gone", "fresh" (LOOT_NONE), "open" (LOOT_CORPSE), "empty" (cleared)
    item,       \* the flags of each LootItem: "free", "blocked" or "looted"
    unlooted,   \* Loot::unlootedCount
    roll,       \* the rolls of RollId whose loot still exists
    timer,      \* the corpses whose m_groupLootTimer runs
    owner,      \* history: who was given the item
    repeated,   \* history: the items for whose roll somebody voted more than once
    changes

vars == <<group, connected, corpse, item, unlooted, roll, timer, owner, repeated, changes>>

Change == changes < MaxChanges /\ changes' = changes + 1

ItemsOf(c) == {i \in Items : CorpseOf[i] = c}
RollsOf(c) == {i \in ItemsOf(c) : roll[i] # NoRoll}

(* The sums of a roll and unlootedCount are of type uint8. *)
Less(n) == (n + 255) % 256

Init ==
    /\ group \in SUBSET Players /\ Cardinality(group) >= 2
    /\ connected = Players
    /\ corpse = [c \in Corpses |-> "gone"]
    /\ item = [i \in Items |-> "free"]
    /\ unlooted = [c \in Corpses |-> 0]
    /\ roll = [i \in Items |-> NoRoll]
    /\ timer = {}
    /\ owner = [i \in Items |-> Nobody]
    /\ repeated = {}
    /\ changes = 0

-----------------------------------------------------------------------------
(* The corpse. *)

(* The rolls of a loot that was cleared stay in RollId, but GetRoll and EndRoll pass them over. *)
Clear(c) ==
    /\ unlooted' = [unlooted EXCEPT ![c] = 0]
    /\ item'  = [i \in Items |-> IF CorpseOf[i] = c THEN "free" ELSE item[i]]
    /\ owner' = [i \in Items |-> IF CorpseOf[i] = c THEN Nobody ELSE owner[i]]
    /\ roll'  = [i \in Items |-> IF CorpseOf[i] = c THEN NoRoll ELSE roll[i]]
    /\ repeated' = repeated \ ItemsOf(c)

(* A creature dies: its loot is cleared and filled. *)
Kill(c) ==
    /\ corpse[c] = "gone"
    /\ corpse' = [corpse EXCEPT ![c] = "fresh"]
    /\ unlooted' = [unlooted EXCEPT ![c] = Cardinality(ItemsOf(c))]
    /\ UNCHANGED <<group, connected, item, roll, timer, owner, repeated, changes>>

NewRoll(near, passing) ==
    [vote |-> [p \in Players |-> IF p \in passing THEN "pass"
                                 ELSE IF p \in near THEN "not_emited_yet" ELSE "not_valid"],
     playersRolling |-> Cardinality(near), need |-> 0, greed |-> 0, pass |-> Cardinality(passing)]

(* `near' are the members close to the corpse, `passing' those who have opted out of rolls. *)
GroupLoot(c, near, passing) ==
    LET rolled == IF near = {} THEN {} ELSE ItemsOf(c) \cap Rare
    IN  /\ roll' = [i \in Items |-> IF i \in rolled THEN NewRoll(near, passing) ELSE roll[i]]
        /\ item' = [i \in Items |-> IF i \in rolled THEN "blocked" ELSE item[i]]
        /\ timer' = IF rolled = {} THEN timer ELSE timer \cup {c}

(* The group of the player who has the right to the loot rolls, if he is still in the group. *)
SendLoot(c) ==
    /\ corpse[c] = "fresh"
    /\ corpse' = [corpse EXCEPT ![c] = "open"]
    /\ \/ \E near \in SUBSET (group \cap connected) : \E passing \in SUBSET near :
            group \cap connected # {} /\ GroupLoot(c, near, passing)
       \/ connected \ group # {} /\ UNCHANGED <<roll, item, timer>>
    /\ UNCHANGED <<group, connected, unlooted, owner, repeated, changes>>

(* Mutant of StoreLootItem: `is_blocked' is not looked at. *)
StoreBlocked(i, p) ==
    /\ corpse[CorpseOf[i]] = "open" /\ p \in connected
    /\ item[i] # "looted"
    /\ item' = [item EXCEPT ![i] = "looted"]
    /\ owner' = [owner EXCEPT ![i] = p]
    /\ unlooted' = [unlooted EXCEPT ![CorpseOf[i]] = Less(@)]
    /\ UNCHANGED <<group, connected, corpse, roll, timer, repeated, changes>>

StoreLootItem(i, p) ==
    /\ corpse[CorpseOf[i]] = "open" /\ p \in connected
    /\ item[i] = "free"
    /\ item' = [item EXCEPT ![i] = "looted"]
    /\ owner' = [owner EXCEPT ![i] = p]
    /\ unlooted' = [unlooted EXCEPT ![CorpseOf[i]] = Less(@)]
    /\ UNCHANGED <<group, connected, corpse, roll, timer, repeated, changes>>

DoLootRelease(c) ==
    /\ corpse[c] = "open" /\ unlooted[c] = 0
    /\ corpse' = [corpse EXCEPT ![c] = "empty"]
    /\ Clear(c)
    /\ UNCHANGED <<group, connected, timer, changes>>

(* Scripts and summons end a creature at any time; the timer is left as it is. *)
ForcedDespawn(c) ==
    /\ corpse[c] # "gone"
    /\ corpse' = [corpse EXCEPT ![c] = "gone"]
    /\ Clear(c)
    /\ UNCHANGED <<group, connected, timer, changes>>

-----------------------------------------------------------------------------
(* The decision. *)

Voters(r, votes) == {p \in Players : r.vote[p] \in votes}
Voting(r)        == Voters(r, Votes \ {"not_valid"})

(* The highest number wins.  No number is drawn if the votes that were counted have been changed *)
(* since: `maxguid' is then the first of playerVote, which may be anybody.                       *)
Drawn(r, votes) == IF Voters(r, votes) = {} THEN Voting(r) ELSE Voters(r, votes)

Winners(r) ==
    IF r.need + r.greed = 0 \/ Voting(r) = {} THEN {Nobody}
    ELSE IF r.need > 0 THEN Drawn(r, {"need"})
    ELSE Drawn(r, {"greed", "disenchant"})

(* What is left of an item that w wins; `fits' says whether he can store it. *)
Outcome(r, w, fits) ==
    IF w = Nobody THEN IF r.need + r.greed = 0 THEN "free" ELSE "blocked"
    ELSE IF w \notin connected THEN "blocked"
    ELSE IF r.need = 0 /\ r.vote[w] = "disenchant" THEN "looted"
    ELSE IF r.need = 0 /\ r.vote[w] # "greed" THEN "blocked"
    ELSE IF fits THEN "looted" ELSE "free"

(* The rolls of `decided' end, as they are in `final'. *)
CountTheRolls(decided, final) ==
    \E won \in [decided -> Players \cup {Nobody}] :
      /\ \A i \in decided : won[i] \in Winners(final[i])
      /\ \E fitting \in SUBSET decided :
        LET result(i) == Outcome(final[i], won[i], i \in fitting)
            given == {i \in decided : result(i) = "looted"}
        IN  /\ item' = [i \in Items |-> IF i \in decided THEN result(i) ELSE item[i]]
            /\ owner' = [i \in Items |-> IF i \in given THEN won[i] ELSE owner[i]]
            /\ unlooted' = [c \in Corpses |->
                   (unlooted[c] + 256 - Cardinality(given \cap ItemsOf(c))) % 256]
            /\ roll' = [i \in Items |-> IF i \in decided THEN NoRoll ELSE final[i]]

Voted(r, p, choice) ==
    LET one(votes) == IF choice \in votes THEN 1 ELSE 0
    IN  [vote |-> [r.vote EXCEPT ![p] = choice], playersRolling |-> r.playersRolling,
         need |-> r.need + one({"need"}), greed |-> r.greed + one({"greed", "disenchant"}),
         pass |-> r.pass + one({"pass"})]

AllVoted(r) == r.pass + r.need + r.greed >= r.playersRolling

CountRollVote(i, p, choice) ==
    LET final == [roll EXCEPT ![i] = Voted(@, p, choice)]
    IN  /\ p \in group \cap connected
        /\ roll[i] # NoRoll /\ roll[i].vote[p] # "not_valid"
        /\ IF roll[i].vote[p] \in Choices
           THEN Change /\ repeated' = repeated \cup {i}
           ELSE UNCHANGED <<repeated, changes>>
        /\ IF AllVoted(final[i])
           THEN CountTheRolls({i}, final)
           ELSE roll' = final /\ UNCHANGED <<item, owner, unlooted>>
        /\ UNCHANGED <<group, connected, corpse, timer>>

(* Mutant of EndRoll: only the rolls in which somebody wants the item are decided. *)
EndWantedRolls(c) ==
    /\ corpse[c] # "gone" /\ c \in timer
    /\ CountTheRolls({i \in RollsOf(c) : roll[i].need + roll[i].greed > 0}, roll)
    /\ timer' = timer \ {c}
    /\ UNCHANGED <<group, connected, corpse, repeated, changes>>

(* Creature::Update of a corpse: EndRoll when the time is up, and later RemoveCorpse. *)
EndRoll(c) ==
    /\ corpse[c] # "gone" /\ c \in timer
    /\ CountTheRolls(IF group = {} THEN {} ELSE RollsOf(c), roll)
    /\ timer' = timer \ {c}
    /\ UNCHANGED <<group, connected, corpse, repeated, changes>>

RemoveCorpse(c) ==
    /\ corpse[c] \in {"fresh", "open", "empty"} /\ c \notin timer
    /\ corpse' = [corpse EXCEPT ![c] = "gone"]
    /\ Clear(c)
    /\ UNCHANGED <<group, connected, timer, changes>>

-----------------------------------------------------------------------------
(* The group. *)

(* Mutant of WithoutVoter: the number of players is lowered and the vote still counts. *)
WithoutVoterButVote(r, p) ==
    IF r.vote[p] = "not_valid" THEN r
    ELSE [r EXCEPT !.vote[p] = "not_valid", !.playersRolling = Less(@)]

(* Mutant of WithoutVoter: a player who had not voted is taken for one who passed. *)
WithoutVoterPassed(r, p) ==
    IF r.vote[p] = "not_valid" THEN r
    ELSE [r EXCEPT !.vote[p] = "not_valid", !.playersRolling = Less(@),
                   !.pass  = IF r.vote[p] \in {"pass", "not_emited_yet"} THEN Less(@) ELSE @,
                   !.need  = IF r.vote[p] = "need" THEN Less(@) ELSE @,
                   !.greed = IF r.vote[p] \in {"greed", "disenchant"} THEN Less(@) ELSE @]

(* RemoveMember takes the voter out of the sums.  The vote it then counts is nobody's. *)
WithoutVoter(r, p) ==
    IF r.vote[p] = "not_valid" THEN r
    ELSE [r EXCEPT !.vote[p] = "not_valid",
                   !.playersRolling = Less(@),
                   !.pass  = IF r.vote[p] = "pass" THEN Less(@) ELSE @,
                   !.need  = IF r.vote[p] = "need" THEN Less(@) ELSE @,
                   !.greed = IF r.vote[p] \in {"greed", "disenchant"} THEN Less(@) ELSE @]

Disband ==
    /\ group' = {}
    /\ roll' = [i \in Items |-> NoRoll]

(* m_memberMgr counts the members that are in the world. *)
RemoveMember(p) ==
    IF Cardinality(group) > 2 /\ Cardinality((group \cap connected) \ {p}) >= 2
    THEN /\ group' = group \ {p}
         /\ roll' = [i \in Items |-> IF roll[i] = NoRoll THEN NoRoll ELSE WithoutVoter(roll[i], p)]
    ELSE Disband

(* A member leaves, or the leader removes him, who may be offline. *)
LeaveGroup(p) ==
    /\ p \in group /\ Change
    /\ RemoveMember(p)
    /\ UNCHANGED <<connected, corpse, item, unlooted, timer, owner, repeated>>

AddMember(p) ==
    /\ group # {} /\ p \in connected \ group /\ Change
    /\ group' = group \cup {p}
    /\ UNCHANGED <<connected, corpse, item, unlooted, roll, timer, owner, repeated>>

(* A player who logs out in order leaves a party; one who was cut off, or is in a raid, does not. *)
LogoutPlayer(p) ==
    /\ p \in connected /\ Change
    /\ connected' = connected \ {p}
    /\ \/ p \in group /\ RemoveMember(p)
       \/ UNCHANGED <<group, roll>>
    /\ UNCHANGED <<corpse, item, unlooted, timer, owner, repeated>>

HandlePlayerLogin(p) ==
    /\ p \notin connected /\ Change
    /\ connected' = connected \cup {p}
    /\ UNCHANGED <<group, corpse, item, unlooted, roll, timer, owner, repeated>>

Next ==
    \/ \E c \in Corpses :
        Kill(c) \/ SendLoot(c) \/ DoLootRelease(c) \/ ForcedDespawn(c) \/ EndRoll(c) \/ RemoveCorpse(c)
    \/ \E i \in Items, p \in Players : StoreLootItem(i, p)
    \/ \E i \in Items, p \in Players, choice \in Choices : CountRollVote(i, p, choice)
    \/ \E p \in Players : LeaveGroup(p) \/ AddMember(p) \/ LogoutPlayer(p) \/ HandlePlayerLogin(p)

Spec == Init /\ [][Next]_vars

-----------------------------------------------------------------------------
(* The rolls, their sums, and the flags of the items have the shape the code gives them. *)
TypeOK ==
    /\ group \subseteq Players /\ connected \subseteq Players
    /\ corpse \in [Corpses -> {"gone", "fresh", "open", "empty"}]
    /\ item \in [Items -> {"free", "blocked", "looted"}]
    /\ unlooted \in [Corpses -> 0 .. Cardinality(Items)]
    /\ roll \in [Items -> Rolls \cup {NoRoll}]
    /\ timer \subseteq Corpses
    /\ owner \in [Items -> Players \cup {Nobody}]
    /\ repeated \subseteq Items
    /\ changes \in 0 .. MaxChanges

Left(c) == {i \in ItemsOf(c) : item[i] # "looted"}

(* Each item is handed out once, by a roll or from the corpse: a looted item has one owner, and *)
(* unlootedCount is the number of items that are left, so that isLooted() is true when nothing  *)
(* is left and not before, and a release does not clear what is still rolled for.               *)
LootAddsUp ==
    /\ \A c \in Corpses : corpse[c] \in {"fresh", "open"} =>
         unlooted[c] = Cardinality(Left(c))
    /\ \A i \in Items : (item[i] = "looted") <=> (owner[i] # Nobody)

(* Whoever leaves, is cut off or never votes: a roll under way holds its item back, and the     *)
(* timer of its corpse runs and will end it.                                                    *)
RollsHoldItems ==
    \A i \in Items : roll[i] # NoRoll =>
        item[i] = "blocked" /\ corpse[CorpseOf[i]] = "open" /\ CorpseOf[i] \in timer

(* A roll under way in a group that goes on, for a corpse that is still there, ends only when the *)
(* time of this corpse is up or as many votes were counted as there are players who may vote, and  *)
(* its item goes to nobody else than these.  As long as each of them votes once, whoever leaves or *)
(* is cut off between the votes, it ends when everybody who may vote has voted, who gets the item  *)
(* wanted it, and nobody needed it more.                                                           *)
TimeIsUp(i) == CorpseOf[i] \in timer \ timer'
Undecided(r) == Voters(r, {"not_emited_yet"})
Counted(r) == r.pass + r.need + r.greed
Entitled(r, w) ==
    \/ r.vote[w] \in {"need", "not_emited_yet"}
    \/ r.vote[w] \in {"greed", "disenchant"} /\ Voters(r, {"need"}) = {}
RollsAreFair == [][
    \A i \in Items : roll[i] # NoRoll /\ roll'[i] = NoRoll =>
        \/ group' = {} \/ corpse'[CorpseOf[i]] # "open"
        \/ /\ TimeIsUp(i) \/ Counted(roll[i]) + 1 >= Cardinality(Voting(roll[i]))
           /\ owner'[i] # Nobody => owner'[i] \in Voting(roll[i])
           /\ i \notin repeated' =>
                /\ TimeIsUp(i) \/ Cardinality(Undecided(roll[i])) <= 1
                /\ owner'[i] # Nobody => Entitled(roll[i], owner'[i])
    ]_vars
=============================================================================
