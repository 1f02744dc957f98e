------------------------------ MODULE TradeWindow ------------------------------
(***************************************************************************)
(* The trade window: two players put items and gold on a table, may cast a *)
(* spell on the item in the other's slot that is not traded, and both      *)
(* accept.  Every trade opcode is PROCESS_THREADUNSAFE (Opcodes.cpp), so   *)
(* handlers of different players do not overlap, but anything may happen   *)
(* between them: items leave or enter the bags, bind, gold is earned and   *)
(* spent, players walk away, log out and come back.  The one worker of the *)
(* database executes the saves later, in the order they were queued; one   *)
(* that fails is dropped.                                                  *)
(*                                                                         *)
(* An item does not stack and lies in a bag of its owner; `Kind' is its    *)
(* template entry, and `Limit' the template's MaxCount.  What a spell on   *)
(* the table does to its item when the trade completes is left out.        *)
(***************************************************************************)
EXTENDS Naturals, Sequences, FiniteSets

CONSTANTS
    Players, NoPlayer, NoTrade,
    Items, NoItem,
    Kind,          \* the template of each item
    Limit,         \* how many items of a template one player may have
    Capacity,      \* the room in the bags of each player
    TradedCount,   \* TRADE_SLOT_TRADED_COUNT
    Spells, NoSpell,
    MaxMoney,      \* MAX_MONEY_AMOUNT
    FirstBags, FirstMoney,   \* what the players have at first
    MaxDeals,      \* bound: no trade is started after so many were completed
    MaxPending,    \* bound: the regular save of a player comes only while fewer saves wait
    MaxEvents      \* bound on what happens to the players besides their trades

Traded    == 0 .. TradedCount - 1
NonTraded == TradedCount
Slots     == 0 .. TradedCount

ASSUME Absent == NoPlayer \notin Players /\ NoItem \notin Items /\ NoSpell \notin Spells
ASSUME Sizes ==
    /\ TradedCount \in Nat \ {0} /\ MaxMoney \in Nat \ {0}
    /\ MaxDeals \in Nat /\ MaxPending \in Nat /\ MaxEvents \in Nat
ASSUME Templates == \A i \in Items : Limit[Kind[i]] \in Nat
ASSUME Room == Capacity \in [Players -> Nat]
ASSUME FiniteItems == IsFiniteSet(Items)
\* At first an item is in one player's bags, and nobody has more of a template than he may.
ASSUME Beginning ==
    /\ FirstBags \in [Players -> SUBSET Items]
    /\ \A p, q \in Players : p # q => FirstBags[p] \cap FirstBags[q] = {}
    /\ \A p \in Players : \A i \in FirstBags[p] :
           Cardinality({j \in FirstBags[p] : Kind[j] = Kind[i]}) <= Limit[Kind[i]]
    /\ FirstMoney \in [Players -> 0 .. MaxMoney - 1]

VARIABLES
    online,    \* the players in the world
    bag,       \* the items a player finds with GetItemByGuid
    bound,     \* the items that can not be traded any more
    money,
    trade,     \* Player::m_trade
    pending,   \* the saves queued at the database, each one transaction
    saved,     \* history: the completed trades that each player's gold in the database reflects
    dropped,   \* history: the trades whose own transaction failed; it alone moves their items
    deals,     \* history: the trades each player has completed
    away,      \* history: the items the players got rid of
    events,    \* how many events of Meanwhile there were
    seen       \* history: the table as a player saw it when he accepted

vars == <<online, bag, bound, money, trade, pending, saved, dropped, deals, away, events,
          seen>>

Offers == [money : 0 .. MaxMoney, spell : Spells \cup {NoSpell}, item : [Slots -> Items \cup {NoItem}]]
TradeData == [trader : Players, accepted : BOOLEAN, offer : Offers]

ASSUME NoTradeIsNone == NoTrade \notin TradeData

EmptyOffer == [money |-> 0, spell |-> NoSpell, item |-> [s \in Slots |-> NoItem]]

Init ==
    /\ online = Players
    /\ bag = FirstBags /\ away = Items \ UNION {FirstBags[p] : p \in Players}
    /\ bound = {}
    /\ money = FirstMoney
    /\ trade = [p \in Players |-> NoTrade]
    /\ pending = <<>>
    /\ events = 0
    /\ saved = [p \in Players |-> {}] /\ deals = [p \in Players |-> {}] /\ dropped = {}
    /\ seen = [p \in Players |-> NoTrade]

Trading(p) == trade[p] # NoTrade
Accepted(t, p) == t[p] # NoTrade /\ t[p].accepted

(***************************************************************************)
(* TradeData: every change takes back the acceptance of both players.      *)
(***************************************************************************)
\* Mutant of BackToTrade: the other player's acceptance stands.
BackToTradeAlone(t, p) == [t EXCEPT ![p].accepted = FALSE]

BackToTrade(t, p) == [t EXCEPT ![p].accepted = FALSE, ![t[p].trader].accepted = FALSE]

SetSpell(t, p, spell) ==
    IF t[p].offer.spell = spell THEN t ELSE BackToTrade([t EXCEPT ![p].offer.spell = spell], p)

SetItem(t, p, slot, i) ==
    LET placed == BackToTrade([t EXCEPT ![p].offer.item[slot] = i], p)
        other  == IF slot = NonTraded THEN SetSpell(placed, t[p].trader, NoSpell) ELSE placed
    IN  IF t[p].offer.item[slot] = i THEN t ELSE SetSpell(other, p, NoSpell)

SetMoney(t, p, amount) ==
    IF t[p].offer.money = amount \/ money[p] < amount THEN t
    ELSE BackToTrade([t EXCEPT ![p].offer.money = amount], p)

\* What p sees on the table, his own side first.
Table(t, p) == <<t[p].offer, t[t[p].trader].offer>>

\* The history of acceptances, after `p' pressed accept (NoPlayer: nobody did).
Sees(p) ==
    seen' = [q \in Players |->
        IF ~Accepted(trade', q) THEN NoTrade ELSE IF q = p THEN Table(trade', q) ELSE seen[q]]

OnTable(t) == trade' = t /\ Sees(NoPlayer)

Without(t, ps) == [p \in Players |-> IF p \in ps THEN NoTrade ELSE t[p]]

\* Mutant of ItemAt: the items are remembered, not looked up.
ItemAtOnce(p, slot) == {trade[p].offer.item[slot]} \ {NoItem}

\* GetItem: an item on the table that has left the bags of its owner is not there.
ItemAt(p, slot) == {trade[p].offer.item[slot]} \cap bag[p]
Offered(p) == UNION {ItemAt(p, s) : s \in Traded}

(***************************************************************************)
(* The bags.                                                               *)
(***************************************************************************)
\* CanTakeMoreSimilarItems
CanTakeMore(items, i) ==
    Cardinality({j \in items \ {i} : Kind[j] = Kind[i]}) + 1 <= Limit[Kind[i]]

\* CanStoreItem of the at most one item in the set `some', in bags b
CanStore(b, p, some) ==
    \A i \in some : CanTakeMore(b[p], i) /\ Cardinality(b[p]) < Capacity[p]

\* Mutant of CanStoreItems: only the room is looked at.
CanStoreItemsRoom(p, inTrade, new) ==
    Cardinality(bag[p] \ inTrade) + Cardinality(new) <= Capacity[p]

\* CanStoreItems: the items in trade leave their room, but still count as similar ones.
CanStoreItems(p, inTrade, new) ==
    /\ \A i \in new : CanTakeMore(bag[p], i)
    /\ Cardinality(bag[p] \ inTrade) + Cardinality(new) <= Capacity[p]

\* A copy that StoreItem makes of an item: another one of its template, that nobody has.  An
\* instance in which copies are made must have such items.
Copy(b, i) ==
    LET unused == {c \in away : Kind[c] = Kind[i] /\ \A r \in Players : c \notin b[r]}
    IN  IF unused = {} THEN {} ELSE {CHOOSE c \in unused : TRUE}

\* What p holds again of his own items: CanStoreItem adds to the positions in `dest' and does not
\* clear it.  If a place for the other side's item is in it already, p needs one place more, and
\* his item is stored at both, the first time as a copy.
TakenBack(b, p, own, other) ==
    LET found == IF CanStore(b, p, other) THEN other ELSE {}
        fit == {i \in own : CanTakeMore(b[p], i) /\ Cardinality(b[p]) + Cardinality(found) < Capacity[p]}
    IN  fit \cup (IF found = {} THEN {} ELSE UNION {Copy(b, i) : i \in fit})

\* A pair of items goes to the other side; if one of them can not be stored, both go back.
StorePair(b, p, q, mine, his) ==
    IF CanStore(b, q, mine) /\ CanStore(b, p, his)
    THEN [b EXCEPT ![q] = @ \cup mine, ![p] = @ \cup his]
    ELSE [b EXCEPT ![p] = @ \cup TakenBack(b, p, mine, his), ![q] = @ \cup TakenBack(b, q, his, mine)]

\* Step 1 of the exchange removes the items from both bags and step 2, moveItems, stores them
\* slot by slot.
MoveItems(p, q) ==
    LET removed == [bag EXCEPT ![p] = @ \ Offered(p), ![q] = @ \ Offered(q)]
        stored[n \in 0 .. TradedCount] ==
            IF n = 0 THEN removed
            ELSE StorePair(stored[n - 1], p, q, ItemAt(p, n - 1), ItemAt(q, n - 1))
    IN  stored[TradedCount]

\* ModifyMoney by a negative and by a positive amount
Spent(m, amount) == IF m > amount THEN m - amount ELSE 0

\* Mutant of Earned: the limit itself may be reached.
EarnedAtLimit(m, amount) == IF amount > 0 /\ m <= MaxMoney - amount THEN m + amount ELSE m

Earned(m, amount) == IF amount > 0 /\ m < MaxMoney - amount THEN m + amount ELSE m

(***************************************************************************)
(* The opcodes of the trade window.                                        *)
(***************************************************************************)
\* Mutant of InitiateTrade: the other player may be trading with a third one.
InitiateWithBusy(p, q) ==
    /\ p # q /\ {p, q} \subseteq online
    /\ ~Trading(p)
    /\ Cardinality(UNION {deals[r] : r \in Players}) < MaxDeals
    /\ OnTable([trade EXCEPT
           ![p] = [trader |-> q, accepted |-> FALSE, offer |-> EmptyOffer],
           ![q] = [trader |-> p, accepted |-> FALSE, offer |-> EmptyOffer]])
    /\ UNCHANGED <<online, bag, bound, money, pending, saved, dropped, deals, away, events>>

InitiateTrade(p, q) ==
    /\ p # q /\ {p, q} \subseteq online
    /\ ~Trading(p) /\ ~Trading(q)
    /\ Cardinality(UNION {deals[r] : r \in Players}) < MaxDeals
    /\ OnTable([trade EXCEPT
           ![p] = [trader |-> q, accepted |-> FALSE, offer |-> EmptyOffer],
           ![q] = [trader |-> p, accepted |-> FALSE, offer |-> EmptyOffer]])
    /\ UNCHANGED <<online, bag, bound, money, pending, saved, dropped, deals, away, events>>

SetTradeGold(p, gold) ==
    /\ Trading(p)
    /\ OnTable(SetMoney(trade, p, gold))
    /\ UNCHANGED <<online, bag, bound, money, pending, saved, dropped, deals, away, events>>

SetTradeItem(p, slot, i) ==
    /\ Trading(p)
    /\ i \in bag[p]
    /\ slot # NonTraded => i \notin bound
    /\ \A s \in Slots : trade[p].offer.item[s] # i
    /\ OnTable(SetItem(trade, p, slot, i))
    /\ UNCHANGED <<online, bag, bound, money, pending, saved, dropped, deals, away, events>>

ClearTradeItem(p, slot) ==
    /\ Trading(p)
    /\ OnTable(SetItem(trade, p, slot, NoItem))
    /\ UNCHANGED <<online, bag, bound, money, pending, saved, dropped, deals, away, events>>

\* A spell on the item in the trader's slot that is not traded is remembered in the trade.
CastOnTradeItem(p, spell) ==
    /\ Trading(p)
    /\ trade[p].offer.spell = NoSpell
    /\ ItemAt(trade[p].trader, NonTraded) # {}
    /\ OnTable(SetSpell(trade, p, spell))
    /\ UNCHANGED <<online, bag, bound, money, pending, saved, dropped, deals, away, events>>

UnacceptTrade(p) ==
    /\ Trading(p)
    /\ OnTable([trade EXCEPT ![p].accepted = FALSE])
    /\ UNCHANGED <<online, bag, bound, money, pending, saved, dropped, deals, away, events>>

\* TradeCancel, for CMSG_CANCEL_TRADE or a taxi flight
CancelTrade(p) ==
    /\ Trading(p)
    /\ OnTable(Without(trade, {p, trade[p].trader}))
    /\ UNCHANGED <<online, bag, bound, money, pending, saved, dropped, deals, away, events>>

(***************************************************************************)
(* HandleAcceptTradeOpcode.  Its checks, in their order; the acceptance of *)
(* p is set before them.                                                   *)
(***************************************************************************)
\* The player whose acceptance the checks of distance and gold take back.
Refused(p, q, near) ==
    LET pays == trade[p].offer.money
        gets == trade[q].offer.money
    IN  IF ~near \/ money[p] < pays      THEN p
        ELSE IF money[q] < gets          THEN q
        ELSE IF money[p] + gets >= MaxMoney THEN p
        ELSE IF money[q] + pays >= MaxMoney THEN q
        ELSE NoPlayer

\* Who cast a spell in the trade of p; for some of them CheckCast succeeds now.
Casters(p) == {r \in {p, trade[p].trader} : Trading(r) /\ trade[r].offer.spell # NoSpell}

\* The player whose spell can not be cast now, mine being tried first.
SpellFails(p, q, castable) ==
    LET Fails(a, b) ==
            trade[a].offer.spell # NoSpell /\ (ItemAt(b, NonTraded) = {} \/ a \notin castable)
    IN  IF Fails(p, q) THEN p ELSE IF Fails(q, p) THEN q ELSE NoPlayer

BothCanStore(p, q) ==
    /\ CanStoreItems(q, Offered(q), Offered(p))
    /\ CanStoreItems(p, Offered(p), Offered(q))

\* Mutant of SaveTogether: each player is saved in a transaction of his own.
SaveApart(ps, done) ==
    LET first == {CHOOSE p \in ps : TRUE}
    IN  pending \o <<[p \in first |-> done[p]], [p \in ps \ first |-> done[p]]>>

\* SaveInventoryAndGoldToDB of the players `ps', in one transaction
SaveTogether(ps, done) == Append(pending, [p \in ps |-> done[p]])

Exchange(p, q) ==
    LET deal == <<{p, q}, Cardinality(UNION {deals[r] : r \in Players}) + 1>>
        pays == trade[p].offer.money
        gets == trade[q].offer.money
    IN  /\ bag' = MoveItems(p, q)
        /\ money' = [money EXCEPT ![p] = Earned(Spent(@, pays), gets),
                                  ![q] = Earned(Spent(@, gets), pays)]
        /\ OnTable(Without(trade, {p, q}))
        /\ deals' = [r \in Players |-> IF r \in {p, q} THEN deals[r] \cup {deal} ELSE deals[r]]
        /\ pending' = SaveTogether({p, q}, deals')
        /\ UNCHANGED <<online, bound, saved, dropped, away, events>>

AcceptTrade(p) ==
    /\ Trading(p)
    /\ \E near \in BOOLEAN, castable \in SUBSET Casters(p) :
       LET q == trade[p].trader
           accepted == [trade EXCEPT ![p].accepted = TRUE]
           refused == Refused(p, q, near)
           fails == SpellFails(p, q, castable)
           tradeable == (Offered(p) \cup Offered(q)) \cap bound = {}
           complete == refused = NoPlayer /\ tradeable /\ trade[q].accepted
           Leaves(t) ==
               /\ trade' = t /\ Sees(p)
               /\ UNCHANGED <<online, bag, bound, money, pending, saved, dropped, deals, away, events>>
       IN  /\ Trading(q)
           /\ \/ refused # NoPlayer /\ Leaves([accepted EXCEPT ![refused].accepted = FALSE])
              \/ refused = NoPlayer /\ ~tradeable /\ Leaves(accepted)
              \/ refused = NoPlayer /\ tradeable /\ ~trade[q].accepted /\ Leaves(accepted)
              \/ complete /\ fails # NoPlayer /\ Leaves(SetSpell(accepted, fails, NoSpell))
              \/ complete /\ fails = NoPlayer /\ ~BothCanStore(p, q) /\ Leaves(BackToTrade(accepted, p))
              \/ complete /\ fails = NoPlayer /\ BothCanStore(p, q) /\ Exchange(p, q)

(***************************************************************************)
(* What happens to the players meanwhile.                                  *)
(***************************************************************************)
Event == events < MaxEvents /\ events' = events + 1

\* An item is equipped or otherwise bound.
BindItem(i) ==
    /\ Event
    /\ i \notin bound
    /\ bound' = bound \cup {i}
    /\ UNCHANGED <<online, bag, money, trade, pending, saved, dropped, deals, away, seen>>

\* An item is sold, mailed, used up or destroyed.
LoseItem(p, i) ==
    /\ Event
    /\ p \in online /\ i \in bag[p]
    /\ bag' = [bag EXCEPT ![p] = @ \ {i}] /\ away' = away \cup {i}
    /\ UNCHANGED <<online, bound, money, trade, pending, saved, dropped, deals, seen>>

\* An item is looted, bought or taken from a mail.
ReceiveItem(p, i) ==
    /\ Event
    /\ p \in online /\ i \in away /\ CanStore(bag, p, {i})
    /\ bag' = [bag EXCEPT ![p] = @ \cup {i}] /\ away' = away \ {i}
    /\ UNCHANGED <<online, bound, money, trade, pending, saved, dropped, deals, seen>>

\* ModifyMoney for anything but a trade
EarnOrSpend(p) ==
    /\ Event
    /\ p \in online
    /\ \E m \in {Spent(money[p], 1), Earned(money[p], 1)} : money' = [money EXCEPT ![p] = m]
    /\ UNCHANGED <<online, bag, bound, trade, pending, saved, dropped, deals, away, seen>>

\* The regular save of a player
SaveToDB(p) ==
    /\ p \in online /\ Len(pending) < MaxPending
    /\ pending' = SaveTogether({p}, deals)
    /\ UNCHANGED <<events, online, bag, bound, money, trade, saved, dropped, deals, away, seen>>

\* LogoutPlayer saves; CleanupsBeforeDelete cancels the trade.
LogoutPlayer(p) ==
    /\ Event
    /\ p \in online
    /\ online' = online \ {p}
    /\ pending' = SaveTogether({p}, deals)
    /\ OnTable(IF Trading(p) THEN Without(trade, {p, trade[p].trader}) ELSE trade)
    /\ UNCHANGED <<bag, bound, money, saved, dropped, deals, away>>

HandlePlayerLogin(p) ==
    /\ p \notin online
    /\ online' = online \cup {p}
    /\ UNCHANGED <<events, bag, bound, money, trade, pending, saved, dropped, deals, away, seen>>

\* The trades of two players that their transaction was to save on both sides and that are not
\* there yet
ExchangeIn(done) ==
    {deal \in UNION {done[p] : p \in DOMAIN done} :
        deal[1] = DOMAIN done /\ \E p \in deal[1] : deal \notin saved[p]}

\* The database worker executes the oldest transaction, or drops it after an error or after five
\* more deadlocks.
Execute ==
    /\ pending # <<>>
    /\ LET done == Head(pending)
       IN  \/ /\ saved' = [p \in Players |-> IF p \in DOMAIN done THEN done[p] ELSE saved[p]]
              /\ UNCHANGED dropped
           \/ /\ dropped' = dropped \cup ExchangeIn(done)
              /\ UNCHANGED saved
    /\ pending' = Tail(pending)
    /\ UNCHANGED <<online, bag, bound, money, trade, deals, away, events, seen>>

OnPacket(p) ==
    \/ \E q \in Players : InitiateTrade(p, q)
    \/ \E gold \in 0 .. MaxMoney : SetTradeGold(p, gold)
    \/ \E slot \in Slots, i \in Items : SetTradeItem(p, slot, i)
    \/ \E slot \in Slots : ClearTradeItem(p, slot)
    \/ \E spell \in Spells : CastOnTradeItem(p, spell)
    \/ UnacceptTrade(p)
    \/ CancelTrade(p)
    \/ AcceptTrade(p)

Meanwhile(p) ==
    \/ \E i \in Items : LoseItem(p, i) \/ ReceiveItem(p, i)
    \/ EarnOrSpend(p)
    \/ SaveToDB(p)
    \/ LogoutPlayer(p)
    \/ HandlePlayerLogin(p)

Next ==
    \/ \E p \in Players : OnPacket(p) \/ Meanwhile(p)
    \/ \E i \in Items : BindItem(i)
    \/ Execute

Spec == Init /\ [][Next]_vars

--------------------------------------------------------------------------------

\* Type correctness; the gold of a player never reaches MAX_MONEY_AMOUNT, the limit of ModifyMoney.
TypeOK ==
    /\ online \subseteq Players /\ bound \subseteq Items /\ away \subseteq Items
    /\ bag \in [Players -> SUBSET Items]
    /\ money \in [Players -> 0 .. MaxMoney - 1]
    /\ trade \in [Players -> TradeData \cup {NoTrade}]

\* An open trade has two sides: the trader is another player in the world, whose trade is with
\* this one.  The handlers follow GetTraderData() and GetTrader()->GetSession() unchecked.
TradesArePaired ==
    \A p \in Players : Trading(p) =>
        LET q == trade[p].trader
        IN  q # p /\ {p, q} \subseteq online /\ Trading(q) /\ trade[q].trader = p

\* An acceptance is for what is on the table now: no change of items, gold or spell by either
\* player leaves an older acceptance standing.
AcceptedAsSeen ==
    \A p \in Players : Accepted(trade, p) => seen[p] = Table(trade, p)

\* An item is in one player's bags or was given away outside of a trade: an exchange neither
\* duplicates an item nor drops one, also when bags are full and items have left them since they
\* were offered.  moveItems keeps it only where no template has a limit above one.
NothingLost ==
    /\ \A i \in Items : i \in away <=> \A p \in Players : i \notin bag[p]
    /\ \A p, q \in Players : p # q => bag[p] \cap bag[q] = {}

\* At each moment, and so after any crash, the database holds the trades of two players on both
\* sides or on none, whatever other saves are queued, executed or dropped around them.  Only a
\* trade whose own transaction was dropped is ever saved by halves: a later save of one of the two
\* writes his gold, and the items stay as they were before.
SavedTogether ==
    \A p \in Players : \A deal \in saved[p] \ dropped : \A q \in deal[1] : deal \in saved[q]

\* When a trade completes, the player who accepted first gets what he saw on the other side, as
\* far as the other still has it, for what he offered himself, and the gold of both adds up.
ExchangeAsAccepted ==
    [][ \A p, q \in Players :
          deals'[p] # deals[p] /\ deals'[q] # deals[q] /\ p # q /\ Accepted(trade, p) =>
            LET mine == seen[p][1]
                his  == seen[p][2]
                gives == {mine.item[s] : s \in Traded} \cap bag[p]
                takes == {his.item[s] : s \in Traded} \cap bag[q]
            IN  /\ bag'[p] = (bag[p] \ gives) \cup takes
                /\ bag'[q] = (bag[q] \ takes) \cup gives
                /\ money'[p] + mine.money = money[p] + his.money
                /\ money'[q] + his.money = money[q] + mine.money ]_vars
=============================================================================
