--------------------------- MODULE TradeWindowProofs ---------------------------
(***************************************************************************)
(* Proofs about the trade window, for any sets of players and spells and   *)
(* any finite set of items.  First the two TradeData objects of a trade,   *)
(* whatever the exchange does to the items; then the saves on their way to *)
(* the database; then the bags, which moveItems changes slot by slot.      *)
(***************************************************************************)
EXTENDS TradeWindow, FiniteSetTheorems, SequenceTheorems, WellFoundedInduction, TLAPS

\* A side of a trade; an item is in one slot of an offer at most.
Sides ==
    {d \in TradeData :
        \A s, o \in Slots : d.offer.item[s] = d.offer.item[o] => s = o \/ d.offer.item[s] = NoItem}

Tables == [Players -> Sides \cup {NoTrade}]

Paired(t, on) ==
    \A p \in Players : t[p] # NoTrade =>
        /\ t[p].trader # p /\ p \in on /\ t[p].trader \in on
        /\ t[t[p].trader] # NoTrade /\ t[t[p].trader].trader = p

IInv == trade \in Tables /\ Paired(trade, online) /\ AcceptedAsSeen

\* u is t with other acceptances or offers.
SameTraders(t, u) ==
    /\ u \in Tables
    /\ \A r \in Players : u[r] = NoTrade <=> t[r] = NoTrade
    /\ \A r \in Players : t[r] # NoTrade => u[r].trader = t[r].trader

\* u is t after a change by p, which took both acceptances back, or is t.
ChangedBy(t, u, p) ==
    /\ SameTraders(t, u)
    /\ \A r \in Players \ {p, t[p].trader} : u[r] = t[r]
    /\ u = t \/ (~u[p].accepted /\ ~u[t[p].trader].accepted)

LEMMA TradeOfPlayer ==
    ASSUME NEW t \in Tables, NEW p \in Players, t[p] # NoTrade
    PROVE  /\ t[p] \in Sides /\ t[p] \in TradeData /\ t[p].trader \in Players
           /\ t[p].accepted \in BOOLEAN /\ t[p].offer \in Offers
  BY DEF Tables, Sides, TradeData

\* A side with the same items is a side.
LEMMA SameItems ==
    ASSUME NEW c \in Sides, NEW d \in TradeData, d.offer.item = c.offer.item
    PROVE  d \in Sides
  BY DEF Sides

LEMMA NoSideIsNone == NoTrade \notin Sides
  BY NoTradeIsNone DEF Sides

LEMMA SameTradersPaired ==
    ASSUME NEW t \in Tables, NEW u, NEW on, Paired(t, on), SameTraders(t, u)
    PROVE  Paired(u, on)
  <1> SUFFICES ASSUME NEW p \in Players, u[p] # NoTrade
               PROVE  /\ u[p].trader # p /\ p \in on /\ u[p].trader \in on
                      /\ u[u[p].trader] # NoTrade /\ u[u[p].trader].trader = p
    BY DEF Paired
  <1>1. t[p] # NoTrade /\ u[p].trader = t[p].trader
    BY DEF SameTraders
  <1>2. t[p].trader \in Players
    BY <1>1, TradeOfPlayer
  <1> QED BY <1>1, <1>2 DEF Paired, SameTraders

\* The acceptances that stand after a step are those of players whose table is the same.
LEMMA TableStep ==
    ASSUME IInv, UNCHANGED online, SameTraders(trade, trade'), NEW a, Sees(a),
           \A r \in Players : Accepted(trade', r) /\ r # a =>
               /\ Accepted(trade, r)
               /\ trade'[r].offer = trade[r].offer
               /\ trade'[trade[r].trader].offer = trade[trade[r].trader].offer
    PROVE  IInv'
  <1>1. trade' \in Tables
    BY DEF SameTraders
  <1>2. Paired(trade', online)
    BY SameTradersPaired DEF IInv
  <1>3. AcceptedAsSeen'
    <2> SUFFICES ASSUME NEW r \in Players, Accepted(trade', r)
                 PROVE  seen'[r] = Table(trade', r)
      BY DEF AcceptedAsSeen
    <2>1. CASE r = a
      BY <2>1 DEF Sees
    <2>2. CASE r # a
      <3>1. seen'[r] = seen[r]
        BY <2>2 DEF Sees
      <3>2. seen[r] = Table(trade, r)
        BY <2>2 DEF IInv, AcceptedAsSeen
      <3>3. trade'[r].trader = trade[r].trader
        BY <2>2 DEF SameTraders, Accepted
      <3> QED BY <2>2, <3>1, <3>2, <3>3 DEF Table
    <2> QED BY <2>1, <2>2
  <1> QED BY <1>1, <1>2, <1>3 DEF IInv

LEMMA ChangeStep ==
    ASSUME IInv, UNCHANGED online, NEW p \in Players, trade[p] # NoTrade,
           ChangedBy(trade, trade', p), Sees(NoPlayer)
    PROVE  IInv'
  <1> DEFINE q == trade[p].trader
  <1>1. SameTraders(trade, trade')
    BY DEF ChangedBy
  <1>2. ASSUME NEW r \in Players, Accepted(trade', r)
        PROVE  /\ Accepted(trade, r)
               /\ trade'[r].offer = trade[r].offer
               /\ trade'[trade[r].trader].offer = trade[trade[r].trader].offer
    <2>1. CASE trade' = trade
      BY <2>1, <1>2
    <2>2. CASE trade' # trade
      <3>1. r \notin {p, q}
        BY <2>2, <1>2 DEF ChangedBy, Accepted
      <3>2. trade'[r] = trade[r] /\ trade[r] # NoTrade
        BY <3>1, <1>2 DEF ChangedBy, Accepted
      <3>3. trade[r].trader \in Players \ {p, q}
        BY <3>1, <3>2, TradeOfPlayer DEF IInv, Paired
      <3> QED BY <1>2, <3>2, <3>3 DEF ChangedBy, Accepted
    <2> QED BY <2>1, <2>2
  <1> QED BY <1>1, <1>2, TableStep

LEMMA BackToTradeChanges ==
    ASSUME NEW t \in Tables, NEW on, Paired(t, on), NEW p \in Players, t[p] # NoTrade,
           NEW d \in Sides, d.trader = t[p].trader
    PROVE  LET u == BackToTrade([t EXCEPT ![p] = d], p)
           IN  /\ ChangedBy(t, u, p)
               /\ ~u[p].accepted /\ ~u[t[p].trader].accepted
               /\ u[p].offer = d.offer /\ u[t[p].trader].offer = t[t[p].trader].offer
  <1> DEFINE q == t[p].trader
             s == [t EXCEPT ![p] = d]
             u == BackToTrade(s, p)
  <1>1. q \in Players \ {p} /\ t[q] \in Sides /\ t[q].trader = p
    BY TradeOfPlayer DEF Paired, Tables
  <1>2. s \in Tables /\ s[p] = d /\ s[q] = t[q] /\ s[p].trader = q
    BY <1>1 DEF Tables
  <1>3. u = [s EXCEPT ![p].accepted = FALSE, ![q].accepted = FALSE]
    BY <1>2 DEF BackToTrade
  <1>4. /\ u[p] = [d EXCEPT !.accepted = FALSE] /\ u[q] = [t[q] EXCEPT !.accepted = FALSE]
        /\ \A r \in Players \ {p, q} : u[r] = t[r]
    BY <1>1, <1>2, <1>3 DEF Tables
  <1>5. /\ [d EXCEPT !.accepted = FALSE] \in Sides
        /\ [t[q] EXCEPT !.accepted = FALSE] \in Sides
    <2>1. ASSUME NEW c \in Sides
          PROVE  [c EXCEPT !.accepted = FALSE] \in Sides
      <3>1. c \in TradeData
        BY DEF Sides
      <3>2. /\ [c EXCEPT !.accepted = FALSE] \in TradeData
            /\ [c EXCEPT !.accepted = FALSE].offer = c.offer
        BY <3>1 DEF TradeData
      <3> QED BY <3>2, SameItems
    <2> QED BY <1>1, <2>1
  <1>6. u \in Tables
    BY ZenonT(30), <1>3, <1>4, <1>5, <1>2 DEF Tables
  <1>7. u[p] # NoTrade /\ u[q] # NoTrade
    BY <1>4, <1>5, NoSideIsNone
  <1>8. ~u[p].accepted /\ ~u[q].accepted /\ u[p].trader = q /\ u[q].trader = p
        /\ u[p].offer = d.offer /\ u[q].offer = t[q].offer
    BY <1>1, <1>4 DEF TradeData, Sides
  <1>9. t[q] # NoTrade
    BY <1>1, NoSideIsNone
  <1>10. SameTraders(t, u)
    BY <1>1, <1>4, <1>6, <1>7, <1>8, <1>9 DEF SameTraders
  <1>11. ChangedBy(t, u, p)
    BY <1>4, <1>8, <1>10 DEF ChangedBy
  <1> HIDE DEF q, u
  <1> QED BY <1>8, <1>11 DEF q, u

LEMMA NoChange ==
    ASSUME NEW t \in Tables, NEW p \in Players
    PROVE  ChangedBy(t, t, p)
  BY DEF ChangedBy, SameTraders

LEMMA SetSpellChanges ==
    ASSUME NEW t \in Tables, NEW on, Paired(t, on), NEW p \in Players, t[p] # NoTrade,
           NEW spell \in Spells \cup {NoSpell}
    PROVE  /\ ChangedBy(t, SetSpell(t, p, spell), p)
           /\ t[p].offer.spell # spell =>
                ~SetSpell(t, p, spell)[p].accepted /\ ~SetSpell(t, p, spell)[t[p].trader].accepted
  <1>1. CASE t[p].offer.spell = spell
    BY <1>1, NoChange DEF SetSpell
  <1>2. CASE t[p].offer.spell # spell
    <2> DEFINE d == [t[p] EXCEPT !.offer.spell = spell]
    <2>1. d \in Sides /\ d.trader = t[p].trader
      <3>1. d \in TradeData /\ d.trader = t[p].trader /\ d.offer.item = t[p].offer.item
        BY TradeOfPlayer DEF TradeData, Offers
      <3> HIDE DEF d
      <3> QED BY <3>1, TradeOfPlayer, SameItems
    <2>2. [t EXCEPT ![p].offer.spell = spell] = [t EXCEPT ![p] = d]
      OBVIOUS
    <2>3. SetSpell(t, p, spell) = BackToTrade([t EXCEPT ![p] = d], p)
      BY <1>2, <2>2 DEF SetSpell
    <2> HIDE DEF d
    <2> QED BY <2>1, <2>3, BackToTradeChanges
  <1> QED BY <1>1, <1>2

LEMMA ChangeAgain ==
    ASSUME NEW t \in Tables, NEW on, Paired(t, on), NEW p \in Players, t[p] # NoTrade,
           NEW u, ChangedBy(t, u, p), ~u[p].accepted, ~u[t[p].trader].accepted,
           NEW r \in {p, t[p].trader}, NEW v, ChangedBy(u, v, r)
    PROVE  ChangedBy(t, v, p) /\ ~v[p].accepted /\ ~v[t[p].trader].accepted
  <1> DEFINE q == t[p].trader
  <1>1. q \in Players /\ t[q] # NoTrade /\ t[q].trader = p
    BY TradeOfPlayer DEF Paired
  <1>2. u[p].trader = q /\ u[q].trader = p
    BY <1>1 DEF ChangedBy, SameTraders
  <1>3. {r, u[r].trader} = {p, q}
    BY <1>2
  <1>4. ~v[p].accepted /\ ~v[q].accepted
    BY <1>3 DEF ChangedBy
  <1>5. \A s \in Players \ {p, q} : v[s] = t[s]
    BY <1>3 DEF ChangedBy
  <1>6. SameTraders(t, v)
    BY DEF ChangedBy, SameTraders
  <1> QED BY <1>4, <1>5, <1>6 DEF ChangedBy

LEMMA SetItemChanges ==
    ASSUME NEW t \in Tables, NEW on, Paired(t, on), NEW p \in Players, t[p] # NoTrade,
           NEW slot \in Slots, NEW i \in Items \cup {NoItem},
           i = NoItem \/ \A s \in Slots : t[p].offer.item[s] # i
    PROVE  ChangedBy(t, SetItem(t, p, slot, i), p)
  <1>1. CASE t[p].offer.item[slot] = i
    BY <1>1, NoChange DEF SetItem
  <1>2. CASE t[p].offer.item[slot] # i
    <2> DEFINE d == [t[p] EXCEPT !.offer.item[slot] = i]
               q == t[p].trader
               placed == BackToTrade([t EXCEPT ![p].offer.item[slot] = i], p)
               other == IF slot = NonTraded THEN SetSpell(placed, q, NoSpell) ELSE placed
               u == SetSpell(other, p, NoSpell)
    <2>1. d \in Sides /\ d.trader = t[p].trader
      <3>1. /\ d \in TradeData /\ d.trader = t[p].trader /\ d.offer.item[slot] = i
            /\ \A s \in Slots \ {slot} : d.offer.item[s] = t[p].offer.item[s]
        BY TradeOfPlayer DEF TradeData, Offers
      <3>2. t[p] \in Sides
        BY TradeOfPlayer
      <3> HIDE DEF d
      <3> QED BY <3>1, <3>2 DEF Sides
    <2>2. [t EXCEPT ![p].offer.item[slot] = i] = [t EXCEPT ![p] = d]
      OBVIOUS
    <2>3. ChangedBy(t, placed, p) /\ ~placed[p].accepted /\ ~placed[q].accepted
      <3> HIDE DEF d
      <3> QED BY ZenonT(30), <2>1, <2>2, BackToTradeChanges
    <2>4. q \in Players /\ t[q] # NoTrade
      BY TradeOfPlayer DEF Paired
    <2>5. placed \in Tables /\ Paired(placed, on) /\ placed[q] # NoTrade
      <3> HIDE DEF placed
      <3> QED BY <2>3, <2>4, SameTradersPaired DEF ChangedBy, SameTraders
    <2>6. ChangedBy(t, other, p) /\ ~other[p].accepted /\ ~other[q].accepted
      <3> HIDE DEF placed
      <3>1. ChangedBy(placed, SetSpell(placed, q, NoSpell), q)
        BY <2>4, <2>5, SetSpellChanges
      <3>2. CASE slot = NonTraded
        <4> DEFINE v == SetSpell(placed, q, NoSpell)
        <4>1. ChangedBy(placed, v, q)
          BY <3>1
        <4> HIDE DEF v
        <4>2. ChangedBy(t, v, p) /\ ~v[p].accepted /\ ~v[q].accepted
          BY <2>3, <4>1, ChangeAgain
        <4> QED BY <3>2, <4>2 DEF v
      <3>3. CASE slot # NonTraded
        BY <2>3, <3>3
      <3> QED BY <3>2, <3>3
    <2>7. other \in Tables /\ Paired(other, on) /\ other[p] # NoTrade
      <3> HIDE DEF other
      <3> QED BY <2>6, SameTradersPaired DEF ChangedBy, SameTraders
    <2>8. ChangedBy(t, u, p)
      <3> HIDE DEF other
      <3>1. ChangedBy(other, u, p)
        BY <2>7, SetSpellChanges
      <3> HIDE DEF u
      <3> QED BY <2>6, <3>1, ChangeAgain
    <2> QED BY <1>2, <2>8 DEF SetItem
  <1> QED BY <1>1, <1>2

LEMMA SetMoneyChanges ==
    ASSUME NEW t \in Tables, NEW on, Paired(t, on), NEW p \in Players, t[p] # NoTrade,
           NEW amount \in 0 .. MaxMoney
    PROVE  ChangedBy(t, SetMoney(t, p, amount), p)
  <1>1. CASE t[p].offer.money = amount \/ money[p] < amount
    BY <1>1, NoChange DEF SetMoney
  <1>2. CASE ~(t[p].offer.money = amount \/ money[p] < amount)
    <2> DEFINE d == [t[p] EXCEPT !.offer.money = amount]
    <2>1. d \in Sides /\ d.trader = t[p].trader
      <3>1. d \in TradeData /\ d.trader = t[p].trader /\ d.offer.item = t[p].offer.item
        BY TradeOfPlayer DEF TradeData, Offers
      <3> HIDE DEF d
      <3> QED BY <3>1, TradeOfPlayer, SameItems
    <2>2. [t EXCEPT ![p].offer.money = amount] = [t EXCEPT ![p] = d]
      OBVIOUS
    <2>3. SetMoney(t, p, amount) = BackToTrade([t EXCEPT ![p] = d], p)
      BY <1>2, <2>2 DEF SetMoney
    <2> HIDE DEF d
    <2> QED BY <2>1, <2>3, BackToTradeChanges
  <1> QED BY <1>1, <1>2

\* Both sides of a trade are closed together.
LEMMA CloseStep ==
    ASSUME IInv, NEW p \in Players, trade[p] # NoTrade,
           OnTable(Without(trade, {p, trade[p].trader})), online \ {p} \subseteq online',
           online' \subseteq online
    PROVE  IInv'
  <1> DEFINE q == trade[p].trader
  <1>1. /\ trade' = [r \in Players |-> IF r \in {p, q} THEN NoTrade ELSE trade[r]]
        /\ Sees(NoPlayer)
    BY DEF OnTable, Without
  <1>2. trade' \in Tables
    BY <1>1 DEF Tables, IInv
  <1>3. q \in Players /\ trade[q] # NoTrade /\ trade[q].trader = p
    BY TradeOfPlayer DEF IInv, Paired
  <1>4. ASSUME NEW r \in Players, trade'[r] # NoTrade
        PROVE  /\ r \notin {p, q} /\ trade'[r] = trade[r]
               /\ trade[r].trader \in Players \ {p, q}
               /\ trade'[trade[r].trader] = trade[trade[r].trader]
    <2>1. r \notin {p, q} /\ trade'[r] = trade[r]
      BY <1>1, <1>4
    <2>2. trade[r].trader \in Players \ {p, q}
      BY <2>1, <1>3, <1>4, TradeOfPlayer DEF IInv, Paired
    <2> QED BY <2>1, <2>2, <1>1
  <1>5. Paired(trade', online')
    <2> SUFFICES ASSUME NEW r \in Players, trade'[r] # NoTrade
                 PROVE  /\ trade'[r].trader # r /\ r \in online' /\ trade'[r].trader \in online'
                        /\ trade'[trade'[r].trader] # NoTrade
                        /\ trade'[trade'[r].trader].trader = r
      BY DEF Paired
    <2>1. /\ r \notin {p, q} /\ trade'[r] = trade[r]
          /\ trade[r].trader \in Players \ {p, q}
          /\ trade'[trade[r].trader] = trade[trade[r].trader]
      BY <1>4
    <2> QED BY <2>1 DEF IInv, Paired
  <1>6. AcceptedAsSeen'
    <2> SUFFICES ASSUME NEW r \in Players, Accepted(trade', r)
                 PROVE  seen'[r] = Table(trade', r)
      BY DEF AcceptedAsSeen
    <2>1. /\ r \notin {p, q} /\ trade'[r] = trade[r]
          /\ trade'[trade[r].trader] = trade[trade[r].trader]
      BY <1>4 DEF Accepted
    <2>2. seen'[r] = seen[r] \/ seen'[r] = Table(trade', r)
      BY <1>1 DEF Sees
    <2>3. seen[r] = Table(trade, r)
      BY <2>1 DEF IInv, AcceptedAsSeen, Accepted
    <2> QED BY <2>1, <2>2, <2>3 DEF Table
  <1> QED BY <1>2, <1>5, <1>6 DEF IInv

LEMMA InitiateStep ==
    ASSUME IInv, NEW p \in Players, NEW q \in Players, InitiateTrade(p, q)
    PROVE  IInv'
  <1> DEFINE New(r) == [trader |-> r, accepted |-> FALSE, offer |-> EmptyOffer]
  <1>1. /\ p # q /\ p \in online /\ q \in online /\ online' = online
        /\ trade[p] = NoTrade /\ trade[q] = NoTrade
        /\ trade' = [trade EXCEPT ![p] = New(q), ![q] = New(p)] /\ Sees(NoPlayer)
    BY DEF InitiateTrade, OnTable, Trading
  <1>2. New(p) \in Sides /\ New(q) \in Sides
    <2>1. EmptyOffer \in Offers
      BY Sizes DEF Offers, EmptyOffer
    <2>2. ASSUME NEW r \in Players, NEW o \in Offers
          PROVE  /\ [trader |-> r, accepted |-> FALSE, offer |-> o] \in TradeData
                 /\ [trader |-> r, accepted |-> FALSE, offer |-> o].offer = o
      BY DEF TradeData
    <2>3. \A s \in Slots : EmptyOffer.item[s] = NoItem
      BY DEF EmptyOffer
    <2> HIDE DEF New
    <2>4. /\ New(p) \in TradeData /\ New(p).offer = EmptyOffer
          /\ New(q) \in TradeData /\ New(q).offer = EmptyOffer
      BY <2>1, <2>2 DEF New
    <2> QED BY <2>3, <2>4 DEF Sides
  <1>3. New(p) # NoTrade /\ New(q) # NoTrade
    BY <1>2, NoSideIsNone
  <1>4. New(q).trader = q /\ New(p).trader = p /\ ~New(p).accepted /\ ~New(q).accepted
    OBVIOUS
  <1> HIDE DEF New
  <1>5. trade' \in Tables
    BY <1>1, <1>2 DEF Tables, IInv
  <1>6. trade'[p] = New(q) /\ trade'[q] = New(p)
        /\ \A r \in Players \ {p, q} : trade'[r] = trade[r]
    BY <1>1 DEF Tables, IInv
  <1>7. \A r \in Players : trade[r] # NoTrade => trade[r].trader \in Players \ {p, q}
    BY <1>1, TradeOfPlayer DEF IInv, Paired
  <1>8. Paired(trade', online')
    <2> SUFFICES ASSUME NEW r \in Players, trade'[r] # NoTrade
                 PROVE  /\ trade'[r].trader # r /\ r \in online' /\ trade'[r].trader \in online'
                        /\ trade'[trade'[r].trader] # NoTrade
                        /\ trade'[trade'[r].trader].trader = r
      BY DEF Paired
    <2>1. CASE r \in {p, q}
      BY <2>1, <1>1, <1>3, <1>4, <1>6
    <2>2. CASE r \notin {p, q}
      <3>1. trade'[r] = trade[r] /\ trade[r] # NoTrade
        BY <1>6, <2>2
      <3>2. trade[r].trader \in Players \ {p, q}
        BY <1>7, <3>1
      <3>3. /\ trade[r].trader # r /\ r \in online /\ trade[r].trader \in online
            /\ trade[trade[r].trader] # NoTrade /\ trade[trade[r].trader].trader = r
        BY <3>1 DEF IInv, Paired
      <3>4. trade'[trade[r].trader] = trade[trade[r].trader]
        BY <1>6, <3>2
      <3> QED BY <1>1, <3>1, <3>3, <3>4
    <2> QED BY <2>1, <2>2
  <1>9. AcceptedAsSeen'
    <2> SUFFICES ASSUME NEW r \in Players, Accepted(trade', r)
                 PROVE  seen'[r] = Table(trade', r)
      BY DEF AcceptedAsSeen
    <2>1. r \notin {p, q} /\ trade'[r] = trade[r]
      BY <1>4, <1>6 DEF Accepted
    <2>2. trade'[trade[r].trader] = trade[trade[r].trader]
      BY <1>6, <1>7, <2>1 DEF Accepted
    <2>3. seen'[r] = seen[r] \/ seen'[r] = Table(trade', r)
      BY <1>1 DEF Sees
    <2>4. seen[r] = Table(trade, r)
      BY <2>1 DEF IInv, AcceptedAsSeen, Accepted
    <2> QED BY <2>1, <2>2, <2>3, <2>4 DEF Table
  <1> QED BY <1>5, <1>8, <1>9 DEF IInv

LEMMA AcceptStep ==
    ASSUME IInv, NEW p \in Players, AcceptTrade(p)
    PROVE  IInv'
  <1> DEFINE q == trade[p].trader
             accepted == [trade EXCEPT ![p].accepted = TRUE]
  <1>1. /\ trade[p] \in Sides /\ trade[p] \in TradeData /\ trade[p] # NoTrade
        /\ q \in Players \ {p} /\ trade[q] \in TradeData /\ trade[q] # NoTrade
        /\ trade[q].trader = p
    BY TradeOfPlayer DEF AcceptTrade, Trading, IInv, Paired
  <1>2. /\ accepted \in Tables /\ SameTraders(trade, accepted)
        /\ \A r \in Players : trade[r] # NoTrade => accepted[r].offer = trade[r].offer
        /\ \A r \in Players \ {p} : accepted[r] = trade[r]
    <2> DEFINE d == [trade[p] EXCEPT !.accepted = TRUE]
    <2>1. d \in Sides /\ d.trader = q /\ d.offer = trade[p].offer
      <3>1. d \in TradeData /\ d.trader = q /\ d.offer = trade[p].offer
        BY <1>1 DEF TradeData
      <3> HIDE DEF d
      <3> QED BY <1>1, <3>1, SameItems
    <2>2. accepted = [trade EXCEPT ![p] = d]
      OBVIOUS
    <2> HIDE DEF d
    <2>3. accepted \in Tables /\ accepted[p] = d /\ \A r \in Players \ {p} : accepted[r] = trade[r]
      BY <2>1, <2>2 DEF Tables, IInv
    <2>4. d # NoTrade
      BY <2>1, NoSideIsNone
    <2> HIDE DEF accepted
    <2> QED BY <1>1, <2>1, <2>3, <2>4 DEF SameTraders
  <1>3. Paired(accepted, online)
    BY <1>2, SameTradersPaired DEF IInv
  <1>4. accepted[p] # NoTrade /\ accepted[p].trader = q /\ accepted[q] # NoTrade /\ accepted[q].trader = p
    BY <1>1, <1>2 DEF SameTraders
  <1> HIDE DEF accepted
  \* Nothing on the table changes, and nobody but p accepts.
  <1>5. ASSUME NEW t, trade' = t, SameTraders(trade, t), Sees(p), UNCHANGED online,
               \A r \in Players : trade[r] # NoTrade => t[r].offer = trade[r].offer,
               \A r \in Players \ {p} : Accepted(t, r) => Accepted(trade, r)
        PROVE  IInv'
    <2>1. ASSUME NEW r \in Players, Accepted(trade', r), r # p
          PROVE  /\ Accepted(trade, r)
                 /\ trade'[r].offer = trade[r].offer
                 /\ trade'[trade[r].trader].offer = trade[trade[r].trader].offer
      <3>1. Accepted(trade, r)
        BY <1>5, <2>1
      <3>2. trade[r] # NoTrade /\ trade[r].trader \in Players /\ trade[trade[r].trader] # NoTrade
        BY <3>1, TradeOfPlayer DEF IInv, Paired, Accepted
      <3> QED BY <1>5, <3>1, <3>2
    <2> QED BY <1>5, <2>1, TableStep
  <1>6. ASSUME trade' = accepted, Sees(p), UNCHANGED online
        PROVE  IInv'
    BY <1>2, <1>5, <1>6 DEF Accepted
  <1>7. ASSUME NEW r \in {p, q}, trade' = [accepted EXCEPT ![r].accepted = FALSE], Sees(p),
               UNCHANGED online
        PROVE  IInv'
    <2> DEFINE d == [accepted[r] EXCEPT !.accepted = FALSE]
               t == [accepted EXCEPT ![r] = d]
    <2>1. /\ accepted[r] \in Sides /\ accepted[r] \in TradeData
          /\ r \in Players /\ accepted[r] # NoTrade
      BY <1>1, <1>2, <1>4, TradeOfPlayer
    <2>2. d \in Sides /\ d.trader = accepted[r].trader /\ d.offer = accepted[r].offer /\ ~d.accepted
      <3>1. d \in TradeData /\ d.trader = accepted[r].trader /\ d.offer = accepted[r].offer /\ ~d.accepted
        BY <2>1 DEF TradeData
      <3> HIDE DEF d
      <3> QED BY <2>1, <3>1, SameItems
    <2>3. trade' = t
      BY <1>7
    <2> HIDE DEF d
    <2>4. t \in Tables /\ t[r] = d /\ \A s \in Players \ {r} : t[s] = accepted[s]
      BY <1>2, <2>1, <2>2 DEF Tables
    <2>5. d # NoTrade
      BY <2>2, NoSideIsNone
    <2> HIDE DEF t
    <2>6. SameTraders(trade, t)
      BY <1>2, <2>1, <2>2, <2>4, <2>5 DEF SameTraders
    <2>7. \A s \in Players : trade[s] # NoTrade => t[s].offer = trade[s].offer
      BY <1>2, <2>2, <2>4
    <2>8. \A s \in Players \ {p} : Accepted(t, s) => Accepted(trade, s)
      BY <1>2, <2>2, <2>4 DEF Accepted
    <2> QED BY <1>5, <1>7, <2>3, <2>6, <2>7, <2>8
  <1>8. ASSUME trade' = BackToTrade(accepted, p), Sees(p), UNCHANGED online
        PROVE  IInv'
    <2> DEFINE t == BackToTrade(accepted, p)
    <2>1. accepted[p] \in Sides
      BY <1>2, <1>4, TradeOfPlayer
    <2>2. accepted = [accepted EXCEPT ![p] = accepted[p]]
      BY <1>2 DEF Tables
    <2>3. /\ ChangedBy(accepted, t, p) /\ ~t[p].accepted /\ ~t[q].accepted
          /\ t[p].offer = accepted[p].offer /\ t[q].offer = accepted[q].offer
      BY <1>2, <1>3, <1>4, <2>1, <2>2, BackToTradeChanges
    <2> HIDE DEF t
    <2>4. SameTraders(trade, t)
      BY <1>2, <2>3 DEF ChangedBy, SameTraders
    <2>5. \A s \in Players \ {p, q} : t[s] = trade[s]
      BY <1>2, <1>4, <2>3 DEF ChangedBy
    <2>6. \A s \in Players : trade[s] # NoTrade => t[s].offer = trade[s].offer
      BY <1>1, <1>2, <2>3, <2>5
    <2>7. \A s \in Players \ {p} : Accepted(t, s) => Accepted(trade, s)
      BY <2>3, <2>5 DEF Accepted
    <2> QED BY <1>5, <1>8, <2>4, <2>6, <2>7 DEF t
  <1>9. ASSUME NEW r \in {p, q}, trade' = SetSpell(accepted, r, NoSpell), Sees(p),
               trade[r].offer.spell # NoSpell, UNCHANGED online
        PROVE  IInv'
    <2>1. r \in Players /\ accepted[r] # NoTrade /\ {r, accepted[r].trader} = {p, q}
      BY <1>1, <1>4
    <2>2. accepted[r].offer = trade[r].offer
      BY <1>1, <1>2
    <2>3. /\ ChangedBy(accepted, trade', r)
          /\ ~trade'[r].accepted /\ ~trade'[accepted[r].trader].accepted
      BY <1>2, <1>3, <1>9, <2>1, <2>2, SetSpellChanges
    <2>4. SameTraders(trade, trade')
      BY <1>2, <2>3 DEF ChangedBy, SameTraders
    <2>5. \A s \in Players \ {p, q} : trade'[s] = trade[s]
      BY <1>2, <2>1, <2>3 DEF ChangedBy
    <2>6. ASSUME NEW s \in Players, Accepted(trade', s), s # p
          PROVE  /\ Accepted(trade, s)
                 /\ trade'[s].offer = trade[s].offer
                 /\ trade'[trade[s].trader].offer = trade[trade[s].trader].offer
      <3>1. s \notin {p, q}
        BY <2>1, <2>3, <2>6 DEF Accepted
      <3>2. trade'[s] = trade[s] /\ trade[s] # NoTrade
        BY <2>5, <2>6, <3>1 DEF Accepted
      <3>3. trade[s].trader \in Players \ {p, q}
        BY <1>1, <3>1, <3>2, TradeOfPlayer DEF IInv, Paired
      <3> QED BY <2>5, <2>6, <3>2, <3>3 DEF Accepted
    <2> QED BY <1>9, <2>4, <2>6, TableStep
  <1>10. ASSUME NEW near \in BOOLEAN
         PROVE  Refused(p, q, near) \in {p, q, NoPlayer}
    BY DEF Refused
  <1>11. ASSUME NEW castable, SpellFails(p, q, castable) # NoPlayer
         PROVE  /\ SpellFails(p, q, castable) \in {p, q}
                /\ trade[SpellFails(p, q, castable)].offer.spell # NoSpell
    BY <1>11 DEF SpellFails
  <1>12. ASSUME Exchange(p, q)
         PROVE  IInv'
    <2>1. OnTable(Without(trade, {p, q})) /\ online' = online
      BY <1>12 DEF Exchange
    <2> QED BY <1>1, <2>1, CloseStep
  <1>13. PICK near \in BOOLEAN, castable \in SUBSET Casters(p) :
           \/ /\ UNCHANGED online /\ Sees(p)
              /\ \/ trade' = accepted
                 \/ /\ Refused(p, q, near) # NoPlayer
                    /\ trade' = [accepted EXCEPT ![Refused(p, q, near)].accepted = FALSE]
                 \/ /\ SpellFails(p, q, castable) # NoPlayer
                    /\ trade' = SetSpell(accepted, SpellFails(p, q, castable), NoSpell)
                 \/ trade' = BackToTrade(accepted, p)
           \/ Exchange(p, q)
    BY DEF AcceptTrade, accepted
  <1>14. CASE trade' = accepted /\ Sees(p) /\ UNCHANGED online
    BY <1>6, <1>14
  <1>15. CASE /\ Refused(p, q, near) # NoPlayer /\ Sees(p) /\ UNCHANGED online
              /\ trade' = [accepted EXCEPT ![Refused(p, q, near)].accepted = FALSE]
    BY <1>7, <1>10, <1>15
  <1>16. CASE /\ SpellFails(p, q, castable) # NoPlayer /\ Sees(p) /\ UNCHANGED online
              /\ trade' = SetSpell(accepted, SpellFails(p, q, castable), NoSpell)
    BY <1>9, <1>11, <1>16
  <1>17. CASE trade' = BackToTrade(accepted, p) /\ Sees(p) /\ UNCHANGED online
    BY <1>8, <1>17
  <1> QED BY <1>12, <1>13, <1>14, <1>15, <1>16, <1>17

\* Nothing of a trade changes; players may enter the world.
LEMMA OutsideStep ==
    ASSUME IInv, UNCHANGED <<trade, seen>>, online \subseteq online'
    PROVE  IInv'
  <1>1. Paired(trade, online')
    BY DEF IInv, Paired
  <1>2. AcceptedAsSeen'
    BY DEF IInv, AcceptedAsSeen, Accepted, Table
  <1> QED BY <1>1, <1>2 DEF IInv

LEMMA PacketStep ==
    ASSUME IInv, NEW p \in Players, OnPacket(p)
    PROVE  IInv'
  <1>1. CASE \E q \in Players : InitiateTrade(p, q)
    BY <1>1, InitiateStep
  <1>2. ASSUME NEW gold \in 0 .. MaxMoney, SetTradeGold(p, gold)
        PROVE  IInv'
    <2>1. trade[p] # NoTrade /\ trade' = SetMoney(trade, p, gold) /\ Sees(NoPlayer) /\ UNCHANGED online
      BY <1>2 DEF SetTradeGold, Trading, OnTable
    <2>2. ChangedBy(trade, trade', p)
      BY <2>1, SetMoneyChanges DEF IInv
    <2> QED BY <2>1, <2>2, ChangeStep
  <1>3. ASSUME NEW slot \in Slots, NEW i \in Items, SetTradeItem(p, slot, i)
        PROVE  IInv'
    <2>1. /\ trade[p] # NoTrade /\ trade' = SetItem(trade, p, slot, i) /\ Sees(NoPlayer)
          /\ UNCHANGED online /\ \A s \in Slots : trade[p].offer.item[s] # i
      BY <1>3 DEF SetTradeItem, Trading, OnTable
    <2>2. ChangedBy(trade, trade', p)
      BY <2>1, SetItemChanges DEF IInv
    <2> QED BY <2>1, <2>2, ChangeStep
  <1>4. ASSUME NEW slot \in Slots, ClearTradeItem(p, slot)
        PROVE  IInv'
    <2>1. trade[p] # NoTrade /\ trade' = SetItem(trade, p, slot, NoItem) /\ Sees(NoPlayer) /\ UNCHANGED online
      BY <1>4 DEF ClearTradeItem, Trading, OnTable
    <2>2. ChangedBy(trade, trade', p)
      BY <2>1, SetItemChanges DEF IInv
    <2> QED BY <2>1, <2>2, ChangeStep
  <1>5. ASSUME NEW spell \in Spells, CastOnTradeItem(p, spell)
        PROVE  IInv'
    <2>1. trade[p] # NoTrade /\ trade' = SetSpell(trade, p, spell) /\ Sees(NoPlayer) /\ UNCHANGED online
      BY <1>5 DEF CastOnTradeItem, Trading, OnTable
    <2>2. ChangedBy(trade, trade', p)
      BY <2>1, SetSpellChanges DEF IInv
    <2> QED BY <2>1, <2>2, ChangeStep
  <1>6. CASE UnacceptTrade(p)
    <2> DEFINE d == [trade[p] EXCEPT !.accepted = FALSE]
    <2>1. trade[p] # NoTrade /\ trade' = [trade EXCEPT ![p] = d] /\ Sees(NoPlayer) /\ UNCHANGED online
      BY <1>6 DEF UnacceptTrade, Trading, OnTable
    <2>2. /\ d \in Sides /\ d.trader = trade[p].trader
          /\ d.offer = trade[p].offer /\ ~d.accepted
      <3>1. /\ d \in TradeData /\ d.trader = trade[p].trader
            /\ d.offer = trade[p].offer /\ ~d.accepted
        BY <2>1, TradeOfPlayer DEF TradeData, IInv
      <3>2. trade[p] \in Sides
        BY <2>1, TradeOfPlayer DEF IInv
      <3> HIDE DEF d
      <3> QED BY <3>1, <3>2, SameItems
    <2> HIDE DEF d
    <2>3. d # NoTrade
      BY <2>2, NoSideIsNone
    <2>4. trade' \in Tables /\ trade'[p] = d /\ \A s \in Players \ {p} : trade'[s] = trade[s]
      BY <2>1, <2>2 DEF Tables, IInv
    <2>5. SameTraders(trade, trade')
      BY <2>1, <2>2, <2>3, <2>4 DEF SameTraders
    <2>6. ASSUME NEW r \in Players, Accepted(trade', r)
          PROVE  /\ Accepted(trade, r)
                 /\ trade'[r].offer = trade[r].offer
                 /\ trade'[trade[r].trader].offer = trade[trade[r].trader].offer
      <3>1. r # p /\ trade'[r] = trade[r] /\ trade[r] # NoTrade
        BY <2>2, <2>4, <2>6 DEF Accepted
      <3>2. trade[r].trader \in Players
        BY <3>1, TradeOfPlayer DEF IInv
      <3> QED BY <2>2, <2>4, <2>6, <3>1, <3>2 DEF Accepted
    <2> QED BY <2>1, <2>5, <2>6, TableStep
  <1>7. CASE CancelTrade(p)
    <2>1. trade[p] # NoTrade /\ OnTable(Without(trade, {p, trade[p].trader})) /\ online' = online
      BY <1>7 DEF CancelTrade, Trading
    <2> QED BY <2>1, CloseStep
  <1>8. CASE AcceptTrade(p)
    BY <1>8, AcceptStep
  <1> QED BY <1>1, <1>2, <1>3, <1>4, <1>5, <1>6, <1>7, <1>8 DEF OnPacket

\* A player who trades closes both sides when he leaves the world.
LEMMA LogoutStep ==
    ASSUME IInv, NEW p \in Players, LogoutPlayer(p)
    PROVE  IInv'
  <1>1. online' = online \ {p}
    BY DEF LogoutPlayer
  <1>2. CASE Trading(p)
    <2>1. trade[p] # NoTrade /\ OnTable(Without(trade, {p, trade[p].trader}))
      BY <1>2 DEF LogoutPlayer, Trading
    <2> QED BY <1>1, <2>1, CloseStep
  <1>3. CASE ~Trading(p)
    <2>1. trade' = trade /\ Sees(NoPlayer) /\ trade[p] = NoTrade
      BY <1>3 DEF LogoutPlayer, Trading, OnTable
    <2>2. Paired(trade, online')
      BY <1>1, <2>1, TradeOfPlayer DEF IInv, Paired
    <2>3. AcceptedAsSeen'
      BY <2>1 DEF IInv, AcceptedAsSeen, Accepted, Sees
    <2> QED BY <2>1, <2>2, <2>3 DEF IInv
  <1> QED BY <1>2, <1>3

LEMMA MeanwhileStep ==
    ASSUME IInv, NEW p \in Players, Meanwhile(p)
    PROVE  IInv'
  <1>1. CASE \E i \in Items : LoseItem(p, i) \/ ReceiveItem(p, i)
    BY <1>1, OutsideStep DEF LoseItem, ReceiveItem
  <1>2. CASE EarnOrSpend(p)
    BY <1>2, OutsideStep DEF EarnOrSpend
  <1>3. CASE SaveToDB(p)
    BY <1>3, OutsideStep DEF SaveToDB
  <1>4. CASE LogoutPlayer(p)
    BY <1>4, LogoutStep
  <1>5. CASE HandlePlayerLogin(p)
    BY <1>5, OutsideStep DEF HandlePlayerLogin
  <1> QED BY <1>1, <1>2, <1>3, <1>4, <1>5 DEF Meanwhile

LEMMA Initially == Init => IInv
  BY DEF Init, IInv, Tables, Paired, AcceptedAsSeen, Accepted

LEMMA Inductive == IInv /\ [Next]_vars => IInv'
  <1> SUFFICES ASSUME IInv, [Next]_vars PROVE IInv'
    OBVIOUS
  <1>1. CASE \E p \in Players : OnPacket(p) \/ Meanwhile(p)
    BY <1>1, PacketStep, MeanwhileStep
  <1>2. CASE \E i \in Items : BindItem(i)
    BY <1>2, OutsideStep DEF BindItem
  <1>3. CASE Execute
    BY <1>3, OutsideStep DEF Execute
  <1>4. CASE UNCHANGED vars
    BY <1>4, OutsideStep DEF vars
  <1> QED BY <1>1, <1>2, <1>3, <1>4 DEF Next

\* For any players and items, an open trade always has two sides that point at each other, so
\* that the handlers may follow GetTrader() to the other player's TradeData.
THEOREM TradesPaired == Spec => []TradesArePaired
  <1>1. IInv => TradesArePaired
    BY DEF IInv, Paired, TradesArePaired, Trading
  <1> QED BY Initially, Inductive, <1>1, PTL DEF Spec

\* For any players and items, an acceptance that stands is for what is on the table now.
THEOREM AcceptancesUpToDate == Spec => []AcceptedAsSeen
  <1>1. IInv => AcceptedAsSeen
    BY DEF IInv
  <1> QED BY Initially, Inductive, <1>1, PTL DEF Spec

(***************************************************************************)
(* The saves on their way to the database.                                 *)
(***************************************************************************)
\* Deal d needs no more than the first n transactions: its own one failed, or both sides are
\* saved, or one of the n saves both sides in one.
Sent(d, n) ==
    \/ d \in dropped
    \/ \A r \in d[1] : d \in saved[r]
    \/ \E j \in 1 .. n : DOMAIN pending[j] = d[1] /\ \A r \in d[1] : d \in pending[j][r]

\* What transaction j saves of player q lies between what is saved and what q has done, is part
\* of every later save of q, and its deals reach the database for both sides by then.
SaveInOrder(q, j) ==
    /\ q \in Players
    /\ saved[q] \subseteq pending[j][q] /\ pending[j][q] \subseteq deals[q]
    /\ \A k \in j .. Len(pending) : q \in DOMAIN pending[k] => pending[j][q] \subseteq pending[k][q]
    /\ \A d \in pending[j][q] : Sent(d, j)

Pipe ==
    /\ \E S : pending \in Seq(S)
    /\ \A p \in Players : saved[p] \subseteq deals[p]
    /\ \A p \in Players : \A d \in deals[p] : d[1] \subseteq Players /\ Sent(d, Len(pending))
    /\ \A j \in 1 .. Len(pending) : \A q \in DOMAIN pending[j] : SaveInOrder(q, j)
    /\ SavedTogether

\* A transaction saves the players `ps', who are the two sides of every new deal.
LEMMA SaveStep ==
    ASSUME Pipe, NEW ps, ps \subseteq Players, UNCHANGED <<saved, dropped>>,
           pending' = SaveTogether(ps, deals'),
           \A r \in Players : deals[r] \subseteq deals'[r],
           \A r \in Players : \A d \in deals'[r] : d \notin deals[r] =>
               d[1] = ps /\ \A o \in d[1] : d \in deals'[o]
    PROVE  Pipe'
  <1> DEFINE new == [r \in ps |-> deals'[r]]
  <1>1. PICK S : pending \in Seq(S)
    BY DEF Pipe
  <1>0. PICK n \in Nat : n = Len(pending)
    BY <1>1
  <1>2. pending' \in Seq(S \cup {new})
    <2>1. pending \in Seq(S \cup {new})
      BY <1>1
    <2> HIDE DEF new
    <2> QED BY <2>1, AppendProperties DEF SaveTogether, new
  <1>3. /\ n \in Nat /\ Len(pending') = n + 1 /\ pending'[n + 1] = new
        /\ \A j \in 1 .. n : pending'[j] = pending[j]
    BY <1>0, <1>1 DEF SaveTogether
  <1>4. DOMAIN new = ps /\ \A r \in ps : new[r] = deals'[r]
    OBVIOUS
  <1> HIDE DEF new
  <1>5. ASSUME NEW d, NEW m \in 0 .. n, Sent(d, m)
        PROVE  Sent(d, m)'
    <2>1. \A j \in 1 .. m : j \in 1 .. n
      BY <1>3
    <2> QED BY <1>3, <1>5, <2>1 DEF Sent
  <1>6. ASSUME NEW d, d[1] = ps, \A o \in d[1] : d \in deals'[o]
        PROVE  Sent(d, n + 1)'
    <2>1. n + 1 \in 1 .. (n + 1)
      BY <1>3
    <2> QED BY <1>3, <1>4, <1>6, <2>1 DEF Sent
  <1>7. ASSUME NEW d, Sent(d, n)'
        PROVE  Sent(d, n + 1)'
    <2>1. \A j \in 1 .. n : j \in 1 .. (n + 1)
      BY <1>3
    <2> QED BY <1>7, <2>1 DEF Sent
  <1>8. ASSUME NEW p \in Players, NEW d \in deals'[p]
        PROVE  d[1] \subseteq Players /\ Sent(d, n + 1)'
    <2>1. CASE d \in deals[p]
      <3>1. d[1] \subseteq Players /\ Sent(d, n)
        BY <1>0, <2>1 DEF Pipe
      <3>2. n \in 0 .. n
        BY <1>3
      <3> QED BY <1>5, <1>7, <3>1, <3>2
    <2>2. CASE d \notin deals[p]
      BY <1>6, <2>2
    <2> QED BY <2>1, <2>2
  <1>9. ASSUME NEW j \in 1 .. (n + 1), NEW q, q \in DOMAIN pending'[j]
        PROVE  SaveInOrder(q, j)'
    <2>1. CASE j = n + 1
      <3>1. q \in ps /\ q \in Players /\ pending'[j][q] = deals'[q]
        BY <1>3, <1>4, <1>9, <2>1
      <3>2. saved'[q] \subseteq deals'[q]
        BY <3>1 DEF Pipe
      <3>3. \A k \in j .. Len(pending') : k = j
        BY <1>3, <2>1
      <3>4. \A d \in deals'[q] : Sent(d, n + 1)'
        BY <1>8, <3>1
      <3> QED BY <2>1, <3>1, <3>2, <3>3, <3>4 DEF SaveInOrder
    <2>2. CASE j # n + 1
      <3>1. j \in 1 .. n /\ j \in 0 .. n /\ pending'[j] = pending[j]
        BY <1>3, <2>2
      <3>2. SaveInOrder(q, j)
        BY <1>0, <1>9, <3>1 DEF Pipe
      <3>3. q \in Players /\ saved'[q] \subseteq pending'[j][q] /\ pending'[j][q] \subseteq deals'[q]
        BY <3>1, <3>2 DEF SaveInOrder
      <3>4. ASSUME NEW k \in j .. (n + 1), q \in DOMAIN pending'[k]
            PROVE  pending'[j][q] \subseteq pending'[k][q]
        <4>1. CASE k = n + 1
          BY <1>3, <1>4, <3>3, <3>4, <4>1
        <4>2. CASE k # n + 1
          <5>1. k \in j .. n /\ k \in 1 .. n
            BY <1>3, <3>1, <4>2
          <5> QED BY <1>0, <1>3, <3>1, <3>2, <3>4, <5>1 DEF SaveInOrder
        <4> QED BY <4>1, <4>2
      <3>5. \A d \in pending'[j][q] : Sent(d, j)'
        BY <1>5, <3>1, <3>2 DEF SaveInOrder
      <3> QED BY <1>3, <3>3, <3>4, <3>5 DEF SaveInOrder
    <2> QED BY <2>1, <2>2
  <1>10. SavedTogether'
    BY DEF Pipe, SavedTogether
  <1>11. \A p \in Players : saved'[p] \subseteq deals'[p]
    BY DEF Pipe
  <1> QED BY <1>2, <1>3, <1>8, <1>9, <1>10, <1>11 DEF Pipe

\* The oldest transaction is executed or dropped.
LEMMA ExecuteStep ==
    ASSUME Pipe, Execute
    PROVE  Pipe'
  <1> DEFINE head == Head(pending)
             Whole(d) == DOMAIN head = d[1] /\ \A r \in d[1] : d \in head[r]
  <1>1. PICK S : pending \in Seq(S)
    BY DEF Pipe
  <1>0. PICK n \in Nat : n = Len(pending)
    BY <1>1
  <1>2. /\ pending' \in Seq(S) /\ n \in Nat \ {0} /\ Len(pending') = n - 1 /\ head = pending[1]
        /\ \A j \in 1 .. (n - 1) : pending'[j] = pending[j + 1]
    BY <1>0, <1>1 DEF Execute
  <1>3. /\ \/ /\ \A p \in Players : p \in DOMAIN head => saved'[p] = head[p]
              /\ \A p \in Players : p \notin DOMAIN head => saved'[p] = saved[p]
              /\ dropped' = dropped
           \/ dropped' = dropped \cup ExchangeIn(head) /\ saved' = saved
        /\ deals' = deals
    BY DEF Execute
  <1>4. 1 \in 1 .. n
    BY <1>2
  <1>12. ASSUME NEW d, d[1] \subseteq Players, Whole(d), saved' = saved, d \notin ExchangeIn(head)
         PROVE  \A r \in d[1] : d \in saved'[r]
    <2>1. ASSUME NEW r \in d[1]
          PROVE  d \in UNION {head[p] : p \in DOMAIN head}
      BY <1>12, <2>1
    <2> HIDE DEF head
    <2> QED BY <1>12, <2>1 DEF ExchangeIn
  <1> HIDE DEF head
  <1>5. \A p \in Players : p \in DOMAIN head => SaveInOrder(p, 1)
    BY <1>0, <1>2, <1>4 DEF Pipe
  <1>6. /\ \A p \in Players : saved[p] \subseteq saved'[p] /\ saved'[p] \subseteq deals'[p]
        /\ dropped \subseteq dropped'
    BY <1>2, <1>3, <1>5 DEF SaveInOrder, Pipe
  \* The transaction of d itself
  <1>13. ASSUME NEW d, d[1] \subseteq Players, Whole(d)
         PROVE  d \in dropped' \/ \A r \in d[1] : d \in saved'[r]
    <2>1. CASE saved' = saved /\ dropped' = dropped \cup ExchangeIn(head)
      BY <1>12, <1>13, <2>1
    <2>2. CASE \A p \in Players : p \in DOMAIN head => saved'[p] = head[p]
      BY <1>13, <2>2
    <2> QED BY <1>3, <2>1, <2>2
  \* One transaction less is to be executed.
  <1>7. ASSUME NEW d, d[1] \subseteq Players, NEW m \in 1 .. n, Sent(d, m)
        PROVE  Sent(d, m - 1)'
    <2>1. CASE d \in dropped \/ \A r \in d[1] : d \in saved[r]
      <3>1. d \in dropped' \/ \A r \in d[1] : d \in saved'[r]
        BY <1>6, <1>7, <2>1
      <3> QED BY <3>1 DEF Sent
    <2>2. CASE ~(d \in dropped \/ \A r \in d[1] : d \in saved[r])
      <3>1. PICK j \in 1 .. m : DOMAIN pending[j] = d[1] /\ \A r \in d[1] : d \in pending[j][r]
        BY <1>7, <2>2 DEF Sent
      <3>2. CASE j = 1
        <4>1. d \in dropped' \/ \A r \in d[1] : d \in saved'[r]
          BY <1>2, <1>7, <1>13, <3>1, <3>2
        <4> QED BY <4>1 DEF Sent
      <3>3. CASE j # 1
        <4>1. j - 1 \in 1 .. (m - 1) /\ j - 1 \in 1 .. (n - 1) /\ (j - 1) + 1 = j
          BY <1>2, <3>1, <3>3
        <4>2. pending'[j - 1] = pending[j]
          BY <1>2, <4>1
        <4> QED BY <3>1, <4>1, <4>2 DEF Sent
      <3> QED BY <3>2, <3>3
    <2> QED BY <2>1, <2>2
  <1> HIDE DEF Whole
  <1>8. ASSUME NEW p \in Players, NEW d \in deals'[p]
        PROVE  d[1] \subseteq Players /\ Sent(d, n - 1)'
    <2>1. d[1] \subseteq Players /\ Sent(d, n)
      BY <1>0, <1>3 DEF Pipe
    <2>2. n \in 1 .. n
      BY <1>2
    <2> QED BY <1>7, <2>1, <2>2
  <1>9. ASSUME NEW j \in 1 .. (n - 1), NEW q, q \in DOMAIN pending'[j]
        PROVE  SaveInOrder(q, j)'
    <2>1. j + 1 \in 1 .. n /\ pending'[j] = pending[j + 1] /\ (j + 1) - 1 = j
      BY <1>2
    <2>2. SaveInOrder(q, j + 1)
      BY <1>0, <1>9, <2>1 DEF Pipe
    <2>3. q \in Players
      BY <2>2 DEF SaveInOrder
    <2>4. saved'[q] \subseteq pending'[j][q]
      <3>1. CASE q \in DOMAIN head /\ saved'[q] = head[q]
        <4>1. SaveInOrder(q, 1) /\ j + 1 \in 1 .. n
          BY <1>5, <2>1, <2>3, <3>1
        <4>2. pending[1][q] \subseteq pending[j + 1][q]
          BY <1>0, <1>9, <2>1, <4>1 DEF SaveInOrder
        <4> QED BY <1>2, <2>1, <3>1, <4>2
      <3>2. CASE saved'[q] = saved[q]
        BY <2>1, <2>2, <3>2 DEF SaveInOrder
      <3> QED BY <1>3, <2>3, <3>1, <3>2
    <2>5. ASSUME NEW k \in j .. (n - 1), q \in DOMAIN pending'[k]
          PROVE  pending'[j][q] \subseteq pending'[k][q]
      <3>1. k \in 1 .. (n - 1) /\ k + 1 \in (j + 1) .. n
        BY <1>2
      <3>2. pending'[k] = pending[k + 1]
        BY <1>2, <3>1
      <3> QED BY <1>0, <2>1, <2>2, <2>5, <3>1, <3>2 DEF SaveInOrder
    <2>6. ASSUME NEW d \in pending'[j][q]
          PROVE  Sent(d, j)'
      <3>1. d \in deals[q] /\ Sent(d, j + 1)
        BY <2>1, <2>2, <2>6 DEF SaveInOrder
      <3>2. d[1] \subseteq Players
        BY <2>3, <3>1 DEF Pipe
      <3>3. Sent(d, (j + 1) - 1)'
        BY <1>7, <2>1, <3>1, <3>2
      <3> QED BY <2>1, <3>3
    <2>7. pending'[j][q] \subseteq deals'[q]
      BY <1>3, <2>1, <2>2 DEF SaveInOrder
    <2> QED BY <1>2, <2>3, <2>4, <2>5, <2>6, <2>7 DEF SaveInOrder
  <1>10. ASSUME NEW p \in Players, NEW d \in saved'[p], d \notin dropped', NEW r \in d[1]
         PROVE  d \in saved'[r]
    <2>1. d \in deals[p] /\ d[1] \subseteq Players /\ r \in Players
      BY <1>3, <1>6, <1>10 DEF Pipe
    <2>2. CASE p \in DOMAIN head /\ saved'[p] = head[p]
      <3>1. d \in pending[1][p] /\ SaveInOrder(p, 1)
        BY <1>2, <1>5, <1>10, <2>2
      <3>2. Sent(d, 1)
        BY <3>1 DEF SaveInOrder
      <3>3. Sent(d, 1 - 1)'
        BY <1>4, <1>7, <2>1, <3>2
      <3>4. \A k : k \notin 1 .. (1 - 1)
        OBVIOUS
      <3> QED BY <1>10, <3>3, <3>4 DEF Sent
    <2>3. CASE saved'[p] = saved[p]
      BY <1>6, <1>10, <2>1, <2>3 DEF Pipe, SavedTogether
    <2> QED BY <1>3, <2>2, <2>3
  <1>11. SavedTogether'
    BY <1>10 DEF SavedTogether
  <1> QED BY <1>2, <1>6, <1>8, <1>9, <1>11 DEF Pipe

LEMMA PipeIdle ==
    ASSUME Pipe, UNCHANGED <<saved, dropped, pending, deals>>
    PROVE  Pipe'
  BY DEF Pipe, Sent, SaveInOrder, SavedTogether

LEMMA PipeExchange ==
    ASSUME IInv, Pipe, NEW p \in Players, NEW q \in Players, Exchange(p, q)
    PROVE  Pipe'
  <1> DEFINE deal == <<{p, q}, Cardinality(UNION {deals[r] : r \in Players}) + 1>>
  <1>1. /\ deals' = [r \in Players |-> IF r \in {p, q} THEN deals[r] \cup {deal} ELSE deals[r]]
        /\ pending' = SaveTogether({p, q}, deals') /\ saved' = saved /\ dropped' = dropped
    BY DEF Exchange
  <1>2. deal[1] = {p, q}
    OBVIOUS
  <1> HIDE DEF deal
  <1>3. \A r \in Players : deals[r] \subseteq deals'[r]
    BY <1>1
  <1>4. \A r \in Players : \A d \in deals'[r] : d \notin deals[r] =>
            d[1] = {p, q} /\ \A o \in d[1] : d \in deals'[o]
    BY <1>1, <1>2
  <1>5. {p, q} \subseteq Players
    OBVIOUS
  <1> DEFINE ps == {p, q}
  <1>6. /\ ps \subseteq Players /\ pending' = SaveTogether(ps, deals')
        /\ \A r \in Players : \A d \in deals'[r] : d \notin deals[r] =>
               d[1] = ps /\ \A o \in d[1] : d \in deals'[o]
    BY <1>1, <1>4, <1>5
  <1> HIDE DEF ps
  <1> QED BY <1>1, <1>3, <1>6, SaveStep

LEMMA PipeInductive == IInv /\ Pipe /\ [Next]_vars => Pipe'
  <1> SUFFICES ASSUME IInv, Pipe, [Next]_vars PROVE Pipe'
    OBVIOUS
  <1>1. ASSUME NEW p \in Players, OnPacket(p)
        PROVE  Pipe'
    <2>1. CASE AcceptTrade(p)
      <3>1. trade[p].trader \in Players
        BY <2>1, TradeOfPlayer DEF AcceptTrade, Trading, IInv
      <3>2. Exchange(p, trade[p].trader) \/ UNCHANGED <<saved, dropped, pending, deals>>
        BY <2>1 DEF AcceptTrade
      <3> QED BY <3>1, <3>2, PipeExchange, PipeIdle
    <2>2. CASE ~AcceptTrade(p)
      <3>1. UNCHANGED <<saved, dropped, pending, deals>>
        BY <1>1, <2>2 DEF OnPacket, InitiateTrade, SetTradeGold, SetTradeItem, ClearTradeItem,
                          CastOnTradeItem, UnacceptTrade, CancelTrade
      <3> QED BY <3>1, PipeIdle
    <2> QED BY <2>1, <2>2
  <1>2. ASSUME NEW p \in Players, Meanwhile(p)
        PROVE  Pipe'
    <2>1. CASE SaveToDB(p) \/ LogoutPlayer(p)
      <3>1. pending' = SaveTogether({p}, deals') /\ UNCHANGED <<saved, dropped, deals>>
        BY <2>1 DEF SaveToDB, LogoutPlayer, SaveTogether
      <3> QED BY <3>1, SaveStep
    <2>2. CASE ~(SaveToDB(p) \/ LogoutPlayer(p))
      <3>1. UNCHANGED <<saved, dropped, pending, deals>>
        BY <1>2, <2>2 DEF Meanwhile, LoseItem, ReceiveItem, EarnOrSpend, HandlePlayerLogin
      <3> QED BY <3>1, PipeIdle
    <2> QED BY <2>1, <2>2
  <1>3. CASE \E i \in Items : BindItem(i)
    BY <1>3, PipeIdle DEF BindItem
  <1>4. CASE Execute
    BY <1>4, ExecuteStep
  <1>5. CASE UNCHANGED vars
    BY <1>5, PipeIdle DEF vars
  <1> QED BY <1>1, <1>2, <1>3, <1>4, <1>5 DEF Next

LEMMA PipeInitially == Init => Pipe
  <1> SUFFICES ASSUME Init PROVE Pipe
    OBVIOUS
  <1>1. pending = <<>> /\ pending \in Seq({}) /\ Len(pending) = 0
    BY DEF Init
  <1>2. \A p \in Players : saved[p] = {} /\ deals[p] = {}
    BY DEF Init
  <1>3. \A j : j \notin 1 .. 0
    OBVIOUS
  <1> QED BY <1>1, <1>2, <1>3 DEF Pipe, SavedTogether

\* For any players, however many saves wait and whichever of them fail, the database never knows
\* a trade of one player that it does not know of the other one, unless the transaction of that
\* trade itself was dropped.
THEOREM TradesSavedTogether == Spec => []SavedTogether
  <1>1. Pipe => SavedTogether
    BY DEF Pipe
  <1> QED BY Initially, Inductive, PipeInitially, PipeInductive, <1>1, PTL DEF Spec

(***************************************************************************)
(* The bags: what moveItems returns, slot by slot.                         *)
(***************************************************************************)
LEMMA LeastOf ==
    ASSUME NEW S \in SUBSET Nat, S # {}
    PROVE  \E m \in S : \A k \in S : m <= k
  <1>1. PICK m \in S : \A k \in S : ~(<<k, m>> \in OpToRel(<, Nat))
    BY NatLessThanWellFounded, WFMin
  <1>2. \A k \in S : ~(k < m)
    BY <1>1 DEF OpToRel
  <1> QED BY <1>2

LEMMA Upwards ==
    ASSUME NEW T \in Nat, NEW G, 0 \in G, \A n \in 0 .. (T - 1) : n \in G => n + 1 \in G
    PROVE  T \in G
  <1> DEFINE Bad == {n \in 0 .. T : n \notin G}
  <1> SUFFICES ASSUME T \notin G PROVE FALSE
    OBVIOUS
  <1>1. Bad \in SUBSET Nat /\ Bad # {}
    OBVIOUS
  <1>2. PICK m \in Bad : \A k \in Bad : m <= k
    <2> HIDE DEF Bad
    <2> QED BY <1>1, LeastOf
  <1>3. m \in Nat /\ m # 0 /\ m <= T
    BY <1>2
  <1>4. m - 1 \in 0 .. (T - 1) /\ m - 1 \in 0 .. T /\ (m - 1) + 1 = m
    BY <1>3
  <1>5. m - 1 \in G
    BY <1>2, <1>3, <1>4
  <1> QED BY <1>2, <1>4, <1>5

Bags == [Players -> SUBSET Items]

Removed(p, q) == [bag EXCEPT ![p] = @ \ Offered(p), ![q] = @ \ Offered(q)]

\* f gives the bags after the first n slots, for each n up to k.
IsStored(f, p, q, k) ==
    f = [n \in 0 .. k |->
           IF n = 0 THEN Removed(p, q)
           ELSE StorePair(f[n - 1], p, q, ItemAt(p, n - 1), ItemAt(q, n - 1))]

LEMMA StoredExists ==
    ASSUME NEW p, NEW q
    PROVE  \E f : IsStored(f, p, q, TradedCount)
  <1> DEFINE G == {k \in Nat : \E f : IsStored(f, p, q, k)}
  <1>1. 0 \in G
    <2> DEFINE f == [n \in 0 .. 0 |-> Removed(p, q)]
    <2>1. IsStored(f, p, q, 0)
      <3>1. \A n \in 0 .. 0 : n = 0
        OBVIOUS
      <3> QED BY <3>1 DEF IsStored
    <2> HIDE DEF f
    <2> QED BY <2>1
  <1>2. ASSUME NEW k \in Nat, k \in G
        PROVE  k + 1 \in G
    <2>1. PICK f : IsStored(f, p, q, k)
      BY <1>2
    <2> DEFINE Step(b, n) == StorePair(b, p, q, ItemAt(p, n), ItemAt(q, n))
               g == [n \in 0 .. (k + 1) |-> IF n = k + 1 THEN Step(f[k], k) ELSE f[n]]
               h == [n \in 0 .. (k + 1) |-> IF n = 0 THEN Removed(p, q) ELSE Step(g[n - 1], n - 1)]
    <2>2. f = [n \in 0 .. k |-> IF n = 0 THEN Removed(p, q) ELSE Step(f[n - 1], n - 1)]
      BY <2>1 DEF IsStored
    <2> HIDE DEF Step
    <2>3. ASSUME NEW n \in 0 .. (k + 1)
          PROVE  g[n] = h[n]
      <3>1. CASE n = k + 1
        <4>1. n # 0 /\ n - 1 = k /\ k \in 0 .. (k + 1) /\ k # k + 1
          BY <3>1
        <4>2. g[k] = f[k]
          BY <4>1
        <4> QED BY <3>1, <4>1, <4>2
      <3>2. CASE n # k + 1 /\ n = 0
        <4>1. f[0] = Removed(p, q)
          BY <2>2
        <4> QED BY <3>2, <4>1
      <3>3. CASE n # k + 1 /\ n # 0
        <4>1. n \in 0 .. k /\ n - 1 \in 0 .. (k + 1) /\ n - 1 # k + 1
          BY <3>3
        <4>2. f[n] = Step(f[n - 1], n - 1)
          BY <2>2, <3>3, <4>1
        <4>3. g[n - 1] = f[n - 1]
          BY <4>1
        <4> QED BY <3>3, <4>2, <4>3
      <3> QED BY <3>1, <3>2, <3>3
    <2>4. g = h
      BY <2>3
    <2>5. IsStored(g, p, q, k + 1)
      BY <2>4 DEF IsStored, Step
    <2> HIDE DEF g
    <2> QED BY <2>5
  <1> HIDE DEF G
  <1>3. TradedCount \in G
    BY <1>1, <1>2, Sizes, Upwards
  <1> QED BY <1>3 DEF G

LEMMA MoveItemsStored ==
    ASSUME NEW p, NEW q
    PROVE  \E f : IsStored(f, p, q, TradedCount) /\ MoveItems(p, q) = f[TradedCount]
  <1> DEFINE f == CHOOSE g : IsStored(g, p, q, TradedCount)
  <1>1. IsStored(f, p, q, TradedCount)
    BY StoredExists
  <1>2. MoveItems(p, q) = f[TradedCount]
    BY DEF MoveItems, IsStored, Removed
  <1> HIDE DEF f
  <1> QED BY <1>1, <1>2

\* A set of bags that holds the bags without the items in trade, and every next slot's, holds
\* what moveItems returns.
LEMMA SlotBySlot ==
    ASSUME NEW p, NEW q, NEW G, <<0, Removed(p, q)>> \in G,
           \A n \in Traded : \A b : <<n, b>> \in G =>
               <<n + 1, StorePair(b, p, q, ItemAt(p, n), ItemAt(q, n))>> \in G
    PROVE  <<TradedCount, MoveItems(p, q)>> \in G
  <1>1. PICK f : IsStored(f, p, q, TradedCount) /\ MoveItems(p, q) = f[TradedCount]
    BY MoveItemsStored
  <1> DEFINE H == {n \in 0 .. TradedCount : <<n, f[n]>> \in G}
  <1>2. TradedCount \in Nat
    BY Sizes
  <1>3. 0 \in H
    BY <1>1, <1>2 DEF IsStored
  <1>4. ASSUME NEW n \in 0 .. (TradedCount - 1), n \in H
        PROVE  n + 1 \in H
    <2>1. n + 1 \in 0 .. TradedCount /\ n + 1 # 0 /\ (n + 1) - 1 = n
      BY <1>2
    <2>2. f[n + 1] = StorePair(f[n], p, q, ItemAt(p, n), ItemAt(q, n))
      BY <1>1, <2>1 DEF IsStored
    <2>3. <<n, f[n]>> \in G
      BY <1>4
    <2>4. n \in Traded
      BY DEF Traded
    <2>5. <<n + 1, StorePair(f[n], p, q, ItemAt(p, n), ItemAt(q, n))>> \in G
      BY <2>3, <2>4
    <2> QED BY <2>1, <2>2, <2>5
  <1> HIDE DEF H
  <1>5. TradedCount \in H
    BY <1>2, <1>3, <1>4, Upwards
  <1> QED BY <1>1, <1>5 DEF H

LEMMA ItemAtInBag ==
    ASSUME bag \in Bags, NEW p \in Players, NEW s
    PROVE  ItemAt(p, s) \subseteq bag[p] /\ ItemAt(p, s) \subseteq Items
  BY DEF ItemAt, Bags

LEMMA OfferedInBag ==
    ASSUME bag \in Bags, NEW p \in Players
    PROVE  Offered(p) \subseteq bag[p] /\ Offered(p) \subseteq Items
  BY ItemAtInBag DEF Offered, Bags

LEMMA BagsStayTyped ==
    ASSUME bag \in Bags, away \subseteq Items, NEW p \in Players, NEW q \in Players
    PROVE  MoveItems(p, q) \in Bags
  <1> DEFINE G == (0 .. TradedCount) \X Bags
  <1>1. TradedCount \in Nat
    BY Sizes
  <1>2. Removed(p, q) \in Bags
    BY DEF Removed, Bags
  <1>3. <<0, Removed(p, q)>> \in G
    BY <1>1, <1>2
  <1>4. ASSUME NEW b \in Bags, NEW mine \in SUBSET Items, NEW his \in SUBSET Items
        PROVE  StorePair(b, p, q, mine, his) \in Bags
    <2>1. \A i : Copy(b, i) \subseteq Items
      BY DEF Copy
    <2>2. /\ TakenBack(b, p, mine, his) \subseteq Items
          /\ TakenBack(b, q, his, mine) \subseteq Items
      BY <2>1 DEF TakenBack
    <2> QED BY <2>2 DEF StorePair, Bags
  <1>5. ASSUME NEW n \in Traded, NEW b, <<n, b>> \in G
        PROVE  <<n + 1, StorePair(b, p, q, ItemAt(p, n), ItemAt(q, n))>> \in G
    <2>1. b \in Bags /\ n + 1 \in 0 .. TradedCount
      BY <1>1, <1>5 DEF Traded
    <2>2. ItemAt(p, n) \in SUBSET Items /\ ItemAt(q, n) \in SUBSET Items
      BY ItemAtInBag
    <2> QED BY <1>4, <2>1, <2>2
  <1> HIDE DEF G
  <1>6. <<TradedCount, MoveItems(p, q)>> \in G
    BY <1>3, <1>5, SlotBySlot
  <1> QED BY <1>6 DEF G

\* The items of p in the slots before n
Below(p, n) == UNION {ItemAt(p, s) : s \in 0 .. (n - 1)}

LEMMA BelowSlots ==
    ASSUME NEW p
    PROVE  /\ Below(p, 0) = {} /\ Below(p, TradedCount) = Offered(p)
           /\ \A n \in Traded : Below(p, n + 1) = Below(p, n) \cup ItemAt(p, n)
           /\ \A n \in Traded : Below(p, n) \subseteq Offered(p) /\ ItemAt(p, n) \subseteq Offered(p)
  <1>1. TradedCount \in Nat
    BY Sizes
  <1>2. Below(p, 0) = {}
    <2>1. \A s : s \notin 0 .. (0 - 1)
      OBVIOUS
    <2> QED BY <2>1 DEF Below
  <1>3. Below(p, TradedCount) = Offered(p)
    BY DEF Below, Offered, Traded
  <1>4. ASSUME NEW n \in Traded
        PROVE  Below(p, n + 1) = Below(p, n) \cup ItemAt(p, n)
    <2>1. \A s : s \in 0 .. ((n + 1) - 1) <=> s \in 0 .. (n - 1) \/ s = n
      BY <1>1 DEF Traded
    <2> QED BY <2>1 DEF Below
  <1>5. ASSUME NEW n \in Traded
        PROVE  Below(p, n) \subseteq Offered(p) /\ ItemAt(p, n) \subseteq Offered(p)
    <2>1. \A s \in 0 .. (n - 1) : s \in Traded
      BY <1>1 DEF Traded
    <2> QED BY <2>1 DEF Below, Offered
  <1> QED BY <1>2, <1>3, <1>4, <1>5

(***************************************************************************)
(* A template is harmless when one player may have all its items, or only  *)
(* one of them.  With a limit between, moveItems can lose an item.         *)
(***************************************************************************)
SameKind(i, items) == {j \in items : Kind[j] = Kind[i]}

HarmlessLimits ==
    \A i \in Items : Limit[Kind[i]] = 1 \/ Cardinality(SameKind(i, Items)) <= Limit[Kind[i]]

OneOfAKind ==
    \A p \in Players : \A i, j \in bag[p] : Kind[i] = Kind[j] /\ Limit[Kind[i]] = 1 => i = j

BagInv == bag \in Bags /\ away \subseteq Items /\ NothingLost /\ OneOfAKind

LEMMA SimilarItems ==
    ASSUME HarmlessLimits, NEW i \in Items, NEW items \in SUBSET Items
    PROVE  CanTakeMore(items, i) <=>
               (Limit[Kind[i]] = 1 => \A j \in items : Kind[j] = Kind[i] => j = i)
  <1> DEFINE K == {j \in items \ {i} : Kind[j] = Kind[i]}
             All == SameKind(i, Items)
  <1>1. Limit[Kind[i]] \in Nat
    BY Templates
  <1>2. IsFiniteSet(K) /\ IsFiniteSet(All) /\ Cardinality(K) \in Nat
    <2>1. K \subseteq Items /\ All \subseteq Items
      BY DEF SameKind
    <2> QED BY <2>1, FiniteItems, FS_Subset, FS_CardinalityType
  <1>3. CASE Limit[Kind[i]] = 1
    <2>1. CanTakeMore(items, i) <=> Cardinality(K) = 0
      BY <1>2, <1>3 DEF CanTakeMore
    <2>2. Cardinality(K) = 0 <=> K = {}
      <3> HIDE DEF K
      <3> QED BY <1>2, FS_EmptySet
    <2>3. K = {} <=> \A j \in items : Kind[j] = Kind[i] => j = i
      OBVIOUS
    <2> HIDE DEF K
    <2> QED BY <1>3, <2>1, <2>2, <2>3
  <1>4. CASE Limit[Kind[i]] # 1
    <2>1. Cardinality(All) <= Limit[Kind[i]]
      BY <1>4 DEF HarmlessLimits
    <2>2. i \notin K /\ K \cup {i} \subseteq All
      BY DEF SameKind
    <2>3. Cardinality(K \cup {i}) = Cardinality(K) + 1
      <3> HIDE DEF K
      <3> QED BY <1>2, <2>2, FS_AddElement
    <2>4. Cardinality(K \cup {i}) <= Cardinality(All) /\ Cardinality(All) \in Nat
      <3> HIDE DEF K, All
      <3> QED BY <1>2, <2>2, FS_Subset, FS_CardinalityType
    <2>5. Cardinality(K) + 1 <= Limit[Kind[i]]
      <3> HIDE DEF K, All
      <3> QED BY <1>1, <1>2, <2>1, <2>3, <2>4
    <2> QED BY <1>4, <2>5 DEF CanTakeMore
  <1> QED BY <1>3, <1>4

\* In the bags of the receiver, with what he got before, is always room for the next item.
LEMMA RoomForItem ==
    ASSUME HarmlessLimits, BagInv, NEW p \in Players, NEW q \in Players, p # q, trade[p] \in Sides,
           CanStoreItems(q, Offered(q), Offered(p)), NEW n \in Traded, NEW b,
           b[q] = (bag[q] \ Offered(q)) \cup Below(p, n)
    PROVE  CanStore(b, q, ItemAt(p, n))
  <1> SUFFICES ASSUME NEW i \in ItemAt(p, n)
               PROVE  CanTakeMore(b[q], i) /\ Cardinality(b[q]) < Capacity[q]
    BY DEF CanStore
  <1>1. /\ i \in bag[p] /\ i \in Items /\ i \in Offered(p) /\ i = trade[p].offer.item[n]
        /\ bag[q] \subseteq Items /\ bag[p] \subseteq Items
    BY BelowSlots DEF ItemAt, BagInv, Bags
  <1>2. Below(p, n) \subseteq Offered(p) /\ Offered(p) \subseteq bag[p]
    BY BelowSlots, OfferedInBag DEF BagInv
  <1>3. b[q] \in SUBSET Items
    BY <1>1, <1>2
  <1>4. ASSUME Limit[Kind[i]] = 1, NEW j \in b[q], Kind[j] = Kind[i]
        PROVE  j = i
    <2>1. CASE j \in bag[q]
      <3>1. CanTakeMore(bag[q], i)
        BY <1>1 DEF CanStoreItems
      <3> QED BY <1>1, <1>4, <2>1, <3>1, SimilarItems
    <2>2. CASE j \in bag[p]
      BY <1>1, <1>4, <2>2 DEF BagInv, OneOfAKind
    <2> QED BY <1>2, <2>1, <2>2
  <1>5. CanTakeMore(b[q], i)
    BY <1>1, <1>3, <1>4, SimilarItems
  <1>6. i \notin b[q]
    <2>1. i \notin bag[q]
      BY <1>1 DEF BagInv, NothingLost
    <2>2. i # NoItem
      BY <1>1, Absent
    <2>3. ASSUME NEW s \in 0 .. (n - 1), i \in ItemAt(p, s)
          PROVE  FALSE
      <3>1. i = trade[p].offer.item[s]
        BY <2>3 DEF ItemAt
      <3>2. s \in Slots /\ n \in Slots /\ s # n
        BY Sizes DEF Slots, Traded
      <3> QED BY <1>1, <2>2, <3>1, <3>2 DEF Sides
    <2> QED BY <2>1, <2>3 DEF Below
  <1>7. Cardinality(b[q]) < Capacity[q]
    <2> DEFINE Kept == bag[q] \ Offered(q)
               New == Offered(p)
    <2>1. /\ b[q] \cup {i} \subseteq Kept \cup New /\ Kept \subseteq Items /\ New \subseteq Items
      BY <1>1, <1>2
    <2>2. Cardinality(Kept) + Cardinality(New) <= Capacity[q]
      BY DEF CanStoreItems
    <2> HIDE DEF Kept, New
    <2>3. IsFiniteSet(Kept) /\ IsFiniteSet(New) /\ IsFiniteSet(b[q])
      BY <1>3, <2>1, FiniteItems, FS_Subset
    <2>4. /\ Cardinality(Kept) \in Nat /\ Cardinality(New) \in Nat /\ Cardinality(b[q]) \in Nat
          /\ Cardinality(Kept \cap New) \in Nat
      <3>1. IsFiniteSet(Kept \cap New)
        BY <2>3, FS_Intersection
      <3> QED BY <2>3, <3>1, FS_CardinalityType
    <2>5. /\ IsFiniteSet(Kept \cup New)
          /\ Cardinality(Kept \cup New) = Cardinality(Kept) + Cardinality(New) - Cardinality(Kept \cap New)
      BY <2>3, FS_Union
    <2>6. Cardinality(b[q] \cup {i}) = Cardinality(b[q]) + 1
      BY <1>6, <2>3, FS_AddElement
    <2>7. Cardinality(b[q] \cup {i}) <= Cardinality(Kept \cup New)
      BY <2>1, <2>5, FS_Subset
    <2>8. Capacity[q] \in Nat
      BY Room
    <2> QED BY <2>2, <2>4, <2>5, <2>6, <2>7, <2>8
  <1> QED BY <1>5, <1>7

LEMMA StoredPair ==
    ASSUME NEW b \in Bags, NEW p \in Players, NEW q \in Players, p # q,
           NEW mine \in SUBSET Items, NEW his \in SUBSET Items,
           CanStore(b, q, mine), CanStore(b, p, his)
    PROVE  /\ StorePair(b, p, q, mine, his) \in Bags
           /\ StorePair(b, p, q, mine, his)[p] = b[p] \cup his
           /\ StorePair(b, p, q, mine, his)[q] = b[q] \cup mine
           /\ \A r \in Players \ {p, q} : StorePair(b, p, q, mine, his)[r] = b[r]
  <1>1. StorePair(b, p, q, mine, his) = [b EXCEPT ![q] = @ \cup mine, ![p] = @ \cup his]
    BY DEF StorePair
  <1> QED BY <1>1 DEF Bags

\* After the checks of CanStoreItems each player has exactly what the other offered for what
\* he offered himself.
LEMMA ExchangedBags ==
    ASSUME HarmlessLimits, BagInv, NEW p \in Players, NEW q \in Players, p # q,
           trade[p] \in Sides, trade[q] \in Sides, BothCanStore(p, q)
    PROVE  /\ MoveItems(p, q) \in Bags
           /\ MoveItems(p, q)[p] = (bag[p] \ Offered(p)) \cup Offered(q)
           /\ MoveItems(p, q)[q] = (bag[q] \ Offered(q)) \cup Offered(p)
           /\ \A r \in Players \ {p, q} : MoveItems(p, q)[r] = bag[r]
  <1> DEFINE Half(b, n) ==
                /\ b \in Bags
                /\ b[p] = (bag[p] \ Offered(p)) \cup Below(q, n)
                /\ b[q] = (bag[q] \ Offered(q)) \cup Below(p, n)
                /\ \A r \in Players \ {p, q} : b[r] = bag[r]
             G == {x \in (0 .. TradedCount) \X Bags : Half(x[2], x[1])}
  <1>1. TradedCount \in Nat /\ bag \in Bags
    BY Sizes DEF BagInv
  <1>2. Half(Removed(p, q), 0)
    <2>1. Below(p, 0) = {} /\ Below(q, 0) = {}
      BY BelowSlots
    <2> QED BY <1>1, <2>1 DEF Removed, Bags
  <1>3. <<0, Removed(p, q)>> \in G
    BY <1>1, <1>2
  <1>4. ASSUME NEW n \in Traded, NEW b, Half(b, n)
        PROVE  Half(StorePair(b, p, q, ItemAt(p, n), ItemAt(q, n)), n + 1)
    <2>1. CanStore(b, q, ItemAt(p, n))
      BY <1>4, RoomForItem DEF BothCanStore
    <2>2. CanStore(b, p, ItemAt(q, n))
      BY <1>4, RoomForItem DEF BothCanStore
    <2>3. ItemAt(p, n) \in SUBSET Items /\ ItemAt(q, n) \in SUBSET Items
      BY <1>1, ItemAtInBag
    <2>4. /\ Below(p, n + 1) = Below(p, n) \cup ItemAt(p, n)
          /\ Below(q, n + 1) = Below(q, n) \cup ItemAt(q, n)
      BY BelowSlots
    <2> QED BY <1>4, <2>1, <2>2, <2>3, <2>4, StoredPair
  <1>5. ASSUME NEW n \in Traded, NEW b, <<n, b>> \in G
        PROVE  <<n + 1, StorePair(b, p, q, ItemAt(p, n), ItemAt(q, n))>> \in G
    <2>1. Half(b, n) /\ n + 1 \in 0 .. TradedCount
      <3>1. <<n, b>>[1] = n /\ <<n, b>>[2] = b
        OBVIOUS
      <3> HIDE DEF Half
      <3> QED BY <1>1, <1>5, <3>1 DEF Traded
    <2> DEFINE c == StorePair(b, p, q, ItemAt(p, n), ItemAt(q, n))
    <2>2. Half(c, n + 1) /\ c \in Bags
      <3>1. Half(c, n + 1)
        BY <1>4, <2>1
      <3> QED BY <3>1
    <2> HIDE DEF c, Half
    <2>3. <<n + 1, c>>[1] = n + 1 /\ <<n + 1, c>>[2] = c
      OBVIOUS
    <2> QED BY <2>1, <2>2, <2>3 DEF c
  <1>6. <<TradedCount, MoveItems(p, q)>> \in G
    <2> HIDE DEF G
    <2> QED BY <1>3, <1>5, SlotBySlot
  <1>7. Half(MoveItems(p, q), TradedCount)
    <2> DEFINE x == <<TradedCount, MoveItems(p, q)>>
    <2>1. x[1] = TradedCount /\ x[2] = MoveItems(p, q)
      OBVIOUS
    <2> HIDE DEF x, Half
    <2>2. x \in G
      BY <1>6 DEF x
    <2> QED BY <2>1, <2>2
  <1> QED BY <1>7, BelowSlots

LEMMA ExchangeKeepsBags ==
    ASSUME HarmlessLimits, BagInv, NEW p \in Players, NEW q \in Players, p # q,
           trade[p] \in Sides, trade[q] \in Sides, BothCanStore(p, q), Exchange(p, q)
    PROVE  BagInv'
  <1>1. /\ bag' \in Bags /\ away' = away
        /\ bag'[p] = (bag[p] \ Offered(p)) \cup Offered(q)
        /\ bag'[q] = (bag[q] \ Offered(q)) \cup Offered(p)
        /\ \A r \in Players \ {p, q} : bag'[r] = bag[r]
    BY ExchangedBags DEF Exchange
  <1>2. Offered(p) \subseteq bag[p] /\ Offered(q) \subseteq bag[q] /\ bag \in Bags
    BY OfferedInBag DEF BagInv
  <1> DEFINE P == Offered(p)
             Q == Offered(q)
  <1>3. NothingLost'
    <2>1. /\ \A i \in Items : i \in away <=> \A r \in Players : i \notin bag[r]
          /\ \A r, o \in Players : r # o => bag[r] \cap bag[o] = {}
      BY DEF BagInv, NothingLost
    <2> HIDE DEF P, Q
    <2>2. \A i \in Items : (\A r \in Players : i \notin bag'[r]) <=> (\A r \in Players : i \notin bag[r])
      <3> SUFFICES ASSUME NEW i \in Items
                   PROVE  (\A r \in Players : i \notin bag'[r]) <=> (\A r \in Players : i \notin bag[r])
        OBVIOUS
      <3>1. i \in bag'[p] \/ i \in bag'[q] <=> i \in bag[p] \/ i \in bag[q]
        BY <1>1, <1>2
      <3> QED BY <1>1, <3>1
    <2>3. \A r, o \in Players : r # o => bag'[r] \cap bag'[o] = {}
      <3> SUFFICES ASSUME NEW r \in Players, NEW o \in Players, r # o, NEW i, i \in bag'[r], i \in bag'[o]
                   PROVE  FALSE
        OBVIOUS
      <3>1. CASE {r, o} = {p, q}
        BY <1>1, <1>2, <2>1, <3>1
      <3>2. CASE r \in {p, q} /\ o \notin {p, q}
        BY <1>1, <1>2, <2>1, <3>2
      <3>3. CASE r \notin {p, q} /\ o \in {p, q}
        BY <1>1, <1>2, <2>1, <3>3
      <3>4. CASE r \notin {p, q} /\ o \notin {p, q}
        BY <1>1, <2>1, <3>4
      <3> QED BY <3>1, <3>2, <3>3, <3>4
    <2> QED BY <1>1, <2>1, <2>2, <2>3 DEF NothingLost
  <1>4. ASSUME NEW r \in {p, q}, NEW o \in {p, q}, r # o,
               NEW i \in bag'[r], NEW j \in bag'[r], Kind[i] = Kind[j], Limit[Kind[i]] = 1
        PROVE  i = j
    <2>1. bag'[r] = (bag[r] \ Offered(r)) \cup Offered(o) /\ CanStoreItems(r, Offered(r), Offered(o))
      BY <1>1, <1>4 DEF BothCanStore
    <2>2. /\ Offered(o) \subseteq bag[o] /\ r \in Players /\ o \in Players
          /\ bag[r] \in SUBSET Items /\ bag[o] \in SUBSET Items
      BY <1>2 DEF Bags
    <2>3. ASSUME NEW k \in Offered(o), NEW l \in bag[r], Kind[k] = Kind[l], Limit[Kind[k]] = 1
          PROVE  k = l
      <3>1. CanTakeMore(bag[r], k) /\ k \in Items
        BY <2>1, <2>2 DEF CanStoreItems
      <3> QED BY <2>2, <2>3, <3>1, SimilarItems
    <2>4. ASSUME NEW k \in bag[r] \cup Offered(o), NEW l \in bag[r] \cup Offered(o),
                 Kind[k] = Kind[l], Limit[Kind[k]] = 1
          PROVE  k = l
      <3>1. CASE k \in bag[r] /\ l \in bag[r]
        BY <2>2, <2>4, <3>1 DEF BagInv, OneOfAKind
      <3>2. CASE k \in Offered(o) /\ l \in Offered(o)
        BY <2>2, <2>4, <3>2 DEF BagInv, OneOfAKind
      <3>3. CASE k \in Offered(o) /\ l \in bag[r]
        BY <2>3, <2>4, <3>3
      <3>4. CASE k \in bag[r] /\ l \in Offered(o)
        BY <2>3, <2>4, <3>4
      <3> QED BY <3>1, <3>2, <3>3, <3>4
    <2> QED BY <1>4, <2>1, <2>4
  <1>5. OneOfAKind'
    <2> SUFFICES ASSUME NEW r \in Players, NEW i \in bag'[r], NEW j \in bag'[r],
                        Kind[i] = Kind[j], Limit[Kind[i]] = 1
                 PROVE  i = j
      BY DEF OneOfAKind
    <2>1. CASE r \in {p, q}
      <3>1. PICK o \in {p, q} : r # o
        BY <2>1
      <3> QED BY <1>4, <2>1, <3>1
    <2>2. CASE r \notin {p, q}
      BY <1>1, <2>2 DEF BagInv, OneOfAKind
    <2> QED BY <2>1, <2>2
  <1> QED BY <1>1, <1>3, <1>5 DEF BagInv

(***************************************************************************)
(* The steps that change what the players have.                            *)
(***************************************************************************)
\* Trade of p with q completes, the checks of HandleAcceptTradeOpcode having passed.
Completes(p, q) ==
    /\ p \in Players /\ q \in Players \ {p} /\ trade[p] \in Sides /\ trade[q] \in Sides
    /\ trade[p].trader = q /\ trade[q].trader = p
    /\ \E near \in BOOLEAN : Refused(p, q, near) = NoPlayer
    /\ BothCanStore(p, q)
    /\ Exchange(p, q)

LEMMA PacketEffect ==
    ASSUME IInv, NEW p \in Players, OnPacket(p)
    PROVE  \/ Completes(p, trade[p].trader)
           \/ UNCHANGED <<online, bag, bound, money, pending, saved, dropped, deals, away>>
  <1>1. CASE AcceptTrade(p)
    <2>1. /\ trade[p] \in Sides /\ trade[p].trader \in Players \ {p}
          /\ trade[trade[p].trader] \in Sides /\ trade[trade[p].trader].trader = p
      BY <1>1, TradeOfPlayer DEF AcceptTrade, Trading, IInv, Paired
    <2> QED BY <1>1, <2>1 DEF AcceptTrade, Completes
  <1>2. CASE ~AcceptTrade(p)
    BY <1>2 DEF OnPacket, InitiateTrade, SetTradeGold, SetTradeItem, ClearTradeItem,
                CastOnTradeItem, UnacceptTrade, CancelTrade
  <1> QED BY <1>1, <1>2

TypeInv ==
    /\ online \subseteq Players /\ bound \subseteq Items /\ away \subseteq Items
    /\ bag \in Bags
    /\ money \in [Players -> 0 .. MaxMoney - 1]

LEMMA MoneyInBounds ==
    ASSUME NEW m \in 0 .. MaxMoney - 1, NEW amount \in 0 .. MaxMoney
    PROVE  Spent(m, amount) \in 0 .. MaxMoney - 1 /\ Earned(m, amount) \in 0 .. MaxMoney - 1
  BY Sizes DEF Spent, Earned

LEMMA TypesInductive == IInv /\ TypeInv /\ [Next]_vars => TypeInv'
  <1> SUFFICES ASSUME IInv, TypeInv, [Next]_vars PROVE TypeInv'
    OBVIOUS
  <1> USE DEF TypeInv
  <1>1. ASSUME NEW p \in Players, OnPacket(p)
        PROVE  TypeInv'
    <2>1. CASE UNCHANGED <<online, bag, bound, money, pending, saved, dropped, deals, away>>
      BY <2>1
    <2>2. ASSUME NEW q, Completes(p, q)
          PROVE  TypeInv'
      <3>1. /\ bag' = MoveItems(p, q) /\ q \in Players \ {p}
            /\ money' = [money EXCEPT ![p] = Earned(Spent(@, trade[p].offer.money), trade[q].offer.money),
                                      ![q] = Earned(Spent(@, trade[q].offer.money), trade[p].offer.money)]
            /\ UNCHANGED <<online, bound, away>>
        BY <2>2 DEF Completes, Exchange
      <3>2. /\ trade[p].offer.money \in 0 .. MaxMoney /\ trade[q].offer.money \in 0 .. MaxMoney
        BY <2>2 DEF Completes, Sides, TradeData, Offers
      <3>3. bag' \in Bags
        BY <3>1, BagsStayTyped
      <3>4. money[p] \in 0 .. MaxMoney - 1 /\ money[q] \in 0 .. MaxMoney - 1
        BY <3>1
      <3>5. /\ Earned(Spent(money[p], trade[p].offer.money), trade[q].offer.money) \in 0 .. MaxMoney - 1
            /\ Earned(Spent(money[q], trade[q].offer.money), trade[p].offer.money) \in 0 .. MaxMoney - 1
        BY <3>2, <3>4, MoneyInBounds
      <3>6. money' \in [Players -> 0 .. MaxMoney - 1]
        BY <3>1, <3>5
      <3> QED BY <3>1, <3>3, <3>6
    <2> QED BY <1>1, <2>1, <2>2, PacketEffect
  <1>2. ASSUME NEW p \in Players, Meanwhile(p)
        PROVE  TypeInv'
    <2>1. CASE \E i \in Items : LoseItem(p, i) \/ ReceiveItem(p, i)
      BY <2>1 DEF LoseItem, ReceiveItem, Bags
    <2>2. CASE EarnOrSpend(p)
      <3>1. money[p] \in 0 .. MaxMoney - 1 /\ 1 \in 0 .. MaxMoney
        BY Sizes
      <3>2. /\ Spent(money[p], 1) \in 0 .. MaxMoney - 1 /\ Earned(money[p], 1) \in 0 .. MaxMoney - 1
        BY <3>1, MoneyInBounds
      <3> QED BY <2>2, <3>2 DEF EarnOrSpend
    <2>3. CASE SaveToDB(p) \/ LogoutPlayer(p) \/ HandlePlayerLogin(p)
      BY <2>3 DEF SaveToDB, LogoutPlayer, HandlePlayerLogin
    <2> QED BY <1>2, <2>1, <2>2, <2>3 DEF Meanwhile
  <1>3. CASE \E i \in Items : BindItem(i)
    BY <1>3 DEF BindItem
  <1>4. CASE Execute
    BY <1>4 DEF Execute
  <1>5. CASE UNCHANGED vars
    BY <1>5 DEF vars
  <1> QED BY <1>1, <1>2, <1>3, <1>4, <1>5 DEF Next

LEMMA TypesInitially == Init => TypeInv
  <1> SUFFICES ASSUME Init PROVE TypeInv
    OBVIOUS
  <1>1. bag \in Bags /\ money \in [Players -> 0 .. MaxMoney - 1]
    BY Beginning DEF Init, Bags
  <1> QED BY <1>1 DEF Init, TypeInv

\* For any players, items and bags, the state is well typed; in particular a player's gold stays
\* below MAX_MONEY_AMOUNT through every trade, and the bags hold items only.
THEOREM TypeCorrect == Spec => []TypeOK
  <1>1. IInv /\ TypeInv => TypeOK
    <2> SUFFICES ASSUME IInv, TypeInv PROVE TypeOK
      OBVIOUS
    <2>1. trade \in [Players -> TradeData \cup {NoTrade}]
      <3>1. Sides \subseteq TradeData
        BY DEF Sides
      <3> QED BY <3>1 DEF IInv, Tables
    <2> QED BY <2>1 DEF TypeInv, TypeOK, Bags
  <1> QED BY Initially, Inductive, TypesInitially, TypesInductive, <1>1, PTL DEF Spec

LEMMA BagsInductive ==
    ASSUME HarmlessLimits
    PROVE  IInv /\ BagInv /\ [Next]_vars => BagInv'
  <1> SUFFICES ASSUME IInv, BagInv, [Next]_vars PROVE BagInv'
    OBVIOUS
  <1>1. ASSUME UNCHANGED <<bag, away>>
        PROVE  BagInv'
    BY <1>1 DEF BagInv, NothingLost, OneOfAKind
  <1>2. ASSUME NEW p \in Players, NEW i \in Items, LoseItem(p, i)
        PROVE  BagInv'
    <2>1. /\ i \in bag[p] /\ bag' = [bag EXCEPT ![p] = @ \ {i}] /\ away' = away \cup {i}
      BY <1>2 DEF LoseItem
    <2>2. /\ bag' \in Bags /\ bag'[p] = bag[p] \ {i}
          /\ \A r \in Players \ {p} : bag'[r] = bag[r] /\ i \notin bag[r]
      BY <2>1 DEF BagInv, Bags, NothingLost
    <2>3. /\ \A j \in Items : j \in away <=> \A r \in Players : j \notin bag[r]
          /\ \A r, o \in Players : r # o => bag[r] \cap bag[o] = {}
      BY DEF BagInv, NothingLost
    <2>4. \A j \in Items : j \in away' <=> \A r \in Players : j \notin bag'[r]
      BY <2>1, <2>2, <2>3
    <2>5. \A r, o \in Players : r # o => bag'[r] \cap bag'[o] = {}
      BY <2>2, <2>3
    <2>6. \A r \in Players : bag'[r] \subseteq bag[r]
      BY <2>2
    <2>7. OneOfAKind'
      BY <2>6 DEF BagInv, OneOfAKind
    <2>8. away' \subseteq Items
      BY <2>1 DEF BagInv
    <2> QED BY <2>2, <2>4, <2>5, <2>7, <2>8 DEF BagInv, NothingLost
  <1>3. ASSUME NEW p \in Players, NEW i \in Items, ReceiveItem(p, i)
        PROVE  BagInv'
    <2>1. /\ i \in away /\ bag' = [bag EXCEPT ![p] = @ \cup {i}] /\ away' = away \ {i}
          /\ CanTakeMore(bag[p], i)
      BY <1>3 DEF ReceiveItem, CanStore
    <2>2. /\ bag' \in Bags /\ bag'[p] = bag[p] \cup {i} /\ bag[p] \in SUBSET Items
          /\ \A r \in Players \ {p} : bag'[r] = bag[r]
      BY <2>1 DEF BagInv, Bags
    <2>3. /\ \A j \in Items : j \in away <=> \A r \in Players : j \notin bag[r]
          /\ \A r, o \in Players : r # o => bag[r] \cap bag[o] = {}
      BY DEF BagInv, NothingLost
    <2>4. \A j \in Items : j \in away' <=> \A r \in Players : j \notin bag'[r]
      BY <2>1, <2>2, <2>3
    <2>5. \A r, o \in Players : r # o => bag'[r] \cap bag'[o] = {}
      BY <2>1, <2>2, <2>3
    <2>6. Limit[Kind[i]] = 1 => \A j \in bag[p] : Kind[j] = Kind[i] => j = i
      BY <2>1, <2>2, SimilarItems
    <2>7. OneOfAKind'
      <3> SUFFICES ASSUME NEW r \in Players, NEW k \in bag'[r], NEW l \in bag'[r],
                          Kind[k] = Kind[l], Limit[Kind[k]] = 1
                   PROVE  k = l
        BY DEF OneOfAKind
      <3>1. CASE k \in bag[r] /\ l \in bag[r]
        BY <3>1 DEF BagInv, OneOfAKind
      <3>2. CASE ~(k \in bag[r] /\ l \in bag[r])
        <4>1. r = p /\ k \in bag[p] \cup {i} /\ l \in bag[p] \cup {i}
          BY <2>2, <3>2
        <4> QED BY <2>6, <3>2, <4>1
      <3> QED BY <3>1, <3>2
    <2>8. away' \subseteq Items
      BY <2>1 DEF BagInv
    <2> QED BY <2>2, <2>4, <2>5, <2>7, <2>8 DEF BagInv, NothingLost
  <1>4. ASSUME NEW p \in Players, OnPacket(p)
        PROVE  BagInv'
    <2>1. CASE UNCHANGED <<online, bag, bound, money, pending, saved, dropped, deals, away>>
      BY <1>1, <2>1
    <2>2. ASSUME NEW q, Completes(p, q)
          PROVE  BagInv'
      BY <2>2, ExchangeKeepsBags DEF Completes
    <2> QED BY <1>4, <2>1, <2>2, PacketEffect
  <1>5. ASSUME NEW p \in Players, Meanwhile(p)
        PROVE  BagInv'
    <2>1. CASE \E i \in Items : LoseItem(p, i) \/ ReceiveItem(p, i)
      BY <1>2, <1>3, <2>1
    <2>2. CASE EarnOrSpend(p) \/ SaveToDB(p) \/ LogoutPlayer(p) \/ HandlePlayerLogin(p)
      BY <1>1, <2>2 DEF EarnOrSpend, SaveToDB, LogoutPlayer, HandlePlayerLogin
    <2> QED BY <1>5, <2>1, <2>2 DEF Meanwhile
  <1>6. CASE \E i \in Items : BindItem(i)
    BY <1>1, <1>6 DEF BindItem
  <1>7. CASE Execute \/ UNCHANGED vars
    BY <1>1, <1>7 DEF Execute, vars
  <1> QED BY <1>4, <1>5, <1>6, <1>7 DEF Next

LEMMA BagsInitially == Init => BagInv
  <1> SUFFICES ASSUME Init PROVE BagInv
    OBVIOUS
  <1>1. /\ bag = FirstBags /\ bag \in Bags
        /\ \A i : i \in away <=> i \in Items /\ \A p \in Players : i \notin bag[p]
    BY Beginning DEF Init, Bags
  <1>2. NothingLost
    <2>1. \A p, q \in Players : p # q => bag[p] \cap bag[q] = {}
      BY <1>1, Beginning
    <2> QED BY <1>1, <2>1 DEF NothingLost
  <1>3. OneOfAKind
    <2> SUFFICES ASSUME NEW p \in Players, NEW i \in bag[p], NEW j \in bag[p],
                        Kind[i] = Kind[j], Limit[Kind[i]] = 1, i # j
                 PROVE  FALSE
      BY DEF OneOfAKind
    <2> DEFINE K == {k \in bag[p] : Kind[k] = Kind[i]}
    <2>1. Cardinality(K) <= 1
      BY <1>1, Beginning
    <2>2. {i} \cup {j} \subseteq K /\ K \subseteq Items
      BY <1>1 DEF Bags
    <2> HIDE DEF K
    <2>3. IsFiniteSet(K) /\ Cardinality(K) \in Nat
      BY <2>2, FiniteItems, FS_Subset, FS_CardinalityType
    <2>4. IsFiniteSet({i}) /\ Cardinality({i}) = 1
      BY FS_Singleton
    <2>5. Cardinality({i} \cup {j}) = 2
      <3>1. j \notin {i}
        OBVIOUS
      <3>2. Cardinality({i} \cup {j}) = Cardinality({i}) + 1
        BY <2>4, <3>1, FS_AddElement
      <3> QED BY <2>4, <3>2
    <2> QED BY <2>1, <2>2, <2>3, <2>5, FS_Subset
  <1> QED BY <1>1, <1>2, <1>3 DEF BagInv

\* For any players, items and bags, as long as no template allows a player several of its items
\* but not all: no exchange duplicates an item or drops one, however full the bags are and
\* whatever left them since it was offered.
THEOREM NoItemLost == ASSUME HarmlessLimits PROVE Spec => []NothingLost
  <1>1. BagInv => NothingLost
    BY DEF BagInv
  <1> QED BY Initially, Inductive, BagsInitially, BagsInductive, <1>1, PTL DEF Spec

LEMMA GoldAddsUp ==
    ASSUME NEW p \in Players, NEW q \in Players, p # q, trade[p] \in Sides, trade[q] \in Sides,
           money \in [Players -> 0 .. MaxMoney - 1],
           NEW near, Refused(p, q, near) = NoPlayer, Exchange(p, q)
    PROVE  /\ money'[p] + trade[p].offer.money = money[p] + trade[q].offer.money
           /\ money'[q] + trade[q].offer.money = money[q] + trade[p].offer.money
  <1> DEFINE pays == trade[p].offer.money
             gets == trade[q].offer.money
  <1>1. /\ pays \in Nat /\ gets \in Nat /\ money[p] \in Nat /\ money[q] \in Nat /\ MaxMoney \in Nat
        /\ p # NoPlayer /\ q # NoPlayer
    BY Sizes, Absent DEF Sides, TradeData, Offers
  <1>2. /\ ~(money[p] < pays) /\ ~(money[q] < gets)
        /\ ~(money[p] + gets >= MaxMoney) /\ ~(money[q] + pays >= MaxMoney)
    BY <1>1 DEF Refused
  <1>3. /\ money'[p] = Earned(Spent(money[p], pays), gets)
        /\ money'[q] = Earned(Spent(money[q], gets), pays)
    BY DEF Exchange
  <1> HIDE DEF pays, gets
  <1>4. ASSUME NEW m \in Nat, NEW a \in Nat, NEW b \in Nat, ~(m < a), ~(m + b >= MaxMoney)
        PROVE  Earned(Spent(m, a), b) + a = m + b
    <2>1. Spent(m, a) = m - a
      BY <1>4 DEF Spent
    <2>2. Earned(m - a, b) = (m - a) + b
      BY <1>1, <1>4 DEF Earned
    <2> QED BY <2>1, <2>2
  <1>5. Earned(Spent(money[p], pays), gets) + pays = money[p] + gets
    BY <1>1, <1>2, <1>4
  <1>6. Earned(Spent(money[q], gets), pays) + gets = money[q] + pays
    BY <1>1, <1>2, <1>4
  <1> QED BY <1>3, <1>5, <1>6 DEF pays, gets

\* A step that adds to what two players have traded is the exchange between them.
LEMMA NewDeals ==
    ASSUME IInv, [Next]_vars, NEW p \in Players, NEW q \in Players, p # q,
           deals'[p] # deals[p], deals'[q] # deals[q]
    PROVE  Completes(p, q) \/ Completes(q, p)
  <1>1. PICK r \in Players : OnPacket(r)
    BY DEF Next, vars, Meanwhile, LoseItem, ReceiveItem, EarnOrSpend, SaveToDB, LogoutPlayer,
           HandlePlayerLogin, BindItem, Execute
  <1>2. Completes(r, trade[r].trader)
    BY <1>1, PacketEffect
  <1>3. \A o \in Players : o \notin {r, trade[r].trader} => deals'[o] = deals[o]
    BY <1>2 DEF Completes, Exchange
  <1>4. p \in {r, trade[r].trader} /\ q \in {r, trade[r].trader}
    BY <1>3
  <1> QED BY <1>2, <1>4

\* For any players and items, under the same condition on the templates: when a trade completes,
\* the player who accepted first gets what he saw on the table and gives what he offered, as
\* far as it is still there, and the gold of both adds up.
THEOREM ExchangedAsAccepted == ASSUME HarmlessLimits PROVE Spec => ExchangeAsAccepted
  <1> DEFINE Exchanged(p, q) ==
        LET mine == seen[p][1]
            his  == seen[p][2]
            gives == {mine.item[s] : s \in Traded} \cap bag[p]
            takes == {his.item[s] : s \in Traded} \cap bag[q]
        IN  /\ bag'[p] = (bag[p] \ gives) \cup takes
            /\ bag'[q] = (bag[q] \ takes) \cup gives
            /\ money'[p] + mine.money = money[p] + his.money
            /\ money'[q] + his.money = money[q] + mine.money
  <1>1. ASSUME IInv, TypeInv, BagInv, [Next]_vars, NEW p \in Players, NEW q \in Players,
               deals'[p] # deals[p], deals'[q] # deals[q], p # q, Accepted(trade, p)
        PROVE  Exchanged(p, q)
    <2>1. PICK x \in {p, q}, y \in {p, q} : x # y /\ Completes(x, y)
      BY <1>1, NewDeals
    <2>2. /\ trade[p] \in Sides /\ trade[q] \in Sides /\ trade[p].trader = q
          /\ BothCanStore(x, y) /\ Exchange(x, y)
      BY <2>1 DEF Completes
    <2>3. seen[p] = <<trade[p].offer, trade[q].offer>>
      BY <1>1, <2>2 DEF IInv, AcceptedAsSeen, Table
    <2>4. \A r \in Players : Offered(r) = {trade[r].offer.item[s] : s \in Traded} \cap bag[r]
      BY DEF Offered, ItemAt
    <2>5. /\ bag'[x] = (bag[x] \ Offered(x)) \cup Offered(y)
          /\ bag'[y] = (bag[y] \ Offered(y)) \cup Offered(x)
      BY <1>1, <2>1, <2>2, ExchangedBags DEF Exchange
    <2>6. /\ money'[x] + trade[x].offer.money = money[x] + trade[y].offer.money
          /\ money'[y] + trade[y].offer.money = money[y] + trade[x].offer.money
      BY <1>1, <2>1, GoldAddsUp DEF Completes, TypeInv
    <2>7. /\ bag'[p] = (bag[p] \ Offered(p)) \cup Offered(q)
          /\ bag'[q] = (bag[q] \ Offered(q)) \cup Offered(p)
          /\ money'[p] + trade[p].offer.money = money[p] + trade[q].offer.money
          /\ money'[q] + trade[q].offer.money = money[q] + trade[p].offer.money
      BY <2>1, <2>5, <2>6
    <2>8. seen[p][1] = trade[p].offer /\ seen[p][2] = trade[q].offer
      BY <2>3
    <2> QED BY <2>4, <2>7, <2>8
  <1> DEFINE A == \A p, q \in Players :
          deals'[p] # deals[p] /\ deals'[q] # deals[q] /\ p # q /\ Accepted(trade, p) => Exchanged(p, q)
  <1>2. IInv /\ TypeInv /\ BagInv /\ [Next]_vars => [A]_vars
    <2> HIDE DEF Exchanged
    <2> QED BY <1>1
  <1>3. Spec => [][A]_vars
    <2> HIDE DEF A
    <2> QED BY Initially, Inductive, TypesInitially, TypesInductive, BagsInitially, BagsInductive,
               <1>2, PTL DEF Spec
  <1> QED BY <1>3, PTL DEF ExchangeAsAccepted
=============================================================================
