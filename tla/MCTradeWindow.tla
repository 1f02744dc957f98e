----------------------------- MODULE MCTradeWindow -----------------------------
(* Two players trade and a third one waits for his turn.  In the first instance a player may    *)
(* have one ring, and bob's bags are full; in the second, all bags are full and a player may    *)
(* have two tokens.                                                                             *)
EXTENDS TradeWindow, TLC

CONSTANTS alice, bob, carol, ring1, ring2, sword, token1, token2, token3, token4, herb, enchant

TwoPlayers   == {alice, bob}
ThreePlayers == {alice, bob, carol}

Rings      == {ring1, ring2, sword}
RingKind   == (ring1 :> "ring") @@ (ring2 :> "ring") @@ (sword :> "sword")
RingLimit  == [ring |-> 1, sword |-> 2]
RingBags   == (alice :> {ring1, sword}) @@ (bob :> {ring2}) @@ (carol :> {})
RingRoom   == [p \in ThreePlayers |-> IF p = alice THEN 2 ELSE 1]

Tokens     == {token1, token2, token3, token4, ring1, sword, herb}
TokenKind  == [i \in Tokens |-> IF i \in {token1, token2, token3, token4} THEN "token" ELSE "other"]
TokenLimit == [token |-> 2, other |-> 6]
TokenBags  == (alice :> {token1, token2, herb}) @@ (bob :> {token3, ring1, sword})
TokenRoom  == [p \in TwoPlayers |-> 3]

RingGold   == (alice :> 1) @@ (bob :> 0) @@ (carol :> 0)
TokenGold  == (alice :> 1) @@ (bob :> 0)
=============================================================================
