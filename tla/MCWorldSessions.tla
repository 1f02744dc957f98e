---------------------------- MODULE MCWorldSessions ----------------------------
(* A player who connects twice, another player, and a game master. *)
EXTENDS WorldSessions, TLC

CONSTANTS alice1, alice2, bob1, gm1, alice, bob, gm

MCConnections == {alice1, alice2, bob1, gm1}
MCAccounts == {alice, bob, gm}
MCAccountOf ==
    (alice1 :> alice) @@ (alice2 :> alice) @@ (bob1 :> bob) @@ (gm1 :> gm)
MCPrivileged == {gm}

BothOfAlice == {alice1, alice2}
OnlyAlice == {alice}
AccountOfAlice == (alice1 :> alice) @@ (alice2 :> alice)

\* The connections of an account are interchangeable.
Symmetry == Permutations({alice1, alice2})
================================================================================
