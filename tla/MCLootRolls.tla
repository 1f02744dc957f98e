------------------------------ MODULE MCLootRolls ------------------------------
(* Two corpses, on one of them two items; three players, of whom two or three are in the group. *)
EXTENDS LootRolls, TLC

CONSTANTS ann, ben, cid, wolf, bear, sword, cloth, ring

Three == {ann, ben, cid}
Beasts == {wolf, bear}
Drops == {sword, cloth, ring}
DropOf == (sword :> wolf) @@ (cloth :> wolf) @@ (ring :> bear)
Rares == {sword, ring}
AnyPlayer == Permutations(Three)
=============================================================================
