--------------------------- MODULE MCInstanceLifecycle ---------------------------
(* A solo player and a group of two in two dungeons that must share one id,  *)
(* so that every freed id is reused by the other dungeon or party.           *)
EXTENDS InstanceLifecycle, TLC

CONSTANTS deadmines, stockade, solo, tank, healer, party

MCGroups == {party}

BothDungeons == {deadmines, stockade}
ThreePlayers == {solo, tank, healer}
GroupOfThree == (solo :> NoGroup) @@ (tank :> party) @@ (healer :> party)

\* The two dungeons are interchangeable, and so are the group's members.
Symmetry == Permutations(BothDungeons) \cup Permutations({tank, healer})
=============================================================================
