------------------------------ MODULE MCMapUpdater ------------------------------
(* A continent, two instanced maps with three instances, and two workers. *)
EXTENDS MapUpdater, TLC

CONSTANTS continent, dungeon, arena, dungeon1, dungeon2, arena1, w1, w2

MCBaseMaps == {continent, dungeon, arena}
MCInstances == {dungeon1, dungeon2, arena1}
MCParent == (dungeon1 :> dungeon) @@ (dungeon2 :> dungeon) @@ (arena1 :> arena)
MCWorkers == {w1, w2}
=============================================================================
