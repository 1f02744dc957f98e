----------------------------- MODULE InstanceIdPool -----------------------------
(***************************************************************************)
(* The instance id allocator under every use the server makes of it: it is *)
(* loaded with the ids stored in the database, then ids are generated and  *)
(* freed in any order.  Unlike InstanceLifecycle, this reaches the ids at  *)
(* which the size of the vector matters.                                   *)
(***************************************************************************)
EXTENDS InstanceIds

VARIABLE used   \* the ids of stored instances and those handed out, not yet freed

poolVars == <<idVars, used>>

Unloaded ==
    /\ bits = {} /\ size = 0 /\ capacity = 0 /\ next = 1
    /\ used = {}

\* LoadInstances: the `instance` table may hold any ids of earlier runs.
Load ==
    /\ used = {} /\ size = 0
    /\ \E stored \in SUBSET Ids : used' = stored /\ LoadInstanceIds(stored)

Generate ==
    /\ next <= MaxId
    /\ GenerateInstanceId
    /\ used' = used \cup {next}

Free(id) ==
    /\ id \in used
    /\ FreeInstanceIds({id})
    /\ used' = used \ {id}

PoolSpec == Unloaded /\ [][Load \/ Generate \/ \E id \in Ids : Free(id)]_poolVars

\* MapManager.cpp:365-366 "find the lowest available id starting from the
\* current NextInstanceId (which should be the lowest according to the logic
\* in FreeInstanceId()": the id handed out next is not in use.
NextIsAvailable == next \notin used
=============================================================================
