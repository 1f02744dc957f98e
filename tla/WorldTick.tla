------------------------------- MODULE WorldTick -------------------------------
(***************************************************************************)
(* What MapManager::Update promises to the world loop, whatever the number *)
(* of threads behind it.  A tick has two phases.  While the world thread   *)
(* owns the maps ("world") it may create them; once it hands them over     *)
(* ("updating") every live map is handled once, instances may be unloaded, *)
(* and the world thread gets the maps back only when nothing is left.      *)
(***************************************************************************)
CONSTANT Maps

VARIABLES
    phase,      \* who owns the maps: "world", "updating", or "stopped"
    live,       \* the maps that exist
    handled     \* the maps handled since the tick began

tickVars == <<phase, live, handled>>

TickInit ==
    /\ phase = "world"
    /\ live = {}
    /\ handled = {}

Create(m) ==
    /\ phase = "world"
    /\ m \notin live
    /\ live' = live \cup {m}
    /\ UNCHANGED <<phase, handled>>

BeginTick ==
    /\ phase = "world"
    /\ phase' = "updating"
    /\ handled' = {}
    /\ UNCHANGED live

Handle(m) ==
    /\ phase = "updating"
    /\ m \in live \ handled
    /\ handled' = handled \cup {m}
    /\ UNCHANGED <<phase, live>>

Unload(m) ==
    /\ phase = "updating"
    /\ m \in live \ handled
    /\ live' = live \ {m}
    /\ UNCHANGED <<phase, handled>>

EndTick ==
    /\ phase = "updating"
    /\ live \subseteq handled
    /\ phase' = "world"
    /\ UNCHANGED <<live, handled>>

StopTicking ==
    /\ phase = "world"
    /\ phase' = "stopped"
    /\ live' = {}
    /\ UNCHANGED handled

TickNext ==
    \/ \E m \in Maps : Create(m) \/ Handle(m) \/ Unload(m)
    \/ BeginTick \/ EndTick \/ StopTicking

TickSpec == TickInit /\ [][TickNext]_tickVars
=============================================================================
