----------------------------- MODULE MCSocketWriter -----------------------------
(* Three packets, one of them larger than the buffer. *)
EXTENDS SocketWriter, TLC

CONSTANTS error, spell, mail

MCPackets == {error, spell, mail}
MCSize == (error :> 1) @@ (spell :> 2) @@ (mail :> 4)
================================================================================
