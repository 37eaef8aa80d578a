---------------------------- MODULE UdpCallbacks ----------------------------
(***************************************************************************)
(* What a UDP channel promises to the handlers of its pipeline, whatever   *)
(* closes it and whenever: one callback at a time, channel_created first   *)
(* and once, channel_bound at most once after it, channel_connected at     *)
(* most once and only for a bound channel, datagrams only between          *)
(* channel_bound and channel_disconnected, and channel_disconnected at     *)
(* most once and only for a connected channel.                             *)
(***************************************************************************)
VARIABLES phase, cb
vars == <<phase, cb>>

Moves == {<<"new", "created">>, <<"created", "bound">>, <<"bound", "connected">>,
          <<"connected", "disconnected">>}

Init == phase = "new" /\ cb = "idle"
Move == <<phase, phase'>> \in Moves /\ cb' = phase'
Data == phase \in {"bound", "connected"} /\ cb' \in {"read", "written"} /\ UNCHANGED phase
Free == cb = "idle" /\ cb' \in {"write", "exception", "event"} /\ UNCHANGED phase
Return == cb # "idle" /\ cb' = "idle" /\ UNCHANGED phase

Spec == Init /\ [][Move \/ Data \/ Free \/ Return]_vars
=============================================================================
