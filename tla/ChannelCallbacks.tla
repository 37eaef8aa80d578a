--------------------------- MODULE ChannelCallbacks ---------------------------
(***************************************************************************)
(* What a channel promises to the handlers of its pipeline                 *)
(* (channel_handler.h), whatever closes it and whenever: callbacks run one *)
(* at a time; channel_created comes first and once; channel_connected at   *)
(* most once after it; data callbacks only between channel_connected and   *)
(* channel_disconnected; channel_disconnected at most once, and    *)
(* only for a channel that was connected.  channel_write, exception_caught *)
(* and user_event carry no such promise: the code calls them in any phase. *)
(***************************************************************************)
VARIABLES phase, \* the life of the channel as its handlers see it
          cb     \* the callback being executed, "idle" when there is none

vars == <<phase, cb>>

DataCallbacks == {"read", "rdbuf_empty", "written"}
FreeCallbacks == {"write", "exception", "event"}

Init == phase = "new" /\ cb = "idle"

Created      == phase = "new"       /\ phase' = "created"      /\ cb' = "created"
Connected    == phase = "created"   /\ phase' = "connected"    /\ cb' = "connected"
Disconnected == phase = "connected" /\ phase' = "disconnected" /\ cb' = "disconnected"
Data         == phase = "connected" /\ cb' \in DataCallbacks   /\ UNCHANGED phase
Free         == cb = "idle"         /\ cb' \in FreeCallbacks   /\ UNCHANGED phase
Return       == cb # "idle"         /\ cb' = "idle"            /\ UNCHANGED phase

Next == Created \/ Connected \/ Disconnected \/ Data \/ Free \/ Return

Spec == Init /\ [][Next]_vars
===============================================================================
