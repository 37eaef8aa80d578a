--------------------------- MODULE MCChannelContext ---------------------------
(* ChannelContext on small instances. *)
EXTENDS ChannelContext
===============================================================================
