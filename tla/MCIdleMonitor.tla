--------------------------- MODULE MCIdleMonitor ---------------------------
(* IdleMonitor on small instances. *)
EXTENDS IdleMonitor
=============================================================================
