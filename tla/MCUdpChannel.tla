---------------------------- MODULE MCUdpChannel ----------------------------
(* UdpChannel on small instances. *)
EXTENDS UdpChannel
=============================================================================
