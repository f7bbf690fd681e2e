---------------------------- MODULE MCUdpSockets ----------------------------
(***************************************************************************)
(* Instances of UdpSockets for TLC.  The ephemeral ports are 2 and 3;      *)
(* applications ask for port 2, which is one of them.                      *)
(***************************************************************************)
EXTENDS UdpSockets, TLC

SocketSymmetry ==
  Permutations(SockIds) \cup Permutations(Addresses) \cup Permutations(Remotes)
=============================================================================
