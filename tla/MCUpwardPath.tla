---------------------------- MODULE MCUpwardPath ----------------------------
(***************************************************************************)
(* An instance of UpwardPath for TLC.                                      *)
(***************************************************************************)
EXTENDS UpwardPath

Kind(ethertype, protocol, parts, copies) ==
  [ ethertype |-> ethertype, protocol |-> protocol, parts |-> parts, copies |-> copies ]

(* A datagram for one socket, a multicast for two sockets in two           *)
(* fragments, one for a protocol that is not connected, and a frame of an  *)
(* unknown protocol.                                                       *)
MCKinds ==
  { Kind("ipv4", "udp", 1, 1), Kind("ipv4", "udp", 2, 2), Kind("ipv4", "other", 1, 0),
    Kind("unknown", "none", 1, 0) }
=============================================================================
