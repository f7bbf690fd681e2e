---------------------------- MODULE MCIpv4Output ----------------------------
(***************************************************************************)
(* Instances of Ipv4Output for TLC.  An MTU of 7 with headers of 3 bytes   *)
(* gives fragments of 4 bytes (a unit of 2), so that datagrams of 2, 5 and *)
(* 8 bytes need one, two (the last short) and two (the last full).         *)
(***************************************************************************)
EXTENDS Ipv4Output

CONSTANTS a, b

MCUninitialized == {-1, 0, 9}
MCHeaderLength == 3
MCFragmentUnit == 2
MCMtu == 7
=============================================================================
