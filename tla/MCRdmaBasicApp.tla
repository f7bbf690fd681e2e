--------------------------- MODULE MCRdmaBasicApp ---------------------------
(***************************************************************************)
(* Instances of RdmaBasicApp for TLC.                                      *)
(***************************************************************************)
EXTENDS RdmaBasicApp

CONSTANTS self, other, third

SelfAndOthers == <<self, other, third>>
SelfThenOther == <<self, other>>
=============================================================================
