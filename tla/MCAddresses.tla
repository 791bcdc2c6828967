---------------------------- MODULE MCAddresses ----------------------------
(***************************************************************************)
(* Instances of Addresses.  Ids are as many as are ever given out.         *)
(***************************************************************************)
EXTENDS Addresses
=============================================================================
