-------------------------- MODULE MCDiplomatMaster -------------------------
(***************************************************************************)
(* DiplomatMaster for TLC.  The addresses of bufferevents are              *)
(* interchangeable; the loops are not, one of them has the listener.       *)
(***************************************************************************)
EXTENDS DiplomatMaster, TLC

BevSymmetry == Permutations(Bev)
=============================================================================
