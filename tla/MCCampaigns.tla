---------------------------- MODULE MCCampaigns ----------------------------
(***************************************************************************)
(* Campaigns on a small instance.  The clients and the members are         *)
(* interchangeable: no property names one of them and none is a liveness   *)
(* property.                                                               *)
(***************************************************************************)
EXTENDS Campaigns

Symmetry == Permutations(Clients) \cup Permutations(Members)
=============================================================================
