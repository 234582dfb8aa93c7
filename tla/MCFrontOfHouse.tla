--------------------------- MODULE MCFrontOfHouse ---------------------------
(***************************************************************************)
(* FrontOfHouse on a small instance.  Rows and requests of one kind are    *)
(* interchangeable: no property names one and none is a liveness property. *)
(***************************************************************************)
EXTENDS FrontOfHouse, TLC

Symmetry ==
  UNION {Permutations(S) :
           S \in {Hosts, Guests, Parties, Tables, Seatings, Orders, Lines, Cooks}}
=============================================================================
