------------------------------ MODULE MCDelivery ------------------------------
(***************************************************************************)
(* Instances of Delivery for TLC.  No symmetry: a liveness property is     *)
(* checked.                                                                *)
(***************************************************************************)
EXTENDS Delivery
==============================================================================
