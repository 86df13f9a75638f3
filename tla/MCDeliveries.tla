---------------------------- MODULE MCDeliveries ----------------------------
(* A delivery whose budget is three attempts instead of five. *)
EXTENDS Deliveries
=============================================================================
