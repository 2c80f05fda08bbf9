---------------------------- MODULE MCStopRatchet ----------------------------
(* Instances of StopRatchet for TLC. *)
EXTENDS StopRatchet

\* The store's order ids are the client ids of the SELL orders.
MCOrderIds == SellIds
=============================================================================
