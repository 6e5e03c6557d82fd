----------------------------- MODULE MCDelivery -----------------------------
(* Delivery on small instances for TLC.                                    *)
EXTENDS Delivery
=============================================================================
