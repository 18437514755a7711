----------------------------- MODULE MCDelivery -----------------------------
(* Two editions: the full profile and the inference profile.               *)
EXTENDS Delivery

CONSTANTS full, inference
MCEditions == {full, inference}
=============================================================================
