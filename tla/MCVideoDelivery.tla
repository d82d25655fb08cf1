-------------------------- MODULE MCVideoDelivery --------------------------
(* Instances of VideoDelivery, and with it of VideoPump, for TLC. *)
EXTENDS VideoDelivery
=============================================================================
