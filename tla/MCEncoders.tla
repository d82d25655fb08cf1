----------------------------- MODULE MCEncoders -----------------------------
(* A small instance of Encoders: two events with Vulkan, one with the others. *)
EXTENDS Encoders

MCMaxEvents == [a \in Apis |-> IF a = "Vulkan" THEN 2 ELSE 1]
=============================================================================
