---------------------------- MODULE MCAudioDevice ---------------------------
(* Instances of AudioDevice for TLC. *)
EXTENDS AudioDevice
=============================================================================
