-------------------------- MODULE MCIoServiceGroup --------------------------
(* Instances of IoServiceGroup for TLC. *)
EXTENDS IoServiceGroup, TLC

=============================================================================
