-------------------------- MODULE MCServiceHandler --------------------------
(* Instances of ServiceHandler for TLC. *)
EXTENDS ServiceHandler
=============================================================================
