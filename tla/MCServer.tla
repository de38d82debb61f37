------------------------------ MODULE MCServer ------------------------------
(* Instances of Server and WinService for TLC. *)
EXTENDS WinService
=============================================================================
