--------------------------- MODULE MCSyncHandler ---------------------------
(* Instances of SyncHandler for TLC. *)
EXTENDS SyncHandler
=============================================================================
