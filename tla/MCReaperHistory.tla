-------------------------- MODULE MCReaperHistory --------------------------
(* A small instance of ReaperHistory for TLC. *)
EXTENDS ReaperHistory, MCSyncManager
=============================================================================
