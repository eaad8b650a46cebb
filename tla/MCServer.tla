------------------------------ MODULE MCServer ------------------------------
(* Small instances of Server for TLC. *)
EXTENDS Server, TLC

CONSTANTS c1, c2

\* One process that polls and takes webhooks, and one that only takes them.
MCRunMode == (c1 :> "both") @@ (c2 :> "webhook")
=============================================================================
