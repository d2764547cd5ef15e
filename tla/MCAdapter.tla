----------------------------- MODULE MCAdapter -----------------------------
(* The poller and one webhook handler for Adapter. *)
EXTENDS Adapter

CONSTANTS poller, handler
=============================================================================
