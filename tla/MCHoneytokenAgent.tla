------------------------- MODULE MCHoneytokenAgent -------------------------
(* A small eBeeControl: two placements per pod, one reactive placement. *)
EXTENDS HoneytokenAgent

MCPlacements == <<"token", "credentials">>
MCReactivePlacements == <<"reactive">>
(* one context for each threat level *)
MCContexts == {
  [class |-> "other", criticality |-> 1, anomaly |-> 2],
  [class |-> "missing", criticality |-> 3, anomaly |-> 0],
  [class |-> "production", criticality |-> 4, anomaly |-> 2]}
=============================================================================
