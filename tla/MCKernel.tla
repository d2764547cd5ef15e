------------------------------ MODULE MCKernel ------------------------------
(* Two modules, three events and two filters for Kernel. *)
EXTENDS Kernel

CONSTANTS ew, eb

MCEvents == {[module |-> ew, type |-> "anomaly", severity |-> "high"],
             [module |-> eb, type |-> "anomaly", severity |-> "low"],
             [module |-> eb, type |-> "access", severity |-> "high"]}

MCFilters == {[module |-> Any, type |-> Any, minSeverity |-> "high"],
              [module |-> eb, type |-> "anomaly", minSeverity |-> Any]}
=============================================================================
