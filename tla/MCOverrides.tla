---------------------------- MODULE MCOverrides ----------------------------
(* One action of one module and two operators for Overrides. *)
EXTENDS Overrides

CONSTANTS a1, m1, o1, o2

MCModuleOf == [a \in Actions |-> m1]
=============================================================================
