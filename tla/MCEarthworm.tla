---------------------------- MODULE MCEarthworm ----------------------------
(* Two heartbeats at a time; a config with defaults and a rule that cannot *)
(* be told from the top of its scale, and one that is not valid.           *)
EXTENDS Earthworm

CONSTANTS w1, w2, n1, n2, p1, p2, b1, b2

HB(node, cpu, memory, latency) ==
  [node |-> node, cpu |-> cpu, memory |-> memory, disk |-> 90, network |-> 90,
   latency |-> latency]
MCHeartbeats ==
  {HB(n1, 100, 95, 900),       \* the node is overloaded
   HB(n1, 50, 90, 900),        \* workloads are misplaced
   HB(n2, 20, 95, 100)}        \* short of memory: only the rules see it

Config(node, threshold, cpu) ==
  [node |-> node, threshold |-> threshold, cpu |-> cpu, memory |-> Unset, latency |-> Unset]
MCConfigs == {Config(n1, Unset, 100), Config(Unset, 5, Unset)}
=============================================================================
