------------------------ MODULE MCChangeVerification ------------------------
(* One workload, whose image, limits and replicas may change, and loads    *)
(* that differ in one signal from the usual one.                           *)
EXTENDS ChangeVerification

CONSTANT web

MCAspects == {"image", "resource_limits", "replica_scale"}

Template(image, limits, replicas) ==
  [a \in MCAspects |-> CASE a = "image" -> image
                         [] a = "resource_limits" -> limits
                         [] a = "replica_scale" -> replicas]
MCTemplates ==
  {Template("v1", "small", "one"), Template("v2", Absent, "one"),
   Template("v1", "large", "two")}

Clean == [error_rate |-> 0, latency_p99 |-> 100, pod_restarts |-> 0, throughput |-> 100,
          cpu_saturation |-> 50]
MCLevel ==
  [clean  |-> Clean,
   errors |-> [Clean EXCEPT !.error_rate = 40, !.cpu_saturation = 95],
   outage |-> [Clean EXCEPT !.throughput = 0, !.pod_restarts = 1]]
MCProfiles == DOMAIN MCLevel

MCOutages == {{}, {"error_rate"}, Signals}
=============================================================================
