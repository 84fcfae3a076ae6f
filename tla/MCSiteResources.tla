--------------------------- MODULE MCSiteResources ---------------------------
(* A pod that one site can take, an allocation of several replicas, and an *)
(* allocation of two VMs.                                                  *)
EXTENDS SiteResources

CONSTANTS s1, s2, s3, pod, many, twoVMs, podWorker, allocInformer

EvenCapacity == [s \in Sites |-> 2]
UnevenCapacity == [s \in Sites |-> IF s = s1 THEN 1 ELSE 2]

OneThread == [r \in Requests |-> podWorker]
TwoThreads == [r \in Requests |-> IF r = pod THEN podWorker ELSE allocInformer]

ThreeReplicas == [r \in Requests |-> IF r = many THEN 3 ELSE 1]
FourReplicas == [r \in Requests |-> IF r = many THEN 4 ELSE 1]
MCVMs == [r \in Requests |-> IF r = twoVMs THEN 2 ELSE 1]

MCEligible == [r \in Requests |-> IF r = pod THEN {s1} ELSE Sites]
=============================================================================
