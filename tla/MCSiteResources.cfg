SPECIFICATION Spec
CONSTANTS
    s1 = s1
    s2 = s2
    s3 = s3
    pod = pod
    many = many
    twoVMs = twoVMs
    podWorker = podWorker
    allocInformer = allocInformer
    NoRequest = NoRequest
    Pods = {pod}
    Sites = {s1, s2, s3}
    Capacity <- EvenCapacity
    Requests = {pod, many, twoVMs}
    Threads = {podWorker}
    ThreadOf <- OneThread
    Replicas <- FourReplicas
    VMs <- MCVMs
    Centralize = {twoVMs}
    Eligible <- MCEligible
    Registered = {s1, s2}
    MaxTotal = 3
    MaxReports = 2
    MaxUpdates = 0
INVARIANT CapacityAccounted
INVARIANT WholeReplicas
PROPERTY LedgerSpec
PROPERTY RefusedOnlyWhenFull
