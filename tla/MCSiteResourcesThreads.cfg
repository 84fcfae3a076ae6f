SPECIFICATION FairSpec
CONSTANTS
    s1 = s1
    s2 = s2
    s3 = s3
    pod = pod
    many = many
    twoVMs = twoVMs
    podWorker = podWorker
    allocInformer = allocInformer
    NoRequest = NoRequest
    Pods = {pod}
    Sites = {s1, s2}
    Capacity <- UnevenCapacity
    Requests = {pod, many, twoVMs}
    Threads = {podWorker, allocInformer}
    ThreadOf <- TwoThreads
    Replicas <- ThreeReplicas
    VMs <- MCVMs
    Centralize = {pod, many, twoVMs}
    Eligible <- MCEligible
    Registered = {s1}
    MaxTotal = 3
    MaxReports = 1
    MaxUpdates = 1
INVARIANT
    OvercommitBounded
PROPERTY
    EveryRequestDecided
