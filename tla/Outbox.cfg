SPECIFICATION FairSpec
CONSTANTS
    v = v  w = w
    Workers = {v, w}
    Messages = {1, 2}
    Lease = 3
    MaxRun = 1
    MaxFailures = 2
    Skew <- ClocksDiffer
INVARIANTS DeliveredWasReceived
PROPERTIES ClaimsExclude EventuallyDelivered
