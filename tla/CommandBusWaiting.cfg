SPECIFICATION FairSpec
CONSTANTS
    w1 = w1  w2 = w2  s1 = s1  s2 = s2
    owner = owner  viewer = viewer
    Workers = {w1, w2}
    MemberStates = {owner}
    Assets = {"USD"}
    MaxAttempts = 2
    Streams <- OneStream
    WriteStates <- MCWriteStates
    Requests <- WaitingRequests
INVARIANTS AssetCreatedOnce
PROPERTIES RequestsEnd
