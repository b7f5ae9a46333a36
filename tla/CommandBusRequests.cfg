SPECIFICATION Spec
CONSTANTS
    w1 = w1  w2 = w2  s1 = s1  s2 = s2
    owner = owner  viewer = viewer
    Workers = {w1, w2}
    MemberStates = {owner, viewer}
    Assets = {"USD"}
    MaxAttempts = 2
    Streams <- BothStreams
    WriteStates <- MCWriteStates
    Requests <- MCRequests
SYMMETRY WorkerSymmetry
INVARIANTS
    ReceiptsOwnTheLog SuccessIsTheReceipt
    HistoryIsLinear NoFalseAlarm
PROPERTIES PausedBookIsFrozen AuthorizedAtCommit RefinesExactlyOnce
