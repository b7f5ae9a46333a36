SPECIFICATION ServiceSpec
CONSTANTS
    a1 = a1  a2 = a2  x1 = x1  b1 = b1  b2 = b2  t1 = t1  t2 = t2  m1 = m1  m2 = m2
    Runtimes = {a1, a2}
    Repairers = {x1}
    Rebuilders = {b1, b2}
    Transactions = {t1}
    Refunds = {}
    Months = {m1}
    Amounts = {1}
    BatchSize = 1
    MaxEvents = 2
    MaxGenerations = 3
    MaxAborts = 1
    Entries = {a1, a2}
    Categories = {b1, b2}
    Moments = {1, 2}
    Sizes = {1, 2}
    Wishes = {w1}
    PageSize = 1
    CarriesPosition = TRUE
    MaxEntered = 4
    ToolRuns = {a1, a2}
    ToolCalls <- MCToolCalls
    RestNames = {"own"}
    MaxCalls = 3
    Writers = {a1, a2}
    Texts = {b1, b2}
    Sidecars = {"s1"}
    Plans = {"a", "b"}
    Keyrings <- MCKeyrings
    FirstKeyring <- MCFirstKeyring
    MaxRequests = 3
SYMMETRY ServiceSymmetry
INVARIANTS
    ReadsAreOfOnePosition AllocationsFit VerifiedIsTrue
    CallsTakeEffectOnce RepliesAreTrue WhatIsKeptStays
PROPERTIES OneCursorForward
CHECK_DEADLOCK FALSE
