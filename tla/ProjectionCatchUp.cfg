SPECIFICATION FairSpec
CONSTANTS
    a1 = a1  a2 = a2  x1 = x1  b1 = b1  b2 = b2  t1 = t1  t2 = t2  m1 = m1  m2 = m2
    Runtimes = {a1}
    Repairers = {x1}
    Rebuilders = {b1}
    Transactions = {t1}
    Refunds = {t1}
    Months = {m1, m2}
    Amounts = {1}
    BatchSize = 2
    MaxEvents = 3
    MaxGenerations = 2
    MaxAborts = 1
INVARIANT GenerationsAreReplays
PROPERTIES CatchesUp
