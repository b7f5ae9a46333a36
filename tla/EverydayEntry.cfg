SPECIFICATION Spec
CONSTANTS
    bank = bank  savings = savings  credit = credit  visa = visa  plastic = plastic
    start = start  other = other
    Accounts = {bank, savings, credit}
    Kind <- MCKind
    Names = {start, other}
    FirstName <- MCNames
    Instruments = {plastic}
    Identities = {visa}
    Mutations = {m1}
    Renames = {n1}
    MaxTime = 1
    Intents = {i1, i2}
    CommitRequests = {c1, c2}
    Entries <- MCEntries
    Window = 0
SYMMETRY Symmetry
INVARIANTS IntentsBookOnce
PROPERTIES PostedAsPreviewed AdjustmentsHitTheirTarget
CHECK_DEADLOCK FALSE
