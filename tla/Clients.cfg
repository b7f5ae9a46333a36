SPECIFICATION ClientsSpec
CONSTANTS
    DeviceGrants = {d1}
    Codes = {x1}
    ForeignGrants = {x1}
    Processes = {a1, a2}
    Handlers = {b1, b2}
    Families = {c1, c2}
    MaxPairs = 2
    start = start
    Accounts = {a1, a2}
    Instruments = {b1, b2}
    Mutations = {c1, c2}
    Kind <- MCKind
    Names = {start, other}
    FirstName <- MCNames
    Identities = {visa}
    Renames = {n1}
    MaxTime = 1
SYMMETRY ClientsSymmetry
INVARIANTS
    SpentOnce NeverReplays
    CardsAreUnambiguous RequestsRunOnce
CHECK_DEADLOCK FALSE
