SPECIFICATION LedgerSpec
CONSTANTS
    card = card
    bank = bank
    food = food
    reconciling = reconciling
    abroad = abroad
    fees = fees
    trading = trading
    tradingAbroad = tradingAbroad
    Accounts = {card, bank, food, reconciling, abroad, fees, trading, tradingAbroad}
    Kind <- MCKind
    Asset <- MCAsset
    MaxAbroad = 2
    TxIds = {t1, t2, t3, t4}
    Units = {1, 2}
    Lots = {1, 2, 3}
    Sales = {1, 2}
    Pools = {"gold", "fund"}
    FirstPool = "gold"
    Quantities = {3}
    Costs = {2, 5}
    Dates = {1, 2}
SYMMETRY IdSymmetry
INVARIANTS
    ClosedCardsAreSettled FamiliesAddUp
    SalesAreRight
PROPERTIES
    TriggersAccept
CHECK_DEADLOCK FALSE
