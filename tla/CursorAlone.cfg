SPECIFICATION BookSpec
CONSTANTS
    Entries = {e1, e2, e3}
    Moments = {1, 2}
    Sizes = {1}
    Categories = {}
    Wishes = {}
    PageSize = 1
    CarriesPosition = FALSE
    MaxEntered = 4
SYMMETRY BookSymmetry
INVARIANT PagesShowOnePosition
CHECK_DEADLOCK FALSE
