SPECIFICATION ToolsSpec
CONSTANTS
    ToolRuns = {p1, p2}
    ToolCalls <- MCToolCalls
    RestNames = {"own"}
    MaxCalls = 3
SYMMETRY ToolSymmetry
INVARIANT PathsEnd
CHECK_DEADLOCK FALSE
