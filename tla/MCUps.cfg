SPECIFICATION UpsFairSpec
CONSTANTS
    Powers <- MCPowers
    Ipcs = {0, 100, 103, 120}
    dual_cap = FALSE
    StartPairs <- MCStartPairs
INVARIANTS HardwareFollows DescentInBudget
PROPERTIES WrapForgotten RestsWhenLevel
