CONSTANTS
    Configs <- MCConfigs
    MaxGet = 1
    NaN = NaN
    Inf = Inf
SPECIFICATION Spec
PROPERTY BudgetEndsTheWait
