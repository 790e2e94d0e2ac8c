SPECIFICATION PlaywrightSpec
CONSTANTS
    default = default
    a = a
    b = b
    d = d
    x = x
    y = y
    k1 = k1
    k2 = k2
    c1 = c1
    c2 = c2
    NoExecutor = NoExecutor
    NoChild = NoChild
    Nobody = Nobody
    DefaultName = default
    Default = d
    Names <- OneName
    Requested <- OneName
    Objects <- TwoObjects
    Children <- OneChild
    Executions <- TwoExecutions
    MaxPlaywrightExecutors = 1
    MaxRestarts = 1
PROPERTIES
    RestartSparesQueued
    RetireEnds
