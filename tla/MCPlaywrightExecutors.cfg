SPECIFICATION PlaywrightSpec
CONSTANTS
    default = default
    a = a
    b = b
    d = d
    x = x
    y = y
    k1 = k1
    k2 = k2
    c1 = c1
    c2 = c2
    NoExecutor = NoExecutor
    NoChild = NoChild
    Nobody = Nobody
    DefaultName = default
    Default = d
    Names <- TwoNames
    Requested <- TwoNamed
    Objects <- ThreeObjects
    Children <- TwoChildren
    Executions <- TwoExecutions
    MaxPlaywrightExecutors = 1
    MaxRestarts = 0
SYMMETRY Symmetry
INVARIANTS
    NoStrayProcess
    RetiredIsQuiet
PROPERTIES
    RunsAsAnswered
