SPECIFICATION ConfigSpec
CONSTANTS
    q1 = q1
    q2 = q2
    Subscribers <- TwoRequests
    Bodies <- SomeBodies
    Parts = {"chromium", "display", "input", "surface", "handoff", "focus"}
    MaxLives = 4
    MaxTails = 1
    Screens = {1, 2, 3}
    Recordings = {"a"}
    MaxResizes = 4
    Width = 4
    Padding = 1
    Bends = 1
    MinGap = 2
    MaxRequests = 2
    Pages = {"p1", "p2"}
    Home = "p1"
    Iframe = "f"
    RawWindows = {1, 2}
    MaxSessions = 1
    MaxTabs = 2
    MaxRefreshes = 1
    MaxTroubles = 1
    Names = {"n1", "n2"}
    Posts = {1, 2}
    Gives <- WholeAndPartial
    MaxApiLives = 3
    Clients = {1, 2}
    Inner = {"a", "b"}
    First = "a"
    Second = "b"
    MaxRuns = 2
    MaxTimers = 2
    MaxChanges = 2
    MaxLosses = 1
INVARIANTS
    FilesAgree
    GrantedIsServed
    XvfbConverges
    InputEndsWell
    SurfaceSettles
    ForkIsItself
    FocusIsTrue
CONSTRAINT Focus
SYMMETRY Symmetry
CHECK_DEADLOCK FALSE
