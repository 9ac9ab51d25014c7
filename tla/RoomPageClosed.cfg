SPECIFICATION Spec
CONSTANTS
    MyKeys = {m1}
    PeerKey = p
    OtherKey = q
    NoKey = NoKey
    Items <- OneItem
    Polls = {p1, p2}
    MaxReloads = 0
    CanSwap = FALSE
CHECK_DEADLOCK FALSE
INVARIANT ClosedPageIsBlank
