SPECIFICATION FairSpec
CONSTANTS
    MyKeys = {m1}
    PeerKey = p
    OtherKey = q
    NoKey = NoKey
    Items <- OneItem
    Polls = {p1, p2}
    MaxReloads = 1
    CanSwap = TRUE
CHECK_DEADLOCK FALSE
INVARIANT TypeOK
INVARIANT PublishedKeyIsSaved
INVARIANT RevealAfterPin
INVARIANT OpenWithPinnedKey
INVARIANT AlarmHasCause
INVARIANT PollingGoesOn
PROPERTY PinIsKept
PROPERTY AlarmedPageRefuses
PROPERTY ClosingIsLearned
PROPERTY PageCatchesUp
