SPECIFICATION FairSpec
CONSTANTS
    Workers = {w1, w2}
    Kinds <- AllKinds
    Takes = {1, 2}
    CanCrash = TRUE
    NoClip = NoClip
    NoOne = NoOne
INVARIANT TypeOK
INVARIANT RecordingIsBySubject
INVARIANT FileMatchesRow
PROPERTY ImplementsExchange
PROPERTY VerdictStands
PROPERTY EndedRoomLosesItsFile
