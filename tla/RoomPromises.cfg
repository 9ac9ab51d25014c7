SPECIFICATION FairSpec
CONSTANTS
    Workers = {w1, w2}
    Keys = {k1, k2}
    NoKey = NoKey
    MaxItems = 1
INVARIANT TypeOK
PROPERTY ImplementsExchange
PROPERTY AcceptedMeansStored
PROPERTY EndedRoomIsEmptied
