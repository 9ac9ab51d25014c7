SPECIFICATION FairSpec
CONSTANTS
    Workers = {w1, w2, w3}
    Columns <- ThreeColumns
    Cas = {c1, c2}
    NoOne = NoOne
    NoFile = NoFile
    Empty = Empty
    MaxKills = 3
CHECK_DEADLOCK FALSE
INVARIANT TypeOK
INVARIANT ServesMigrated
PROPERTY AllComeUp
