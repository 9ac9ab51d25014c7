SPECIFICATION FairSpec
CONSTANTS
    Users = {u1}
    Workers = {w1, w2}
    Links = {l1, l2, l3}
    NoUser = NoUser
    NoLink = NoLink
INVARIANT TypeOK
INVARIANT KeyLeavesOnce
INVARIANT LinkYieldsItsOwnBundle
INVARIANT LiveLinkIsCurrent
INVARIANT RevocationStopsDownloads
PROPERTY RevokedKeepNoLink
PROPERTY KeyIsWiped
