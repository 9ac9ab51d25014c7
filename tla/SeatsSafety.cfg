SPECIFICATION Spec
CONSTANTS
    Users = {u1, u2}
    Requests = {r1, r2, r3}
    Nonces = {n1}
    Methods <- WithSecret
    MaxStep = 2
    Nobody = Nobody
    NoToken = NoToken
    NoProof = NoProof
SYMMETRY Symmetry
INVARIANT TypeOK
INVARIANT NoOneHoldsBothSeats
INVARIANT CredentialMatchesSeat
INVARIANT CodeIsGoodOnce
INVARIANT NonceIsGoodOnce
PROPERTY SeatsAreSettled
PROPERTY ClosingIsFinal
