SPECIFICATION Spec
CONSTANTS
    Users = {u1, u2}
    Requests = {r1, r2, r3}
    Nonces = {n1}
    Methods <- Mtls
    MaxStep = 1
    Nobody = Nobody
    NoToken = NoToken
    NoProof = NoProof
SYMMETRY Symmetry
INVARIANT TombstoneIsBare
