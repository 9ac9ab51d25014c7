SPECIFICATION Spec
CONSTANTS
    Users = {u1}
    Workers = {w1, w2}
    Links = {l1, l2, l3}
    NoUser = NoUser
    NoLink = NoLink
SYMMETRY Symmetry
INVARIANT LiveLinkHasItsBundle
