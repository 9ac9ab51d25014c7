SPECIFICATION Spec
CONSTANTS
    Workers = {w1, w2}
    Kinds <- AllKinds
    Takes = {1, 2, 3}
    CanCrash = FALSE
    NoClip = NoClip
    NoOne = NoOne
INVARIANT AwaitedRecordingIsKept
