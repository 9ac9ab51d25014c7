----------------------------- MODULE KeyExchange -----------------------------
(***************************************************************************)
(* What the room promises about its keys: a side first promises a key,     *)
(* once; it shows the key only when both sides have promised, and shows    *)
(* the one it promised; both are over when the room is.  So whoever is to  *)
(* choose a key in place of a side's must choose before either is shown.   *)
(* There are no requests, reads or crashes here: module RoomExchange shows *)
(* that the handlers implement this.                                       *)
(***************************************************************************)
CONSTANTS Keys, NoKey

VARIABLES promise, shown, over

kxVars == <<promise, shown, over>>

Sides == {"a", "b"}
Blank == [s \in Sides |-> NoKey]

TypeOK ==
    /\ promise \in [Sides -> Keys \cup {NoKey}]
    /\ shown \in [Sides -> Keys \cup {NoKey}]
    /\ over \in BOOLEAN

Init == promise = Blank /\ shown = Blank /\ over = FALSE

Promise(s, k) ==
    /\ ~over
    /\ promise[s] = NoKey
    /\ promise' = [promise EXCEPT ![s] = k]
    /\ UNCHANGED <<shown, over>>

Show(s) ==
    /\ ~over
    /\ \A t \in Sides : promise[t] # NoKey
    /\ shown[s] = NoKey
    /\ shown' = [shown EXCEPT ![s] = promise[s]]
    /\ UNCHANGED <<promise, over>>

End ==
    /\ over' = TRUE
    /\ promise' = Blank /\ shown' = Blank

Next ==
    \/ \E s \in Sides, k \in Keys : Promise(s, k)
    \/ \E s \in Sides : Show(s)
    \/ End

Spec == Init /\ [][Next]_kxVars
=============================================================================
