---------------------------- MODULE VideoExchange ----------------------------
(***************************************************************************)
(* What the two people in a room may rely on about video verification: one *)
(* exchange at a time; who asked is who judges; a verdict needs a          *)
(* recording; a request or a recording that waits too long lapses; all of  *)
(* it is over when the room is.  There are no requests, files or locks     *)
(* here: module VideoProof shows that the handlers implement this.         *)
(***************************************************************************)
VARIABLES stage, judge

vxVars == <<stage, judge>>

Sides  == {"a", "b"}
Stages == {"none", "requested", "recorded", "lapsed",
           "declined", "confirmed", "denied", "over"}

TypeOK == stage \in Stages /\ judge \in Sides \cup {"none"}

Init == stage = "none" /\ judge = "none"

Ask(s) ==
    /\ stage \in {"none", "lapsed", "declined", "confirmed", "denied"}
    /\ stage' = "requested" /\ judge' = s

Withdraw ==
    /\ stage \in {"requested", "lapsed"}
    /\ stage' = "none" /\ judge' = "none"

Decline ==
    /\ stage = "requested"
    /\ stage' = "declined" /\ UNCHANGED judge

(* Once more, to replace a recording nobody has judged; an upload that     *)
(* came in time may become visible a moment after the lapse.               *)
Record ==
    /\ stage \in {"requested", "recorded", "lapsed"}
    /\ stage' = "recorded" /\ UNCHANGED judge

Judge(verdict) ==
    /\ stage = "recorded"
    /\ stage' = verdict /\ UNCHANGED judge

Lapse ==
    /\ stage \in {"requested", "recorded"}
    /\ stage' = "lapsed" /\ UNCHANGED judge

End == stage' = "over" /\ judge' = "none"

Next ==
    \/ \E s \in Sides : Ask(s)
    \/ Withdraw \/ Decline \/ Record \/ Lapse \/ End
    \/ \E verdict \in {"confirmed", "denied"} : Judge(verdict)

Spec == Init /\ [][Next]_vxVars
=============================================================================
