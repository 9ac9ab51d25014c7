----------------------------- MODULE MCRoomPage -----------------------------
(* Instances of RoomPage for TLC.  Two polls differ in nothing but name,   *)
(* but the runs check liveness, so no symmetry is used.                    *)
EXTENDS RoomPage

OneItem  == {1}
TwoItems == {1, 2}
=============================================================================
