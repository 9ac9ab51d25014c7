--------------------------- MODULE MCRoomExchange ---------------------------
(* Instances of RoomExchange for TLC.  Workers and keys are                *)
(* interchangeable.                                                        *)
EXTENDS RoomExchange, TLC

Symmetry == Permutations(Workers) \cup Permutations(Keys)
=============================================================================
