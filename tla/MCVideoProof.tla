---------------------------- MODULE MCVideoProof ----------------------------
(* Instances of VideoProof for TLC.  No symmetry: the runs check liveness  *)
(* and action properties.                                                  *)
EXTENDS VideoProof

Fetching  == {"request", "upload", "fetch"}
=============================================================================
