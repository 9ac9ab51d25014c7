----------------------------- MODULE MCStartup -----------------------------
(* Instances of Startup for TLC.                                           *)
EXTENDS Startup

ThreeColumns == 1 .. 3
=============================================================================
