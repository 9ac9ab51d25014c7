------------------------------- MODULE MCSeats -------------------------------
(* Instances of Seats for TLC.  Users, requests and nonces are             *)
(* interchangeable.                                                        *)
EXTENDS Seats, TLC

WithSecret == {"totp", "cert"}
Mtls == {"mtls"}

Symmetry == Permutations(Users) \cup Permutations(Requests) \cup Permutations(Nonces)
=============================================================================
