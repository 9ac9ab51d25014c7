----------------------------- MODULE SeatsProofs -----------------------------
(***************************************************************************)
(* Proofs, for any number of users, requests and nonces, of the safety     *)
(* properties of module Seats.                                             *)
(*                                                                         *)
(* They go in layers, each using the invariants below it: types; who may   *)
(* be at work on which row (Discipline); one-time codes and nonces; and    *)
(* the seats with their credentials.                                       *)
(***************************************************************************)
EXTENDS Seats, TLAPS

USE DEF Slots

-----------------------------------------------------------------------------
(* The state stays within its types.                                       *)

(* Before the first room there is nothing to type wrongly.                 *)
LEMMA InitTypes == Init => TypeOK
  <1> SUFFICES ASSUME Init PROVE TypeOK
    OBVIOUS
  <1> USE DEF Init
  <1>1. LifeTypeOK
    BY DEF LifeTypeOK, Absent
  <1>2. step \in Steps /\ lastStep \in [Users -> 0..MaxStep]
    BY StepAssumption DEF Steps
  <1>3. user \in [Slots -> Users \cup {Nobody}] /\ token \in [Slots -> Requests \cup {NoToken}]
    OBVIOUS
  <1>4. revoked \in SUBSET Users /\ drawn \in SUBSET Nonces
    OBVIOUS
  <1>5. nonces \in SUBSET drawn /\ lapsed \in SUBSET drawn
    OBVIOUS
  <1>6. pc \in [Requests -> {"idle"} \cup InFlight \cup Ended]
    OBVIOUS
  <1>7. who \in [Requests -> Users \cup {Nobody}] /\ how \in [Requests -> Methods \cup {"none"}]
    OBVIOUS
  <1>8. proof \in [Requests -> Steps \cup Nonces \cup {NoProof}] /\ slot \in [Requests -> Slots]
    OBVIOUS
  <1> QED BY <1>1, <1>2, <1>3, <1>4, <1>5, <1>6, <1>7, <1>8 DEF TypeOK

(* Moving a request on keeps the type of pc.                               *)
LEMMA GotoTypes ==
    ASSUME TypeOK, NEW r \in Requests,
           NEW w \in {"idle"} \cup InFlight \cup Ended, Goto(r, w)
    PROVE  pc' \in [Requests -> {"idle"} \cup InFlight \cup Ended]
  BY DEF TypeOK, Goto

(* The purge keeps the types of the row.                                   *)
LEMMA PurgeTypes ==
    ASSUME TypeOK, Purge
    PROVE  /\ LifeTypeOK'
           /\ user' \in [Slots -> Users \cup {Nobody}]
           /\ token' \in [Slots -> Requests \cup {NoToken}]
  BY DEF TypeOK, LifeTypeOK, Purge, PurgeRow, PurgeDeletes, PurgeCloses, ScrubSeats, seatVars

(* Every handler step keeps the types; IssueToken and BurnStep need to     *)
(* know whom they serve.                                                   *)
LEMMA StepTypes == TypeOK /\ RequestsAreWellFormed /\ [Next]_vars => TypeOK'
  <1> SUFFICES ASSUME TypeOK, RequestsAreWellFormed, [Next]_vars PROVE TypeOK'
    OBVIOUS
  <1> USE DEF TypeOK, lifeVars, seatVars, credVars, nonceVars, reqVars
  <1>1. CASE CreateSession
    BY <1>1 DEF CreateSession, InsertRow, ScrubSeats, LifeTypeOK
  <1>2. CASE PurgeTimer
    BY <1>2, PurgeTypes DEF PurgeTimer
  <1>3. ASSUME NEW n \in Nonces, GetNonce(n) PROVE TypeOK'
    BY <1>3, PurgeTypes DEF GetNonce
  <1>4. ASSUME NEW r \in Requests, CloseRoom(r) PROVE TypeOK'
    BY <1>4 DEF CloseRoom, CloseRow, ScrubSeats, LifeTypeOK, Goto, Ended, InFlight
  <1>5. ASSUME NEW r \in Requests, NEW u \in Users, NEW m \in Methods,
               NEW p \in ProofsOf(m), StartVerify(r, u, m, p)
        PROVE TypeOK'
    <2>1. p \in Steps \cup Nonces \cup {NoProof}
      BY MethodsAssumption DEF ProofsOf
    <2>2. FirstCheck(m) \in Waiting
      BY MethodsAssumption DEF FirstCheck, Waiting
    <2>3. pc' \in [Requests -> {"idle"} \cup InFlight \cup Ended]
      BY <1>5, <2>2 DEF StartVerify, Goto, InFlight, Ended
    <2> QED BY <1>5, <2>1, <2>3 DEF StartVerify, LifeTypeOK
  <1>6. ASSUME NEW r \in Requests,
               \/ MatchStep(r) \/ SelectNonce(r) \/ LookupUser(r) \/ LoadSession(r)
               \/ TouchExpired(r) \/ Crash(r) \/ \E s \in Slots : StartClose(r, s)
        PROVE TypeOK'
    BY <1>6 DEF MatchStep, SelectNonce, LookupUser, LoadSession, TouchExpired, Crash,
                StartClose, Goto, LifeTypeOK, InFlight, Waiting, Ended
  <1>7. ASSUME NEW r \in Requests, BurnStep(r) PROVE TypeOK'
    <2>1. who[r] \in Users /\ proof[r] \in 0..MaxStep
      BY <1>7, StepAssumption DEF BurnStep, RequestsAreWellFormed, Waiting, Steps
    <2>2. lastStep' \in [Users -> 0..MaxStep]
      BY <1>7, <2>1 DEF BurnStep
    <2> QED BY <1>7, <2>2 DEF BurnStep, Goto, LifeTypeOK, InFlight, Waiting, Ended
  <1>8. ASSUME NEW r \in Requests, DeleteNonce(r) PROVE TypeOK'
    BY <1>8 DEF DeleteNonce, Goto, LifeTypeOK, InFlight, Waiting, Ended
  <1>9. ASSUME NEW r \in Requests, Claim(r) PROVE TypeOK'
    <2>1. who[r] \in Users
      BY <1>9 DEF Claim, RequestsAreWellFormed, Waiting
    <2>2. user' \in [Slots -> Users \cup {Nobody}] /\ slot' \in [Requests -> Slots]
      BY <1>9, <2>1 DEF Claim
    <2>3. pc' \in [Requests -> {"idle"} \cup InFlight \cup Ended]
      BY <1>9 DEF Claim, Goto, InFlight, Waiting, Ended
    <2> QED BY <1>9, <2>2, <2>3 DEF Claim, LifeTypeOK
  <1>10. ASSUME NEW r \in Requests, IssueToken(r) PROVE TypeOK'
    BY <1>10 DEF IssueToken, TokenSlot, Goto, LifeTypeOK, InFlight, Waiting, Ended
  <1>11. CASE Environment
    <2>1. CASE NextStep
      BY <2>1, StepAssumption DEF NextStep, LifeTypeOK, Steps
    <2>2. CASE RoomExpires \/ RoomAges
      BY <2>2 DEF RoomExpires, RoomAges, Expire, Age, LifeTypeOK
    <2>3. ASSUME NEW u \in Users, SetRevoked(u) PROVE TypeOK'
      BY <2>3 DEF SetRevoked, LifeTypeOK
    <2>4. ASSUME NEW n \in Nonces, NonceLapses(n) PROVE TypeOK'
      BY <2>4 DEF NonceLapses, LifeTypeOK
    <2> QED BY <1>11, <2>1, <2>2, <2>3, <2>4 DEF Environment
  <1>12. CASE UNCHANGED vars
    BY <1>12 DEF vars, LifeTypeOK
  <1> QED
    BY <1>1, <1>2, <1>3, <1>4, <1>5, <1>6, <1>7, <1>8, <1>9, <1>10, <1>11, <1>12
    DEF Next, Arrive, Handle

(* Requests keep their user, method and proof once they have them, and     *)
(* only StartVerify sends one to work.                                     *)
LEMMA InitWellFormed == Init => RequestsAreWellFormed
  BY DEF Init, RequestsAreWellFormed, Waiting

(* A request keeps the user and the proof it came with.                    *)
LEMMA StepWellFormed == TypeOK /\ RequestsAreWellFormed /\ [Next]_vars => RequestsAreWellFormed'
  <1> SUFFICES ASSUME TypeOK, RequestsAreWellFormed, [Next]_vars
               PROVE  RequestsAreWellFormed'
    OBVIOUS
  <1> USE DEF TypeOK, RequestsAreWellFormed, seatVars, credVars, nonceVars, reqVars, Waiting
  <1>1. CASE CreateSession \/ PurgeTimer \/ \E n \in Nonces : GetNonce(n)
    BY <1>1 DEF CreateSession, PurgeTimer, GetNonce
  <1>2. ASSUME NEW r \in Requests, NEW u \in Users, NEW m \in Methods,
               NEW p \in ProofsOf(m), StartVerify(r, u, m, p)
        PROVE RequestsAreWellFormed'
    <2>1. CASE m = "totp"
      BY <1>2, <2>1 DEF StartVerify, FirstCheck, Goto, ProofsOf
    <2>2. CASE m = "cert"
      BY <1>2, <2>2 DEF StartVerify, FirstCheck, Goto, ProofsOf
    <2>3. CASE m = "mtls"
      BY <1>2, <2>3 DEF StartVerify, FirstCheck, Goto, ProofsOf
    <2> QED BY <2>1, <2>2, <2>3, MethodsAssumption
  <1>3. ASSUME NEW r \in Requests,
               \/ CloseRoom(r) \/ TouchExpired(r) \/ \E s \in Slots : StartClose(r, s)
               \/ Crash(r) \/ Claim(r) \/ IssueToken(r) \/ LoadSession(r) \/ LookupUser(r)
        PROVE RequestsAreWellFormed'
    BY <1>3 DEF CloseRoom, TouchExpired, StartClose, Crash, Claim, IssueToken, LoadSession,
                LookupUser, Goto
  <1>4. ASSUME NEW r \in Requests,
               MatchStep(r) \/ BurnStep(r) \/ SelectNonce(r) \/ DeleteNonce(r)
        PROVE RequestsAreWellFormed'
    BY <1>4 DEF MatchStep, BurnStep, SelectNonce, DeleteNonce, Goto
  <1>5. CASE Environment
    BY <1>5 DEF Environment, NextStep, RoomExpires, RoomAges, SetRevoked, NonceLapses
  <1>6. CASE UNCHANGED vars
    BY <1>6 DEF vars
  <1> QED BY <1>1, <1>2, <1>3, <1>4, <1>5, <1>6 DEF Next, Arrive, Handle

Typed == TypeOK /\ RequestsAreWellFormed

(* Types and well-formed requests together are inductive.                  *)
LEMMA TypedAlways == Spec => []Typed
  <1>1. Init => Typed
    BY InitTypes, InitWellFormed DEF Typed
  <1>2. Typed /\ [Next]_vars => Typed'
    BY StepTypes, StepWellFormed DEF Typed
  <1> QED BY <1>1, <1>2, PTL DEF Spec

(* Every variable keeps to its type, whatever the constants.               *)
THEOREM TypeCorrect == Spec => []TypeOK
  <1>1. Typed => TypeOK
    BY DEF Typed
  <1> QED BY <1>1, TypedAlways, PTL

-----------------------------------------------------------------------------
(* Nobody sits on both sides of a room, however requests interleave.  The  *)
(* precondition of the UPDATE suffices: the earlier read does not count.   *)
THEOREM OneSeatEach == Spec => []NoOneHoldsBothSeats
  <1>1. Init => NoOneHoldsBothSeats
    BY UsersAssumption DEF Init, NoOneHoldsBothSeats
  <1>2. Typed /\ NoOneHoldsBothSeats /\ [Next]_vars => NoOneHoldsBothSeats'
    <2> SUFFICES ASSUME TypeOK, NoOneHoldsBothSeats, [Next]_vars
                 PROVE  NoOneHoldsBothSeats'
      BY DEF Typed
    <2> USE DEF NoOneHoldsBothSeats
    <2>1. CASE user' = user
      BY <2>1
    <2>2. CASE ScrubSeats
      BY <2>2, UsersAssumption DEF ScrubSeats
    <2>3. ASSUME NEW r \in Requests, Claim(r), user' # user
          PROVE  NoOneHoldsBothSeats'
      <3>1. PICK s \in Slots : MayTake(s, who[r]) /\ user' = [user EXCEPT ![s] = who[r]]
        BY <2>3 DEF Claim
      <3> QED BY <3>1 DEF MayTake, Peer, TypeOK
    <2>4. user' = user \/ ScrubSeats \/ \E r \in Requests : Claim(r)
      BY DEF Next, Arrive, Handle, Environment, vars, seatVars, CreateSession, PurgeTimer,
             GetNonce, Purge, CloseRoom, StartVerify, MatchStep, BurnStep, SelectNonce,
             DeleteNonce, LookupUser, LoadSession, IssueToken, TouchExpired, StartClose,
             Crash, SetRevoked, NextStep, NonceLapses, RoomExpires, RoomAges
    <2> QED BY <2>1, <2>2, <2>3, <2>4
  <1> QED BY <1>1, <1>2, TypedAlways, PTL DEF Spec

-----------------------------------------------------------------------------
(* Which requests may be at work on which row.                             *)

Discipline == AgedRoomHasEnded /\ NobodyWaitsForAnOldRoom

(* Nobody is at work before there is a room.                               *)
LEMMA InitDiscipline == Init => Discipline
  BY DEF Init, Discipline, AgedRoomHasEnded, NobodyWaitsForAnOldRoom, Absent, Waiting

(* A row is not deleted, nor a day old, while a verification is under way, *)
(* since a worker does not live that long.                                 *)
LEMMA StepDiscipline == Typed /\ Discipline /\ [Next]_vars => Discipline'
  <1> SUFFICES ASSUME TypeOK, AgedRoomHasEnded, NobodyWaitsForAnOldRoom, [Next]_vars
               PROVE  AgedRoomHasEnded' /\ NobodyWaitsForAnOldRoom'
    BY DEF Typed, Discipline
  <1> USE DEF AgedRoomHasEnded, NobodyWaitsForAnOldRoom, TypeOK, LifeTypeOK,
              lifeVars, seatVars, credVars, nonceVars, reqVars
  <1>1. CASE CreateSession
    BY <1>1 DEF CreateSession, InsertRow, CodeFree
  <1>2. CASE PurgeTimer \/ \E n \in Nonces : GetNonce(n)
    BY <1>2 DEF PurgeTimer, GetNonce, Purge, PurgeRow, PurgeDeletes, PurgeCloses
  <1>3. ASSUME NEW r \in Requests, NEW u \in Users, NEW m \in Methods,
               NEW p \in ProofsOf(m), StartVerify(r, u, m, p)
        PROVE AgedRoomHasEnded' /\ NobodyWaitsForAnOldRoom'
    BY <1>3 DEF StartVerify, Goto, Usable, Waiting
  <1>4. ASSUME NEW r \in Requests, CloseRoom(r)
        PROVE AgedRoomHasEnded' /\ NobodyWaitsForAnOldRoom'
    BY <1>4 DEF CloseRoom, CloseRow, Goto, Waiting
  <1>5. ASSUME NEW r \in Requests, TouchExpired(r) \/ \E s \in Slots : StartClose(r, s)
        PROVE AgedRoomHasEnded' /\ NobodyWaitsForAnOldRoom'
    BY <1>5 DEF TouchExpired, StartClose, Goto, Waiting
  <1>6. ASSUME NEW r \in Requests,
               \/ MatchStep(r) \/ BurnStep(r) \/ SelectNonce(r) \/ DeleteNonce(r)
               \/ LookupUser(r) \/ LoadSession(r) \/ Claim(r) \/ IssueToken(r) \/ Crash(r)
        PROVE AgedRoomHasEnded' /\ NobodyWaitsForAnOldRoom'
    <2>1. UNCHANGED lifeVars
      BY <1>6 DEF MatchStep, BurnStep, SelectNonce, DeleteNonce, LookupUser, LoadSession,
                  Claim, IssueToken, Crash
    <2>2. /\ pc[r] \in Waiting \/ (pc[r] = "close" /\ pc'[r] = "lost")
          /\ \A q \in Requests \ {r} : pc'[q] = pc[q]
      BY <1>6 DEF MatchStep, BurnStep, SelectNonce, DeleteNonce, LookupUser, LoadSession,
                  Claim, IssueToken, Crash, Goto, Waiting, InFlight
    <2> QED BY <2>1, <2>2 DEF Waiting
  <1>7. CASE Environment
    BY <1>7 DEF Environment, NextStep, RoomExpires, RoomAges, SetRevoked, NonceLapses,
                Expire, Age, InFlight
  <1>8. CASE UNCHANGED vars
    BY <1>8 DEF vars
  <1> QED BY <1>1, <1>2, <1>3, <1>4, <1>5, <1>6, <1>7, <1>8 DEF Next, Arrive, Handle

(* The discipline holds throughout.                                        *)
LEMMA DisciplineAlways == Spec => []Discipline
  BY InitDiscipline, StepDiscipline, TypedAlways, PTL DEF Spec

-----------------------------------------------------------------------------
(* One-time codes and nonces.                                              *)

(* Getting past the burn or the DELETE is what spends a code or a nonce,   *)
(* and nothing makes it good again.                                        *)
LEMMA StepSpent == Typed /\ ProvedIsSpent /\ [Next]_vars => ProvedIsSpent'
  <1> SUFFICES ASSUME TypeOK, RequestsAreWellFormed, ProvedIsSpent, [Next]_vars
               PROVE  ProvedIsSpent'
    BY DEF Typed
  <1> USE DEF ProvedIsSpent, HasProved, TypeOK, seatVars, credVars, nonceVars, reqVars
  <1>1. CASE CreateSession \/ PurgeTimer \/ \E n \in Nonces : GetNonce(n)
    BY <1>1 DEF CreateSession, PurgeTimer, GetNonce
  <1>2. ASSUME NEW r \in Requests, NEW u \in Users, NEW m \in Methods,
               NEW p \in ProofsOf(m), StartVerify(r, u, m, p)
        PROVE ProvedIsSpent'
    BY <1>2, MethodsAssumption DEF StartVerify, FirstCheck, Goto
  <1>3. ASSUME NEW r \in Requests,
               \/ CloseRoom(r) \/ TouchExpired(r) \/ \E s \in Slots : StartClose(r, s)
               \/ Crash(r) \/ Claim(r) \/ IssueToken(r) \/ LoadSession(r) \/ LookupUser(r)
               \/ MatchStep(r) \/ SelectNonce(r)
        PROVE ProvedIsSpent'
    BY <1>3 DEF CloseRoom, TouchExpired, StartClose, Crash, Claim, IssueToken, LoadSession,
                LookupUser, MatchStep, SelectNonce, Goto
  <1>4. ASSUME NEW r \in Requests, BurnStep(r) PROVE ProvedIsSpent'
    <2>1. who[r] \in Users /\ how[r] = "totp" /\ proof[r] \in Steps
      BY <1>4 DEF BurnStep, RequestsAreWellFormed, Waiting
    <2>2. \A u \in Users : lastStep[u] \in Nat /\ lastStep'[u] >= lastStep[u]
      BY <1>4, <2>1, StepAssumption DEF BurnStep, StepIsNew, Steps
    <2>3. ASSUME NEW q \in Requests, HasProved(q)', how'[q] = "totp"
          PROVE  proof'[q] \in Steps /\ proof'[q] <= lastStep'[who'[q]]
      <3>1. CASE q = r
        BY <1>4, <2>1, <2>3, <3>1, StepAssumption DEF BurnStep, Goto, Steps
      <3>2. CASE q # r
        <4>1. HasProved(q) /\ how[q] = "totp" /\ who[q] \in Users
          BY <1>4, <2>3, <3>2 DEF BurnStep, Goto, RequestsAreWellFormed, Waiting
        <4>2. proof[q] \in Nat /\ lastStep[who[q]] \in Nat /\ lastStep'[who[q]] \in Nat
          BY <1>4, <2>1, <4>1, StepAssumption DEF BurnStep, Steps
        <4>3. who'[q] = who[q] /\ proof'[q] = proof[q]
          BY <1>4 DEF BurnStep
        <4> QED BY <2>2, <4>1, <4>2, <4>3
      <3> QED BY <3>1, <3>2
    <2>4. ASSUME NEW q \in Requests, HasProved(q)', how'[q] = "cert"
          PROVE  proof'[q] \in drawn' \ nonces'
      BY <1>4, <2>1, <2>4 DEF BurnStep, Goto
    <2> QED BY <2>3, <2>4
  <1>5. ASSUME NEW r \in Requests, DeleteNonce(r) PROVE ProvedIsSpent'
    BY <1>5 DEF DeleteNonce, Goto, RequestsAreWellFormed
  <1>6. CASE Environment
    BY <1>6 DEF Environment, NextStep, RoomExpires, RoomAges, SetRevoked, NonceLapses
  <1>7. CASE UNCHANGED vars
    BY <1>7 DEF vars
  <1> QED BY <1>1, <1>2, <1>3, <1>4, <1>5, <1>6, <1>7 DEF Next, Arrive, Handle

(* What a request has proved itself with stays spent.                      *)
LEMMA SpentAlways == Spec => []ProvedIsSpent
  <1>1. Init => ProvedIsSpent
    BY DEF Init, ProvedIsSpent, HasProved
  <1> QED BY <1>1, StepSpent, TypedAlways, PTL DEF Spec

(* A code gets at most one request through: a request that burns a step    *)
(* finds every earlier one of its user at a smaller step.                  *)
THEOREM CodeOnce == Spec => []CodeIsGoodOnce
  <1>1. Init => CodeIsGoodOnce
    BY DEF Init, CodeIsGoodOnce, HasProved
  <1>2. Typed /\ ProvedIsSpent /\ CodeIsGoodOnce /\ [Next]_vars => CodeIsGoodOnce'
    <2> SUFFICES ASSUME TypeOK, RequestsAreWellFormed, ProvedIsSpent, CodeIsGoodOnce,
                        [Next]_vars
                 PROVE  CodeIsGoodOnce'
      BY DEF Typed
    <2> USE DEF CodeIsGoodOnce, HasProved, TypeOK, seatVars, credVars, nonceVars, reqVars
    <2>1. CASE CreateSession \/ PurgeTimer \/ \E n \in Nonces : GetNonce(n)
      BY <2>1 DEF CreateSession, PurgeTimer, GetNonce
    <2>2. ASSUME NEW r \in Requests, NEW u \in Users, NEW m \in Methods,
                 NEW p \in ProofsOf(m), StartVerify(r, u, m, p)
          PROVE CodeIsGoodOnce'
      BY <2>2, MethodsAssumption DEF StartVerify, FirstCheck, Goto
    <2>3. ASSUME NEW r \in Requests,
                 \/ CloseRoom(r) \/ TouchExpired(r) \/ \E s \in Slots : StartClose(r, s)
                 \/ Crash(r) \/ Claim(r) \/ IssueToken(r) \/ LoadSession(r) \/ LookupUser(r)
                 \/ MatchStep(r) \/ SelectNonce(r)
          PROVE CodeIsGoodOnce'
      BY <2>3 DEF CloseRoom, TouchExpired, StartClose, Crash, Claim, IssueToken, LoadSession,
                  LookupUser, MatchStep, SelectNonce, Goto
    <2>4. ASSUME NEW r \in Requests, DeleteNonce(r) PROVE CodeIsGoodOnce'
      BY <2>4 DEF DeleteNonce, Goto, RequestsAreWellFormed
    <2>5. ASSUME NEW r \in Requests, BurnStep(r) PROVE CodeIsGoodOnce'
      <3>1. UNCHANGED <<who, how, proof>> /\ \A q \in Requests \ {r} : pc'[q] = pc[q]
        BY <2>5 DEF BurnStep, Goto
      <3>2. who[r] \in Users /\ proof[r] \in Steps
        BY <2>5 DEF BurnStep, RequestsAreWellFormed, Waiting
      <3>3. CASE StepIsNew(who[r], proof[r])
        <4>1. ASSUME NEW q \in Requests, HasProved(q), how[q] = "totp", who[q] = who[r]
              PROVE  proof[q] # proof[r]
          BY <3>2, <3>3, <4>1, StepAssumption DEF ProvedIsSpent, StepIsNew, Steps
        <4> QED BY <3>1, <4>1
      <3>4. CASE ~StepIsNew(who[r], proof[r])
        BY <2>5, <3>1, <3>4 DEF BurnStep, Goto
      <3> QED BY <3>3, <3>4
    <2>6. CASE Environment
      BY <2>6 DEF Environment, NextStep, RoomExpires, RoomAges, SetRevoked, NonceLapses
    <2>7. CASE UNCHANGED vars
      BY <2>7 DEF vars
    <2> QED BY <2>1, <2>2, <2>3, <2>4, <2>5, <2>6, <2>7 DEF Next, Arrive, Handle
  <1> QED BY <1>1, <1>2, TypedAlways, SpentAlways, PTL DEF Spec

(* A nonce gets at most one request through: whoever deletes the row finds *)
(* it there, and the nonce of a request that got through is not.           *)
THEOREM NonceOnce == Spec => []NonceIsGoodOnce
  <1>1. Init => NonceIsGoodOnce
    BY DEF Init, NonceIsGoodOnce, HasProved
  <1>2. Typed /\ ProvedIsSpent /\ NonceIsGoodOnce /\ [Next]_vars => NonceIsGoodOnce'
    <2> SUFFICES ASSUME TypeOK, RequestsAreWellFormed, ProvedIsSpent, NonceIsGoodOnce,
                        [Next]_vars
                 PROVE  NonceIsGoodOnce'
      BY DEF Typed
    <2> USE DEF NonceIsGoodOnce, HasProved, TypeOK, seatVars, credVars, nonceVars, reqVars
    <2>1. CASE CreateSession \/ PurgeTimer \/ \E n \in Nonces : GetNonce(n)
      BY <2>1 DEF CreateSession, PurgeTimer, GetNonce
    <2>2. ASSUME NEW r \in Requests, NEW u \in Users, NEW m \in Methods,
                 NEW p \in ProofsOf(m), StartVerify(r, u, m, p)
          PROVE NonceIsGoodOnce'
      BY <2>2, MethodsAssumption DEF StartVerify, FirstCheck, Goto
    <2>3. ASSUME NEW r \in Requests,
                 \/ CloseRoom(r) \/ TouchExpired(r) \/ \E s \in Slots : StartClose(r, s)
                 \/ Crash(r) \/ Claim(r) \/ IssueToken(r) \/ LoadSession(r) \/ LookupUser(r)
                 \/ MatchStep(r) \/ SelectNonce(r)
          PROVE NonceIsGoodOnce'
      BY <2>3 DEF CloseRoom, TouchExpired, StartClose, Crash, Claim, IssueToken, LoadSession,
                  LookupUser, MatchStep, SelectNonce, Goto
    <2>4. ASSUME NEW r \in Requests, BurnStep(r) PROVE NonceIsGoodOnce'
      BY <2>4 DEF BurnStep, Goto, RequestsAreWellFormed
    <2>5. ASSUME NEW r \in Requests, DeleteNonce(r) PROVE NonceIsGoodOnce'
      <3>1. UNCHANGED <<who, how, proof>> /\ \A q \in Requests \ {r} : pc'[q] = pc[q]
        BY <2>5 DEF DeleteNonce, Goto
      <3>2. HasProved(r)' => proof[r] \in nonces
        BY <2>5 DEF DeleteNonce, DeletedOne, Goto
      <3>3. \A q \in Requests : HasProved(q) /\ how[q] = "cert" => proof[q] \notin nonces
        BY DEF ProvedIsSpent
      <3> QED BY <3>1, <3>2, <3>3
    <2>6. CASE Environment
      BY <2>6 DEF Environment, NextStep, RoomExpires, RoomAges, SetRevoked, NonceLapses
    <2>7. CASE UNCHANGED vars
      BY <2>7 DEF vars
    <2> QED BY <2>1, <2>2, <2>3, <2>4, <2>5, <2>6, <2>7 DEF Next, Arrive, Handle
  <1> QED BY <1>1, <1>2, TypedAlways, SpentAlways, PTL DEF Spec

-----------------------------------------------------------------------------
(* The seats and their credentials.                                        *)

SeatInv ==
    /\ AbsentRowIsBlank
    /\ ClaimsAreExclusive
    /\ TokensWereGranted
    /\ CredentialMatchesSeat
    /\ LockedSeatIsExplained

(* The seats of a room that does not exist are empty.                      *)
LEMMA InitSeats == Init => SeatInv
  BY DEF Init, Absent, SeatInv, AbsentRowIsBlank, ClaimsAreExclusive, TokensWereGranted,
         CredentialMatchesSeat, LockedSeatIsExplained

(* A step that leaves the seats of the row alone, does not open a room and *)
(* moves at most one request, neither from nor to a claim or a grant.      *)
LEMMA QuietStep ==
    ASSUME TypeOK, SeatInv, NEW r \in Requests,
           UNCHANGED <<seatVars, slot>>,
           present' = present, closed => closed',
           pc[r] \notin {"token", "granted", "lost"},
           pc'[r] \notin {"token", "granted", "lost"},
           \A q \in Requests \ {r} : pc'[q] = pc[q] /\ who'[q] = who[q]
    PROVE  SeatInv'
  <1> USE DEF TypeOK, seatVars, SeatInv
  <1>1. TokensWereGranted'
    BY DEF TokensWereGranted
  <1>2. ClaimsAreExclusive'
    BY DEF ClaimsAreExclusive
  <1>3. CredentialMatchesSeat'
    BY RequestsAssumption DEF CredentialMatchesSeat, TokensWereGranted
  <1>4. LockedSeatIsExplained'
    BY DEF LockedSeatIsExplained
  <1>5. AbsentRowIsBlank'
    BY DEF AbsentRowIsBlank
  <1> QED BY <1>1, <1>2, <1>3, <1>4, <1>5

(* A step that blanks the row: whoever holds it, nothing is left to hold.  *)
LEMMA BlankingStep ==
    ASSUME TypeOK, ScrubSeats,
           (present' /\ ~closed') => \A r \in Requests : pc'[r] # "token"
    PROVE  SeatInv'
  BY RequestsAssumption
  DEF SeatInv, AbsentRowIsBlank, ClaimsAreExclusive, TokensWereGranted,
      CredentialMatchesSeat, LockedSeatIsExplained, ScrubSeats

(* A step that touches neither the seats nor the requests.                 *)
LEMMA OutsideStep ==
    ASSUME SeatInv, UNCHANGED <<seatVars, pc, who, slot>>,
           present' = present, closed => closed'
    PROVE  SeatInv'
  BY DEF SeatInv, AbsentRowIsBlank, ClaimsAreExclusive, TokensWereGranted,
         CredentialMatchesSeat, LockedSeatIsExplained, seatVars

(* A request that takes a seat finds it without a credential and without   *)
(* another request that is about to put one there.                         *)
LEMMA ClaimStep ==
    ASSUME TypeOK, RequestsAreWellFormed, SeatInv, NEW r \in Requests, NEW s \in Slots,
           pc[r] = "claim", MayTake(s, who[r]),
           user' = [user EXCEPT ![s] = who[r]],
           slot' = [slot EXCEPT ![r] = s],
           pc' = [pc EXCEPT ![r] = "token"],
           UNCHANGED <<lifeVars, token, who>>
    PROVE  SeatInv'
  <1> USE DEF TypeOK, lifeVars
  <1>1. who[r] \in Users /\ user[s] = Nobody
    BY DEF RequestsAreWellFormed, Waiting, MayTake
  <1>2. ASSUME present, ~closed PROVE token[s] = NoToken
    BY <1>1, <1>2, UsersAssumption
    DEF SeatInv, TokensWereGranted, CredentialMatchesSeat, RequestsAreWellFormed
  <1>3. ASSUME present, ~closed, NEW q \in Requests, pc[q] = "token" PROVE slot[q] # s
    BY <1>1, <1>3, UsersAssumption
    DEF SeatInv, ClaimsAreExclusive, RequestsAreWellFormed, Waiting
  <1>4. ClaimsAreExclusive'
    BY <1>1, <1>2, <1>3 DEF SeatInv, ClaimsAreExclusive
  <1>5. TokensWereGranted'
    BY DEF SeatInv, TokensWereGranted
  <1>6. CredentialMatchesSeat'
    BY <1>2, RequestsAssumption DEF SeatInv, CredentialMatchesSeat
  <1>7. LockedSeatIsExplained'
    BY <1>1 DEF SeatInv, LockedSeatIsExplained
  <1>8. AbsentRowIsBlank'
    BY DEF AbsentRowIsBlank, MayTake
  <1> QED BY <1>4, <1>5, <1>6, <1>7, <1>8 DEF SeatInv

(* The credential goes to the seat the request has claimed, which is still *)
(* its own.                                                                *)
LEMMA IssueStep ==
    ASSUME TypeOK, SeatInv, NEW r \in Requests, IssueToken(r)
    PROVE  SeatInv'
  <1> USE DEF TypeOK, SeatInv, IssueToken, TokenSlot, Goto, lifeVars
  <1>1. ClaimsAreExclusive'
    BY DEF ClaimsAreExclusive
  <1>2. TokensWereGranted'
    BY RequestsAssumption DEF TokensWereGranted
  <1>3. CredentialMatchesSeat'
    BY RequestsAssumption DEF CredentialMatchesSeat, ClaimsAreExclusive
  <1>4. LockedSeatIsExplained'
    BY RequestsAssumption DEF LockedSeatIsExplained
  <1>5. AbsentRowIsBlank'
    BY DEF AbsentRowIsBlank
  <1> QED BY <1>1, <1>2, <1>3, <1>4, <1>5

(* The seats, step by step: a claim takes a free seat, the token goes to   *)
(* the seat that was claimed, closing blanks both.                         *)
LEMMA StepSeats == Typed /\ Discipline /\ SeatInv /\ [Next]_vars => SeatInv'
  <1> SUFFICES ASSUME TypeOK, RequestsAreWellFormed, Discipline, SeatInv, [Next]_vars
               PROVE  SeatInv'
    BY DEF Typed
  <1> USE DEF lifeVars, seatVars, credVars, nonceVars, reqVars
  <1>1. CASE CreateSession
    <2>1. \A r \in Requests : pc[r] \notin Waiting
      BY <1>1 DEF CreateSession, InsertRow, CodeFree, Discipline, NobodyWaitsForAnOldRoom
    <2>2. ScrubSeats /\ pc' = pc
      BY <1>1 DEF CreateSession
    <2> QED BY <2>1, <2>2, BlankingStep DEF Waiting
  <1>2. CASE PurgeTimer \/ \E n \in Nonces : GetNonce(n)
    <2>1. Purge /\ UNCHANGED <<pc, who, slot>>
      BY <1>2 DEF PurgeTimer, GetNonce
    <2>2. CASE PurgeCloses \/ PurgeDeletes
      <3>1. ScrubSeats /\ ~(present' /\ ~closed')
        BY <2>1, <2>2 DEF Purge, PurgeRow, TypeOK, LifeTypeOK, PurgeCloses, PurgeDeletes
      <3> QED BY <3>1, BlankingStep
    <2>3. CASE ~(PurgeCloses \/ PurgeDeletes)
      <3>1. UNCHANGED seatVars /\ present' = present /\ (closed => closed')
        BY <2>1, <2>3 DEF Purge, PurgeRow, TypeOK, LifeTypeOK
      <3> QED BY <2>1, <3>1, OutsideStep
    <2> QED BY <2>2, <2>3
  <1>3. ASSUME NEW r \in Requests, CloseRoom(r) PROVE SeatInv'
    <2>1. ScrubSeats /\ ~(present' /\ ~closed')
      BY <1>3 DEF CloseRoom, CloseRow
    <2> QED BY <2>1, BlankingStep
  <1>4. ASSUME NEW r \in Requests, NEW u \in Users, NEW m \in Methods,
               NEW p \in ProofsOf(m), StartVerify(r, u, m, p)
        PROVE SeatInv'
    <2>1. pc[r] = "idle" /\ pc'[r] \notin {"token", "granted", "lost"}
      BY <1>4, MethodsAssumption DEF StartVerify, FirstCheck, Goto, TypeOK
    <2> QED BY <1>4, <2>1, QuietStep DEF StartVerify, Goto, TypeOK
  <1>5. ASSUME NEW r \in Requests,
               \/ MatchStep(r) \/ BurnStep(r) \/ SelectNonce(r) \/ DeleteNonce(r)
               \/ LookupUser(r) \/ LoadSession(r)
               \/ TouchExpired(r) \/ \E s \in Slots : StartClose(r, s)
        PROVE SeatInv'
    <2>1. /\ pc[r] \notin {"token", "granted", "lost"}
          /\ pc'[r] \notin {"token", "granted", "lost"}
          /\ \A q \in Requests \ {r} : pc'[q] = pc[q] /\ who'[q] = who[q]
      BY <1>5 DEF MatchStep, BurnStep, SelectNonce, DeleteNonce, LookupUser, LoadSession,
                  TouchExpired, StartClose, Goto, TypeOK
    <2>2. UNCHANGED <<lifeVars, seatVars, slot>>
      BY <1>5 DEF MatchStep, BurnStep, SelectNonce, DeleteNonce, LookupUser, LoadSession,
                  TouchExpired, StartClose
    <2> QED BY <2>1, <2>2, QuietStep
  <1>6. ASSUME NEW r \in Requests, Crash(r) PROVE SeatInv'
    BY <1>6 DEF Crash, Goto, InFlight, Waiting, TypeOK, SeatInv, AbsentRowIsBlank, ClaimsAreExclusive,
                TokensWereGranted, CredentialMatchesSeat, LockedSeatIsExplained
  <1>7. ASSUME NEW r \in Requests, Claim(r) PROVE SeatInv'
    <2>1. CASE pc'[r] = "refused"
      BY <1>7, <2>1, QuietStep DEF Claim, Goto, TypeOK
    <2>2. CASE pc'[r] # "refused"
      BY <1>7, <2>2, ClaimStep DEF Claim, Goto, TypeOK
    <2> QED BY <2>1, <2>2
  <1>8. ASSUME NEW r \in Requests, IssueToken(r) PROVE SeatInv'
    BY <1>8, IssueStep
  <1>9. CASE Environment
    <2>1. UNCHANGED <<seatVars, pc, who, slot>> /\ present' = present /\ closed' = closed
      BY <1>9 DEF Environment, NextStep, RoomExpires, RoomAges, SetRevoked, NonceLapses,
                  Expire, Age
    <2> QED BY <2>1, OutsideStep
  <1>10. CASE UNCHANGED vars
    BY <1>10, OutsideStep DEF vars
  <1> QED
    BY <1>1, <1>2, <1>3, <1>4, <1>5, <1>6, <1>7, <1>8, <1>9, <1>10 DEF Next, Arrive, Handle

(* The seats and their credentials are in order throughout.                *)
LEMMA SeatsAlways == Spec => []SeatInv
  BY InitSeats, StepSeats, TypedAlways, DisciplineAlways, PTL DEF Spec

(* In an open room a seat's credential is held by the seat's own person.   *)
THEOREM CredentialsMatch == Spec => []CredentialMatchesSeat
  <1>1. SeatInv => CredentialMatchesSeat
    BY DEF SeatInv
  <1> QED BY <1>1, SeatsAlways, PTL

(* Only a request caught between the two transactions of claim_slot leaves *)
(* a seat of an open room without a credential.                            *)
THEOREM LockedSeatsExplained == Spec => []LockedSeatIsExplained
  <1>1. SeatInv => LockedSeatIsExplained
    BY DEF SeatInv
  <1> QED BY <1>1, SeatsAlways, PTL

(* All the parts of the inductive invariant of the layers hold together.   *)
THEOREM InvariantHolds == Spec => []SeatsInv
  <1>1. Typed /\ Discipline /\ ProvedIsSpent /\ SeatInv => SeatsInv
    BY DEF Typed, Discipline, SeatInv, SeatsInv
  <1> QED BY <1>1, TypedAlways, DisciplineAlways, SpentAlways, SeatsAlways, PTL

-----------------------------------------------------------------------------
(* What a step may never do.                                               *)

(* Seats and credentials change hands only with the end of the room.       *)
THEOREM SeatsSettled == Spec => SeatsAreSettled
  <1>1. Typed /\ Discipline /\ SeatInv /\ [Next]_vars => SeatStep
    <2> SUFFICES ASSUME TypeOK, Discipline, SeatInv, [Next]_vars PROVE SeatStep
      BY DEF Typed
    <2> USE DEF SeatStep, TypeOK, LifeTypeOK, lifeVars, seatVars
    <2>1. CASE CreateSession
      BY <2>1 DEF CreateSession, InsertRow, CodeFree, SeatInv, AbsentRowIsBlank
    <2>2. CASE PurgeTimer \/ \E n \in Nonces : GetNonce(n)
      BY <2>2 DEF PurgeTimer, GetNonce, Purge, PurgeRow, PurgeCloses, PurgeDeletes
    <2>3. ASSUME NEW r \in Requests, CloseRoom(r) PROVE SeatStep
      BY <2>3 DEF CloseRoom, CloseRow
    <2>4. ASSUME NEW r \in Requests, Claim(r) PROVE SeatStep
      <3>1. CASE user' = user
        BY <2>4, <3>1 DEF Claim
      <3>2. CASE user' # user
        <4>1. PICK s \in Slots : MayTake(s, who[r]) /\ user' = [user EXCEPT ![s] = who[r]]
          BY <2>4, <3>2 DEF Claim
        <4> QED BY <2>4, <4>1 DEF Claim, MayTake
      <3> QED BY <3>1, <3>2
    <2>5. ASSUME NEW r \in Requests, IssueToken(r) PROVE SeatStep
      BY <2>5 DEF IssueToken, TokenSlot, SeatInv, ClaimsAreExclusive
    <2>6. UNCHANGED seatVars \/ CreateSession \/ PurgeTimer
          \/ (\E n \in Nonces : GetNonce(n))
          \/ \E r \in Requests : CloseRoom(r) \/ Claim(r) \/ IssueToken(r)
      BY DEF Next, Arrive, Handle, Environment, vars, StartVerify, MatchStep, BurnStep,
             SelectNonce, DeleteNonce, LookupUser, LoadSession, TouchExpired, StartClose,
             Crash, SetRevoked, NextStep, NonceLapses, RoomExpires, RoomAges
    <2> QED BY <2>1, <2>2, <2>3, <2>4, <2>5, <2>6
  <1> QED BY <1>1, TypedAlways, DisciplineAlways, SeatsAlways, PTL DEF Spec, SeatsAreSettled

(* A closed room is not opened again, and its code not reused, for a day.  *)
THEOREM ClosedStaysClosed == Spec => ClosingIsFinal
  <1>1. TypeOK /\ [Next]_vars => CloseStep
    <2> SUFFICES ASSUME TypeOK, [Next]_vars PROVE CloseStep
      OBVIOUS
    <2> USE DEF CloseStep, TypeOK, LifeTypeOK, lifeVars
    <2>1. CASE CreateSession
      BY <2>1 DEF CreateSession, InsertRow, CodeFree
    <2>2. CASE PurgeTimer \/ \E n \in Nonces : GetNonce(n)
      BY <2>2 DEF PurgeTimer, GetNonce, Purge, PurgeRow, PurgeDeletes
    <2>3. ASSUME NEW r \in Requests, CloseRoom(r) PROVE CloseStep
      BY <2>3 DEF CloseRoom, CloseRow
    <2>4. UNCHANGED closed \/ CreateSession \/ PurgeTimer
          \/ (\E n \in Nonces : GetNonce(n)) \/ \E r \in Requests : CloseRoom(r)
      BY DEF Next, Arrive, Handle, Environment, vars, StartVerify, MatchStep, BurnStep,
             SelectNonce, DeleteNonce, LookupUser, LoadSession, Claim, IssueToken,
             TouchExpired, StartClose, Crash, SetRevoked, NextStep, NonceLapses,
             RoomExpires, RoomAges, Expire, Age
    <2> QED BY <2>1, <2>2, <2>3, <2>4
  <1> QED BY <1>1, TypeCorrect, PTL DEF Spec, ClosingIsFinal

-----------------------------------------------------------------------------
(* What the invariants say together.                                       *)

(* Two requests got through with one nonce, or with one code of one person. *)
SameProof(r, q) ==
    /\ HasProved(r) /\ HasProved(q) /\ how[r] = how[q] /\ proof[r] = proof[q]
    /\ how[r] = "cert" \/ (how[r] = "totp" /\ who[r] = who[q])

(* The promise of the whole verification, in an open room.                 *)
TwoPeopleVerified ==
    present /\ ~closed /\ (\A s \in Slots : token[s] # NoToken) =>
        /\ \A s \in Slots :
               /\ pc[token[s]] = "granted"
               /\ who[token[s]] \in Users /\ user[s] = who[token[s]]
               /\ \A r \in Requests : SameProof(r, token[s]) => r = token[s]
        /\ who[token["a"]] # who[token["b"]]

(* Two credentials of an open room are in the hands of two different       *)
(* people, each by a request of their own that was granted, with a nonce   *)
(* or a code that no other request got through with.                       *)
THEOREM TwoCredentialsTwoPeople == Spec => []TwoPeopleVerified
  <1>1. /\ Typed /\ SeatInv /\ NoOneHoldsBothSeats /\ NonceIsGoodOnce /\ CodeIsGoodOnce
        => TwoPeopleVerified
    <2> SUFFICES ASSUME TypeOK, RequestsAreWellFormed, SeatInv, NoOneHoldsBothSeats, NonceIsGoodOnce,
                        CodeIsGoodOnce, present, ~closed, \A s \in Slots : token[s] # NoToken
                 PROVE  TwoPeopleVerified
      BY DEF Typed, TwoPeopleVerified
    <2>1. \A s \in Slots : token[s] \in Requests
      BY DEF TypeOK
    <2>2. ASSUME NEW s \in Slots
          PROVE  /\ pc[token[s]] = "granted"
                 /\ who[token[s]] \in Users /\ user[s] = who[token[s]]
      BY <2>1 DEF SeatInv, TokensWereGranted, CredentialMatchesSeat, RequestsAreWellFormed
    <2>3. ASSUME NEW s \in Slots, NEW r \in Requests, SameProof(r, token[s])
          PROVE  r = token[s]
      BY <2>1, <2>3 DEF NonceIsGoodOnce, CodeIsGoodOnce, SameProof
    <2>4. who[token["a"]] # who[token["b"]]
      BY <2>2 DEF NoOneHoldsBothSeats
    <2> QED BY <2>2, <2>3, <2>4 DEF TwoPeopleVerified
  <1> QED BY <1>1, TypedAlways, SeatsAlways, OneSeatEach, NonceOnce, CodeOnce, PTL

(* A bare tombstone that no request under way has read as an open row.     *)
Settled == TombstoneIsBare /\ \A r \in Requests : pc[r] \notin Waiting
OnlyLateRequestsWrite == [][closed /\ Settled /\ closed' => Settled']_vars

(* How far "only a bare tombstone remains" is broken: once the requests    *)
(* that read the row before it was closed are through, a bare tombstone is *)
(* left alone until it is deleted.                                         *)
THEOREM SettledTombstoneStaysBare == Spec => OnlyLateRequestsWrite
  <1>1. TypeOK /\ [Next]_vars => (closed /\ Settled /\ closed' => Settled')
    <2> SUFFICES ASSUME TypeOK, [Next]_vars, closed, Settled, closed' PROVE Settled'
      OBVIOUS
    <2> USE DEF Settled, TombstoneIsBare, TypeOK, lifeVars, seatVars, reqVars
    <2>1. CASE CreateSession \/ PurgeTimer \/ \E n \in Nonces : GetNonce(n)
      BY <2>1 DEF CreateSession, PurgeTimer, GetNonce, Purge, ScrubSeats
    <2>2. ASSUME NEW r \in Requests, Handle(r) PROVE CloseRoom(r)
      BY <2>2 DEF Handle, MatchStep, BurnStep, SelectNonce, DeleteNonce, LookupUser, LoadSession,
         Claim, IssueToken, Waiting
    <2>3. ASSUME NEW r \in Requests, CloseRoom(r) PROVE Settled'
      BY <2>3 DEF CloseRoom, ScrubSeats, Goto, Waiting
    <2>4. ASSUME NEW r \in Requests, Arrive(r) \/ Crash(r) PROVE Settled'
      BY <2>4 DEF Arrive, Crash, StartVerify, TouchExpired, StartClose, Goto, Waiting, Usable
    <2>5. CASE Environment \/ UNCHANGED vars
      BY <2>5 DEF Environment, NextStep, RoomExpires, RoomAges, SetRevoked, NonceLapses, vars
    <2> QED BY <2>1, <2>2, <2>3, <2>4, <2>5 DEF Next
  <1> QED BY <1>1, TypeCorrect, PTL DEF Spec, OnlyLateRequestsWrite
=============================================================================
