-------------------------------- MODULE Seats --------------------------------
(***************************************************************************)
(* How a person takes a seat of a room: the three verification handlers of *)
(* verifier/blueprints/api.py, the record_verification and claim_slot they *)
(* end in, the TOTP step and the nonce they spend, and what closes a room  *)
(* under them.                                                             *)
(*                                                                         *)
(* Requests run in separate worker processes over one SQLite database.  A  *)
(* SELECT is an autocommit read; the first INSERT, UPDATE or DELETE opens  *)
(* a write transaction that lasts to the commit.  So each action below is  *)
(* one read or one transaction, and requests interleave between them.  A   *)
(* worker may be killed between any two actions.  A request is handled     *)
(* once, and the token it is given is named after it.                      *)
(***************************************************************************)
EXTENDS RoomLife, FiniteSets

CONSTANTS
    Users,      \* rows of the table "users"
    Requests,   \* the requests that reach the server
    Nonces,     \* the nonces get_nonce may draw
    Methods,    \* the verification methods in use
    MaxStep,    \* bound on the TOTP time step
    Nobody,     \* a NULL user column
    NoToken,    \* a NULL token hash
    NoProof     \* a request that carries no code and no nonce

ASSUME UsersAssumption    == Nobody \notin Users
ASSUME RequestsAssumption == NoToken \notin Requests
ASSUME MethodsAssumption  == Methods \subseteq {"totp", "cert", "mtls"}
ASSUME StepAssumption     == MaxStep \in Nat \ {0}
ASSUME ProofAssumption    == NoProof \notin Nat \cup Nonces

Slots == {"a", "b"}
Peer(s) == IF s = "a" THEN "b" ELSE "a"
Steps == 1..MaxStep

VARIABLES
    user,       \* user_a, user_b
    token,      \* a_token_hash, b_token_hash: the request the token went to
    revoked,    \* users.revoked
    lastStep,   \* users.totp_last_step, 0 for NULL
    step,       \* the current TOTP time step
    nonces,     \* rows of "nonces"
    drawn,      \* nonces that were drawn, so never drawn again
    lapsed,     \* nonces older than nonce_ttl_seconds
    pc,         \* where each request stands
    who,        \* the user each request verifies
    how,        \* its method
    proof,      \* its TOTP code (the step it is good for) or its nonce
    slot        \* the slot it has claimed

seatVars == <<user, token>>
credVars == <<revoked, lastStep, step>>
nonceVars == <<nonces, drawn, lapsed>>
reqVars == <<pc, who, how, proof, slot>>
vars == <<lifeVars, seatVars, credVars, nonceVars, reqVars>>

Waiting  == {"auth", "select", "delete", "lookup", "burn", "load", "claim", "token"}
InFlight == Waiting \cup {"close"}
Ended    == {"granted", "refused", "lost"}

TypeOK ==
    /\ LifeTypeOK
    /\ user \in [Slots -> Users \cup {Nobody}]
    /\ token \in [Slots -> Requests \cup {NoToken}]
    /\ revoked \in SUBSET Users
    /\ lastStep \in [Users -> 0..MaxStep]
    /\ step \in Steps
    /\ drawn \in SUBSET Nonces
    /\ nonces \in SUBSET drawn
    /\ lapsed \in SUBSET drawn
    /\ pc \in [Requests -> {"idle"} \cup InFlight \cup Ended]
    /\ who \in [Requests -> Users \cup {Nobody}]
    /\ how \in [Requests -> Methods \cup {"none"}]
    /\ proof \in [Requests -> Steps \cup Nonces \cup {NoProof}]
    /\ slot \in [Requests -> Slots]

Init ==
    /\ Absent
    /\ user = [s \in Slots |-> Nobody]
    /\ token = [s \in Slots |-> NoToken]
    /\ revoked = {}
    /\ lastStep = [u \in Users |-> 0]
    /\ step = 1
    /\ nonces = {} /\ drawn = {} /\ lapsed = {}
    /\ pc = [r \in Requests |-> "idle"]
    /\ who = [r \in Requests |-> Nobody]
    /\ how = [r \in Requests |-> "none"]
    /\ proof = [r \in Requests |-> NoProof]
    /\ slot = [r \in Requests |-> "a"]

-----------------------------------------------------------------------------
(* The row's own statements.                                               *)

Goto(r, where) == pc' = [pc EXCEPT ![r] = where]

BlankSeats ==                                           \* mutant
    /\ user' = [s \in Slots |-> ""]
    /\ token' = [s \in Slots |-> NoToken]

(* The _SCRUB columns this module keeps, for a row that is closed or gone. *)
ScrubSeats ==
    /\ user' = [s \in Slots |-> Nobody]
    /\ token' = [s \in Slots |-> NoToken]

(* purge_expired, all its DELETEs and UPDATEs: old nonces go, an expired   *)
(* room is scrubbed, a day-old tombstone is deleted.                       *)
Purge ==
    /\ PurgeRow
    /\ IF PurgeCloses \/ PurgeDeletes THEN ScrubSeats ELSE UNCHANGED seatVars

(* create_session, for this room's code; for another code it is the purge  *)
(* below and nothing else.                                                 *)
CreateSession ==
    /\ InsertRow
    /\ ScrubSeats
    /\ nonces' = nonces \ lapsed
    /\ UNCHANGED <<credVars, drawn, lapsed, reqVars>>

(* python -m verifier.purge, started by a timer; create_session of another *)
(* room does the same.                                                     *)
PurgeTimer ==
    /\ Purge
    /\ nonces' = nonces \ lapsed
    /\ UNCHANGED <<credVars, drawn, lapsed, reqVars>>

(* get_nonce: purge and insert in one transaction.                         *)
GetNonce(n) ==
    /\ n \notin drawn
    /\ Purge
    /\ nonces' = (nonces \ lapsed) \cup {n}
    /\ drawn' = drawn \cup {n}
    /\ UNCHANGED <<credVars, lapsed, reqVars>>

(* close_room, for a request that has decided to close.                    *)
CloseRoom(r) ==
    /\ pc[r] = "close"
    /\ CloseRow
    /\ ScrubSeats
    /\ Goto(r, "refused")
    /\ UNCHANGED <<credVars, nonceVars, who, how, proof, slot>>

-----------------------------------------------------------------------------
(* The verification handlers.                                              *)

(* A code is typed by somebody who holds user u's secret; it is good for   *)
(* step c.  A nonce is one the server handed out.                          *)
ProofsOf(m) ==
    CASE m = "totp" -> Steps
      [] m = "cert" -> drawn
      [] m = "mtls" -> {NoProof}

FirstCheck(m) ==
    CASE m = "totp" -> "auth"
      [] m = "cert" -> "select"
      [] m = "mtls" -> "lookup"

(* verify_totp, verify_cert and verify_mtls up to _gone: the row is read   *)
(* once, and what it says decides.                                         *)
StartVerify(r, u, m, p) ==
    /\ pc[r] = "idle"
    /\ p \in ProofsOf(m)
    /\ \/ /\ ~present \/ (closed /\ ~expired)
          /\ Goto(r, "refused")
          /\ UNCHANGED <<who, how, proof>>
       \/ /\ expired
          /\ Goto(r, "close")
          /\ UNCHANGED <<who, how, proof>>
       \/ /\ Usable
          /\ Goto(r, FirstCheck(m))
          /\ who' = [who EXCEPT ![r] = u]
          /\ how' = [how EXCEPT ![r] = m]
          /\ proof' = [proof EXCEPT ![r] = p]
    /\ UNCHANGED <<lifeVars, seatVars, credVars, nonceVars, slot>>

(* SELECT ... WHERE revoked=0, then match_step: the code must belong to    *)
(* the current step or a neighbour of it.                                  *)
MatchStep(r) ==
    /\ pc[r] = "auth"
    /\ IF who[r] \notin revoked /\ proof[r] \in (step - 1)..(step + 1)
       THEN Goto(r, "burn")
       ELSE Goto(r, "refused")
    /\ UNCHANGED <<lifeVars, seatVars, credVars, nonceVars, who, how, proof, slot>>

StepIsNotOld(u, c) == lastStep[u] <= c                 \* mutant
StepIsNew(u, c) == lastStep[u] < c

(* UPDATE users SET totp_last_step WHERE totp_last_step < step.            *)
BurnStep(r) ==
    /\ pc[r] = "burn"
    /\ IF StepIsNew(who[r], proof[r])
       THEN /\ lastStep' = [lastStep EXCEPT ![who[r]] = proof[r]]
            /\ Goto(r, "load")
       ELSE /\ UNCHANGED lastStep
            /\ Goto(r, "refused")
    /\ UNCHANGED <<lifeVars, seatVars, revoked, step, nonceVars, who, how, proof, slot>>

(* consume_nonce, its SELECT.  A nonce that is not there will never be:    *)
(* it is refused whatever the DELETE does.                                 *)
SelectNonce(r) ==
    /\ pc[r] = "select"
    /\ IF proof[r] \in nonces THEN Goto(r, "delete") ELSE Goto(r, "refused")
    /\ UNCHANGED <<lifeVars, seatVars, credVars, nonceVars, who, how, proof, slot>>

WasSelected(n) == TRUE                                 \* mutant
DeletedOne(n) == n \in nonces

(* consume_nonce, its DELETE: the row count tells whether this request was *)
(* the one that spent the nonce; a nonce past its time is spent in vain.   *)
DeleteNonce(r) ==
    /\ pc[r] = "delete"
    /\ nonces' = nonces \ {proof[r]}
    /\ IF DeletedOne(proof[r]) /\ proof[r] \notin lapsed THEN Goto(r, "lookup") ELSE Goto(r, "refused")
    /\ UNCHANGED <<lifeVars, seatVars, credVars, drawn, lapsed, who, how, proof, slot>>

(* lookup_user: the certificate resolves to a user who is not revoked; the *)
(* checks of the certificate and the signature before it may refuse too.   *)
LookupUser(r) ==
    /\ pc[r] = "lookup"
    /\ \/ who[r] \notin revoked /\ Goto(r, "load")
       \/ Goto(r, "refused")
    /\ UNCHANGED <<lifeVars, seatVars, credVars, nonceVars, who, how, proof, slot>>

(* record_verification, its own read of the row.                           *)
LoadSession(r) ==
    /\ pc[r] = "load"
    /\ IF present /\ \A s \in Slots : user[s] # who[r]
       THEN Goto(r, "claim")
       ELSE Goto(r, "refused")
    /\ UNCHANGED <<lifeVars, seatVars, credVars, nonceVars, who, how, proof, slot>>

SlotIsFree(s, u) == present /\ user[s] = Nobody        \* mutant
UserIsNotPeer(s, u) == present /\ user[Peer(s)] # u    \* mutant

(* The precondition the UPDATE of slot s carries.                          *)
MayTake(s, u) == present /\ user[s] = Nobody /\ user[Peer(s)] # u

(* record_verification, its transaction: the UPDATE of slot a, and that of *)
(* slot b when the first one matched no row.                               *)
Claim(r) ==
    /\ pc[r] = "claim"
    /\ \/ \E s \in Slots :
            /\ MayTake(s, who[r])
            /\ s = "b" => ~MayTake("a", who[r])
            /\ user' = [user EXCEPT ![s] = who[r]]
            /\ slot' = [slot EXCEPT ![r] = s]
            /\ Goto(r, "token")
       \/ /\ \A s \in Slots : ~MayTake(s, who[r])
          /\ Goto(r, "refused")
          /\ UNCHANGED <<user, slot>>
    /\ UNCHANGED <<lifeVars, token, credVars, nonceVars, who, how, proof>>

TokenSlot(r) == slot[r]

(* claim_slot: the token hash goes in by a transaction of its own.         *)
IssueToken(r) ==
    /\ pc[r] = "token"
    /\ token' = IF present THEN [token EXCEPT ![TokenSlot(r)] = r] ELSE token
    /\ Goto(r, "granted")
    /\ UNCHANGED <<lifeVars, user, credVars, nonceVars, who, how, proof, slot>>

-----------------------------------------------------------------------------
(* Everything else that happens around them.                               *)

(* session_status, and any room call, on a room that has run out of time:  *)
(* whoever touches it finishes it off.                                     *)
TouchExpired(r) ==
    /\ pc[r] = "idle"
    /\ expired
    /\ Goto(r, "close")
    /\ UNCHANGED <<lifeVars, seatVars, credVars, nonceVars, who, how, proof, slot>>

(* room/close: the row is read, its token matches, close_room follows.     *)
StartClose(r, s) ==
    /\ pc[r] = "idle"
    /\ Usable
    /\ token[s] # NoToken
    /\ Goto(r, "close")
    /\ UNCHANGED <<lifeVars, seatVars, credVars, nonceVars, who, how, proof, slot>>

(* The worker is killed (its timeout, a restart, a deploy): what was       *)
(* committed stays, the rest of the handler never runs.                    *)
Crash(r) ==
    /\ pc[r] \in InFlight
    /\ Goto(r, "lost")
    /\ UNCHANGED <<lifeVars, seatVars, credVars, nonceVars, who, how, proof, slot>>

SetRevoked(u) ==
    /\ revoked' = IF u \in revoked THEN revoked \ {u} ELSE revoked \cup {u}
    /\ UNCHANGED <<lifeVars, seatVars, lastStep, step, nonceVars, reqVars>>

NextStep ==
    /\ step < MaxStep
    /\ step' = step + 1
    /\ UNCHANGED <<lifeVars, seatVars, revoked, lastStep, nonceVars, reqVars>>

NonceLapses(n) ==
    /\ n \in drawn \ lapsed
    /\ lapsed' = lapsed \cup {n}
    /\ UNCHANGED <<lifeVars, seatVars, credVars, nonces, drawn, reqVars>>

RoomExpires ==
    /\ Expire
    /\ UNCHANGED <<seatVars, credVars, nonceVars, reqVars>>

(* A worker is killed after a minute, so none is still at work on a room   *)
(* a day after its end.                                                    *)
RoomAges ==
    /\ \A r \in Requests : pc[r] \notin InFlight
    /\ Age
    /\ UNCHANGED <<seatVars, credVars, nonceVars, reqVars>>

Handle(r) ==
    \/ CloseRoom(r)
    \/ MatchStep(r)
    \/ BurnStep(r)
    \/ SelectNonce(r)
    \/ DeleteNonce(r)
    \/ LookupUser(r)
    \/ LoadSession(r)
    \/ Claim(r)
    \/ IssueToken(r)

Arrive(r) ==
    \/ \E u \in Users, m \in Methods : \E p \in ProofsOf(m) : StartVerify(r, u, m, p)
    \/ TouchExpired(r)
    \/ \E s \in Slots : StartClose(r, s)

Environment ==
    \/ NextStep
    \/ RoomExpires
    \/ RoomAges
    \/ \E u \in Users : SetRevoked(u)
    \/ \E n \in Nonces : NonceLapses(n)

Next ==
    \/ CreateSession
    \/ PurgeTimer
    \/ \E n \in Nonces : GetNonce(n)
    \/ \E r \in Requests : Arrive(r) \/ Handle(r) \/ Crash(r)
    \/ Environment

Spec == Init /\ [][Next]_vars

-----------------------------------------------------------------------------
(* Properties.                                                             *)

(* One person cannot sit on both sides of a room and so vouch for          *)
(* themselves, however their requests interleave: the check in             *)
(* record_verification reads the row before the UPDATE, the UPDATE's own   *)
(* precondition is what holds it.                                          *)
NoOneHoldsBothSeats ==
    \A u \in Users : ~(user["a"] = u /\ user["b"] = u)

(* While a room is open, the credential of a seat is in the hands of the   *)
(* person the seat is recorded for: claim_slot's two transactions cannot   *)
(* be torn apart by another claim.                                         *)
CredentialMatchesSeat ==
    present /\ ~closed =>
        \A s \in Slots, r \in Requests : token[s] = r => user[s] = who[r]

(* Past the step that spends a one-time secret, and not refused later.     *)
HasProved(r) == pc[r] \in {"lookup", "load", "claim", "token", "granted"}

(* A TOTP code of a user gets at most one request through, replayed or     *)
(* sent twice at the same moment.                                          *)
CodeIsGoodOnce ==
    \A r1, r2 \in Requests :
        /\ HasProved(r1) /\ how[r1] = "totp"
        /\ HasProved(r2) /\ how[r2] = "totp"
        /\ who[r1] = who[r2] /\ proof[r1] = proof[r2]
        => r1 = r2

(* A nonce gets at most one request through, whoever signed it, although   *)
(* it is read before it is deleted and the purge deletes nonces too.       *)
NonceIsGoodOnce ==
    \A r1, r2 \in Requests :
        /\ HasProved(r1) /\ how[r1] = "cert"
        /\ HasProved(r2) /\ how[r2] = "cert"
        /\ proof[r1] = proof[r2]
        => r1 = r2

(* A seat without a credential is locked for the rest of the room's life:  *)
(* its holder is refused as already verified.  In an open room that only   *)
(* happens to a request still between the two transactions of claim_slot   *)
(* or killed there.                                                        *)
LockedSeatIsExplained ==
    present /\ ~closed =>
        \A s \in Slots :
            user[s] # Nobody /\ token[s] = NoToken =>
                \E r \in Requests :
                    /\ pc[r] \in {"token", "lost"}
                    /\ slot[r] = s /\ who[r] = user[s]

(* Who sits where, and with which credential, is settled once: only the    *)
(* end of the room takes a seat or a credential away or replaces it.       *)
SeatStep ==
    \A s \in Slots :
        \/ user[s] # Nobody /\ user'[s] # user[s]
        \/ token[s] # NoToken /\ token'[s] # token[s]
        => closed' \/ ~present' \/ aged
SeatsAreSettled == [][SeatStep]_vars

(* A closed room stays closed and its code is not handed out again while   *)
(* the tombstone lasts, which is a day.                                    *)
CloseStep == closed /\ ~aged => closed'
ClosingIsFinal == [][CloseStep]_vars

(* What db.py says of _SCRUB and the README of closing: only a bare        *)
(* tombstone (code and timestamps) remains of a closed room.  A request    *)
(* that read the row before it was closed still writes to it afterwards.   *)
TombstoneIsBare ==
    closed => \A s \in Slots : user[s] = Nobody /\ token[s] = NoToken

-----------------------------------------------------------------------------
(* What makes these invariants inductive.                                  *)

AgedRoomHasEnded == aged => closed \/ expired

(* No handler is past the first read of a row that is gone or a day old.   *)
NobodyWaitsForAnOldRoom == (aged \/ ~present) => \A r \in Requests : pc[r] \notin Waiting

(* A request at work knows whom it verifies, and how.                      *)
RequestsAreWellFormed ==
    \A r \in Requests :
        /\ pc[r] \in Waiting \cup {"granted"} => who[r] \in Users
        /\ pc[r] \in {"auth", "burn"} => how[r] = "totp" /\ proof[r] \in Steps
        /\ pc[r] \in {"select", "delete"} => how[r] = "cert" /\ proof[r] \in drawn

(* What a request has proved itself with is spent.                         *)
ProvedIsSpent ==
    \A r \in Requests :
        /\ HasProved(r) /\ how[r] = "totp" =>
              proof[r] \in Steps /\ proof[r] <= lastStep[who[r]]
        /\ HasProved(r) /\ how[r] = "cert" => proof[r] \in drawn \ nonces

(* Between the two transactions of claim_slot the seat is the request's    *)
(* own, and has no credential yet.                                         *)
ClaimsAreExclusive ==
    present /\ ~closed =>
        \A r \in Requests : pc[r] = "token" =>
            /\ user[slot[r]] = who[r]
            /\ token[slot[r]] = NoToken
            /\ \A q \in Requests : pc[q] = "token" /\ slot[q] = slot[r] => q = r

TokensWereGranted ==
    \A s \in Slots : token[s] # NoToken => pc[token[s]] = "granted"

AbsentRowIsBlank ==
    ~present => \A s \in Slots : user[s] = Nobody /\ token[s] = NoToken

(* The inductive invariant of the proofs.                                  *)
SeatsInv ==
    /\ AgedRoomHasEnded
    /\ NobodyWaitsForAnOldRoom
    /\ RequestsAreWellFormed
    /\ ProvedIsSpent
    /\ ClaimsAreExclusive
    /\ TokensWereGranted
    /\ AbsentRowIsBlank
=============================================================================
