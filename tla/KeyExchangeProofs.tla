-------------------------- MODULE KeyExchangeProofs --------------------------
(***************************************************************************)
(* What the promise of KeyExchange is worth, for any keys: once one key is *)
(* out nobody chooses any more.  The handlers of RoomExchange implement    *)
(* the promise, and the page of RoomPage is checked against it, so this    *)
(* holds for both.                                                         *)
(***************************************************************************)
EXTENDS KeyExchange, TLAPS

Revealed == \E s \in Sides : shown[s] # NoKey

(* A key that is out is the one promised, and both were promised first.    *)
ShownAsPromised ==
    \A s \in Sides : shown[s] # NoKey =>
        shown[s] = promise[s] /\ \A t \in Sides : promise[t] # NoKey

ExchangeInv == TypeOK /\ ShownAsPromised

LEMMA InitExchange == Init => ExchangeInv
  BY DEF Init, ExchangeInv, TypeOK, ShownAsPromised, Blank

LEMMA StepExchange == ExchangeInv /\ [Next]_kxVars => ExchangeInv'
  <1> SUFFICES ASSUME ExchangeInv, [Next]_kxVars PROVE ExchangeInv'
    OBVIOUS
  <1> USE DEF ExchangeInv, TypeOK, ShownAsPromised
  <1>1. ASSUME NEW s \in Sides, NEW k \in Keys, Promise(s, k)
        PROVE  ExchangeInv'
    BY <1>1 DEF Promise
  <1>2. ASSUME NEW s \in Sides, Show(s)
        PROVE  ExchangeInv'
    BY <1>2 DEF Show
  <1>3. CASE End
    BY <1>3 DEF End, Blank
  <1>4. CASE UNCHANGED kxVars
    BY <1>4 DEF kxVars
  <1> QED BY <1>1, <1>2, <1>3, <1>4 DEF Next

LEMMA AlwaysExchange == Spec => []ExchangeInv
  BY InitExchange, StepExchange, PTL DEF Spec

(* The columns of the room: a key that is out is the one its side          *)
(* committed to, and both sides committed before it.                       *)
THEOREM ShowsWhatWasPromised == Spec => [](TypeOK /\ ShownAsPromised)
  BY AlwaysExchange, PTL DEF ExchangeInv

(* What the sides have chosen, once a key is out, and a key that is out.   *)
Settled(p) == Revealed /\ promise = p
Out(s, k)  == shown[s] = k /\ promise[s] = k

(* A server that wants to fool them "has to choose that fake key before it *)
(* has seen" a real one: once a key is out, what both sides have committed *)
(* to stays as it is until the room is over.                               *)
THEOREM NobodyChoosesLate ==
    ASSUME NEW p
    PROVE  Spec => [](Settled(p) => [](over \/ Settled(p)))
  <1>1. ExchangeInv /\ (over \/ Settled(p)) /\ [Next]_kxVars => over' \/ Settled(p)'
    <2> SUFFICES ASSUME ExchangeInv, over \/ Settled(p), [Next]_kxVars, ~over' PROVE Settled(p)'
      OBVIOUS
    <2> USE DEF Settled
    <2>1. ~over /\ Settled(p)
      BY DEF Next, Promise, Show, End, kxVars, ExchangeInv, TypeOK
    <2>2. \A t \in Sides : promise[t] # NoKey
      BY <2>1 DEF Revealed, ExchangeInv, ShownAsPromised
    <2>3. UNCHANGED promise
      BY <2>2 DEF Next, Promise, Show, End, kxVars
    <2>4. \A s \in Sides : shown[s] # NoKey => shown'[s] # NoKey
      BY <2>2 DEF Next, Promise, Show, End, kxVars, ExchangeInv, TypeOK
    <2> QED BY <2>1, <2>3, <2>4 DEF Revealed
  <1> QED BY <1>1, AlwaysExchange, PTL DEF Spec

(* A key that was shown is shown, as promised, until the room is over.     *)
THEOREM KeysAreForGood ==
    ASSUME NEW s \in Sides, NEW k, k # NoKey
    PROVE  Spec => [](shown[s] = k => [](over \/ Out(s, k)))
  <1>1. ExchangeInv /\ shown[s] = k => Out(s, k)
    BY DEF ExchangeInv, ShownAsPromised, Out
  <1>2. ExchangeInv /\ (over \/ Out(s, k)) /\ [Next]_kxVars => over' \/ Out(s, k)'
    BY DEF Next, Promise, Show, End, kxVars, ExchangeInv, TypeOK, Out
  <1> QED BY <1>1, <1>2, AlwaysExchange, PTL DEF Spec
=============================================================================
