------------------------- MODULE RoomExchangeProofs -------------------------
(***************************************************************************)
(* Proofs, for any number of workers, keys and items, that the handlers of *)
(* RoomExchange keep the promises of KeyExchange.                          *)
(*                                                                         *)
(* The argument: while a room is open its row only grows (RowGrows), so    *)
(* what a handler has read in it stays true until it writes (StepReads),   *)
(* and what it writes was fit to be written.                               *)
(***************************************************************************)
EXTENDS RoomExchange, TLAPS

USE DEF Slots

-----------------------------------------------------------------------------
(* The state stays within its types.                                       *)

(* A room with two people seated and nothing said is well typed.           *)
LEMMA InitTypes == Init => TypeOK
  <1> SUFFICES ASSUME Init PROVE TypeOK
    OBVIOUS
  <1> USE DEF Init
  <1>1. LifeTypeOK
    BY DEF LifeTypeOK, Open
  <1>2. commit \in [Slots -> Keys \cup {NoKey}] /\ pub \in [Slots -> Keys \cup {NoKey}]
    BY DEF Blank
  <1>3. seen \in SUBSET Slots /\ items \in Nat
    OBVIOUS
  <1>4. pc \in [Workers -> {"idle", "ok"} \cup InFlight] /\ kind \in [Workers -> Kinds]
    BY DEF Kinds
  <1>5. side \in [Workers -> Slots] /\ key \in [Workers -> Keys \cup {NoKey}]
    OBVIOUS
  <1>6. fit \in [Workers -> BOOLEAN] /\ held \in [Workers -> BOOLEAN]
    OBVIOUS
  <1> QED BY <1>1, <1>2, <1>3, <1>4, <1>5, <1>6 DEF TypeOK

(* Moving on keeps the request as it is.                                   *)
LEMMA GotoTypes ==
    ASSUME TypeOK, NEW w \in Workers, NEW p \in {"idle", "ok"} \cup InFlight, Goto(w, p)
    PROVE  /\ pc' \in [Workers -> {"idle", "ok"} \cup InFlight]
           /\ UNCHANGED <<kind, side, key, fit, held>>
  BY DEF TypeOK, Goto

(* Answering clears the request.                                           *)
LEMMA AnswerTypes ==
    ASSUME TypeOK, NEW w \in Workers, NEW p \in {"idle", "ok"}, Answer(w, p)
    PROVE  /\ pc' \in [Workers -> {"idle", "ok"} \cup InFlight]
           /\ kind' \in [Workers -> Kinds]
           /\ side' \in [Workers -> Slots]
           /\ key' \in [Workers -> Keys \cup {NoKey}]
           /\ fit' \in [Workers -> BOOLEAN]
           /\ held' \in [Workers -> BOOLEAN]
  <1> USE DEF TypeOK, Answer
  <1>1. pc' \in [Workers -> {"idle", "ok"} \cup InFlight]
    OBVIOUS
  <1>2. kind' \in [Workers -> Kinds]
    BY DEF Kinds
  <1>3. side' \in [Workers -> Slots] /\ key' \in [Workers -> Keys \cup {NoKey}]
    OBVIOUS
  <1>4. fit' \in [Workers -> BOOLEAN] /\ held' \in [Workers -> BOOLEAN]
    OBVIOUS
  <1> QED BY <1>1, <1>2, <1>3, <1>4

(* Every handler, the purge, the crashes and time keep the types.          *)
LEMMA StepTypes == TypeOK /\ [Next]_vars => TypeOK'
  <1> SUFFICES ASSUME TypeOK, [Next]_vars PROVE TypeOK'
    OBVIOUS
  <1> USE DEF TypeOK, lifeVars, rowVars, reqVars
  <1>1. ASSUME NEW w \in Workers, NEW m \in Kinds, NEW s \in Slots, NEW k \in Keys,
               Authorize(w, m, s, k)
        PROVE TypeOK'
    <2>1. CASE Goto(w, "closing")
      BY <1>1, <2>1, GotoTypes DEF Authorize, LifeTypeOK, InFlight
    <2>2. CASE Answer(w, "idle")
      BY <1>1, <2>2, AnswerTypes DEF Authorize, LifeTypeOK
    <2>3. CASE /\ pc' = [pc EXCEPT ![w] = "touch"]
               /\ kind' = [kind EXCEPT ![w] = m]
               /\ side' = [side EXCEPT ![w] = s]
               /\ key' = [key EXCEPT ![w] = IF m \in {"commit", "key"} THEN k ELSE NoKey]
               /\ fit' = [fit EXCEPT ![w] = Fits(m, s, k)]
               /\ held' = [held EXCEPT ![w] = Holds(m, s, k)]
      <3>1. Fits(m, s, k) \in BOOLEAN /\ Holds(m, s, k) \in BOOLEAN
        BY Zenon DEF Fits, Holds
      <3>2. fit' \in [Workers -> BOOLEAN] /\ held' \in [Workers -> BOOLEAN]
        BY <2>3, <3>1, Zenon
      <3> QED BY <1>1, <2>3, <3>2 DEF Authorize, LifeTypeOK, InFlight
    <2> QED BY <1>1, <2>1, <2>2, <2>3 DEF Authorize
  <1>2. ASSUME NEW w \in Workers, Touch(w) PROVE TypeOK'
    <2>1. \E p \in {"idle", "ok"} : Goto(w, "closing") \/ Goto(w, "work") \/ Answer(w, p)
      BY <1>2 DEF Touch
    <2>2. UNCHANGED <<lifeVars, commit, pub, items>> /\ seen' \in SUBSET Slots
      BY <1>2 DEF Touch
    <2> QED BY <2>1, <2>2, GotoTypes, AnswerTypes DEF LifeTypeOK, InFlight
  <1>3. ASSUME NEW w \in Workers, PublishCommitment(w) \/ PublishKey(w) PROVE TypeOK'
    <2>1. \E p \in {"idle", "ok"} : Answer(w, p)
      BY <1>3 DEF PublishCommitment, PublishKey
    <2>2. /\ commit' \in [Slots -> Keys \cup {NoKey}]
          /\ pub' \in [Slots -> Keys \cup {NoKey}]
          /\ UNCHANGED <<lifeVars, seen, items>>
      BY <1>3 DEF PublishCommitment, PublishKey
    <2> QED BY <2>1, <2>2, AnswerTypes DEF LifeTypeOK
  <1>4. ASSUME NEW w \in Workers, CountItems(w) \/ InsertItem(w) \/ DeleteItem(w) PROVE TypeOK'
    <2>1. \E p \in {"idle", "ok"} : Goto(w, "insert") \/ Answer(w, p)
      BY <1>4 DEF CountItems, InsertItem, DeleteItem
    <2>2. items' \in Nat /\ UNCHANGED <<lifeVars, rowVars>>
      BY <1>4 DEF CountItems, InsertItem, DeleteItem
    <2> QED BY <2>1, <2>2, GotoTypes, AnswerTypes DEF LifeTypeOK, InFlight
  <1>5. ASSUME NEW w \in Workers, CloseRoom(w) PROVE TypeOK'
    <2>1. \E p \in {"idle", "ok"} : Answer(w, p)
      BY <1>5 DEF CloseRoom
    <2> QED BY <1>5, <2>1, AnswerTypes DEF CloseRoom, CloseRow, Scrub, Blank, LifeTypeOK
  <1>6. CASE Purge
    <2>1. LifeTypeOK' /\ items' \in Nat
      BY <1>6 DEF Purge, PurgeRow, PurgeCloses, PurgeDeletes, LifeTypeOK
    <2>2. Scrub \/ UNCHANGED rowVars
      BY <1>6 DEF Purge
    <2>3. /\ commit' \in [Slots -> Keys \cup {NoKey}]
          /\ pub' \in [Slots -> Keys \cup {NoKey}]
          /\ seen' \in SUBSET Slots
      BY <2>2 DEF Scrub, Blank
    <2> QED BY <1>6, <2>1, <2>3 DEF Purge
  <1>7. ASSUME NEW w \in Workers, Crash(w) PROVE TypeOK'
    BY <1>7, AnswerTypes DEF Crash, LifeTypeOK
  <1>8. CASE RoomExpires
    BY <1>8 DEF RoomExpires, Expire, LifeTypeOK
  <1>9. CASE RoomAges
    BY <1>9 DEF RoomAges, Age, LifeTypeOK
  <1>10. CASE UNCHANGED vars
    BY <1>10 DEF vars, LifeTypeOK
  <1> QED BY <1>1, <1>2, <1>3, <1>4, <1>5, <1>6, <1>7, <1>8, <1>9, <1>10 DEF Next, Handle

(* Every variable keeps its type whatever is asked of the room.            *)
THEOREM TypeCorrect == Spec => []TypeOK
  BY InitTypes, StepTypes, PTL DEF Spec

-----------------------------------------------------------------------------
(* While a room is open, commitments and keys are only added to its row.   *)

Grows ==
    /\ InOpenRoom
    /\ \A s \in Slots :
          /\ commit[s] # NoKey => commit'[s] = commit[s]
          /\ pub[s] # NoKey => pub'[s] = pub[s]

(* Only the end of the room takes a commitment or a key away: the UPDATEs  *)
(* of publish_commitment and publish_key carry that precondition.          *)
LEMMA RowGrows ==
    ASSUME TypeOK, [Next]_vars, InOpenRoom'
    PROVE  Grows
  <1> USE DEF Grows, InOpenRoom, lifeVars, rowVars
  <1>1. ASSUME NEW w \in Workers, PublishCommitment(w) PROVE Grows
    <2>1. UNCHANGED <<present, closed, pub>>
      BY <1>1 DEF PublishCommitment
    <2>2. ASSUME NEW s \in Slots, commit[s] # NoKey PROVE commit'[s] = commit[s]
      BY <1>1, <2>2 DEF PublishCommitment, SetOnce, TypeOK
    <2> QED BY <2>1, <2>2
  <1>2. ASSUME NEW w \in Workers, PublishKey(w) PROVE Grows
    <2>1. UNCHANGED <<present, closed, commit>>
      BY <1>2 DEF PublishKey
    <2>2. ASSUME NEW s \in Slots, pub[s] # NoKey PROVE pub'[s] = pub[s]
      BY <1>2, <2>2 DEF PublishKey, SetOnce, TypeOK
    <2> QED BY <2>1, <2>2
  <1>3. CASE Purge
    BY <1>3 DEF Purge, PurgeRow, PurgeCloses, PurgeDeletes, TypeOK, LifeTypeOK
  <1>4. ASSUME NEW w \in Workers, CloseRoom(w) PROVE Grows
    BY <1>4 DEF CloseRoom, CloseRow
  <1>5. ASSUME NEW w \in Workers, NEW m \in Kinds, NEW s \in Slots, NEW k \in Keys,
               Authorize(w, m, s, k)
        PROVE Grows
    BY <1>5 DEF Authorize
  <1>6. ASSUME NEW w \in Workers,
               Touch(w) \/ CountItems(w) \/ InsertItem(w) \/ DeleteItem(w) \/ Crash(w)
        PROVE Grows
    <2>1. UNCHANGED <<present, closed, commit, pub>>
      BY <1>6 DEF Touch, CountItems, InsertItem, DeleteItem, Crash
    <2> QED BY <2>1
  <1>7. CASE RoomExpires
    BY <1>7 DEF RoomExpires, Expire
  <1>8. CASE RoomAges
    BY <1>8 DEF RoomAges, Age
  <1>9. CASE UNCHANGED vars
    BY <1>9 DEF vars
  <1> HIDE DEF Grows
  <1> QED BY <1>1, <1>2, <1>3, <1>4, <1>5, <1>6, <1>7, <1>8, <1>9 DEF Next, Handle

-----------------------------------------------------------------------------
(* What a handler has read stays true until it writes.                     *)

(* A worker that did nothing can still rely on what it read.               *)
LEMMA OthersRely ==
    ASSUME TypeOK, [Next]_vars, InOpenRoom', NEW v \in Workers, Relies(v),
           pc'[v] = pc[v], kind'[v] = kind[v], side'[v] = side[v],
           key'[v] = key[v], fit'[v] = fit[v], held'[v] = held[v]
    PROVE  Relies(v)'
  <1>1. kind[v] \in Kinds /\ side[v] \in Slots
    BY DEF TypeOK
  <1>2. BothShown => BothShown'
    BY RowGrows DEF Grows, BothShown
  <1>3. ASSUME pc[v] \in {"touch", "work"}
        PROVE /\ Fits(kind[v], side[v], key[v]) => Fits(kind[v], side[v], key[v])'
              /\ Holds(kind[v], side[v], key[v]) => Holds(kind[v], side[v], key[v])'
    <2>1. kind[v] \in {"commit", "key"} => key[v] \in Keys
      BY <1>3 DEF Relies
    <2>2. \A t \in Slots : /\ commit[t] # NoKey => commit'[t] = commit[t]
                           /\ pub[t] # NoKey => pub'[t] = pub[t]
      BY RowGrows DEF Grows
    <2>3. Peer(side[v]) \in Slots
      BY DEF Peer
    <2>4. kind[v] \in {"commit", "key"} => key[v] # NoKey
      BY <2>1, NoKeyAssumption
    <2>5. Fits(kind[v], side[v], key[v]) => Fits(kind[v], side[v], key[v])'
      BY <1>1, <2>2, <2>3, <2>4 DEF Fits, MayReveal, BothShown, Peer
    <2>6. Holds(kind[v], side[v], key[v]) => Holds(kind[v], side[v], key[v])'
      BY <1>1, <2>2, <2>4 DEF Holds
    <2> QED BY <2>5, <2>6
  <1> QED BY <1>2, <1>3, Zenon DEF Relies

(* A worker that has answered relies on nothing.                           *)
LEMMA AnsweredReliesOnNothing ==
    ASSUME TypeOK, NEW w \in Workers, NEW p \in {"idle", "ok"}, Answer(w, p)
    PROVE  Relies(w)'
  BY DEF TypeOK, Answer, Relies

(* The steps of one worker leave the requests of the others alone.         *)
LEMMA OthersUnmoved ==
    ASSUME TypeOK, NEW w \in Workers, NEW p \in {"idle", "ok"} \cup InFlight,
           Goto(w, p) \/ Answer(w, p),
           NEW v \in Workers, v # w
    PROVE  /\ pc'[v] = pc[v] /\ kind'[v] = kind[v] /\ side'[v] = side[v]
           /\ key'[v] = key[v] /\ fit'[v] = fit[v] /\ held'[v] = held[v]
  BY DEF TypeOK, Goto, Answer

(* The copy of the row that _authorize returns may be stale, but nothing a *)
(* handler concluded from it turns false while the room is open.           *)
LEMMA StepReads ==
    TypeOK /\ ReadIsStillTrue /\ [Next]_vars => ReadIsStillTrue'
  <1> SUFFICES ASSUME TypeOK, ReadIsStillTrue, [Next]_vars, InOpenRoom', NEW v \in Workers
               PROVE  Relies(v)'
    BY DEF ReadIsStillTrue
  <1>0. Relies(v)
    BY RowGrows DEF Grows, ReadIsStillTrue
  <1>a. ASSUME UNCHANGED reqVars PROVE Relies(v)'
    BY <1>0, <1>a, OthersRely DEF reqVars
  <1>b. ASSUME NEW w \in Workers, NEW p \in {"idle", "ok"}, Answer(w, p) PROVE Relies(v)'
    <2>1. CASE v = w
      BY <1>b, <2>1, AnsweredReliesOnNothing
    <2>2. CASE v # w
      BY <1>0, <1>b, <2>2, OthersUnmoved, OthersRely
    <2> QED BY <2>1, <2>2
  <1>c. ASSUME NEW w \in Workers, NEW p \in InFlight, Goto(w, p), v # w PROVE Relies(v)'
    BY <1>0, <1>c, OthersUnmoved, OthersRely
  <1>1. ASSUME NEW w \in Workers, NEW m \in Kinds, NEW s \in Slots, NEW k \in Keys,
               Authorize(w, m, s, k)
        PROVE Relies(v)'
    <2>1. CASE Goto(w, "closing")
      <3>1. CASE v = w
        BY <2>1, <3>1 DEF TypeOK, Goto, Relies
      <3>2. CASE v # w
        BY <1>c, <2>1, <3>2 DEF InFlight
      <3> QED BY <3>1, <3>2
    <2>2. CASE Answer(w, "idle")
      BY <1>b, <2>2
    <2>3. CASE /\ pc' = [pc EXCEPT ![w] = "touch"]
               /\ kind' = [kind EXCEPT ![w] = m]
               /\ side' = [side EXCEPT ![w] = s]
               /\ key' = [key EXCEPT ![w] = IF m \in {"commit", "key"} THEN k ELSE NoKey]
               /\ fit' = [fit EXCEPT ![w] = Fits(m, s, k)]
               /\ held' = [held EXCEPT ![w] = Holds(m, s, k)]
      <3>1. UNCHANGED <<commit, pub>>
        BY <1>1 DEF Authorize, rowVars
      <3>2. CASE v = w
        <4>1. /\ pc'[w] = "touch" /\ kind'[w] = m /\ side'[w] = s
              /\ key'[w] = IF m \in {"commit", "key"} THEN k ELSE NoKey
              /\ fit'[w] = Fits(m, s, k) /\ held'[w] = Holds(m, s, k)
          BY <2>3 DEF TypeOK
        <4>2. Fits(kind[w], side[w], key[w])' <=> Fits(m, s, k)
          BY <3>1, <4>1 DEF Fits, MayReveal, BothShown, Peer
        <4>3. Holds(kind[w], side[w], key[w])' <=> Holds(m, s, k)
          BY <3>1, <4>1 DEF Holds
        <4> QED BY <3>2, <4>1, <4>2, <4>3 DEF Relies
      <3>3. CASE v # w
        BY <1>0, <2>3, <3>3, OthersRely DEF TypeOK
      <3> QED BY <3>2, <3>3
    <2> QED BY <1>1, <2>1, <2>2, <2>3 DEF Authorize
  <1>2. ASSUME NEW w \in Workers, Touch(w) PROVE Relies(v)'
    <2>1. CASE Goto(w, "closing")
      <3>1. CASE v = w
        BY <2>1, <3>1 DEF TypeOK, Goto, Relies
      <3>2. CASE v # w
        BY <1>c, <2>1, <3>2 DEF InFlight
      <3> QED BY <3>1, <3>2
    <2>2. CASE fit[w] /\ Goto(w, "work")
      <3>1. CASE v = w
        <4>1. UNCHANGED <<commit, pub, kind, side, key, fit, held>> /\ pc'[w] = "work" /\ pc[w] = "touch"
          BY <1>2, <2>2 DEF Touch, Goto, TypeOK
        <4> QED BY <1>0, <2>2, <3>1, <4>1 DEF Relies, Fits, MayReveal, BothShown, Holds
      <3>2. CASE v # w
        BY <1>c, <2>2, <3>2 DEF InFlight
      <3> QED BY <3>1, <3>2
    <2>3. \/ Goto(w, "closing")
          \/ fit[w] /\ Goto(w, "work")
          \/ \E p \in {"idle", "ok"} : Answer(w, p)
      BY <1>2 DEF Touch
    <2> QED BY <1>b, <2>1, <2>2, <2>3
  <1>3. ASSUME NEW w \in Workers, CountItems(w) PROVE Relies(v)'
    <2>1. CASE Answer(w, "idle")
      BY <1>b, <2>1
    <2>2. CASE Goto(w, "insert")
      <3>1. CASE v = w
        <4>1. /\ pc[w] = "work" /\ kind[w] = "add" /\ pc'[w] = "insert"
              /\ UNCHANGED <<commit, pub>>
          BY <1>3, <2>2 DEF CountItems, Goto, TypeOK, rowVars
        <4>2. BothShown
          BY <1>0, <3>1, <4>1 DEF Relies, Fits
        <4> QED BY <3>1, <4>1, <4>2 DEF Relies, BothShown
      <3>2. CASE v # w
        BY <1>c, <2>2, <3>2 DEF InFlight
      <3> QED BY <3>1, <3>2
    <2> QED BY <1>3, <2>1, <2>2 DEF CountItems
  <1>4. ASSUME NEW w \in Workers,
               \/ PublishCommitment(w) \/ PublishKey(w) \/ InsertItem(w)
               \/ DeleteItem(w) \/ CloseRoom(w) \/ Crash(w)
        PROVE Relies(v)'
    <2>1. \E p \in {"idle", "ok"} : Answer(w, p)
      BY <1>4 DEF PublishCommitment, PublishKey, InsertItem, DeleteItem, CloseRoom, Crash
    <2> QED BY <1>b, <2>1
  <1>5. CASE Purge \/ RoomExpires \/ RoomAges \/ UNCHANGED vars
    <2>1. UNCHANGED reqVars
      BY <1>5 DEF Purge, RoomExpires, RoomAges, vars
    <2> QED BY <1>a, <2>1
  <1> QED BY <1>1, <1>2, <1>3, <1>4, <1>5 DEF Next, Handle

(* What a request read of an open room still holds when it writes.         *)
THEOREM ReadsStayTrue == Spec => []ReadIsStillTrue
  <1>1. Init => ReadIsStillTrue
    BY DEF Init, ReadIsStillTrue, Relies
  <1> QED BY <1>1, StepReads, TypeCorrect, PTL DEF Spec

-----------------------------------------------------------------------------
(* Keys, commitments and items.                                            *)

(* publish_key shows the key whose commitment it found in its copy of the  *)
(* row, and that commitment is still there.                                *)
LEMMA StepKeys ==
    TypeOK /\ ReadIsStillTrue /\ KeyMatchesCommitment /\ [Next]_vars => KeyMatchesCommitment'
  <1> SUFFICES ASSUME TypeOK, ReadIsStillTrue, KeyMatchesCommitment, [Next]_vars, InOpenRoom',
                      NEW s \in Slots, pub'[s] # NoKey
               PROVE  commit'[s] = pub'[s] /\ commit'[Peer(s)] # NoKey
    BY DEF KeyMatchesCommitment
  <1>1. InOpenRoom /\ Peer(s) \in Slots
    BY RowGrows DEF Grows, Peer
  <1>2. \A t \in Slots : commit[t] # NoKey => commit'[t] = commit[t]
    BY RowGrows DEF Grows
  <1>3. CASE pub[s] # NoKey
    <2>1. commit[s] = pub[s] /\ commit[Peer(s)] # NoKey
      BY <1>1, <1>3 DEF KeyMatchesCommitment
    <2>2. pub'[s] = pub[s]
      BY <1>3, RowGrows DEF Grows
    <2> QED BY <1>1, <1>2, <1>3, <2>1, <2>2
  <1>4. CASE pub[s] = NoKey
    <2>1. PICK w \in Workers : PublishKey(w)
      <3>1. ASSUME pub' = pub PROVE FALSE
        BY <1>4, <3>1
      <3>2. ASSUME pub' = Blank PROVE FALSE
        BY <3>2 DEF Blank
      <3>3. \/ \E w \in Workers : PublishKey(w)
            \/ pub' = pub \/ pub' = Blank
        <4>1. ASSUME NEW w \in Workers, NEW m \in Kinds, NEW t \in Slots, NEW k \in Keys,
                     Authorize(w, m, t, k)
              PROVE pub' = pub
          BY <4>1 DEF Authorize, rowVars
        <4>2. ASSUME NEW w \in Workers,
                     \/ Touch(w) \/ PublishCommitment(w) \/ CountItems(w)
                     \/ InsertItem(w) \/ DeleteItem(w) \/ Crash(w)
              PROVE pub' = pub
          BY <4>2 DEF Touch, PublishCommitment, CountItems, InsertItem, DeleteItem, Crash, rowVars
        <4>3. ASSUME NEW w \in Workers, CloseRoom(w) PROVE pub' = Blank
          BY <4>3 DEF CloseRoom, Scrub
        <4>4. CASE Purge
          BY <4>4 DEF Purge, Scrub, rowVars
        <4>5. CASE RoomExpires \/ RoomAges \/ UNCHANGED vars
          BY <4>5 DEF RoomExpires, RoomAges, vars, rowVars
        <4> QED BY <4>1, <4>2, <4>3, <4>4, <4>5 DEF Next, Handle
      <3> QED BY <3>1, <3>2, <3>3
    <2>2. pc[w] = "work" /\ kind[w] = "key" /\ UNCHANGED commit
      BY <2>1 DEF PublishKey
    <2>3. side[w] = s /\ pub'[s] = key[w]
      BY <1>4, <2>1 DEF PublishKey, TypeOK
    <2>4. Relies(w)
      BY <1>1 DEF ReadIsStillTrue
    <2>5. MayReveal(s, key[w])
      BY <2>2, <2>3, <2>4 DEF Relies, Fits
    <2> QED BY <2>2, <2>3, <2>5 DEF MayReveal
  <1> QED BY <1>3, <1>4

(* In an open room a key that is out is the one its side committed to,     *)
(* and the other side had committed before it.                             *)
THEOREM KeysAreCommitted == Spec => []KeyMatchesCommitment
  <1>1. Init => KeyMatchesCommitment
    BY DEF Init, KeyMatchesCommitment, Blank
  <1> QED BY <1>1, StepKeys, TypeCorrect, ReadsStayTrue, PTL DEF Spec

(* add_item found both keys in its copy of the row, and they are still     *)
(* there.                                                                  *)
LEMMA StepItems ==
    TypeOK /\ ReadIsStillTrue /\ ItemsNeedBothKeys /\ [Next]_vars => ItemsNeedBothKeys'
  <1> SUFFICES ASSUME TypeOK, ReadIsStillTrue, ItemsNeedBothKeys, [Next]_vars,
                      InOpenRoom', items' > 0
               PROVE  BothShown'
    BY DEF ItemsNeedBothKeys, BothShown
  <1>1. InOpenRoom /\ (BothShown => BothShown')
    BY RowGrows DEF Grows, BothShown
  <1>2. ASSUME items > 0 PROVE BothShown'
    BY <1>1, <1>2 DEF ItemsNeedBothKeys, BothShown
  <1>3. ASSUME NEW w \in Workers, InsertItem(w) PROVE BothShown'
    BY <1>1, <1>3 DEF InsertItem, ReadIsStillTrue, Relies
  <1>4. ASSUME NEW w \in Workers, DeleteItem(w) \/ CountItems(w) PROVE items > 0
    BY <1>4 DEF DeleteItem, CountItems, TypeOK
  <1>5. ASSUME NEW w \in Workers, CloseRoom(w) PROVE FALSE
    BY <1>5 DEF CloseRoom
  <1>6. ASSUME NEW w \in Workers, NEW m \in Kinds, NEW s \in Slots, NEW k \in Keys,
               Authorize(w, m, s, k)
        PROVE items' = items
    BY <1>6 DEF Authorize
  <1>7. ASSUME NEW w \in Workers,
               Touch(w) \/ PublishCommitment(w) \/ PublishKey(w) \/ Crash(w)
        PROVE items' = items
    BY <1>7 DEF Touch, PublishCommitment, PublishKey, Crash
  <1>8. CASE Purge
    BY <1>2, <1>8 DEF Purge
  <1>9. CASE RoomExpires \/ RoomAges \/ UNCHANGED vars
    BY <1>2, <1>9 DEF RoomExpires, RoomAges, vars
  <1> QED BY <1>2, <1>3, <1>4, <1>5, <1>6, <1>7, <1>8, <1>9 DEF Next, Handle

(* There is no item in an open room before both keys are out, so each was  *)
(* sealed for a key that had been committed to and shown.                  *)
THEOREM ItemsFollowKeys == Spec => []ItemsNeedBothKeys
  <1>1. Init => ItemsNeedBothKeys
    BY DEF Init, ItemsNeedBothKeys
  <1> QED BY <1>1, StepItems, TypeCorrect, ReadsStayTrue, PTL DEF Spec

-----------------------------------------------------------------------------
(* An accepted commitment or key is in the row.                            *)

(* An UPDATE that changed the row stored the value; one that did not is    *)
(* accepted only when the copy of the row held the value already.          *)
LEMMA StepAccepts == TypeOK /\ ReadIsStillTrue /\ [Next]_vars => AcceptedStep
  <1> SUFFICES ASSUME TypeOK, ReadIsStillTrue, [Next]_vars,
                      NEW w \in Workers, pc[w] = "work", pc'[w] = "ok", InOpenRoom
               PROVE  /\ kind[w] = "commit" => commit'[side[w]] = key[w]
                      /\ kind[w] = "key" => pub'[side[w]] = key[w]
    BY DEF AcceptedStep
  <1>0. present /\ side[w] \in Slots /\ Relies(w)
    BY DEF InOpenRoom, ReadIsStillTrue, TypeOK
  <1>1. ASSUME kind[w] = "commit", PublishCommitment(w) PROVE commit'[side[w]] = key[w]
    <2>1. CASE commit[side[w]] = NoKey
      BY <1>0, <1>1, <2>1 DEF PublishCommitment, SetOnce, TypeOK
    <2>2. CASE commit[side[w]] # NoKey
      <3>1. commit' = commit /\ held[w]
        BY <1>1, <2>2 DEF PublishCommitment, SetOnce, Answer, TypeOK
      <3> QED BY <1>0, <1>1, <3>1 DEF Relies, Holds
    <2> QED BY <2>1, <2>2
  <1>2. ASSUME kind[w] = "key", PublishKey(w) PROVE pub'[side[w]] = key[w]
    <2>1. CASE pub[side[w]] = NoKey
      BY <1>0, <1>2, <2>1 DEF PublishKey, SetOnce, TypeOK
    <2>2. CASE pub[side[w]] # NoKey
      <3>1. pub' = pub /\ held[w]
        BY <1>2, <2>2 DEF PublishKey, SetOnce, Answer, TypeOK
      <3> QED BY <1>0, <1>2, <3>1 DEF Relies, Holds
    <2> QED BY <2>1, <2>2
  <1>3. kind[w] \in {"commit", "key"} => PublishCommitment(w) \/ PublishKey(w)
    <2> SUFFICES ASSUME kind[w] \in {"commit", "key"}
                 PROVE  PublishCommitment(w) \/ PublishKey(w)
      OBVIOUS
    <2>1. ASSUME NEW v \in Workers,
                 \/ \E m \in Kinds, s \in Slots, k \in Keys : Authorize(v, m, s, k)
                 \/ Touch(v) \/ InsertItem(v) \/ CloseRoom(v) \/ Crash(v)
                 \/ CountItems(v) \/ DeleteItem(v)
          PROVE FALSE
      <3>1. CASE v = w
        <4>1. CASE \E m \in Kinds, s \in Slots, k \in Keys : Authorize(v, m, s, k)
          BY <3>1, <4>1 DEF Authorize, InFlight
        <4>2. CASE Touch(v) \/ InsertItem(v) \/ CloseRoom(v) \/ CountItems(v) \/ DeleteItem(v)
          BY <3>1, <4>2 DEF Touch, InsertItem, CloseRoom, CountItems, DeleteItem
        <4>3. CASE Crash(v)
          BY <3>1, <4>3 DEF Crash, Answer, TypeOK
        <4> QED BY <2>1, <4>1, <4>2, <4>3
      <3>2. CASE v # w
        <4>1. pc'[w] = pc[w]
          BY <2>1, <3>2 DEF Authorize, Touch, InsertItem, CloseRoom, Crash, CountItems,
                            DeleteItem, Goto, Answer, TypeOK
        <4> QED BY <4>1
      <3> QED BY <3>1, <3>2
    <2>2. ASSUME NEW v \in Workers, PublishCommitment(v) \/ PublishKey(v)
          PROVE PublishCommitment(w) \/ PublishKey(w)
      <3>1. CASE v # w
        <4>1. pc'[w] = pc[w]
          BY <2>2, <3>1 DEF PublishCommitment, PublishKey, Answer, TypeOK
        <4> QED BY <4>1
      <3> QED BY <2>2, <3>1
    <2>3. ASSUME Purge \/ RoomExpires \/ RoomAges \/ UNCHANGED vars PROVE FALSE
      <3>1. pc' = pc
        BY <2>3 DEF Purge, RoomExpires, RoomAges, vars, reqVars
      <3> QED BY <3>1
    <2> QED BY <2>1, <2>2, <2>3 DEF Next, Handle
  <1>4. PublishCommitment(w) => kind[w] = "commit"
    BY DEF PublishCommitment
  <1>5. PublishKey(w) => kind[w] = "key"
    BY DEF PublishKey
  <1> QED BY <1>1, <1>2, <1>3, <1>4, <1>5

(* A commitment or key the room accepted, at once or as a repetition, is   *)
(* the one its row holds.                                                  *)
THEOREM AcceptedIsStored == Spec => AcceptedMeansStored
  <1>1. TypeOK /\ ReadIsStillTrue /\ [Next]_vars => [AcceptedStep]_vars
    BY StepAccepts
  <1> QED BY <1>1, TypeCorrect, ReadsStayTrue, PTL DEF Spec, AcceptedMeansStored

-----------------------------------------------------------------------------
(* The handlers implement KeyExchange.                                     *)

(* Every step is a promise, a key shown, the end of the room, or nothing   *)
(* KeyExchange can see.                                                    *)
LEMMA StepImplements ==
    TypeOK /\ ReadIsStillTrue /\ [Next]_vars => [Exchange!Next]_(Exchange!kxVars)
  <1> SUFFICES ASSUME TypeOK, ReadIsStillTrue, [Next]_vars
               PROVE  Exchange!Next \/ UNCHANGED Exchange!kxVars
    OBVIOUS
  <1>1. CASE ~InOpenRoom'
    <2>1. Exchange!End
      BY <1>1 DEF Exchange!End, Exchange!Blank, Exchange!Sides, Blank
    <2> QED BY <2>1 DEF Exchange!Next
  <1>2. CASE InOpenRoom'
    <2>0. InOpenRoom
      BY <1>2, RowGrows DEF Grows
    <2>1. ASSUME UNCHANGED <<commit, pub>> PROVE UNCHANGED Exchange!kxVars
      BY <1>2, <2>0, <2>1 DEF Exchange!kxVars
    <2>2. ASSUME NEW w \in Workers, PublishCommitment(w)
          PROVE Exchange!Next \/ UNCHANGED Exchange!kxVars
      <3>1. side[w] \in Slots /\ pub' = pub /\ Relies(w)
            /\ pc[w] = "work" /\ kind[w] = "commit"
        BY <2>0, <2>2 DEF PublishCommitment, TypeOK, ReadIsStillTrue
      <3>2. key[w] \in Keys
        BY <3>1 DEF Relies
      <3>3. CASE SetOnce(commit, side[w])
        <4>1. commit[side[w]] = NoKey /\ commit' = [commit EXCEPT ![side[w]] = key[w]]
          BY <2>2, <3>3 DEF PublishCommitment, SetOnce
        <4>2. Exchange!Promise(side[w], key[w])
          BY <1>2, <2>0, <3>1, <4>1 DEF Exchange!Promise
        <4> QED BY <3>1, <3>2, <4>2 DEF Exchange!Next, Exchange!Sides
      <3>4. CASE ~SetOnce(commit, side[w])
        BY <2>1, <2>2, <3>1, <3>4 DEF PublishCommitment
      <3> QED BY <3>3, <3>4
    <2>3. ASSUME NEW w \in Workers, PublishKey(w)
          PROVE Exchange!Next \/ UNCHANGED Exchange!kxVars
      <3>1. side[w] \in Slots /\ commit' = commit /\ Relies(w)
            /\ pc[w] = "work" /\ kind[w] = "key"
        BY <2>0, <2>3 DEF PublishKey, TypeOK, ReadIsStillTrue
      <3>2. key[w] \in Keys /\ MayReveal(side[w], key[w])
        BY <3>1 DEF Relies, Fits
      <3>3. \A t \in Slots : commit[t] # NoKey
        BY <3>1, <3>2, NoKeyAssumption DEF MayReveal, Peer
      <3>4. CASE SetOnce(pub, side[w])
        <4>1. pub[side[w]] = NoKey /\ pub' = [pub EXCEPT ![side[w]] = commit[side[w]]]
          BY <2>3, <3>2, <3>4 DEF PublishKey, SetOnce, MayReveal
        <4>2. Exchange!Show(side[w])
          BY <1>2, <2>0, <3>1, <3>3, <4>1 DEF Exchange!Show, Exchange!Sides
        <4> QED BY <3>1, <4>2 DEF Exchange!Next, Exchange!Sides
      <3>5. CASE ~SetOnce(pub, side[w])
        BY <2>1, <2>3, <3>1, <3>5 DEF PublishKey
      <3> QED BY <3>4, <3>5
    <2>4. ASSUME NEW w \in Workers, NEW m \in Kinds, NEW s \in Slots, NEW k \in Keys,
                 Authorize(w, m, s, k)
          PROVE UNCHANGED <<commit, pub>>
      BY <2>4 DEF Authorize, rowVars
    <2>5. ASSUME NEW w \in Workers,
                 Touch(w) \/ CountItems(w) \/ InsertItem(w) \/ DeleteItem(w) \/ Crash(w)
          PROVE UNCHANGED <<commit, pub>>
      BY <2>5 DEF Touch, CountItems, InsertItem, DeleteItem, Crash, rowVars
    <2>6. ASSUME NEW w \in Workers, CloseRoom(w) PROVE FALSE
      BY <1>2, <2>0, <2>6 DEF CloseRoom, CloseRow, InOpenRoom
    <2>7. CASE Purge
      <3>1. ~PurgeCloses /\ ~PurgeDeletes
        BY <1>2, <2>7 DEF Purge, PurgeRow, InOpenRoom
      <3>2. UNCHANGED <<commit, pub>>
        BY <2>7, <3>1 DEF Purge, rowVars
      <3> QED BY <2>1, <3>2
    <2>8. CASE RoomExpires \/ RoomAges \/ UNCHANGED vars
      <3>1. UNCHANGED <<commit, pub>>
        BY <2>8 DEF RoomExpires, RoomAges, vars, rowVars
      <3> QED BY <2>1, <3>1
    <2> QED BY <2>1, <2>2, <2>3, <2>4, <2>5, <2>6, <2>7, <2>8 DEF Next, Handle
  <1> QED BY <1>1, <1>2

(* Whatever requests interleave, crash or arrive late, the keys of a room  *)
(* are promised before any is shown, shown as promised, and never          *)
(* replaced.                                                               *)
THEOREM Implements == Spec => ImplementsExchange
  <1>1. Init => Exchange!Init
    BY DEF Init, Open, InOpenRoom, Blank, Exchange!Init, Exchange!Blank, Exchange!Sides
  <1> QED BY <1>1, StepImplements, TypeCorrect, ReadsStayTrue, PTL
          DEF Spec, ImplementsExchange, Exchange!Spec
-----------------------------------------------------------------------------
(* An ended room is emptied.                                               *)

(* A request that may still insert an item.                                *)
Adds(w) == (pc[w] \in {"touch", "work"} /\ kind[w] = "add") \/ pc[w] = "insert"
NoAdd == \A w \in Workers : ~Adds(w)

(* A room that is closed, out of time or gone stays so.                    *)
LEMMA EndedForGood == TypeOK /\ ~Usable /\ [Next]_vars => ~Usable'
  BY DEF Usable, Next, Handle, Authorize, Touch, PublishCommitment, PublishKey, CountItems,
         InsertItem, DeleteItem, CloseRoom, CloseRow, Purge, PurgeRow, PurgeCloses,
         PurgeDeletes, Crash, RoomExpires, Expire, RoomAges, Age, vars, lifeVars, TypeOK,
         LifeTypeOK

(* What becomes of one worker's request in such a room.                    *)
LEMMA AddSteps ==
    ASSUME TypeOK, ~Usable, [Next]_vars, NEW w \in Workers
    PROVE  \/ UNCHANGED <<pc[w], kind[w]>>
           \/ Handle(w)
           \/ ~Adds(w)'
  <1>1. ASSUME NEW v \in Workers, NEW m \in Kinds, NEW s \in Slots, NEW k \in Keys,
               Authorize(v, m, s, k)
        PROVE UNCHANGED <<pc[w], kind[w]>> \/ ~Adds(w)'
    BY <1>1 DEF Authorize, Goto, Answer, Adds, TypeOK
  <1>2. ASSUME NEW v \in Workers, NEW p, Goto(v, p) \/ Answer(v, p), v # w
        PROVE UNCHANGED <<pc[w], kind[w]>>
    BY <1>2 DEF Goto, Answer, TypeOK
  <1>3. ASSUME NEW v \in Workers, Handle(v) PROVE \E p : Goto(v, p) \/ Answer(v, p)
    BY <1>3 DEF Handle, Touch, PublishCommitment, PublishKey, CountItems, InsertItem,
                DeleteItem, CloseRoom
  <1>4. ASSUME NEW v \in Workers, Crash(v) PROVE UNCHANGED <<pc[w], kind[w]>> \/ ~Adds(w)'
    BY <1>4 DEF Crash, Answer, Adds, TypeOK
  <1>5. CASE UNCHANGED reqVars
    BY <1>5 DEF reqVars
  <1> QED BY <1>1, <1>2, <1>3, <1>4, <1>5 DEF Next, Purge, RoomExpires, RoomAges, vars

(* Every request that may still insert an item when the room ends gets to  *)
(* its end or is killed, and its worker takes on no other.                 *)
THEOREM AddsComeToAnEnd ==
    ASSUME NEW w \in Workers
    PROVE  Spec /\ WF_vars(Handle(w)) /\ [](Adds(w) => ENABLED <<Handle(w)>>_vars)
             => ((~Usable) ~> [](~Adds(w)))
  <1> DEFINE T == ~Usable /\ pc[w] = "touch" /\ kind[w] = "add"
             W == ~Usable /\ pc[w] = "work" /\ kind[w] = "add"
             I == ~Usable /\ pc[w] = "insert"
             Done == ~Usable /\ ~Adds(w)
  <1>1. ~Usable => T \/ W \/ I \/ Done
    BY DEF Adds
  <1>2. TypeOK /\ ~Usable /\ Handle(w) =>
           /\ T => W' \/ Done'
           /\ W => I' \/ Done'
           /\ I => Done'
           /\ Done => Done'
    <2> SUFFICES ASSUME TypeOK, ~Usable, Handle(w)
                 PROVE  /\ T => W' \/ Done'
                        /\ W => I' \/ Done'
                        /\ I => Done'
                        /\ Done => Done'
      OBVIOUS
    <2>1. ~Usable'
      BY EndedForGood DEF Next
    <2> QED BY <2>1 DEF Handle, Touch, PublishCommitment, PublishKey, CountItems, InsertItem,
                        DeleteItem, CloseRoom, Goto, Answer, Adds, TypeOK
  <1>3. TypeOK /\ ~Usable /\ [Next]_vars =>
           /\ T => T' \/ W' \/ Done'
           /\ W => W' \/ I' \/ Done'
           /\ I => I' \/ Done'
           /\ Done => Done'
    BY <1>2, AddSteps, EndedForGood DEF Adds
  <1>4. TypeOK /\ ~Usable /\ <<Handle(w)>>_vars =>
           /\ T => W' \/ Done'
           /\ W => I' \/ Done'
           /\ I => Done'
    BY <1>2
  <1>5. T \/ W \/ I => ~Usable /\ Adds(w)
    BY DEF Adds
  <1>6. Done => ~Usable /\ ~Adds(w)
    OBVIOUS
  <1> QED BY <1>1, <1>3, <1>4, <1>5, <1>6, TypeCorrect, PTL DEF Spec

(* What the purge has to do for an ended room.                             *)
PurgeHasWork == PurgesItems /\ items # 0

Over == ~Usable /\ NoAdd

LEMMA OverStays == TypeOK /\ Over /\ [Next]_vars => Over'
  <1> SUFFICES ASSUME TypeOK, Over, [Next]_vars PROVE Over'
    OBVIOUS
  <1>1. ~Usable'
    BY EndedForGood DEF Over
  <1>2. ASSUME NEW w \in Workers PROVE ~Adds(w)'
    <2>1. ~Adds(w)
      BY DEF Over, NoAdd
    <2>2. ASSUME Handle(w) PROVE ~Adds(w)'
      BY <2>1, <2>2 DEF Handle, Touch, PublishCommitment, PublishKey, CountItems, InsertItem,
                        DeleteItem, CloseRoom, Goto, Answer, Adds, TypeOK
    <2> QED BY <2>1, <2>2, AddSteps DEF Over, Adds
  <1> QED BY <1>1, <1>2 DEF Over, NoAdd

LEMMA EmptyStays == TypeOK /\ Over /\ items = 0 /\ [Next]_vars => items' = 0
  BY DEF Over, NoAdd, Adds, Next, Handle, Authorize, Touch, PublishCommitment, PublishKey,
         CountItems, InsertItem, DeleteItem, CloseRoom, Purge, Crash, RoomExpires, RoomAges,
         vars

(* Over: the room has ended and no request that may add to it is left.     *)
QuietEndedRoomIsEmptied == Over ~> [](items = 0)

(* From the moment an ended room has no request left that could add to it, *)
(* the next purge empties it for good.  The hypothesis about ENABLED says  *)
(* what it is of this action.                                              *)
THEOREM PurgeFindsTheItems ==
    Spec /\ WF_vars(Purge) /\ [](PurgeHasWork => ENABLED <<Purge>>_vars)
      => QuietEndedRoomIsEmptied
  <1>1. TypeOK /\ Over => PurgesItems
    BY DEF Over, Usable, PurgesItems, PurgeCloses
  <1>2. TypeOK /\ Over /\ items # 0 => PurgeHasWork
    BY <1>1 DEF PurgeHasWork
  <1>3. TypeOK /\ Over /\ <<Purge>>_vars => (items = 0)'
    BY <1>1 DEF Purge
  <1>4. TypeOK /\ Over /\ items = 0 /\ [Next]_vars => (items = 0)'
    BY EmptyStays
  <1>5. ~(items # 0) => items = 0
    OBVIOUS
  <1> QED BY <1>2, <1>3, <1>4, <1>5, OverStays, TypeCorrect, PTL
          DEF Spec, QuietEndedRoomIsEmptied

(* The requests that may add to it have come to an end at some point.      *)
AddsEnd == (closed \/ expired) ~> NoAdd

(* What was shared in a room is gone for good after its end.  That the     *)
(* requests under way when it ended have all come to an end at some point  *)
(* is a hypothesis here: each does (AddsComeToAnEnd), and there are        *)
(* finitely many, but counting them is induction.                          *)
THEOREM EndedRoomsAreEmptied ==
    Spec /\ WF_vars(Purge) /\ [](PurgeHasWork => ENABLED <<Purge>>_vars) /\ AddsEnd
      => EndedRoomIsEmptied
  <1>1. closed \/ expired => ~Usable
    BY DEF Usable
  <1>2. ~Usable /\ NoAdd => Over
    BY DEF Over
  <1> QED BY <1>1, <1>2, EndedForGood, PurgeFindsTheItems, TypeCorrect, PTL
          DEF Spec, AddsEnd, EndedRoomIsEmptied, QuietEndedRoomIsEmptied

(* What ENABLED is of the steps that fairness is about: whoever may still  *)
(* add an item has a step to take, and a purge that has work does it.      *)
AddsCanGo(w) == [](Adds(w) => ENABLED <<Handle(w)>>_vars)
AddsStop(w) == (~Usable) ~> [](~Adds(w))
PurgeCanGo == [](PurgeHasWork => ENABLED <<Purge>>_vars)

(* The service file starts three workers, and so few the prover can keep   *)
(* account of: what was shared in a room is gone for good after its end.   *)
THEOREM ThreeWorkersEmptyIt ==
    ASSUME NEW w1, NEW w2, NEW w3, Workers = {w1, w2, w3}
    PROVE  FairSpec /\ PurgeCanGo /\ (\A w \in Workers : AddsCanGo(w)) => EndedRoomIsEmptied
  <1>1. (\A w \in Workers : HandleIsFair(w)) =>
            HandleIsFair(w1) /\ HandleIsFair(w2) /\ HandleIsFair(w3)
    OBVIOUS
  <1>2. (\A w \in Workers : AddsCanGo(w)) => AddsCanGo(w1) /\ AddsCanGo(w2) /\ AddsCanGo(w3)
    OBVIOUS
  <1>3. ~Adds(w1) /\ ~Adds(w2) /\ ~Adds(w3) => NoAdd
    BY DEF NoAdd
  <1>4. \A w \in Workers : Spec /\ HandleIsFair(w) /\ AddsCanGo(w) => AddsStop(w)
    <2> TAKE w \in Workers
    <2> QED BY AddsComeToAnEnd, PTL DEF HandleIsFair, AddsCanGo, AddsStop
  <1>5. /\ Spec /\ HandleIsFair(w1) /\ AddsCanGo(w1) => AddsStop(w1)
        /\ Spec /\ HandleIsFair(w2) /\ AddsCanGo(w2) => AddsStop(w2)
        /\ Spec /\ HandleIsFair(w3) /\ AddsCanGo(w3) => AddsStop(w3)
    BY <1>4
  <1>6. closed \/ expired => ~Usable
    BY DEF Usable
  <1>7. FairSpec /\ PurgeCanGo /\ (\A w \in Workers : AddsCanGo(w)) => AddsEnd
    BY <1>1, <1>2, <1>3, <1>5, <1>6, PTL DEF FairSpec, AddsEnd, AddsStop
  <1> QED BY <1>7, EndedRoomsAreEmptied, PTL DEF FairSpec, PurgeCanGo

-----------------------------------------------------------------------------
(* What the handlers inherit from KeyExchange.                             *)

Proved == INSTANCE KeyExchangeProofs WITH
              promise <- IF InOpenRoom THEN commit ELSE Blank,
              shown <- IF InOpenRoom THEN pub ELSE Blank,
              over <- ~InOpenRoom

(* It is the same exchange under another name.                             *)
LEMMA SameExchange == Spec => Proved!Spec
  <1>1. Exchange!Init => Proved!Init
    BY DEF Exchange!Init, Exchange!Blank, Exchange!Sides, Proved!Init, Proved!Blank, Proved!Sides
  <1>2. [Exchange!Next]_(Exchange!kxVars) => [Proved!Next]_(Proved!kxVars)
    BY DEF Exchange!Next, Exchange!Promise, Exchange!Show, Exchange!End, Exchange!Sides,
       Exchange!Blank, Exchange!kxVars, Proved!Next, Proved!Promise, Proved!Show, Proved!End,
       Proved!Sides, Proved!Blank, Proved!kxVars
  <1> QED BY <1>1, <1>2, Implements, PTL DEF ImplementsExchange, Exchange!Spec, Proved!Spec

(* The commitments of an open room in which a key is out, and a key that   *)
(* is out.                                                                 *)
Settled(p) == InOpenRoom /\ (\E s \in Slots : pub[s] # NoKey) /\ commit = p
KeyOut(s, k) == InOpenRoom /\ pub[s] = k
KeyStays(s, k) == pub[s] = k /\ commit[s] = k

(* Docstring of room.py: a server that wants to fool somebody "has to      *)
(* choose that fake key before it has seen" a real one.  However requests  *)
(* interleave, crash or come late, once a key is out no commitment of the  *)
(* room is made or changed until its end.                                  *)
THEOREM NobodyChoosesLate ==
    ASSUME NEW p
    PROVE  Spec => [](Settled(p) => [](~InOpenRoom \/ Settled(p)))
  <1>1. Proved!Spec => [](Proved!Settled(p) => [](~InOpenRoom \/ Proved!Settled(p)))
    BY Proved!NobodyChoosesLate
  <1>2. Proved!Settled(p) <=> Settled(p)
    BY DEF Proved!Settled, Proved!Revealed, Proved!Sides, Settled, Slots, Blank
  <1> QED BY <1>1, <1>2, SameExchange, PTL

(* A key the room hands out is handed out, and is the one committed to,    *)
(* until its end: no two polls are told different ones.                    *)
THEOREM KeysAreForGood ==
    ASSUME NEW s \in Slots, NEW k, k # NoKey
    PROVE  Spec => [](KeyOut(s, k) => [](~InOpenRoom \/ KeyStays(s, k)))
  <1>1. s \in Proved!Sides
    BY DEF Proved!Sides, Slots
  <1>2. Proved!Spec => []((IF InOpenRoom THEN pub ELSE Blank)[s] = k
                          => [](~InOpenRoom \/ Proved!Out(s, k)))
    BY <1>1, Proved!KeysAreForGood
  <1>3. KeyOut(s, k) => (IF InOpenRoom THEN pub ELSE Blank)[s] = k
    BY DEF KeyOut
  <1>4. ~InOpenRoom \/ Proved!Out(s, k) => ~InOpenRoom \/ KeyStays(s, k)
    BY DEF Proved!Out, KeyStays
  <1> QED BY <1>1, <1>2, <1>3, <1>4, SameExchange, PTL
=============================================================================
