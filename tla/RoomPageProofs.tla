--------------------------- MODULE RoomPageProofs ---------------------------
(***************************************************************************)
(* Proofs, for any number of polls, keys, items and reloads, of what the   *)
(* page keeps in storage and of what makes it open the room or accuse      *)
(* somebody.                                                               *)
(*                                                                         *)
(* The argument: seat and storage agree at every await (SeatIsSaved), so   *)
(* what a post carries is in storage while it is on its way                *)
(* (PostsAreSaved); and a poll that has got past the pin was given the     *)
(* very commitment that is pinned (PollsKnowThePin), however old its       *)
(* answer is.                                                              *)
(***************************************************************************)
EXTENDS RoomPage, WellFoundedInduction, TLAPS

(* What is in memory is in storage.                                        *)
SeatIsSaved == saved = seat

(* A page that runs has a seat with a key of its own; a poll is under way  *)
(* only on such a page or one that was closed.                             *)
SeatIsLoaded ==
    /\ seat.key \in MyKeys \cup {NoKey}
    /\ page # "closed" => seat.held
    /\ page \in {"open", "alarm"} => seat.key \in MyKeys
    /\ page = "loading" => roomKey = NoKey /\ \A p \in Polls : at[p] = "idle"

(* What is on its way to the server can be found again.                    *)
PostsAreSaved ==
    ~over => \A m \in posts : m[2] = seat.key /\ (m[1] = "key" => seat.pin # NoKey)

(* The end of the room takes the keys.                                     *)
OverIsBlank == over => promise = KX!Blank /\ shown = KX!Blank

(* An answer does not say that the room is gone before it is.              *)
GoneIsOver == \A p \in Polls : snap[p].gone => over

(* A poll past the pin has the pinned commitment, and derives from the key *)
(* that belongs to it.                                                     *)
KnowsThePin(p) ==
    at[p] \in {"checking", "deriving"} =>
        /\ snap[p].promise["b"] # NoKey
        /\ page # "closed" => seat.pin = snap[p].promise["b"]
        /\ at[p] = "deriving" => snap[p].shown["b"] = snap[p].promise["b"]
PollsKnowThePin == \A p \in Polls : KnowsThePin(p)

(* A server that has not changed its mind gives the other person's key to  *)
(* every poll, and the pin is of that key.                                 *)
IsHonest(says, shows) == says["b"] \in {NoKey, PeerKey} /\ shows["b"] \in {NoKey, says["b"]}
HonestUntilSwapped ==
    ~swapped =>
        /\ IsHonest(promise, shown)
        /\ \A p \in Polls : IsHonest(snap[p].promise, snap[p].shown)
        /\ seat.pin \in {NoKey, PeerKey}

(* A poll that decrypts has an item.                                       *)
OpeningHasItem == \A p \in Polls : at[p] = "opening" => doing[p] # NoItem

Promised ==
    /\ SeatIsSaved
    /\ SeatIsLoaded
    /\ PostsAreSaved
    /\ OverIsBlank
    /\ GoneIsOver
    /\ PollsKnowThePin
    /\ HonestUntilSwapped
    /\ OpeningHasItem
    /\ PublishedKeyIsSaved
    /\ RevealAfterPin
    /\ OpenWithPinnedKey
    /\ AlarmHasCause
PageInv == TypeOK /\ Promised

-----------------------------------------------------------------------------
(* Types.                                                                  *)

ServerTypes == KX!TypeOK /\ posted \in SUBSET Items /\ deleted \in SUBSET posted /\ swapped \in BOOLEAN
SeatTypes   == seat \in Seats /\ saved \in Seats
ViewTypes ==
    /\ roomKey \in Keys \cup {NoKey} /\ live \in BOOLEAN
    /\ listed \in SUBSET Items /\ stray \in SUBSET Items
Places == {"idle", "timer", "asked", "answered", "posting", "checking", "deriving", "opening"}
PollTypes ==
    /\ at \in [Polls -> Places]
    /\ snap \in [Polls -> Answers]
    /\ doing \in [Polls -> Items \cup {NoItem}]
    /\ roomTimer \in Polls
PostTypes == posts \in SUBSET ({"commit", "key"} \X MyKeys)
PageTypes ==
    /\ page \in {"loading", "open", "closed", "alarm"}
    /\ reloads \in 0 .. MaxReloads
ClosedIsOver == page = "closed" => over /\ seat = Nothing /\ saved = Nothing

(* The type invariant by its parts.                                        *)
LEMMA TypeParts ==
    TypeOK <=> /\ ServerTypes /\ SeatTypes /\ ViewTypes /\ PollTypes /\ PostTypes
               /\ PageTypes /\ ClosedIsOver
  BY DEF TypeOK, ServerTypes, SeatTypes, ViewTypes, PollTypes, Places, PostTypes,
         PageTypes, ClosedIsOver

LEMMA TypePartsAfter ==
    TypeOK' <=> /\ ServerTypes' /\ SeatTypes' /\ ViewTypes' /\ PollTypes' /\ PostTypes'
                /\ PageTypes' /\ ClosedIsOver'
  BY DEF TypeOK, ServerTypes, SeatTypes, ViewTypes, PollTypes, Places, PostTypes,
         PageTypes, ClosedIsOver

(* A page without an answer.                                               *)
LEMMA NothingTypes == NoAnswer \in Answers /\ Nothing \in Seats /\ Token \in Seats
  BY DEF NoAnswer, Answers, Nothing, Token, Seats, KX!Blank, KX!Sides

(* Ids are numbers: of the items that are left there is a first.           *)
LEMMA FirstItem ==
    ASSUME NEW S \in SUBSET Items, S # {}
    PROVE  (CHOOSE i \in S : \A j \in S : i <= j) \in S
  <1>1. S \in SUBSET Nat
    BY ItemsAssumption
  <1>2. PICK m \in S : \A k \in S : <<k, m>> \notin OpToRel(<, Nat)
    BY <1>1, WFMin, NatLessThanWellFounded, Zenon
  <1>3. \A j \in S : m <= j
    <2> SUFFICES ASSUME NEW j \in S PROVE m <= j
      OBVIOUS
    <2>1. ~(j < m)
      BY <1>1, <1>2, Zenon DEF OpToRel
    <2> QED BY <1>1, <2>1
  <1> QED BY <1>3

(* How a poll ends, and how it stops at an await.                          *)
LEMMA FinishTypes ==
    ASSUME PollTypes, NEW p \in Polls, Finish(p)
    PROVE  PollTypes'
  BY NothingTypes DEF PollTypes, Finish, Finished, Places

LEMMA AwaitTypes ==
    ASSUME PollTypes, NEW p \in Polls, NEW where \in Places, Await(p, where)
    PROVE  PollTypes'
  BY DEF PollTypes, Await

LEMMA GoOnTypes ==
    ASSUME PollTypes, NEW p \in Polls, NEW from, NEW have, GoOn(p, from, have)
    PROVE  PollTypes'
  <1>1. snap[p].items \in SUBSET Items
    BY DEF PollTypes, Answers
  <1>2. NextItem(p, from, have) \in SUBSET Items
    BY <1>1 DEF NextItem
  <1>3. CASE NextItem(p, from, have) = {}
    BY <1>3, FinishTypes DEF GoOn
  <1>4. CASE NextItem(p, from, have) # {}
    BY <1>2, <1>4, FirstItem DEF GoOn, PollTypes, Places
  <1> QED BY <1>3, <1>4

(* Nothing but the polls, the posts and the seat of a running page moves.  *)
LEMMA StayingTypes ==
    ASSUME TypeOK, PollTypes', UNCHANGED <<serverVars, page, seatVars, viewVars, posts, reloads>>
    PROVE  TypeOK'
  BY TypeParts, TypePartsAfter DEF serverVars, itemVars, seatVars, viewVars, ServerTypes,
     KX!TypeOK, SeatTypes, ViewTypes, PostTypes, PageTypes, ClosedIsOver

LEMMA PostingTypes ==
    ASSUME TypeOK, PollTypes', PostTypes', UNCHANGED <<serverVars, page, seatVars, viewVars, reloads>>
    PROVE  TypeOK'
  BY TypeParts, TypePartsAfter DEF serverVars, itemVars, seatVars, viewVars, ServerTypes,
     KX!TypeOK, SeatTypes, ViewTypes, PageTypes, ClosedIsOver

LEMMA PinningTypes ==
    ASSUME TypeOK, PollTypes', PostTypes', SeatTypes', page # "closed",
           UNCHANGED <<serverVars, page, viewVars, reloads>>
    PROVE  TypeOK'
  BY TypeParts, TypePartsAfter DEF serverVars, itemVars, viewVars, ServerTypes,
     KX!TypeOK, ViewTypes, PageTypes, ClosedIsOver

LEMMA AlarmTypes ==
    ASSUME TypeOK, NEW p \in Polls, Alarm(p), UNCHANGED <<serverVars, reloads>>
    PROVE  TypeOK'
  <1> USE TypeParts, TypePartsAfter
  <1>1. PollTypes'
    BY NothingTypes DEF Alarm, Finished, Cleared, PollTypes, Places
  <1> QED BY <1>1 DEF Alarm, seatVars, serverVars, itemVars, ServerTypes, KX!TypeOK,
          SeatTypes, ViewTypes, PostTypes, PageTypes, ClosedIsOver

LEMMA CloseRoomTypes ==
    ASSUME TypeOK, over, CloseRoom, PollTypes', UNCHANGED <<serverVars, posts, reloads>>
    PROVE  TypeOK'
  BY TypeParts, TypePartsAfter, NothingTypes DEF CloseRoom, Removed, serverVars, itemVars, ServerTypes,
     KX!TypeOK, SeatTypes, ViewTypes, PostTypes, PageTypes, ClosedIsOver

LEMMA OpenRoomTypes ==
    ASSUME TypeOK, NEW p \in Polls, OpenRoom(p), roomKey' \in Keys \cup {NoKey},
           UNCHANGED <<serverVars, seatVars, posts, reloads>>
    PROVE  TypeOK'
  <1> USE TypeParts, TypePartsAfter
  <1>1. PollTypes'
    BY GoOnTypes DEF OpenRoom
  <1> QED BY <1>1 DEF OpenRoom, StillThere, seatVars, serverVars, itemVars, ServerTypes,
          KX!TypeOK, SeatTypes, ViewTypes, PostTypes, PageTypes, ClosedIsOver

LEMMA RenderedTypes ==
    ASSUME TypeOK, NEW p \in Polls, NEW exchanged \in BOOLEAN, Rendered(p, exchanged),
           UNCHANGED <<serverVars, reloads>>
    PROVE  TypeOK'
  <1> USE TypeParts, TypePartsAfter
  <1>1. UNCHANGED <<seatVars, posts>>
    BY DEF Rendered
  <1>2. CASE OpenRoom(p) /\ UNCHANGED roomKey
    BY <1>1, <1>2, OpenRoomTypes DEF ViewTypes
  <1>3. CASE /\ PollTypes'
             /\ UNCHANGED <<page, roomKey, listed, stray>> /\ live' \in BOOLEAN
    BY <1>1, <1>3 DEF seatVars, serverVars, itemVars, ServerTypes, KX!TypeOK, SeatTypes,
       ViewTypes, PostTypes, PageTypes, ClosedIsOver
  <1>4. Finish(p) => PollTypes'
    BY FinishTypes
  <1>5. Await(p, "deriving") => PollTypes'
    BY AwaitTypes DEF Places
  <1> QED BY <1>2, <1>3, <1>4, <1>5 DEF Rendered, viewVars, ViewTypes
-----------------------------------------------------------------------------
(* What a poll may do, as the other polls and the promises see it.         *)

Others(p) ==
    \A q \in Polls \ {p} :
        at'[q] \in {at[q], "idle"} /\ snap'[q] = snap[q] /\ doing'[q] = doing[q]
ServerStays == UNCHANGED <<promise, shown, over, swapped>>

(* It waits, or goes through the items.                                    *)
Rests(p) ==
    /\ page # "loading" /\ ServerStays /\ Others(p)
    /\ UNCHANGED <<page, seat, saved, roomKey, posts>>
    /\ at'[p] \in {"idle", "timer", "asked", "posting", "opening"}
    /\ at'[p] = "idle" => page # "open"
    /\ snap'[p] \in {snap[p], NoAnswer}
    /\ at'[p] = "opening" => doing'[p] # NoItem

LEMMA FinishRests ==
    ASSUME PollTypes, NEW p \in Polls, Finish(p)
    PROVE  Others(p) /\ at'[p] = "timer" /\ snap'[p] = NoAnswer
  BY DEF PollTypes, Finish, Finished, Others

LEMMA AwaitRests ==
    ASSUME PollTypes, NEW p \in Polls, NEW where \in Places, Await(p, where)
    PROVE  Others(p) /\ at'[p] = where /\ snap' = snap /\ doing' = doing
  BY DEF PollTypes, Await, Others

LEMMA GoOnRests ==
    ASSUME PollTypes, NEW p \in Polls, NEW from, NEW have, GoOn(p, from, have)
    PROVE  /\ Others(p) /\ at'[p] \in {"timer", "opening"}
           /\ snap'[p] \in {snap[p], NoAnswer}
           /\ at'[p] = "opening" => doing'[p] # NoItem
  <1>1. snap[p].items \in SUBSET Items
    BY DEF PollTypes, Answers
  <1>2. NextItem(p, from, have) \in SUBSET Items
    BY <1>1 DEF NextItem
  <1>3. CASE NextItem(p, from, have) = {}
    BY <1>3, FinishRests DEF GoOn
  <1>4. CASE NextItem(p, from, have) # {}
    <2> DEFINE rest == NextItem(p, from, have)
               first == CHOOSE i \in rest : \A j \in rest : i <= j
    <2>1. first \in Items
      BY <1>2, <1>4, FirstItem
    <2>2. first # NoItem
      BY <2>1, ItemsAssumption DEF NoItem
    <2>3. doing' = [doing EXCEPT ![p] = first] /\ at' = [at EXCEPT ![p] = "opening"] /\ snap' = snap
      BY <1>4 DEF GoOn
    <2> HIDE DEF rest, first
    <2> QED BY <2>2, <2>3 DEF PollTypes, Others
  <1> QED BY <1>3, <1>4

(* A poll that rests disturbs nothing.                                     *)
LEMMA RestKeeps ==
    ASSUME TypeOK, Promised, NEW p \in Polls, Rests(p)
    PROVE  Promised'
  <1> USE DEF Rests, Others, ServerStays
  <1>1. SeatIsSaved' /\ SeatIsLoaded' /\ PostsAreSaved' /\ OverIsBlank'
    BY DEF Promised, SeatIsSaved, SeatIsLoaded, PostsAreSaved, OverIsBlank
  <1>2. GoneIsOver'
    BY DEF Promised, GoneIsOver, NoAnswer
  <1>3. PollsKnowThePin'
    BY DEF Promised, PollsKnowThePin, KnowsThePin
  <1>4. HonestUntilSwapped'
    BY DEF Promised, HonestUntilSwapped, IsHonest, NoAnswer, KX!Blank, KX!Sides
  <1>5. OpeningHasItem'
    BY DEF Promised, OpeningHasItem
  <1>6. PublishedKeyIsSaved' /\ RevealAfterPin' /\ OpenWithPinnedKey' /\ AlarmHasCause'
    BY DEF Promised, PublishedKeyIsSaved, RevealAfterPin, OpenWithPinnedKey, AlarmHasCause
  <1> QED BY <1>1, <1>2, <1>3, <1>4, <1>5, <1>6 DEF Promised

(* It was given the pinned commitment and the key of it, and derives.      *)
Derives(p) ==
    /\ page \notin {"loading", "closed"} /\ ServerStays /\ Others(p)
    /\ UNCHANGED <<page, seat, saved, roomKey, posts, snap, doing>>
    /\ at'[p] = "deriving"
    /\ at[p] = "checking" /\ snap[p].shown["b"] = snap[p].promise["b"]

LEMMA DerivingKeeps ==
    ASSUME TypeOK, Promised, NEW p \in Polls, Derives(p)
    PROVE  Promised'
  <1> USE DEF Derives, Others, ServerStays
  <1>1. SeatIsSaved' /\ SeatIsLoaded' /\ PostsAreSaved' /\ OverIsBlank' /\ GoneIsOver'
    BY DEF Promised, SeatIsSaved, SeatIsLoaded, PostsAreSaved, OverIsBlank, GoneIsOver
  <1>2. PollsKnowThePin'
    BY DEF Promised, PollsKnowThePin, KnowsThePin
  <1>3. HonestUntilSwapped' /\ OpeningHasItem'
    BY DEF Promised, HonestUntilSwapped, IsHonest, OpeningHasItem
  <1>4. PublishedKeyIsSaved' /\ RevealAfterPin' /\ OpenWithPinnedKey' /\ AlarmHasCause'
    BY DEF Promised, PublishedKeyIsSaved, RevealAfterPin, OpenWithPinnedKey, AlarmHasCause
  <1> QED BY <1>1, <1>2, <1>3, <1>4 DEF Promised

(* It opens the room with the key that belongs to the pin.                 *)
Opens(p) ==
    /\ ServerStays /\ Others(p)
    /\ UNCHANGED <<page, seat, saved, posts>>
    /\ roomKey' = snap[p].shown["b"]
    /\ at[p] = "deriving" /\ at'[p] \in {"timer", "opening"}
    /\ snap'[p] \in {snap[p], NoAnswer}
    /\ at'[p] = "opening" => doing'[p] # NoItem

LEMMA OpeningKeeps ==
    ASSUME TypeOK, Promised, NEW p \in Polls, Opens(p)
    PROVE  Promised'
  <1> USE DEF Opens, Others, ServerStays
  <1>1. SeatIsSaved' /\ SeatIsLoaded' /\ PostsAreSaved' /\ OverIsBlank'
    BY DEF Promised, SeatIsSaved, SeatIsLoaded, PostsAreSaved, OverIsBlank
  <1>2. GoneIsOver' /\ OpeningHasItem'
    BY DEF Promised, GoneIsOver, OpeningHasItem, NoAnswer
  <1>3. PollsKnowThePin'
    BY DEF Promised, PollsKnowThePin, KnowsThePin
  <1>4. HonestUntilSwapped'
    BY DEF Promised, HonestUntilSwapped, IsHonest, NoAnswer, KX!Blank, KX!Sides
  <1>5. PublishedKeyIsSaved' /\ RevealAfterPin' /\ AlarmHasCause'
    BY DEF Promised, PublishedKeyIsSaved, RevealAfterPin, AlarmHasCause
  <1>6. OpenWithPinnedKey'
    <2>1. page # "closed" => seat.pin = snap[p].promise["b"] /\ snap[p].shown["b"] = snap[p].promise["b"]
      BY DEF Promised, PollsKnowThePin, KnowsThePin
    <2> QED BY <2>1 DEF Promised, SeatIsSaved, OpenWithPinnedKey
  <1> QED BY <1>1, <1>2, <1>3, <1>4, <1>5, <1>6 DEF Promised

(* It finds an answer that cannot be of the other person.                  *)
Accuses(p) ==
    /\ page # "loading" /\ ServerStays /\ Others(p)
    /\ UNCHANGED <<seat, saved, roomKey, posts>>
    /\ page' \in {page, "alarm"} /\ (page = "closed" => page' = page)
    /\ at'[p] = "timer" /\ snap'[p] = NoAnswer
    /\ \/ snap[p].promise["b"] # NoKey /\ seat.pin \notin {NoKey, snap[p].promise["b"]}
       \/ snap[p].shown["b"] \notin {NoKey, snap[p].promise["b"]}

LEMMA AccusingKeeps ==
    ASSUME TypeOK, Promised, NEW p \in Polls, Accuses(p)
    PROVE  Promised'
  <1> USE DEF Accuses, Others, ServerStays
  <1>1. seat.held \/ page = "closed"
    BY DEF Promised, SeatIsLoaded
  <1>2. SeatIsSaved' /\ SeatIsLoaded' /\ PostsAreSaved' /\ OverIsBlank'
    BY <1>1 DEF Promised, SeatIsSaved, SeatIsLoaded, PostsAreSaved, OverIsBlank, TypeOK
  <1>3. GoneIsOver' /\ OpeningHasItem'
    BY DEF Promised, GoneIsOver, OpeningHasItem, NoAnswer
  <1>4. PollsKnowThePin'
    BY DEF Promised, PollsKnowThePin, KnowsThePin
  <1>5. HonestUntilSwapped'
    BY DEF Promised, HonestUntilSwapped, IsHonest, NoAnswer, KX!Blank, KX!Sides
  <1>6. PublishedKeyIsSaved' /\ RevealAfterPin' /\ OpenWithPinnedKey'
    BY DEF Promised, PublishedKeyIsSaved, RevealAfterPin, OpenWithPinnedKey
  <1>7. swapped
    BY DEF Promised, HonestUntilSwapped, IsHonest
  <1>8. AlarmHasCause'
    BY <1>7 DEF AlarmHasCause
  <1> QED BY <1>2, <1>3, <1>4, <1>5, <1>6, <1>8 DEF Promised

(* It posts the commitment.                                                *)
Commits(p) ==
    /\ page # "loading" /\ ServerStays /\ Others(p)
    /\ UNCHANGED <<page, seat, saved, roomKey, snap, doing>>
    /\ at'[p] = "posting"
    /\ posts' = posts \cup {<<"commit", seat.key>>}

LEMMA CommittingKeeps ==
    ASSUME TypeOK, Promised, NEW p \in Polls, Commits(p)
    PROVE  Promised'
  <1> USE DEF Commits, Others, ServerStays
  <1>1. SeatIsSaved' /\ SeatIsLoaded' /\ OverIsBlank' /\ GoneIsOver' /\ OpeningHasItem'
    BY DEF Promised, SeatIsSaved, SeatIsLoaded, OverIsBlank, GoneIsOver, OpeningHasItem
  <1>2. PostsAreSaved'
    BY DEF Promised, PostsAreSaved
  <1>3. PollsKnowThePin' /\ HonestUntilSwapped'
    BY DEF Promised, PollsKnowThePin, KnowsThePin, HonestUntilSwapped, IsHonest
  <1>4. PublishedKeyIsSaved' /\ RevealAfterPin' /\ OpenWithPinnedKey' /\ AlarmHasCause'
    BY DEF Promised, PublishedKeyIsSaved, RevealAfterPin, OpenWithPinnedKey, AlarmHasCause
  <1> QED BY <1>1, <1>2, <1>3, <1>4 DEF Promised

(* It pins what it was told, and posts the key or checks the other one.    *)
Pins(p) ==
    LET said == snap[p].promise["b"] IN
    /\ page \notin {"loading", "closed"} /\ ServerStays /\ Others(p)
    /\ UNCHANGED <<page, roomKey, snap, doing>>
    /\ said # NoKey /\ seat.pin \in {NoKey, said}
    /\ seat' = [seat EXCEPT !.pin = said] /\ saved' = seat'
    /\ \/ at'[p] = "checking" /\ posts' = posts
       \/ at'[p] = "posting" /\ posts' = posts \cup {<<"key", seat.key>>}

LEMMA PinningKeeps ==
    ASSUME TypeOK, Promised, NEW p \in Polls, Pins(p)
    PROVE  Promised'
  <1> USE DEF Pins, Others, ServerStays
  <1>1. seat'.pin = snap[p].promise["b"] /\ seat'.key = seat.key /\ seat'.held = seat.held
    BY DEF TypeOK, Seats
  <1>2. SeatIsSaved' /\ SeatIsLoaded' /\ OverIsBlank' /\ GoneIsOver' /\ OpeningHasItem'
    BY <1>1 DEF Promised, SeatIsSaved, SeatIsLoaded, OverIsBlank, GoneIsOver, OpeningHasItem
  <1>3. PostsAreSaved'
    BY <1>1 DEF Promised, PostsAreSaved
  <1>4. PollsKnowThePin'
    BY <1>1 DEF Promised, PollsKnowThePin, KnowsThePin
  <1>5. HonestUntilSwapped'
    BY <1>1 DEF Promised, HonestUntilSwapped, IsHonest
  <1>6. PublishedKeyIsSaved' /\ RevealAfterPin' /\ OpenWithPinnedKey' /\ AlarmHasCause'
    BY <1>1 DEF Promised, SeatIsSaved, PublishedKeyIsSaved, RevealAfterPin,
       OpenWithPinnedKey, AlarmHasCause
  <1> QED BY <1>2, <1>3, <1>4, <1>5, <1>6 DEF Promised

(* A room that is over is closed, by a poll or by the answer to the        *)
(* person's own request.                                                   *)
Closes ==
    /\ over /\ page # "loading" /\ ServerStays /\ CloseRoom /\ UNCHANGED posts
    /\ \A q \in Polls :
          \/ at'[q] = at[q] /\ snap'[q] = snap[q] /\ doing'[q] = doing[q]
          \/ at'[q] = "idle" /\ snap'[q] = NoAnswer

LEMMA ClosingKeeps ==
    ASSUME TypeOK, Promised, Closes
    PROVE  Promised'
  <1> USE DEF Closes, CloseRoom, Removed, ServerStays
  <1>1. SeatIsSaved' /\ SeatIsLoaded' /\ PostsAreSaved' /\ OverIsBlank'
    BY DEF Promised, SeatIsSaved, SeatIsLoaded, PostsAreSaved, OverIsBlank, Nothing
  <1>2. GoneIsOver' /\ OpeningHasItem'
    BY DEF Promised, GoneIsOver, OpeningHasItem
  <1>3. PollsKnowThePin'
    BY DEF Promised, PollsKnowThePin, KnowsThePin
  <1>4. HonestUntilSwapped'
    BY DEF Promised, HonestUntilSwapped, IsHonest, NoAnswer, KX!Blank, KX!Sides, Nothing
  <1>5. PublishedKeyIsSaved' /\ RevealAfterPin' /\ OpenWithPinnedKey' /\ AlarmHasCause'
    BY DEF Promised, OverIsBlank, KX!Blank, KX!Sides, PublishedKeyIsSaved, RevealAfterPin,
       OpenWithPinnedKey, AlarmHasCause
  <1> QED BY <1>1, <1>2, <1>3, <1>4, <1>5 DEF Promised

LEMMA LoadKeeps ==
    ASSUME TypeOK, Promised, Load
    PROVE  Promised'
  <1> USE DEF Load, serverVars, viewVars, seatVars, SaveFirst
  <1>1. PICK p \in Polls : at' = [at EXCEPT ![p] = "asked"]
    OBVIOUS
  <1>2. /\ saved' = seat' /\ seat'.pin = seat.pin /\ seat'.held = seat.held
        /\ seat'.key \in MyKeys
        /\ seat.key # NoKey => seat' = seat
    BY DEF TypeOK, Seats, Promised, SeatIsSaved, SeatIsLoaded
  <1>3. \A q \in Polls : at'[q] \in {at[q], "asked"} /\ snap'[q] = snap[q] /\ doing'[q] = doing[q]
    BY <1>1 DEF TypeOK
  <1>4. seat.key = NoKey /\ ~over => posts = {}
    <2> SUFFICES ASSUME seat.key = NoKey, ~over, NEW m \in posts PROVE FALSE
      OBVIOUS
    <2>1. m[2] = NoKey
      BY DEF Promised, PostsAreSaved
    <2>2. m[2] \in MyKeys
      BY DEF TypeOK
    <2> QED BY <2>1, <2>2, KeysAssumption DEF Keys
  <1>5. SeatIsSaved' /\ SeatIsLoaded' /\ OverIsBlank'
    BY <1>2, <1>3 DEF Promised, SeatIsSaved, SeatIsLoaded, OverIsBlank
  <1>6. PostsAreSaved'
    BY <1>2, <1>4 DEF Promised, PostsAreSaved
  <1>7. GoneIsOver' /\ OpeningHasItem'
    BY <1>3 DEF Promised, GoneIsOver, OpeningHasItem
  <1>8. PollsKnowThePin' /\ HonestUntilSwapped'
    BY <1>2, <1>3 DEF Promised, PollsKnowThePin, KnowsThePin, HonestUntilSwapped, IsHonest
  <1>9. PublishedKeyIsSaved' /\ RevealAfterPin' /\ OpenWithPinnedKey' /\ AlarmHasCause'
    BY <1>2 DEF Promised, SeatIsSaved, SeatIsLoaded, PublishedKeyIsSaved, RevealAfterPin,
       OpenWithPinnedKey, AlarmHasCause
  <1> QED BY <1>5, <1>6, <1>7, <1>8, <1>9 DEF Promised

LEMMA ReloadKeeps ==
    ASSUME TypeOK, Promised, Reload
    PROVE  Promised'
  <1> USE DEF Reload, serverVars
  <1>1. seat' = seat /\ saved' = saved /\ seat.held
    BY DEF Promised, SeatIsSaved
  <1>2. SeatIsSaved' /\ SeatIsLoaded' /\ PostsAreSaved' /\ OverIsBlank'
    BY <1>1 DEF Promised, SeatIsSaved, SeatIsLoaded, PostsAreSaved, OverIsBlank
  <1>3. GoneIsOver' /\ OpeningHasItem' /\ PollsKnowThePin'
    BY DEF GoneIsOver, OpeningHasItem, PollsKnowThePin, KnowsThePin, NoAnswer
  <1>4. HonestUntilSwapped'
    BY <1>1 DEF Promised, HonestUntilSwapped, IsHonest, NoAnswer, KX!Blank, KX!Sides
  <1>5. PublishedKeyIsSaved' /\ RevealAfterPin' /\ OpenWithPinnedKey' /\ AlarmHasCause'
    BY <1>1 DEF Promised, PublishedKeyIsSaved, RevealAfterPin, OpenWithPinnedKey, AlarmHasCause
  <1> QED BY <1>2, <1>3, <1>4, <1>5 DEF Promised

-----------------------------------------------------------------------------
(* The server.                                                             *)

LEMMA ServerKeeps ==
    ASSUME TypeOK, Promised, ServerAlone
    PROVE  Promised'
  <1>1. UNCHANGED <<page, seat, saved, roomKey, posts, at, snap, doing>>
    BY DEF ServerAlone, seatVars, viewVars, pollVars
  <1>2. over \in BOOLEAN /\ promise \in [{"a", "b"} -> Keys \cup {NoKey}]
        /\ shown \in [{"a", "b"} -> Keys \cup {NoKey}]
    BY DEF TypeOK, KX!TypeOK, KX!Sides
  <1>3. /\ over => over'
        /\ over' => promise' = KX!Blank /\ shown' = KX!Blank
        /\ promise'["a"] \in {NoKey, promise["a"]} /\ shown'["a"] \in {NoKey, shown["a"]}
        /\ swapped => swapped'
        /\ ~swapped' /\ IsHonest(promise, shown) => IsHonest(promise, shown)'
    <2>1. CASE PeerPromises
      BY <2>1, <1>2, KeysAssumption DEF PeerPromises, KX!Promise, Promised, OverIsBlank, IsHonest, Keys
    <2>2. CASE PeerShows
      BY <2>2, <1>2 DEF PeerShows, KX!Show, Promised, OverIsBlank, IsHonest
    <2>3. CASE RoomEnds
      BY <2>3, <1>2 DEF RoomEnds, KX!End, KX!Blank, KX!Sides, IsHonest
    <2>4. CASE Swap
      BY <2>4, <1>2 DEF Swap
    <2>5. CASE \E i \in Items : ItemComes(i) \/ ItemGoes(i)
      BY <2>5 DEF ItemComes, ItemGoes, IsHonest
    <2> QED BY <2>1, <2>2, <2>3, <2>4, <2>5 DEF ServerAlone
  <1>4. SeatIsSaved' /\ SeatIsLoaded' /\ PostsAreSaved' /\ OverIsBlank'
    BY <1>1, <1>3 DEF Promised, SeatIsSaved, SeatIsLoaded, PostsAreSaved, OverIsBlank
  <1>5. GoneIsOver' /\ PollsKnowThePin' /\ OpeningHasItem'
    BY <1>1, <1>3 DEF Promised, GoneIsOver, PollsKnowThePin, KnowsThePin, OpeningHasItem
  <1>6. HonestUntilSwapped'
    BY <1>1, <1>3 DEF Promised, HonestUntilSwapped, IsHonest
  <1>7. PublishedKeyIsSaved' /\ RevealAfterPin' /\ OpenWithPinnedKey' /\ AlarmHasCause'
    BY <1>1, <1>3 DEF Promised, PublishedKeyIsSaved, RevealAfterPin, OpenWithPinnedKey,
       AlarmHasCause
  <1> QED BY <1>4, <1>5, <1>6, <1>7 DEF Promised

(* A post finds what it is about in storage when it arrives.               *)
LEMMA PostKeeps ==
    ASSUME TypeOK, Promised, NEW m \in {"commit", "key"} \X MyKeys,
           HandlePost(m) \/ LosePost(m)
    PROVE  Promised'
  <1>1. /\ UNCHANGED <<swapped, over, page, seat, saved, roomKey, at, snap, doing>>
        /\ posts' \in SUBSET posts /\ m \in posts
    BY DEF HandlePost, LosePost, seatVars, viewVars, pollVars, serverVars, KX!Promise, KX!Show
  <1>2. promise \in [{"a", "b"} -> Keys \cup {NoKey}] /\ shown \in [{"a", "b"} -> Keys \cup {NoKey}]
    BY DEF TypeOK, KX!TypeOK, KX!Sides
  <1>3. \/ UNCHANGED <<promise, shown>>
        \/ ~over /\ m[1] = "commit" /\ UNCHANGED shown
              /\ promise' = [promise EXCEPT !["a"] = m[2]]
        \/ ~over /\ m[1] = "key" /\ UNCHANGED promise
              /\ shown' = [shown EXCEPT !["a"] = promise["a"]]
    BY DEF HandlePost, LosePost, serverVars, KX!Promise, KX!Show
  <1>4. ~over => m[2] = saved.key /\ (m[1] = "key" => saved.pin # NoKey)
    BY <1>1 DEF Promised, PostsAreSaved, SeatIsSaved
  <1>5. SeatIsSaved' /\ SeatIsLoaded' /\ PostsAreSaved' /\ OverIsBlank'
    BY <1>1, <1>3 DEF Promised, SeatIsSaved, SeatIsLoaded, PostsAreSaved, OverIsBlank
  <1>6. GoneIsOver' /\ PollsKnowThePin' /\ OpeningHasItem'
    BY <1>1 DEF Promised, GoneIsOver, PollsKnowThePin, KnowsThePin, OpeningHasItem
  <1>7. promise'["b"] = promise["b"] /\ shown'["b"] = shown["b"]
    BY <1>2, <1>3
  <1>8. HonestUntilSwapped'
    BY <1>1, <1>7 DEF Promised, HonestUntilSwapped, IsHonest
  <1>9. PublishedKeyIsSaved' /\ RevealAfterPin'
    BY <1>1, <1>2, <1>3, <1>4 DEF Promised, PublishedKeyIsSaved, RevealAfterPin
  <1>10. OpenWithPinnedKey' /\ AlarmHasCause'
    BY <1>1 DEF Promised, OpenWithPinnedKey, AlarmHasCause
  <1> QED BY <1>5, <1>6, <1>8, <1>9, <1>10 DEF Promised

(* An answer says what the server says now.                                *)
LEMMA ServeKeeps ==
    ASSUME TypeOK, Promised, NEW p \in Polls, Serve(p)
    PROVE  Promised'
  <1> DEFINE said == [promise |-> promise, shown |-> shown, items |-> posted \ deleted, gone |-> over]
  <1>1. UNCHANGED <<promise, shown, over, swapped, page, seat, saved, roomKey, posts, doing>>
    BY DEF Serve, serverVars, seatVars, viewVars
  <1>2. \A q \in Polls :
            /\ at'[q] = IF q = p THEN "answered" ELSE at[q]
            /\ snap'[q] = IF q = p THEN said ELSE snap[q]
    BY DEF Serve, TypeOK
  <1>3. at[p] # "idle"
    BY DEF Serve
  <1>4. SeatIsSaved' /\ SeatIsLoaded' /\ PostsAreSaved' /\ OverIsBlank'
    BY <1>1, <1>2, <1>3 DEF Promised, SeatIsSaved, SeatIsLoaded, PostsAreSaved, OverIsBlank
  <1>5. GoneIsOver' /\ OpeningHasItem'
    BY <1>1, <1>2 DEF Promised, GoneIsOver, OpeningHasItem
  <1>6. PollsKnowThePin'
    BY <1>1, <1>2 DEF Promised, PollsKnowThePin, KnowsThePin
  <1>7. HonestUntilSwapped'
    BY <1>1, <1>2 DEF Promised, HonestUntilSwapped, IsHonest
  <1>8. PublishedKeyIsSaved' /\ RevealAfterPin' /\ OpenWithPinnedKey' /\ AlarmHasCause'
    BY <1>1 DEF Promised, PublishedKeyIsSaved, RevealAfterPin, OpenWithPinnedKey, AlarmHasCause
  <1> QED BY <1>4, <1>5, <1>6, <1>7, <1>8 DEF Promised

-----------------------------------------------------------------------------
(* Every step of a poll is one of these.                                   *)

PollSteps(p) ==
    Rests(p) \/ Derives(p) \/ Opens(p) \/ Accuses(p) \/ Commits(p) \/ Pins(p) \/ Closes

LEMMA PollKeeps ==
    ASSUME TypeOK, Promised, NEW p \in Polls, PollSteps(p)
    PROVE  Promised'
  BY RestKeeps, DerivingKeeps, OpeningKeeps, AccusingKeeps, CommittingKeeps, PinningKeeps,
     ClosingKeeps DEF PollSteps

LEMMA AlarmAccuses ==
    ASSUME PollTypes, NEW p \in Polls, Alarm(p), ServerStays, page # "loading",
           \/ snap[p].promise["b"] # NoKey /\ seat.pin \notin {NoKey, snap[p].promise["b"]}
           \/ snap[p].shown["b"] \notin {NoKey, snap[p].promise["b"]}
    PROVE  Accuses(p)
  BY DEF PollTypes, Alarm, Accuses, Finished, Cleared, Others, seatVars

LEMMA RenderedRests ==
    ASSUME PollTypes, NEW p \in Polls, Rendered(p, FALSE), ServerStays, page # "loading"
    PROVE  Rests(p)
  <1>1. Finish(p) /\ UNCHANGED <<seatVars, posts, page, roomKey>>
    BY DEF Rendered, viewVars
  <1> QED BY <1>1, FinishRests DEF Rests, seatVars

LEMMA RenderedMoves ==
    ASSUME PollTypes, NEW p \in Polls, Rendered(p, TRUE), ServerStays,
           page # "loading", at[p] = "checking", KeyIsThePinned(p)
    PROVE  Rests(p) \/ Derives(p)
  <1>1. UNCHANGED <<seatVars, posts, page, roomKey>>
    BY DEF Rendered, viewVars, OpenRoom
  <1>2. CASE Finish(p)
    BY <1>1, <1>2, FinishRests DEF Rests, seatVars
  <1>3. CASE OpenRoom(p)
    <2>1. GoOn(p, NoItem, StillThere(p))
      BY <1>3 DEF OpenRoom
    <2> QED BY <1>1, <2>1, GoOnRests DEF Rests, seatVars
  <1>4. CASE ~Ended /\ snap[p].shown["b"] # NoKey /\ Await(p, "deriving")
    BY <1>1, <1>4, AwaitRests DEF Derives, seatVars, Ended, KeyIsThePinned, Places
  <1> QED BY <1>2, <1>3, <1>4 DEF Rendered

LEMMA ReceiveIsOne ==
    ASSUME TypeOK, Promised, NEW p \in Polls, Receive(p)
    PROVE  PollSteps(p)
  <1> DEFINE said == snap[p].promise["b"]
  <1>1. PollTypes /\ ServerStays /\ at[p] = "answered"
    BY TypeParts DEF Receive, ServerStays, serverVars
  <1>2. page # "loading"
    BY <1>1 DEF Promised, SeatIsLoaded
  <1>3. CASE snap[p].gone
    <2>1. over
      BY <1>3 DEF Promised, GoneIsOver
    <2> QED BY <1>1, <1>2, <1>3, <2>1 DEF PollSteps, Closes, Receive, PollTypes
  <1>4. CASE ~snap[p].gone /\ ~seat.held
    <2>1. Finish(p) /\ UNCHANGED <<page, seatVars, viewVars, posts>>
      BY <1>4 DEF Receive
    <2> QED BY <1>1, <1>2, <2>1, FinishRests DEF PollSteps, Rests, seatVars, viewVars
  <1>5. CASE ~snap[p].gone /\ seat.held
    <2>1. ExchangeKeys(p)
      BY <1>5 DEF Receive
    <2>2. page # "closed"
      BY <1>5 DEF TypeOK, Nothing
    <2>3. CASE Rendered(p, FALSE)
      BY <1>1, <1>2, <2>3, RenderedRests DEF PollSteps
    <2>4. CASE Post(p, "commit") /\ UNCHANGED seatVars
      BY <1>1, <1>2, <2>4, AwaitRests DEF PollSteps, Commits, Post, Places, seatVars, viewVars
    <2>5. CASE said # NoKey /\ PinFirst(seat.pin, said) # said /\ Alarm(p)
      BY <1>1, <1>2, <2>5, AlarmAccuses DEF PollSteps, PinFirst
    <2>6. CASE /\ said # NoKey /\ PinFirst(seat.pin, said) = said
               /\ seat' = [seat EXCEPT !.pin = said] /\ saved' = SaveSeat(said)
               /\ AfterPin(p, snap[p].shown["a"])
      <3>1. seat.pin \in {NoKey, said}
        BY <2>6 DEF PinFirst
      <3>2. saved' = seat'
        BY <2>6 DEF SaveSeat, Promised, SeatIsSaved, TypeOK, Seats
      <3>3. UNCHANGED <<page, roomKey>>
        BY <2>6 DEF AfterPin, Post, viewVars
      <3>4. \/ Await(p, "checking") /\ posts' = posts
            \/ Await(p, "posting") /\ posts' = posts \cup {<<"key", seat.key>>}
        BY <2>6 DEF AfterPin, Post
      <3>5. /\ Others(p) /\ snap' = snap /\ doing' = doing
            /\ \/ at'[p] = "checking" /\ posts' = posts
               \/ at'[p] = "posting" /\ posts' = posts \cup {<<"key", seat.key>>}
        BY <1>1, <3>4, AwaitRests DEF Places
      <3> QED BY <1>1, <1>2, <2>2, <2>6, <3>1, <3>2, <3>3, <3>5 DEF PollSteps, Pins
    <2> QED BY <2>1, <2>3, <2>4, <2>5, <2>6 DEF ExchangeKeys
  <1> QED BY <1>3, <1>4, <1>5

LEMMA ResumeIsOne ==
    ASSUME TypeOK, Promised, NEW p \in Polls, Resume(p)
    PROVE  PollSteps(p)
  <1>1. PollTypes /\ ServerStays
    BY TypeParts DEF Resume, PostAnswered, Checked, Derived, ItemOpened, ServerStays, serverVars
  <1>2. at[p] # "idle" /\ page # "loading"
    BY DEF Resume, PostAnswered, Checked, Derived, ItemOpened, Promised, SeatIsLoaded
  <1>3. CASE PostAnswered(p)
    BY <1>1, <1>2, <1>3, FinishRests DEF PostAnswered, PollSteps, Rests, seatVars, viewVars
  <1>4. CASE Checked(p)
    <2>1. CASE KeyIsThePinned(p) /\ Rendered(p, TRUE)
      BY <1>1, <1>2, <1>4, <2>1, RenderedMoves DEF PollSteps, Checked
    <2>2. CASE ~KeyIsThePinned(p) /\ Alarm(p)
      BY <1>1, <1>2, <2>2, AlarmAccuses DEF PollSteps, KeyIsThePinned
    <2> QED BY <1>4, <2>1, <2>2 DEF Checked
  <1>5. CASE Derived(p)
    <2>1. GoOn(p, NoItem, StillThere(p)) /\ UNCHANGED page
      BY <1>5 DEF Derived, OpenRoom
    <2> QED BY <1>1, <1>5, <2>1, GoOnRests DEF PollSteps, Opens, Derived, seatVars
  <1>6. CASE ItemOpened(p)
    <2>1. GoOn(p, doing[p], listed \cup {doing[p]})
      BY <1>6 DEF ItemOpened
    <2> QED BY <1>1, <1>2, <1>6, <2>1, GoOnRests DEF PollSteps, Rests, ItemOpened, seatVars
  <1> QED BY <1>3, <1>4, <1>5, <1>6 DEF Resume

LEMMA WaitingIsOne ==
    ASSUME TypeOK, Promised, NEW p \in Polls, PollRoom(p) \/ Lose(p)
    PROVE  PollSteps(p)
  <1>1. PollTypes /\ ServerStays /\ UNCHANGED <<page, seat, saved, roomKey, posts>>
    BY TypeParts DEF PollRoom, Lose, ServerStays, serverVars, seatVars, viewVars
  <1>2. page # "loading"
    BY DEF PollRoom, MayEnter, Lose, Promised, SeatIsLoaded
  <1>3. CASE PollRoom(p)
    BY <1>1, <1>2, <1>3 DEF PollRoom, Cleared, Ended, PollTypes, PollSteps, Rests, Others
  <1>4. CASE Lose(p)
    BY <1>1, <1>2, <1>4, FinishRests DEF Lose, Retry, PollSteps, Rests
  <1> QED BY <1>3, <1>4

LEMMA AnsweredIsOne ==
    ASSUME TypeOK, CloseAnswered
    PROVE  Closes
  BY DEF CloseAnswered, ServerHasClosed, Closes, ServerStays, serverVars, pollVars

-----------------------------------------------------------------------------
(* Types are kept.                                                         *)

LEMMA ReceiveTypes ==
    ASSUME TypeOK, Promised, NEW p \in Polls, Receive(p)
    PROVE  TypeOK'
  <1>1. UNCHANGED <<serverVars, reloads>> /\ at[p] = "answered" /\ PollTypes
    BY TypeParts DEF Receive
  <1>2. CASE snap[p].gone
    <2>1. over
      BY <1>2 DEF Promised, GoneIsOver
    <2>2. CloseRoom /\ PollTypes' /\ UNCHANGED posts
      BY <1>1, <1>2, NothingTypes DEF Receive, PollTypes, Places
    <2> QED BY <1>1, <2>1, <2>2, CloseRoomTypes
  <1>3. CASE ~snap[p].gone /\ ~seat.held
    <2>1. Finish(p) /\ UNCHANGED <<page, seatVars, viewVars, posts>>
      BY <1>3 DEF Receive
    <2>2. PollTypes'
      BY <1>1, <2>1, FinishTypes
    <2> QED BY <1>1, <2>1, <2>2, StayingTypes
  <1>4. CASE ~snap[p].gone /\ seat.held
    <2>1. ExchangeKeys(p)
      BY <1>4 DEF Receive
    <2>2. page \notin {"loading", "closed"}
      BY <1>1, <1>4 DEF TypeOK, Nothing, Promised, SeatIsLoaded
    <2>3. seat.key \in MyKeys
      BY <2>2 DEF TypeOK, Promised, SeatIsLoaded
    <2>4. ASSUME NEW kind \in {"commit", "key"}, Post(p, kind)
          PROVE  PollTypes' /\ PostTypes' /\ UNCHANGED <<page, viewVars>>
      <3>1. PollTypes'
        BY <1>1, <2>4, AwaitTypes DEF Post, Places
      <3> QED BY <2>3, <2>4, <3>1, TypeParts DEF Post, PostTypes
    <2>5. CASE Rendered(p, FALSE)
      BY <1>1, <2>5, RenderedTypes
    <2>6. CASE Alarm(p)
      BY <1>1, <2>6, AlarmTypes
    <2>7. CASE Post(p, "commit") /\ UNCHANGED seatVars
      <3>1. PollTypes' /\ PostTypes' /\ UNCHANGED <<page, viewVars>>
        BY <2>4, <2>7
      <3> QED BY <1>1, <2>7, <3>1, PostingTypes
    <2>8. CASE /\ seat' = [seat EXCEPT !.pin = snap[p].promise["b"]]
               /\ saved' = SaveSeat(snap[p].promise["b"])
               /\ AfterPin(p, snap[p].shown["a"])
      <3>1. snap[p].promise["b"] \in Keys \cup {NoKey}
        BY <1>1 DEF PollTypes, Answers, KX!Sides
      <3>2. SeatTypes'
        BY <2>8, <3>1, TypeParts DEF SeatTypes, Seats, SaveSeat
      <3>3. PollTypes' /\ PostTypes' /\ UNCHANGED <<page, viewVars>>
        <4>1. CASE Post(p, "key")
          BY <2>4, <4>1
        <4>2. CASE UNCHANGED <<page, viewVars, posts>> /\ Await(p, "checking")
          BY <1>1, <4>2, AwaitTypes, TypeParts DEF Places, PostTypes
        <4> QED BY <2>8, <4>1, <4>2 DEF AfterPin
      <3> QED BY <1>1, <2>2, <3>2, <3>3, PinningTypes
    <2> QED BY <2>1, <2>5, <2>6, <2>7, <2>8 DEF ExchangeKeys
  <1> QED BY <1>2, <1>3, <1>4

LEMMA ResumeTypes ==
    ASSUME TypeOK, Promised, NEW p \in Polls, Resume(p)
    PROVE  TypeOK'
  <1>1. UNCHANGED <<serverVars, reloads>> /\ PollTypes
    BY TypeParts DEF Resume, PostAnswered, Checked, Derived, ItemOpened
  <1>2. CASE PostAnswered(p)
    BY <1>1, <1>2, FinishTypes, StayingTypes DEF PostAnswered
  <1>3. CASE Checked(p)
    BY <1>1, <1>3, RenderedTypes, AlarmTypes DEF Checked
  <1>4. CASE Derived(p)
    <2>1. snap[p].shown["b"] \in Keys \cup {NoKey}
      BY <1>1 DEF PollTypes, Answers, KX!Sides
    <2> QED BY <1>4, <2>1, OpenRoomTypes DEF Derived
  <1>5. CASE ItemOpened(p)
    <2>1. doing[p] \in Items
      BY <1>1, <1>5 DEF ItemOpened, PollTypes, Promised, OpeningHasItem
    <2>2. PollTypes'
      BY <1>1, <1>5, GoOnTypes DEF ItemOpened
    <2>3. ViewTypes'
      BY <1>5, <2>1, TypeParts DEF ItemOpened, ViewTypes
    <2> QED BY <1>5, <2>2, <2>3, TypeParts, TypePartsAfter DEF ItemOpened, serverVars, itemVars,
            seatVars, ServerTypes, KX!TypeOK, SeatTypes, PostTypes, PageTypes, ClosedIsOver
  <1> QED BY <1>2, <1>3, <1>4, <1>5 DEF Resume

LEMMA PollTypesKept ==
    ASSUME TypeOK, Promised, NEW p \in Polls,
           PollRoom(p) \/ Serve(p) \/ Lose(p) \/ Receive(p) \/ Resume(p)
    PROVE  TypeOK'
  <1>1. PollTypes
    BY TypeParts
  <1>2. CASE PollRoom(p)
    <2>1. PollTypes'
      BY <1>1, <1>2 DEF PollRoom, Cleared, PollTypes, Places
    <2> QED BY <1>2, <2>1, StayingTypes DEF PollRoom
  <1>3. CASE Serve(p)
    <2>1. PollTypes'
      BY <1>1, <1>3, TypeParts DEF Serve, PollTypes, Places, Answers, ServerTypes, KX!TypeOK
    <2> QED BY <1>3, <2>1, StayingTypes DEF Serve
  <1>4. CASE Lose(p)
    BY <1>1, <1>4, FinishTypes, StayingTypes DEF Lose, Retry
  <1> QED BY <1>2, <1>3, <1>4, ReceiveTypes, ResumeTypes

LEMMA ServerTypesKept ==
    ASSUME TypeOK, ServerAlone
    PROVE  TypeOK'
  <1> USE TypeParts, TypePartsAfter
  <1>1. UNCHANGED <<page, seatVars, viewVars, posts, pollVars, reloads>>
    BY DEF ServerAlone
  <1>2. ServerTypes' /\ (over => over')
    <2> USE DEF ServerTypes, KX!TypeOK
    <2>1. CASE PeerPromises
      BY <2>1 DEF PeerPromises, KX!Promise, KX!Sides, Keys, itemVars
    <2>2. CASE PeerShows
      BY <2>2 DEF PeerShows, KX!Show, KX!Sides, itemVars
    <2>3. CASE RoomEnds
      BY <2>3 DEF RoomEnds, KX!End, KX!Blank, KX!Sides, itemVars
    <2>4. CASE Swap
      BY <2>4 DEF Swap, KX!Sides, Keys, itemVars
    <2>5. CASE \E i \in Items : ItemComes(i) \/ ItemGoes(i)
      BY <2>5 DEF ItemComes, ItemGoes
    <2> QED BY <2>1, <2>2, <2>3, <2>4, <2>5 DEF ServerAlone
  <1> QED BY <1>1, <1>2 DEF seatVars, viewVars, pollVars, SeatTypes, ViewTypes, PollTypes,
          PostTypes, PageTypes, ClosedIsOver

LEMMA PostTypesKept ==
    ASSUME TypeOK, NEW m \in {"commit", "key"} \X MyKeys, HandlePost(m) \/ LosePost(m)
    PROVE  TypeOK'
  <1> USE TypeParts, TypePartsAfter
  <1>1. UNCHANGED <<page, seatVars, viewVars, pollVars, reloads>> /\ posts' = posts \ {m}
    BY DEF HandlePost, LosePost
  <1>2. ServerTypes' /\ (over => over')
    BY DEF HandlePost, LosePost, ServerTypes, KX!TypeOK, KX!Promise, KX!Show, KX!Sides, Keys,
       serverVars, itemVars
  <1> QED BY <1>1, <1>2 DEF seatVars, viewVars, pollVars, SeatTypes, ViewTypes, PollTypes,
          PostTypes, PageTypes, ClosedIsOver

LEMMA PageTypesKept ==
    ASSUME TypeOK, CloseAnswered \/ Load \/ Reload
    PROVE  TypeOK'
  <1>1. CASE CloseAnswered
    <2>1. PollTypes'
      BY <1>1, TypeParts DEF CloseAnswered, pollVars, PollTypes
    <2> QED BY <1>1, <2>1, CloseRoomTypes DEF CloseAnswered, ServerHasClosed
  <1>2. CASE Load
    <2>1. PollTypes'
      BY <1>2, TypeParts DEF Load, PollTypes, Places
    <2>2. SeatTypes'
      BY <1>2, TypeParts DEF Load, SeatTypes, Seats, Keys, SaveFirst, seatVars
    <2> QED BY <1>2, <2>1, <2>2, TypeParts, TypePartsAfter DEF Load, serverVars, itemVars,
            viewVars, ServerTypes, KX!TypeOK, ViewTypes, PostTypes, PageTypes, ClosedIsOver
  <1>3. CASE Reload
    <2>1. PollTypes'
      BY <1>3, NothingTypes, TypeParts DEF Reload, PollTypes, Places
    <2>2. PageTypes'
      BY <1>3, ReloadsAssumption, TypeParts DEF Reload, PageTypes
    <2> QED BY <1>3, <2>1, <2>2, TypeParts, TypePartsAfter DEF Reload, serverVars, itemVars,
            ServerTypes, KX!TypeOK, SeatTypes, ViewTypes, PostTypes, ClosedIsOver
  <1> QED BY <1>1, <1>2, <1>3

-----------------------------------------------------------------------------
(* The invariant.                                                          *)

LEMMA InitPage == Init => PageInv
  <1> SUFFICES ASSUME Init PROVE PageInv
    OBVIOUS
  <1> USE DEF Init, KX!Init
  <1>1. TypeOK
    <2>1. ServerTypes
      BY DEF ServerTypes, KX!TypeOK, KX!Blank
    <2>2. SeatTypes /\ ViewTypes /\ PostTypes /\ ClosedIsOver
      BY NothingTypes DEF SeatTypes, ViewTypes, PostTypes, ClosedIsOver
    <2>3. PollTypes
      BY NothingTypes DEF PollTypes, Places
    <2>4. PageTypes
      BY ReloadsAssumption DEF PageTypes
    <2> QED BY <2>1, <2>2, <2>3, <2>4, TypeParts
  <1>2. /\ SeatIsSaved /\ SeatIsLoaded /\ PostsAreSaved /\ OverIsBlank /\ GoneIsOver
        /\ PollsKnowThePin /\ OpeningHasItem
    BY DEF SeatIsSaved, SeatIsLoaded, PostsAreSaved, OverIsBlank, GoneIsOver, PollsKnowThePin,
       KnowsThePin, OpeningHasItem, Token, NoAnswer
  <1>3. HonestUntilSwapped
    BY DEF HonestUntilSwapped, IsHonest, Token, NoAnswer, KX!Blank, KX!Sides
  <1>4. PublishedKeyIsSaved /\ RevealAfterPin /\ OpenWithPinnedKey /\ AlarmHasCause
    BY DEF PublishedKeyIsSaved, RevealAfterPin, OpenWithPinnedKey, AlarmHasCause, KX!Blank, KX!Sides
  <1> QED BY <1>1, <1>2, <1>3, <1>4 DEF PageInv, Promised

LEMMA StepPage == PageInv /\ [Next]_vars => PageInv'
  <1> SUFFICES ASSUME TypeOK, Promised, [Next]_vars PROVE TypeOK' /\ Promised'
    BY DEF PageInv
  <1>1. CASE ServerAlone
    BY <1>1, ServerTypesKept, ServerKeeps
  <1>2. CASE \E m \in {"commit", "key"} \X MyKeys : HandlePost(m) \/ LosePost(m)
    BY <1>2, PostTypesKept, PostKeeps
  <1>3. ASSUME NEW p \in Polls, PollRoom(p) \/ Serve(p) \/ Lose(p) \/ Receive(p) \/ Resume(p)
        PROVE  TypeOK' /\ Promised'
    <2>1. TypeOK'
      BY <1>3, PollTypesKept
    <2>2. Serve(p) => Promised'
      BY ServeKeeps
    <2>3. PollRoom(p) \/ Lose(p) \/ Receive(p) \/ Resume(p) => PollSteps(p)
      BY WaitingIsOne, ReceiveIsOne, ResumeIsOne
    <2> QED BY <1>3, <2>1, <2>2, <2>3, PollKeeps
  <1>4. CASE CloseAnswered
    BY <1>4, PageTypesKept, AnsweredIsOne, ClosingKeeps
  <1>5. CASE Load
    BY <1>5, PageTypesKept, LoadKeeps
  <1>6. CASE Reload
    BY <1>6, PageTypesKept, ReloadKeeps
  <1>7. CASE UNCHANGED vars
    <2>1. TypeOK'
      BY <1>7, StayingTypes, TypeParts DEF vars, pollVars, PollTypes
    <2>2. Promised'
      BY <1>7 DEF vars, serverVars, seatVars, viewVars, pollVars, Promised, SeatIsSaved,
         SeatIsLoaded, PostsAreSaved, OverIsBlank, GoneIsOver, PollsKnowThePin, KnowsThePin,
         OpeningHasItem, HonestUntilSwapped, IsHonest, PublishedKeyIsSaved, RevealAfterPin,
         OpenWithPinnedKey, AlarmHasCause
    <2> QED BY <2>1, <2>2
  <1> QED BY <1>1, <1>2, <1>3, <1>4, <1>5, <1>6, <1>7 DEF Next

LEMMA AlwaysPage == Spec => []PageInv
  BY InitPage, StepPage, PTL DEF Spec

-----------------------------------------------------------------------------

(* Every variable of the page keeps its type, and a page that has closed   *)
(* has forgotten its seat.                                                 *)
THEOREM TypeCorrect == Spec => []TypeOK
  BY AlwaysPage, PTL DEF PageInv

(* However early the page is left, the key or promise the server has can   *)
(* be found in this browser again: startRoom saves before it polls.        *)
THEOREM PublishedIsSaved == Spec => []PublishedKeyIsSaved
  BY AlwaysPage, PTL DEF PageInv, Promised

(* exchangeKeys shows the key only when the other side's commitment is     *)
(* pinned in storage, however many polls overlap.                          *)
THEOREM RevealsAfterPin == Spec => []RevealAfterPin
  BY AlwaysPage, PTL DEF PageInv, Promised

(* pollRoom opens the room with no key but the one pinned, however many    *)
(* polls overlap and whatever the server tells each.                       *)
THEOREM OpensWithPinned == Spec => []OpenWithPinnedKey
  BY AlwaysPage, PTL DEF PageInv, Promised

(* tampered is never called because an answer was late or a page loaded    *)
(* again: only after the server has changed what it says.                  *)
THEOREM AlarmsHaveCause == Spec => []AlarmHasCause
  BY AlwaysPage, PTL DEF PageInv, Promised

(* The pin in storage is never replaced, only removed with the seat.       *)
LEMMA PinStep ==
    ASSUME PageInv, [Next]_vars
    PROVE  saved.pin # NoKey => saved'.pin = saved.pin \/ ~saved'.held
  <1> USE DEF PageInv
  <1>1. ASSUME NEW p \in Polls, PollSteps(p)
        PROVE  saved.pin # NoKey => saved'.pin = saved.pin \/ ~saved'.held
    <2>1. CASE Pins(p)
      BY <2>1 DEF Pins, Promised, SeatIsSaved, TypeOK, Seats
    <2>2. CASE Closes
      BY <2>2 DEF Closes, CloseRoom, Removed, Nothing
    <2> QED BY <1>1, <2>1, <2>2 DEF PollSteps, Rests, Derives, Opens, Accuses, Commits
  <1>2. CASE ServerAlone
    BY <1>2 DEF ServerAlone, seatVars
  <1>3. CASE \E m \in {"commit", "key"} \X MyKeys : HandlePost(m) \/ LosePost(m)
    BY <1>3 DEF HandlePost, LosePost, seatVars
  <1>4. ASSUME NEW p \in Polls, PollRoom(p) \/ Serve(p) \/ Lose(p) \/ Receive(p) \/ Resume(p)
        PROVE  saved.pin # NoKey => saved'.pin = saved.pin \/ ~saved'.held
    <2>1. CASE Serve(p)
      BY <2>1 DEF Serve, seatVars
    <2>2. PollRoom(p) \/ Lose(p) \/ Receive(p) \/ Resume(p) => PollSteps(p)
      BY WaitingIsOne, ReceiveIsOne, ResumeIsOne
    <2> QED BY <1>1, <1>4, <2>1, <2>2
  <1>5. CASE CloseAnswered
    BY <1>5 DEF CloseAnswered, CloseRoom, Removed, Nothing
  <1>6. CASE Load
    BY <1>6 DEF Load, SaveFirst, seatVars, Promised, SeatIsSaved, TypeOK, Seats
  <1>7. CASE Reload
    BY <1>7 DEF Reload
  <1>8. CASE UNCHANGED vars
    BY <1>8 DEF vars, seatVars
  <1> QED BY <1>2, <1>3, <1>4, <1>5, <1>6, <1>7, <1>8 DEF Next

(* seat.peerCommit, once saved, is not replaced by what a later, or an     *)
(* older, answer says.                                                     *)
THEOREM PinsAreKept == Spec => PinIsKept
  <1>1. PageInv /\ [Next]_vars => [saved.pin # NoKey => saved'.pin = saved.pin \/ ~saved'.held]_vars
    BY PinStep
  <1> QED BY <1>1, AlwaysPage, PTL DEF Spec, PinIsKept

LEMMA PollingStep ==
    ASSUME PageInv, PollingGoesOn, [Next]_vars
    PROVE  PollingGoesOn'
  <1> USE DEF PageInv, PollingGoesOn
  <1>1. ASSUME NEW p \in Polls, PollSteps(p)
        PROVE  PollingGoesOn'
    BY <1>1 DEF PollSteps, Rests, Derives, Opens, Accuses, Commits, Pins, Closes, CloseRoom
  <1>2. CASE ServerAlone
    BY <1>2 DEF ServerAlone, pollVars
  <1>3. CASE \E m \in {"commit", "key"} \X MyKeys : HandlePost(m) \/ LosePost(m)
    BY <1>3 DEF HandlePost, LosePost, pollVars
  <1>4. ASSUME NEW p \in Polls, PollRoom(p) \/ Serve(p) \/ Lose(p) \/ Receive(p) \/ Resume(p)
        PROVE  PollingGoesOn'
    <2>1. CASE Serve(p)
      BY <2>1 DEF Serve, TypeOK
    <2>2. PollRoom(p) \/ Lose(p) \/ Receive(p) \/ Resume(p) => PollSteps(p)
      BY WaitingIsOne, ReceiveIsOne, ResumeIsOne
    <2> QED BY <1>1, <1>4, <2>1, <2>2
  <1>5. CASE CloseAnswered \/ Reload
    BY <1>5 DEF CloseAnswered, CloseRoom, Reload
  <1>6. CASE Load
    BY <1>6 DEF Load, TypeOK
  <1>7. CASE UNCHANGED vars
    BY <1>7 DEF vars, pollVars
  <1> QED BY <1>2, <1>3, <1>4, <1>5, <1>6, <1>7 DEF Next

(* Polls clear each other's timer in pollRoom and in tampered, but on a    *)
(* page that is open one is always left.                                   *)
THEOREM PollsGoOn == Spec => []PollingGoesOn
  <1>1. Init => PollingGoesOn
    BY DEF Init, PollingGoesOn
  <1>2. PageInv /\ PollingGoesOn /\ [Next]_vars => PollingGoesOn'
    BY PollingStep
  <1> QED BY <1>1, <1>2, AlwaysPage, PTL DEF Spec

(* No step of the page or of the network touches what the server holds.    *)
LEMMA PageLeavesServer ==
    ASSUME NEW p \in Polls,
           PollRoom(p) \/ Serve(p) \/ Lose(p) \/ Receive(p) \/ Resume(p)
    PROVE  UNCHANGED serverVars
  BY DEF PollRoom, Serve, Lose, Receive, Resume, PostAnswered, Checked, Derived, ItemOpened

-----------------------------------------------------------------------------
(* Whose key opens the room.                                               *)

(* The room is open for nobody but the other person, the page closed or    *)
(* not.                                                                    *)
OpenForPeer == ~swapped => roomKey \in {NoKey, PeerKey}

LEMMA OpenForPeerStep ==
    ASSUME PageInv, OpenForPeer, [Next]_vars
    PROVE  OpenForPeer'
  <1> USE DEF OpenForPeer, PageInv
  <1>1. ASSUME NEW p \in Polls, PollSteps(p)
        PROVE  OpenForPeer'
    <2>1. CASE Opens(p)
      BY <2>1 DEF Opens, ServerStays, Promised, HonestUntilSwapped, IsHonest
    <2>2. CASE Closes
      BY <2>2 DEF Closes, CloseRoom
    <2> QED BY <1>1, <2>1, <2>2 DEF PollSteps, Rests, Derives, Accuses, Commits, Pins, ServerStays
  <1>2. CASE ServerAlone
    <2>1. swapped => swapped'
      BY <1>2 DEF ServerAlone, PeerPromises, PeerShows, RoomEnds, Swap, ItemComes, ItemGoes
    <2> QED BY <1>2, <2>1 DEF ServerAlone, viewVars
  <1>3. CASE \E m \in {"commit", "key"} \X MyKeys : HandlePost(m) \/ LosePost(m)
    BY <1>3 DEF HandlePost, LosePost, viewVars, serverVars
  <1>4. ASSUME NEW p \in Polls, PollRoom(p) \/ Serve(p) \/ Lose(p) \/ Receive(p) \/ Resume(p)
        PROVE  OpenForPeer'
    <2>1. CASE Serve(p)
      BY <2>1 DEF Serve, viewVars, serverVars
    <2>2. PollRoom(p) \/ Lose(p) \/ Receive(p) \/ Resume(p) => PollSteps(p)
      BY WaitingIsOne, ReceiveIsOne, ResumeIsOne
    <2> QED BY <1>1, <1>4, <2>1, <2>2
  <1>5. CASE CloseAnswered \/ Load \/ Reload
    BY <1>5 DEF CloseAnswered, CloseRoom, Load, Reload, serverVars, viewVars
  <1>6. CASE UNCHANGED vars
    BY <1>6 DEF vars, serverVars, viewVars
  <1> QED BY <1>2, <1>3, <1>4, <1>5, <1>6 DEF Next

(* Through answers that overtake each other, lost posts and pages loaded   *)
(* again, the safety code on the page is that of the other person's own    *)
(* key: deriveRoomKey is given no other before the server lies.            *)
THEOREM OpensForPeer == Spec => []OpenForPeer
  <1>1. Init => OpenForPeer
    BY DEF Init, OpenForPeer
  <1>2. PageInv /\ OpenForPeer /\ [Next]_vars => OpenForPeer'
    BY OpenForPeerStep
  <1> QED BY <1>1, <1>2, AlwaysPage, PTL DEF Spec

(* A page whose server cannot lie never calls tampered, and never opens    *)
(* the room for anybody but the other person.                              *)
THEOREM HonestServerNoAlarm ==
    ASSUME ~CanSwap
    PROVE  Spec => [](page # "alarm" /\ roomKey \in {NoKey, PeerKey})
  <1> DEFINE Honest == ~swapped
  <1>1. Init => Honest
    BY DEF Init
  <1>2. Honest /\ [Next]_vars => Honest'
    <2>1. ~Swap
      BY DEF Swap
    <2>2. ServerAlone => UNCHANGED swapped
      BY <2>1 DEF ServerAlone, PeerPromises, PeerShows, RoomEnds, ItemComes, ItemGoes
    <2>3. \A p \in Polls :
              PollRoom(p) \/ Serve(p) \/ Lose(p) \/ Receive(p) \/ Resume(p) => UNCHANGED swapped
      BY PageLeavesServer DEF serverVars
    <2> QED BY <2>2, <2>3 DEF Next, HandlePost, LosePost, CloseAnswered, Load, Reload, vars, serverVars
  <1>3. PageInv /\ OpenForPeer /\ Honest => page # "alarm" /\ roomKey \in {NoKey, PeerKey}
    BY DEF PageInv, Promised, AlarmHasCause, OpenForPeer
  <1> HIDE DEF Honest
  <1> QED BY <1>1, <1>2, <1>3, AlwaysPage, OpensForPeer, PTL DEF Spec

-----------------------------------------------------------------------------
(* What can show on a page that has closed.                                *)

(* A page that goes blank stays so, unless a poll that was past its last   *)
(* look at roomClosed puts something back.                                 *)
LateOpening(p) == page = "closed" /\ (Derived(p) \/ ItemOpened(p))
ShowsAgain ==
    ClosedPageIsBlank => ClosedPageIsBlank' \/ \E p \in Polls : LateOpening(p)
OnlyLateOpeningsShow == [][ShowsAgain]_vars

(* A page is closed in one way, and it blanks it; after that a poll that   *)
(* neither derives nor opens leaves what is seen alone.                    *)
LEMMA PollShows ==
    ASSUME PageInv, NEW p \in Polls,
           PollRoom(p) \/ Serve(p) \/ Lose(p) \/ Receive(p) \/ Resume(p)
    PROVE  \/ page' # "closed"
           \/ CloseRoom
           \/ page = "closed" /\ UNCHANGED <<roomKey, listed, stray>> /\ live' \in {live, FALSE}
           \/ LateOpening(p)
  <1>1. CASE PollRoom(p) \/ Serve(p) \/ Lose(p) \/ PostAnswered(p)
    BY <1>1 DEF PollRoom, Serve, Lose, PostAnswered, viewVars
  <1>2. CASE Receive(p)
    <2>1. CASE page = "closed"
      <3>1. ~seat.held
        BY <2>1 DEF PageInv, TypeOK, Nothing
      <3> QED BY <1>2, <2>1, <3>1 DEF Receive, viewVars
    <2>2. CASE page # "closed"
      <3>1. PollSteps(p)
        BY <1>2, ReceiveIsOne DEF PageInv
      <3> QED BY <2>2, <3>1 DEF PollSteps, Rests, Derives, Opens, Accuses, Commits, Pins, Closes
    <2> QED BY <2>1, <2>2
  <1>3. CASE Checked(p)
    <2>1. CASE page = "closed"
      BY <1>3, <2>1 DEF Checked, Rendered, Ended, Alarm, viewVars
    <2>2. CASE page # "closed"
      <3>1. PollSteps(p)
        BY <1>3, ResumeIsOne DEF PageInv, Resume
      <3> QED BY <2>2, <3>1 DEF PollSteps, Rests, Derives, Opens, Accuses, Commits, Pins, Closes
    <2> QED BY <2>1, <2>2
  <1>4. CASE Derived(p) \/ ItemOpened(p)
    BY <1>4 DEF Derived, OpenRoom, ItemOpened, LateOpening
  <1> QED BY <1>1, <1>2, <1>3, <1>4 DEF Resume

LEMMA ShowsAgainStep ==
    ASSUME PageInv, [Next]_vars
    PROVE  ShowsAgain \/ UNCHANGED vars
  <1> USE DEF ShowsAgain, ClosedPageIsBlank
  <1>1. CASE ServerAlone
    BY <1>1 DEF ServerAlone, viewVars
  <1>2. CASE \E m \in {"commit", "key"} \X MyKeys : HandlePost(m) \/ LosePost(m)
    BY <1>2 DEF HandlePost, LosePost, viewVars
  <1>3. ASSUME NEW p \in Polls, PollRoom(p) \/ Serve(p) \/ Lose(p) \/ Receive(p) \/ Resume(p)
        PROVE  ShowsAgain
    BY <1>3, PollShows DEF CloseRoom
  <1>4. CASE CloseAnswered
    BY <1>4 DEF CloseAnswered, CloseRoom
  <1>5. CASE Load \/ Reload
    BY <1>5 DEF Load, Reload
  <1> QED BY <1>1, <1>2, <1>3, <1>4, <1>5 DEF Next

(* "Whatever way a room ends, nothing about it may stay on the page" fails *)
(* in one way only: renderRoom, or its loop over the items, goes on after  *)
(* an await that closeRoom came into.                                      *)
THEOREM LateOpeningsShow == Spec => OnlyLateOpeningsShow
  <1>1. PageInv /\ [Next]_vars => [ShowsAgain]_vars
    BY ShowsAgainStep
  <1> QED BY <1>1, AlwaysPage, PTL DEF Spec, OnlyLateOpeningsShow

(* A page closed while no poll derives or opens.                           *)
LeftClean ==
    /\ page = "closed" /\ ClosedPageIsBlank
    /\ \A p \in Polls : at[p] \notin {"deriving", "opening"}

LEMMA LeftCleanStep ==
    ASSUME PageInv, LeftClean, [Next]_vars
    PROVE  LeftClean'
  <1> USE DEF LeftClean, ClosedPageIsBlank
  <1>1. PollTypes /\ ~seat.held /\ ~saved.held
    BY TypeParts DEF PageInv, TypeOK, Nothing
  <1>2. CASE ServerAlone
    BY <1>2 DEF ServerAlone, viewVars, pollVars
  <1>3. CASE \E m \in {"commit", "key"} \X MyKeys : HandlePost(m) \/ LosePost(m)
    BY <1>3 DEF HandlePost, LosePost, viewVars, pollVars
  <1>4. ASSUME NEW p \in Polls, Finish(p), UNCHANGED <<page, viewVars>>
        PROVE  LeftClean'
    BY <1>1, <1>4, FinishRests DEF Others, viewVars
  <1>5. ASSUME NEW p \in Polls, Alarm(p)
        PROVE  LeftClean'
    BY <1>1, <1>5 DEF Alarm, Cleared, PollTypes
  <1>6. ASSUME NEW p \in Polls, PollRoom(p) \/ Serve(p)
        PROVE  LeftClean'
    BY <1>1, <1>6 DEF PollRoom, Serve, Cleared, Ended, PollTypes, viewVars
  <1>7. ASSUME NEW p \in Polls, Lose(p) \/ PostAnswered(p)
        PROVE  LeftClean'
    BY <1>4, <1>7 DEF Lose, Retry, PostAnswered
  <1>8. ASSUME NEW p \in Polls, Receive(p)
        PROVE  LeftClean'
    BY <1>1, <1>4, <1>8 DEF Receive, CloseRoom, PollTypes
  <1>9. ASSUME NEW p \in Polls, Checked(p)
        PROVE  LeftClean'
    BY <1>4, <1>5, <1>9 DEF Checked, Rendered, Ended, viewVars
  <1>10. ASSUME NEW p \in Polls
         PROVE  ~Derived(p) /\ ~ItemOpened(p)
    BY DEF Derived, ItemOpened
  <1>11. ~CloseAnswered /\ ~Load /\ ~Reload
    BY <1>1 DEF CloseAnswered, Load, Reload
  <1>12. CASE UNCHANGED vars
    BY <1>12 DEF vars, viewVars, pollVars
  <1> QED BY <1>2, <1>3, <1>6, <1>7, <1>8, <1>9, <1>10, <1>11, <1>12 DEF Next, Resume

(* So a page that closed while no poll was past that look is blank for     *)
(* good, whatever answers are still on their way.                          *)
THEOREM CleanPageStaysBlank == Spec => [](LeftClean => [](page = "closed" /\ ClosedPageIsBlank))
  <1>1. PageInv /\ LeftClean /\ [Next]_vars => LeftClean'
    BY LeftCleanStep
  <1>2. LeftClean => page = "closed" /\ ClosedPageIsBlank
    BY DEF LeftClean
  <1> QED BY <1>1, <1>2, AlwaysPage, PTL DEF Spec

-----------------------------------------------------------------------------
(* What can show on a page that has raised alarm.                          *)

LEMMA RefusesStep ==
    ASSUME [Next]_vars
    PROVE  Refusing => Refusing' \/ \E p \in Polls : LateDerivation(p)
  <1> SUFFICES ASSUME page = "alarm" => ~live
               PROVE  (page' = "alarm" => ~live') \/ \E p \in Polls : LateDerivation(p)
    BY DEF Refusing
  <1>1. CASE ServerAlone
    BY <1>1 DEF ServerAlone, viewVars
  <1>2. CASE \E m \in {"commit", "key"} \X MyKeys : HandlePost(m) \/ LosePost(m)
    BY <1>2 DEF HandlePost, LosePost, viewVars
  <1>3. ASSUME NEW p \in Polls, Rendered(p, TRUE) \/ Rendered(p, FALSE)
        PROVE  page' = "alarm" => ~live'
    BY <1>3 DEF Rendered, OpenRoom, Ended, viewVars
  <1>4. ASSUME NEW p \in Polls, ExchangeKeys(p)
        PROVE  page' = "alarm" => ~live'
    BY <1>3, <1>4 DEF ExchangeKeys, Post, AfterPin, Alarm, viewVars
  <1>5. ASSUME NEW p \in Polls, PollRoom(p) \/ Serve(p) \/ Lose(p) \/ Receive(p) \/ PostAnswered(p)
        PROVE  page' = "alarm" => ~live'
    BY <1>4, <1>5 DEF PollRoom, Serve, Lose, Receive, CloseRoom, PostAnswered, viewVars
  <1>6. ASSUME NEW p \in Polls, Checked(p) \/ ItemOpened(p)
        PROVE  page' = "alarm" => ~live'
    BY <1>3, <1>6 DEF Checked, Alarm, ItemOpened
  <1>7. ASSUME NEW p \in Polls, Derived(p)
        PROVE  (page' = "alarm" => ~live') \/ LateDerivation(p)
    BY <1>7 DEF Derived, OpenRoom, LateDerivation
  <1>8. CASE CloseAnswered \/ Load \/ Reload
    BY <1>8 DEF CloseAnswered, CloseRoom, Load, Reload, viewVars
  <1>9. CASE UNCHANGED vars
    BY <1>9 DEF vars, viewVars
  <1> QED BY <1>1, <1>2, <1>5, <1>6, <1>7, <1>8, <1>9 DEF Next, Resume

(* An alarmed page displays the room again in one way only: a poll that    *)
(* awaited deriveRoomKey in renderRoom when another called tampered.       *)
THEOREM AlarmedPagesRefuse == Spec => AlarmedPageRefuses
  <1>1. [Next]_vars => [Refusing => Refusing' \/ \E p \in Polls : LateDerivation(p)]_vars
    BY RefusesStep
  <1> QED BY <1>1, PTL DEF Spec, AlarmedPageRefuses
=============================================================================
