------------------------------ MODULE RoomPage ------------------------------
(***************************************************************************)
(* The room's page in one person's browser (the room part of the script    *)
(* in src/templates/result.html), over a server that keeps the promise of  *)
(* module KeyExchange; the person has seat "a".                            *)
(*                                                                         *)
(* The script runs one step at a time and gives way at every await.  Its   *)
(* timer, the return to the tab and the person's own actions each start a  *)
(* poll, so several can be under way, each with the answer it was given;   *)
(* answers overtake each other.  What outlives the page is the seat in     *)
(* localStorage.  A commitment is abstracted to the key it is for.         *)
(*                                                                         *)
(* Left out: notices, the video panel, what is typed in, seats older than  *)
(* commitments, other tabs, a localStorage that refuses to store.          *)
(***************************************************************************)
EXTENDS Naturals, FiniteSets

CONSTANTS
    MyKeys,     \* what generateIdentity may return
    PeerKey,    \* the key of the other person
    OtherKey,   \* a key that is neither's
    NoKey,
    Items,      \* the ids of shared items
    Polls,      \* the polls that may be under way at once
    MaxReloads, \* how often the page is loaded again at most
    CanSwap     \* the server may change what it says of the other person

Keys == MyKeys \cup {PeerKey, OtherKey}

ASSUME KeysAssumption == NoKey \notin Keys
ASSUME ItemsAssumption == Items \subseteq Nat \ {0}
ASSUME ReloadsAssumption == MaxReloads \in Nat

VARIABLES
    promise, shown, over,   \* the server's side, as in KeyExchange
    posted,     \* the items in the room, deleted ones included
    deleted,    \* the items deleted again
    swapped,    \* (history) the server has changed its mind
    page,       \* "loading", "open", "closed" or "alarm"; roomClosed in the last two
    seat,       \* seat.publicB64 (with its private key) and seat.peerCommit
    saved,      \* the seat in localStorage
    roomKey,    \* the key of the other person that roomKey was derived from
    live,       \* room-live is displayed
    listed,     \* the items that "shown" maps to their boxes
    stray,      \* items with a box in the page that "shown" does not know
    posts,      \* POST /commit and POST /key on their way
    at, snap,   \* where each poll is, and the answer it was given
    doing,      \* the item it decrypts
    roomTimer,  \* the poll that was last put on a timer
    reloads

KX == INSTANCE KeyExchange

itemVars == <<posted, deleted>>
serverVars == <<promise, shown, over, itemVars, swapped>>
seatVars == <<seat, saved>>
viewVars == <<roomKey, live, listed, stray>>
pollVars == <<at, snap, doing, roomTimer>>
vars == <<serverVars, page, seatVars, viewVars, posts, pollVars, reloads>>

Nothing == [key |-> NoKey, pin |-> NoKey, held |-> FALSE]
Token   == [key |-> NoKey, pin |-> NoKey, held |-> TRUE]
Seats   == [key : Keys \cup {NoKey}, pin : Keys \cup {NoKey}, held : BOOLEAN]

Answers == [promise : [KX!Sides -> Keys \cup {NoKey}],
            shown : [KX!Sides -> Keys \cup {NoKey}],
            items : SUBSET Items, gone : BOOLEAN]
NoAnswer == [promise |-> KX!Blank, shown |-> KX!Blank, items |-> {}, gone |-> FALSE]
NoItem == 0

TypeOK ==
    /\ KX!TypeOK
    /\ posted \in SUBSET Items /\ deleted \in SUBSET posted
    /\ swapped \in BOOLEAN
    /\ page \in {"loading", "open", "closed", "alarm"}
    /\ seat \in Seats /\ saved \in Seats
    /\ roomKey \in Keys \cup {NoKey}
    /\ live \in BOOLEAN
    /\ listed \in SUBSET Items /\ stray \in SUBSET Items
    /\ posts \in SUBSET ({"commit", "key"} \X MyKeys)
    /\ at \in [Polls -> {"idle", "timer", "asked", "answered", "posting", "checking",
                         "deriving", "opening"}]
    /\ snap \in [Polls -> Answers]
    /\ doing \in [Polls -> Items \cup {NoItem}]
    /\ roomTimer \in Polls
    /\ reloads \in 0 .. MaxReloads
    /\ page = "closed" => over /\ seat = Nothing /\ saved = Nothing

Init ==
    /\ KX!Init
    /\ posted = {} /\ deleted = {}
    /\ swapped = FALSE
    /\ page = "loading"
    /\ seat = Token /\ saved = Token
    /\ roomKey = NoKey /\ live = FALSE
    /\ listed = {} /\ stray = {}
    /\ posts = {}
    /\ at = [p \in Polls |-> "idle"]
    /\ snap = [p \in Polls |-> NoAnswer]
    /\ doing = [p \in Polls |-> NoItem]
    /\ roomTimer \in Polls
    /\ reloads = 0

-----------------------------------------------------------------------------
(* The server.                                                             *)

PeerPromises == KX!Promise("b", PeerKey) /\ UNCHANGED <<itemVars, swapped>>
PeerShows    == KX!Show("b") /\ UNCHANGED <<itemVars, swapped>>

(* Somebody closes the room, or it expires.                                *)
RoomEnds == ~over /\ KX!End /\ UNCHANGED <<itemVars, swapped>>

ItemComes(i) ==
    /\ ~over /\ i \notin posted
    /\ \A s \in KX!Sides : shown[s] # NoKey
    /\ posted' = posted \cup {i}
    /\ UNCHANGED <<promise, shown, over, deleted, swapped>>

ItemGoes(i) ==
    /\ ~over /\ i \in posted \ deleted
    /\ deleted' = deleted \cup {i}
    /\ UNCHANGED <<promise, shown, over, posted, swapped>>

(* From now on the server gives another key, or commitment, for the other  *)
(* person's.                                                               *)
Swap ==
    /\ CanSwap /\ ~swapped /\ ~over
    /\ \/ /\ promise["b"] # NoKey
          /\ promise' = [promise EXCEPT !["b"] = OtherKey]
          /\ UNCHANGED shown
       \/ /\ shown["b"] # NoKey
          /\ shown' = [shown EXCEPT !["b"] = OtherKey]
          /\ UNCHANGED promise
    /\ swapped' = TRUE
    /\ UNCHANGED <<over, itemVars>>

ServerAlone ==
    /\ \/ PeerPromises \/ PeerShows \/ RoomEnds \/ Swap
       \/ \E i \in Items : ItemComes(i) \/ ItemGoes(i)
    /\ UNCHANGED <<page, seatVars, viewVars, posts, pollVars, reloads>>

(* POST /commit and POST /key; refused or lost, they leave nothing.        *)
HandlePost(m) ==
    /\ m \in posts
    /\ posts' = posts \ {m}
    /\ \/ m[1] = "commit" /\ KX!Promise("a", m[2])
       \/ m[1] = "key" /\ promise["a"] = m[2] /\ KX!Show("a")
    /\ UNCHANGED <<itemVars, swapped, page, seatVars, viewVars, pollVars, reloads>>

LosePost(m) ==
    /\ m \in posts
    /\ posts' = posts \ {m}
    /\ UNCHANGED <<serverVars, page, seatVars, viewVars, pollVars, reloads>>

(* GET /room                                                               *)
Serve(p) ==
    /\ at[p] = "asked"
    /\ at' = [at EXCEPT ![p] = "answered"]
    /\ snap' = [snap EXCEPT ![p] =
          [promise |-> promise, shown |-> shown, items |-> posted \ deleted, gone |-> over]]
    /\ UNCHANGED <<serverVars, page, seatVars, viewVars, posts, doing, roomTimer, reloads>>

-----------------------------------------------------------------------------
(* Polls come and go.                                                      *)

OnlyClosed == page = "closed"                           \* mutant
Ended == page \in {"closed", "alarm"}

(* clearTimeout(roomTimer)                                                 *)
Cleared(q) == IF q = roomTimer /\ at[q] = "timer" THEN "idle" ELSE at[q]

(* pollRoom, from its timer or called by pollRoomNow.                      *)
MayEnter(p) == at[p] = "timer" \/ (at[p] = "idle" /\ page = "open")

PollRoom(p) ==
    /\ MayEnter(p)
    /\ at' = [q \in Polls |->
                 IF q # p THEN Cleared(q) ELSE IF Ended THEN "idle" ELSE "asked"]
    /\ UNCHANGED <<serverVars, page, seatVars, viewVars, posts, snap, doing, roomTimer, reloads>>

(* roomTimer = setTimeout(pollRoom, 3000)                                  *)
Finished(p) ==
    /\ snap' = [snap EXCEPT ![p] = NoAnswer]
    /\ doing' = [doing EXCEPT ![p] = NoItem]
    /\ roomTimer' = p
Finish(p) == at' = [at EXCEPT ![p] = "timer"] /\ Finished(p)

Await(p, where) ==
    /\ at' = [at EXCEPT ![p] = where]
    /\ UNCHANGED <<snap, doing, roomTimer>>

GiveUp(p) == at' = [at EXCEPT ![p] = "idle"] /\ Finished(p)    \* mutant
Retry(p)  == Finish(p)

(* Offline, or an answer that is none.                                     *)
Lose(p) ==
    /\ at[p] \in {"asked", "answered"}
    /\ Retry(p)
    /\ UNCHANGED <<serverVars, page, seatVars, viewVars, posts, reloads>>

-----------------------------------------------------------------------------
(* closeRoom                                                               *)
KeptInStorage == saved                                  \* mutant
Removed == Nothing

CloseRoom ==
    /\ page' = "closed"
    /\ seat' = Nothing /\ saved' = Removed
    /\ roomKey' = NoKey /\ live' = FALSE
    /\ listed' = {} /\ stray' = {}

(* The answer to the person's own POST /close: done, or 410.  The button   *)
(* is in room-live, so the page has had a room key since it was loaded.    *)
WhateverTheAnswer == TRUE                               \* mutant
ServerHasClosed == over

CloseAnswered ==
    /\ ServerHasClosed /\ page \in {"open", "alarm"} /\ roomKey # NoKey
    /\ CloseRoom
    /\ UNCHANGED <<serverVars, posts, pollVars, reloads>>

(* tampered: the timer goes, the poll that found it sets one more.         *)
Alarm(p) ==
    /\ page' = (IF page = "closed" THEN page ELSE "alarm")
    /\ live' = FALSE
    /\ at' = [q \in Polls |-> IF q = p THEN "timer" ELSE Cleared(q)]
    /\ Finished(p)
    /\ UNCHANGED <<seatVars, roomKey, listed, stray, posts>>

(* renderRoom from where the items are looked through; from is the item    *)
(* done last.                                                              *)
NextItem(p, from, have) == {i \in snap[p].items \ have : i > from}
GoOn(p, from, have) ==
    LET rest == NextItem(p, from, have) IN
    IF rest = {} THEN Finish(p)
    ELSE /\ doing' = [doing EXCEPT ![p] = CHOOSE i \in rest : \A j \in rest : i <= j]
         /\ at' = [at EXCEPT ![p] = "opening"]
         /\ UNCHANGED <<snap, roomTimer>>

AllListed(p) == listed                                  \* mutant
StillThere(p) == listed \cap snap[p].items

OpenRoom(p) ==
    /\ live' = TRUE
    /\ listed' = StillThere(p)
    /\ GoOn(p, NoItem, StillThere(p))
    /\ UNCHANGED <<page, stray>>

(* renderRoom after exchangeKeys.                                          *)
Rendered(p, exchanged) ==
    LET peer == snap[p].shown["b"] IN
    /\ UNCHANGED <<seatVars, posts>>
    /\ IF Ended \/ (~exchanged /\ snap[p].shown["a"] = NoKey)
       THEN Finish(p) /\ UNCHANGED <<page, viewVars>>
       ELSE IF ~exchanged \/ peer = NoKey
       THEN live' = FALSE /\ Finish(p) /\ UNCHANGED <<page, roomKey, listed, stray>>
       ELSE IF roomKey # peer
       THEN Await(p, "deriving") /\ UNCHANGED <<page, viewVars>>
       ELSE OpenRoom(p) /\ UNCHANGED roomKey

Post(p, kind) ==
    /\ posts' = posts \cup {<<kind, seat.key>>}
    /\ Await(p, "posting")
    /\ UNCHANGED <<page, viewVars>>

(* exchangeKeys once the other side's commitment is pinned.                *)
AfterPin(p, mine) ==
    IF mine = NoKey THEN Post(p, "key")
    ELSE /\ UNCHANGED <<page, viewVars, posts>>
         /\ Await(p, "checking")

(* seat.peerCommit is set once, and saved.  saveSeat swallows a failure of *)
(* setItem; here storage works.                                            *)
PinLatest(pin, said) == said                            \* mutant
PinFirst(pin, said)  == IF pin = NoKey THEN said ELSE pin

InMemoryOnly(pin) == saved                              \* mutant
SaveSeat(pin) == IF pin = seat.pin THEN saved ELSE [seat EXCEPT !.pin = pin]

ExchangeKeys(p) ==
    LET mine == snap[p].shown["a"]
        said == snap[p].promise["b"]
        pin  == PinFirst(seat.pin, said)
    IN  IF mine \notin {NoKey, seat.key}
        THEN Rendered(p, FALSE)
        ELSE IF snap[p].promise["a"] = NoKey
        THEN Post(p, "commit") /\ UNCHANGED seatVars
        ELSE IF said = NoKey
        THEN Rendered(p, FALSE)
        ELSE IF pin # said
        THEN Alarm(p)
        ELSE /\ seat' = [seat EXCEPT !.pin = pin]
             /\ saved' = SaveSeat(pin)
             /\ AfterPin(p, mine)

(* pollRoom when the answer is there.  After closeRoom there is no seat,   *)
(* and reading it throws.                                                  *)
Receive(p) ==
    /\ at[p] = "answered"
    /\ IF snap[p].gone
       THEN /\ CloseRoom
            /\ at' = [at EXCEPT ![p] = "idle"]
            /\ snap' = [snap EXCEPT ![p] = NoAnswer]
            /\ UNCHANGED <<posts, doing, roomTimer>>
       ELSE IF ~seat.held
       THEN Finish(p) /\ UNCHANGED <<page, seatVars, viewVars, posts>>
       ELSE ExchangeKeys(p)
    /\ UNCHANGED <<serverVars, reloads>>

(* The POST was answered, or failed: the exchange goes on with the next    *)
(* poll.                                                                   *)
PostAnswered(p) ==
    LET kind == IF snap[p].promise["a"] = NoKey THEN "commit" ELSE "key" IN
    /\ at[p] = "posting"
    /\ \A k \in MyKeys : <<kind, k>> \notin posts
    /\ Finish(p)
    /\ UNCHANGED <<serverVars, page, seatVars, viewVars, posts, reloads>>

(* keyMatchesCommitment has decided.                                       *)
AnyKey(p) == TRUE                                       \* mutant
KeyMustBeThere(p) == snap[p].shown["b"] = snap[p].promise["b"]  \* mutant
KeyIsThePinned(p) == snap[p].shown["b"] \in {NoKey, snap[p].promise["b"]}

Checked(p) ==
    /\ at[p] = "checking"
    /\ IF KeyIsThePinned(p) THEN Rendered(p, TRUE) ELSE Alarm(p)
    /\ UNCHANGED <<serverVars, reloads>>

(* deriveRoomKey and safetyCode, two awaits taken as one, are done.        *)
Derived(p) ==
    /\ at[p] = "deriving"
    /\ roomKey' = snap[p].shown["b"]
    /\ OpenRoom(p)
    /\ UNCHANGED <<serverVars, seatVars, posts, reloads>>

(* One item is decrypted, or cannot be, and its box is put on the page.    *)
ItemOpened(p) ==
    LET i == doing[p] IN
    /\ at[p] = "opening"
    /\ listed' = listed \cup {i}
    /\ stray' = stray \cup ({i} \cap listed)
    /\ GoOn(p, i, listed \cup {i})
    /\ UNCHANGED <<serverVars, page, seatVars, roomKey, live, posts, reloads>>

-----------------------------------------------------------------------------
(* startRoom                                                               *)
PollFirst(k) == seat                                    \* mutant
SaveFirst(k) == [seat EXCEPT !.key = k]

Load ==
    /\ page = "loading"
    /\ page' = "open"
    /\ IF seat.key = NoKey
       THEN \E k \in MyKeys : seat' = [seat EXCEPT !.key = k] /\ saved' = SaveFirst(k)
       ELSE UNCHANGED seatVars
    /\ \E p \in Polls : at' = [at EXCEPT ![p] = "asked"]
    /\ UNCHANGED <<serverVars, viewVars, posts, snap, doing, roomTimer, reloads>>

(* The page is loaded again, by the person or after a crash.               *)
Reload ==
    /\ reloads < MaxReloads /\ saved.held
    /\ reloads' = reloads + 1
    /\ page' = "loading"
    /\ seat' = saved
    /\ roomKey' = NoKey /\ live' = FALSE
    /\ listed' = {} /\ stray' = {}
    /\ at' = [p \in Polls |-> "idle"]
    /\ snap' = [p \in Polls |-> NoAnswer]
    /\ doing' = [p \in Polls |-> NoItem]
    /\ UNCHANGED <<serverVars, saved, posts, roomTimer>>

Resume(p) == PostAnswered(p) \/ Checked(p) \/ Derived(p) \/ ItemOpened(p)

Next ==
    \/ ServerAlone
    \/ \E m \in {"commit", "key"} \X MyKeys : HandlePost(m) \/ LosePost(m)
    \/ \E p \in Polls : PollRoom(p) \/ Serve(p) \/ Lose(p) \/ Receive(p) \/ Resume(p)
    \/ CloseAnswered
    \/ Load
    \/ Reload

Spec == Init /\ [][Next]_vars

(* Timers fire and scripts run on; of requests made again and again some   *)
(* get through; the other person's page does its part.                     *)
FairSpec ==
    /\ Spec
    /\ WF_vars(Load)
    /\ WF_vars(ServerAlone /\ (PeerPromises \/ PeerShows))
    /\ \A kind \in {"commit", "key"} : SF_vars(\E k \in MyKeys : HandlePost(<<kind, k>>))
    /\ WF_vars(\E m \in {"commit", "key"} \X MyKeys : LosePost(m))
    /\ WF_vars(\E p \in Polls : at[p] = "timer" /\ PollRoom(p))
    /\ SF_vars(\E p \in Polls : Serve(p))
    /\ SF_vars(\E p \in Polls : Receive(p))
    /\ WF_vars(\E p \in Polls : Resume(p))

-----------------------------------------------------------------------------
(* Properties.                                                             *)

(* The key, or the promise of it, that the server has can be found in this *)
(* browser again, however early the page was left: startRoom saves before  *)
(* it polls.                                                               *)
PublishedKeyIsSaved == promise["a"] # NoKey => saved.key = promise["a"]

(* "Commit, see the other side's commitment and pin it, reveal": whatever  *)
(* polls overlap and whenever the page is left, the key is on the server   *)
(* only when the pin is in storage.                                        *)
RevealAfterPin == shown["a"] # NoKey => saved.pin # NoKey

(* The pin is never replaced, only removed with the seat.                  *)
PinIsKept == [][saved.pin # NoKey => saved'.pin = saved.pin \/ ~saved'.held]_vars

(* The room opens with no key but the one pinned, whatever the server says *)
(* first, later, or to another poll.                                       *)
OpenWithPinnedKey ==
    page # "closed" /\ roomKey # NoKey => roomKey = saved.pin

(* No false alarm: stale answers and reloads alone never make the page     *)
(* accuse somebody of tampering.                                           *)
AlarmHasCause == page = "alarm" => swapped

(* Polls that clear each other's timer never clear the last.               *)
PollingGoesOn == page = "open" => \E p \in Polls : at[p] # "idle"

(* "Both browsers learn of it on their next poll, clear the room from the  *)
(* screen and delete their private key": unless the page has raised alarm  *)
(* and stopped, an ended room's key does not stay in storage.              *)
ClosingIsLearned == over ~> (~saved.held \/ page = "alarm")

(* The exchange gets through, and the page comes to list what the room     *)
(* holds, whatever answers came late.                                      *)
PageCatchesUp ==
    <>[](over \/ swapped \/ (live /\ listed = posted \ deleted))

(* "If the page itself detects a key that does not match its commitment,   *)
(* it refuses to continue": once tampered was called no poll displays the  *)
(* room, unless it was past its last look at roomClosed by then.           *)
Refusing == page = "alarm" => ~live
LateDerivation(p) == page = "alarm" /\ Derived(p)
AlarmedPageRefuses ==
    [][Refusing => Refusing' \/ \E p \in Polls : LateDerivation(p)]_vars

(* "Whatever way a room ends, nothing about it may stay on the page."      *)
ClosedPageIsBlank ==
    page = "closed" => ~live /\ roomKey = NoKey /\ listed = {} /\ stray = {}
=============================================================================
