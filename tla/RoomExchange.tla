---------------------------- MODULE RoomExchange ----------------------------
(***************************************************************************)
(* What two verified people do in a room: publish a commitment, reveal the *)
(* key it was made for, pass each other items (verifier/blueprints/room.py *)
(* without its video part), and what close_room and purge_expired leave of *)
(* it.                                                                     *)
(*                                                                         *)
(* A handler reads the row once, in _authorize, and judges by that copy;   *)
(* then it marks its caller as present and does its own statement, each in *)
(* a transaction of its own.  The room starts with both people seated.  A  *)
(* worker handles one request after another.  A commitment is named after  *)
(* the key it is the hash of, and a malformed body is a poll.              *)
(***************************************************************************)
EXTENDS RoomLife

CONSTANTS
    Workers,    \* the processes that handle requests
    Keys,       \* the public keys browsers make
    NoKey,      \* a NULL commitment or key
    MaxItems    \* MAX_ITEMS_PER_ROOM

ASSUME NoKeyAssumption == NoKey \notin Keys
ASSUME MaxItemsAssumption == MaxItems \in Nat \ {0}

Slots == {"a", "b"}
Peer(s) == IF s = "a" THEN "b" ELSE "a"
Kinds == {"commit", "key", "add", "delete", "poll", "close"}

VARIABLES
    commit,     \* a_commit, b_commit
    pub,        \* a_pub, b_pub
    seen,       \* whose seen_at is not NULL
    items,      \* how many rows of room_items have this room's code
    pc, kind, side, key,
    fit,        \* what the row that was read lets the request go on to do
    held        \* the row that was read already holds what the request sends

rowVars == <<commit, pub, seen>>
reqVars == <<pc, kind, side, key, fit, held>>
vars == <<lifeVars, rowVars, items, reqVars>>

InFlight == {"touch", "work", "insert", "closing"}
Blank == [s \in Slots |-> NoKey]

TypeOK ==
    /\ LifeTypeOK
    /\ commit \in [Slots -> Keys \cup {NoKey}]
    /\ pub \in [Slots -> Keys \cup {NoKey}]
    /\ seen \in SUBSET Slots
    /\ items \in Nat
    /\ pc \in [Workers -> {"idle", "ok"} \cup InFlight]
    /\ kind \in [Workers -> Kinds]
    /\ side \in [Workers -> Slots]
    /\ key \in [Workers -> Keys \cup {NoKey}]
    /\ fit \in [Workers -> BOOLEAN]
    /\ held \in [Workers -> BOOLEAN]

Init ==
    /\ Open
    /\ commit = Blank /\ pub = Blank /\ seen = {} /\ items = 0
    /\ pc = [w \in Workers |-> "idle"]
    /\ kind = [w \in Workers |-> "poll"]
    /\ side = [w \in Workers |-> "a"]
    /\ key = [w \in Workers |-> NoKey]
    /\ fit = [w \in Workers |-> FALSE]
    /\ held = [w \in Workers |-> FALSE]

-----------------------------------------------------------------------------
Goto(w, where) ==
    /\ pc' = [pc EXCEPT ![w] = where]
    /\ UNCHANGED <<kind, side, key, fit, held>>

(* The answer is out; the worker forgets the request.                      *)
Answer(w, what) ==
    /\ pc' = [pc EXCEPT ![w] = what]
    /\ kind' = [kind EXCEPT ![w] = "poll"]
    /\ side' = [side EXCEPT ![w] = "a"]
    /\ key' = [key EXCEPT ![w] = NoKey]
    /\ fit' = [fit EXCEPT ![w] = FALSE]
    /\ held' = [held EXCEPT ![w] = FALSE]

(* publish_key's checks of the row.                                        *)
MayReveal(s, k) == commit[s] = k /\ commit[Peer(s)] # NoKey

BothShown == \A s \in Slots : pub[s] # NoKey

(* What the handler finds in the row it has read.                          *)
Fits(m, s, k) ==
    /\ m = "key" => MayReveal(s, k)
    /\ m = "add" => BothShown

HoldsSomething(m, s, k) ==                              \* mutant
    IF m = "commit" THEN commit[s] # NoKey ELSE pub[s] # NoKey
Holds(m, s, k) ==
    \/ m = "commit" /\ commit[s] = k
    \/ m = "key" /\ pub[s] = k

(* _authorize, its read of the row, for the holder of slot s.              *)
Authorize(w, m, s, k) ==
    /\ pc[w] \notin InFlight
    /\ \/ /\ Usable
          /\ pc' = [pc EXCEPT ![w] = "touch"]
          /\ kind' = [kind EXCEPT ![w] = m]
          /\ side' = [side EXCEPT ![w] = s]
          /\ key' = [key EXCEPT ![w] = IF m \in {"commit", "key"} THEN k ELSE NoKey]
          /\ fit' = [fit EXCEPT ![w] = Fits(m, s, k)]
          /\ held' = [held EXCEPT ![w] = Holds(m, s, k)]
       \/ /\ present /\ ~closed /\ expired
          /\ Goto(w, "closing")
       \/ /\ ~present \/ closed
          /\ Answer(w, "idle")
    /\ UNCHANGED <<lifeVars, rowVars, items>>

(* _authorize, its UPDATE of seen_at.                                      *)
Touch(w) ==
    /\ pc[w] = "touch"
    /\ seen' = IF present THEN seen \cup {side[w]} ELSE seen
    /\ \/ kind[w] = "poll" /\ Answer(w, "ok")
       \/ kind[w] = "close" /\ Goto(w, "closing")
       \/ kind[w] \notin {"poll", "close"} /\ fit[w] /\ Goto(w, "work")
       \/ kind[w] \notin {"poll", "close"} /\ ~fit[w] /\ Answer(w, "idle")
    /\ UNCHANGED <<lifeVars, commit, pub, items>>

LastWordWins(column, s) == present                      \* mutant
SetOnce(column, s) == present /\ column[s] = NoKey

(* publish_commitment, its UPDATE: accepted when it took effect, or when   *)
(* the row that was read held this very commitment.                        *)
PublishCommitment(w) ==
    LET s == side[w] IN
    /\ pc[w] = "work" /\ kind[w] = "commit"
    /\ commit' = IF SetOnce(commit, s) THEN [commit EXCEPT ![s] = key[w]] ELSE commit
    /\ Answer(w, IF SetOnce(commit, s) \/ held[w] THEN "ok" ELSE "idle")
    /\ UNCHANGED <<lifeVars, pub, seen, items>>

(* publish_key, its UPDATE.                                                *)
PublishKey(w) ==
    LET s == side[w] IN
    /\ pc[w] = "work" /\ kind[w] = "key"
    /\ pub' = IF SetOnce(pub, s) THEN [pub EXCEPT ![s] = key[w]] ELSE pub
    /\ Answer(w, IF SetOnce(pub, s) \/ held[w] THEN "ok" ELSE "idle")
    /\ UNCHANGED <<lifeVars, commit, seen, items>>

(* add_item counts, then inserts whatever has happened since.              *)
CountItems(w) ==
    /\ pc[w] = "work" /\ kind[w] = "add"
    /\ IF items >= MaxItems THEN Answer(w, "idle") ELSE Goto(w, "insert")
    /\ UNCHANGED <<lifeVars, rowVars, items>>

InsertItem(w) ==
    /\ pc[w] = "insert"
    /\ items' = items + 1
    /\ Answer(w, "ok")
    /\ UNCHANGED <<lifeVars, rowVars>>

(* delete_item: the id of a row that is there, or of one that is gone.     *)
DeleteItem(w) ==
    /\ pc[w] = "work" /\ kind[w] = "delete"
    /\ \/ /\ items > 0
          /\ items' = items - 1
          /\ Answer(w, "ok")
       \/ /\ UNCHANGED items
          /\ Answer(w, "idle")
    /\ UNCHANGED <<lifeVars, rowVars>>

(* The _SCRUB columns this module keeps.                                   *)
ScrubToEmpty ==                                         \* mutant
    seen' = {} /\ commit' = [s \in Slots |-> ""] /\ pub' = [s \in Slots |-> ""]
Scrub == seen' = {} /\ commit' = Blank /\ pub' = Blank

(* close_room, called by close and by whoever finds the room expired.      *)
CloseRoom(w) ==
    /\ pc[w] = "closing"
    /\ CloseRow
    /\ Scrub
    /\ items' = 0
    /\ Answer(w, IF kind[w] = "close" THEN "ok" ELSE "idle")

(* purge_expired: an expired room is scrubbed, items of rooms that are     *)
(* closed by now or gone are deleted, a day-old tombstone is deleted.      *)
PurgesItemsOfTheExpired == PurgeCloses                  \* mutant
PurgesItems == closed \/ PurgeCloses \/ ~present

Purge ==
    /\ PurgeRow
    /\ IF PurgeCloses \/ PurgeDeletes THEN Scrub ELSE UNCHANGED rowVars
    /\ items' = IF PurgesItems THEN 0 ELSE items
    /\ UNCHANGED reqVars

Crash(w) ==
    /\ pc[w] \in InFlight
    /\ Answer(w, "idle")
    /\ UNCHANGED <<lifeVars, rowVars, items>>

RoomExpires ==
    /\ Expire
    /\ UNCHANGED <<rowVars, items, reqVars>>

(* A worker is killed after a minute, so none is still at work on a room   *)
(* a day after its end.                                                    *)
RoomAges ==
    /\ \A w \in Workers : pc[w] \notin InFlight
    /\ Age
    /\ UNCHANGED <<rowVars, items, reqVars>>

Handle(w) ==
    \/ Touch(w)
    \/ PublishCommitment(w)
    \/ PublishKey(w)
    \/ CountItems(w)
    \/ InsertItem(w)
    \/ DeleteItem(w)
    \/ CloseRoom(w)

Next ==
    \/ \E w \in Workers, m \in Kinds, s \in Slots, k \in Keys : Authorize(w, m, s, k)
    \/ \E w \in Workers : Handle(w) \/ Crash(w)
    \/ Purge
    \/ RoomExpires
    \/ RoomAges

Spec == Init /\ [][Next]_vars

(* A handler that has started goes on until it ends or is killed, and the  *)
(* purge timer keeps firing.                                               *)
HandleIsFair(w) == WF_vars(Handle(w))
FairSpec == Spec /\ WF_vars(Purge) /\ \A w \in Workers : HandleIsFair(w)

-----------------------------------------------------------------------------
(* Properties.                                                             *)

InOpenRoom == present /\ ~closed

(* The module docstring of room.py: each side publishes the hash of its    *)
(* key "and may reveal the key only once both commitments exist and the    *)
(* key matches its own commitment", and neither is ever replaced.  The     *)
(* handler judges by a copy of the row that may be stale when it writes.   *)
Exchange == INSTANCE KeyExchange WITH
                promise <- IF InOpenRoom THEN commit ELSE Blank,
                shown <- IF InOpenRoom THEN pub ELSE Blank,
                over <- ~InOpenRoom
ImplementsExchange == Exchange!Spec

(* A key that is out is the one its side committed to, and the other side  *)
(* had committed by then.                                                  *)
KeyMatchesCommitment ==
    InOpenRoom => \A s \in Slots : pub[s] # NoKey => commit[s] = pub[s] /\ commit[Peer(s)] # NoKey

(* There is nothing to read in an open room before both keys are out, so   *)
(* every item was sealed for a key the other side had shown.               *)
ItemsNeedBothKeys == InOpenRoom /\ items > 0 => \A s \in Slots : pub[s] # NoKey

(* A commitment or key that was accepted, at once or as a repetition, is   *)
(* the one the row holds, unless the room has ended meanwhile.             *)
AcceptedStep ==
    \A w \in Workers :
        pc[w] = "work" /\ pc'[w] = "ok" =>
            /\ kind[w] = "commit" => commit'[side[w]] = key[w] \/ ~InOpenRoom
            /\ kind[w] = "key" => pub'[side[w]] = key[w] \/ ~InOpenRoom
AcceptedMeansStored == [][AcceptedStep]_vars

(* Nothing that was shared outlives the room for long, not even an item    *)
(* added by a request that was under way when the room was closed.         *)
EndedRoomIsEmptied == (closed \/ expired) ~> [](items = 0)

-----------------------------------------------------------------------------
(* What makes these invariants inductive.                                  *)

(* A request past its checks can rely on what it read ...                  *)
Relies(w) ==
    /\ pc[w] = "work" => fit[w]
    /\ pc[w] \in {"touch", "work"} /\ kind[w] \in {"commit", "key"} => key[w] \in Keys
    /\ pc[w] \in {"touch", "work"} /\ fit[w] => Fits(kind[w], side[w], key[w])
    /\ pc[w] \in {"touch", "work"} /\ held[w] => Holds(kind[w], side[w], key[w])
    /\ pc[w] = "insert" => BothShown

(* ... while the room is open: its row only grows.                         *)
ReadIsStillTrue == InOpenRoom => \A w \in Workers : Relies(w)
=============================================================================
