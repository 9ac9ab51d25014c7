------------------------------ MODULE RoomLife ------------------------------
(***************************************************************************)
(* The life of one row of the table "sessions": a room is created, runs    *)
(* out of time or is closed by hand, is kept as a tombstone for a day and  *)
(* is then deleted.  The clock is abstracted to the two comparisons the    *)
(* code makes with it: "past expires_at" and "a day past expires_at or     *)
(* closed_at".  The modules of the room's parts extend this one and add    *)
(* the columns they are about; the operators below are the part of each    *)
(* SQL statement that concerns the life of the row.                        *)
(***************************************************************************)
EXTENDS Naturals

VARIABLES
    present,    \* a row with this room's code exists
    closed,     \* its closed_at is not NULL
    expired,    \* utcnow() is past its expires_at
    aged        \* its expires_at or its closed_at is more than a day ago

lifeVars == <<present, closed, expired, aged>>

LifeTypeOK ==
    /\ present \in BOOLEAN
    /\ closed \in BOOLEAN
    /\ expired \in BOOLEAN
    /\ aged \in BOOLEAN
    /\ ~present => ~closed /\ ~expired /\ ~aged

Absent == present = FALSE /\ closed = FALSE /\ expired = FALSE /\ aged = FALSE
Open   == present = TRUE  /\ closed = FALSE /\ expired = FALSE /\ aged = FALSE

(* What a handler that has just read the row concludes from it.  An        *)
(* expired row is finished off before its closed_at is looked at.          *)
Usable == present /\ ~closed /\ ~expired

(* INSERT INTO sessions: the primary key refuses a code that has a row,    *)
(* its tombstone included.                                                 *)
CodeReusedWhenClosed == ~present \/ aged \/ closed    \* mutant
CodeFree == ~present \/ aged

(* create_session purges and inserts in one transaction, so a code whose   *)
(* day-old tombstone this very purge deletes is free at once.              *)
InsertRow ==
    /\ CodeFree
    /\ present' = TRUE
    /\ closed' = FALSE /\ expired' = FALSE /\ aged' = FALSE

(* close_room: closed_at = COALESCE(closed_at, now) WHERE code.            *)
CloseRow ==
    /\ closed' = present
    /\ UNCHANGED <<present, expired, aged>>

(* purge_expired: an expired row becomes a tombstone, then a row that is   *)
(* a day past its end is deleted; both statements run in one transaction.  *)
PurgeCloses  == expired /\ ~closed
PurgeDeletes == aged
PurgeRow ==
    /\ present' = (present /\ ~PurgeDeletes)
    /\ closed'  = (~PurgeDeletes /\ (closed \/ PurgeCloses))
    /\ expired' = (~PurgeDeletes /\ expired)
    /\ aged'    = FALSE

(* Time passes.                                                            *)
Expire ==
    /\ present /\ ~expired
    /\ expired' = TRUE
    /\ UNCHANGED <<present, closed, aged>>
Age ==
    /\ closed \/ expired
    /\ ~aged
    /\ aged' = TRUE
    /\ UNCHANGED <<present, closed, expired>>
=============================================================================
