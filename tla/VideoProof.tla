----------------------------- MODULE VideoProof -----------------------------
(***************************************************************************)
(* The video verification of one room: verifier/blueprints/room.py (video, *)
(* upload_proof, download_proof, close) and verifier/db.py (close_room,    *)
(* purge_expired) over the room's row and its proof file.                  *)
(*                                                                         *)
(* The row is protected by SQLite's write lock; the file CODE.bin is       *)
(* protected by nothing.  An upload is the one handler that holds the      *)
(* write lock over several steps: its UPDATE is invisible to readers       *)
(* until it commits, and it replaces the file in between.  The             *)
(* room starts with both people seated and their keys published, which is  *)
(* what "request" asks for.  A worker handles one request after another.   *)
(* A recording is named <<the slot that made it, a take>>.                 *)
(***************************************************************************)
EXTENDS RoomLife, FiniteSets

CONSTANTS
    Workers,    \* the processes that handle requests
    Kinds,      \* what the requests ask for
    Takes,      \* tells the recordings of one person apart
    CanCrash,   \* whether a worker or the purge may be killed
    NoClip,     \* a NULL proof_iv, no file
    NoOne       \* nobody holds the write lock

Verdicts == {"confirm", "deny"}
AllKinds == {"request", "cancel", "decline", "upload", "fetch", "close"} \cup Verdicts
NewState == [decline |-> "declined", confirm |-> "confirmed", deny |-> "denied"]

Slots == {"a", "b"}

ASSUME KindsAssumption    == Kinds \subseteq AllKinds
ASSUME CrashAssumption    == CanCrash \in BOOLEAN
ASSUME ClipAssumption     == NoClip \notin Slots \X Takes
ASSUME NoOneAssumption    == NoOne \notin Workers

VARIABLES
    state,      \* video_state
    by,         \* video_by: who asked, and so who judges
    iv,         \* proof_iv: the recording the row describes
    overdue,    \* video_at is past the cutoff of the current state
    file,       \* the recording whose bytes are in CODE.bin
    torn,       \* (history) CODE.bin is of an upload killed before its commit
    lock,       \* the upload that holds the write lock
    pc, kind, side,
    clip,       \* the recording an upload brings or a fetch has read of
    purge       \* where the purge stands

rowVars  == <<state, by, iv, overdue>>
fileVars == <<file, torn>>
reqVars  == <<pc, kind, side, clip>>
vars == <<lifeVars, rowVars, fileVars, lock, reqVars, purge>>

States == {"none", "requested", "recorded", "declined", "confirmed", "denied"}
Clips  == (Slots \X Takes) \cup {NoClip}
InFlight == {"unlink", "update", "replace", "commit", "after",
             "read", "closing", "scrub"}

TypeOK ==
    /\ LifeTypeOK
    /\ state \in States
    /\ by \in Slots \cup {"none"}
    /\ iv \in Clips
    /\ overdue \in BOOLEAN
    /\ file \in Clips /\ torn \in BOOLEAN
    /\ lock \in Workers \cup {NoOne}
    /\ pc \in [Workers -> {"idle", "sent"} \cup InFlight]
    /\ kind \in [Workers -> Kinds \cup {"none"}]
    /\ side \in [Workers -> Slots]
    /\ clip \in [Workers -> Clips]
    /\ purge \in {"idle", "unlink", "statements"}
    /\ \A w \in Workers :
          lock = w <=> kind[w] = "upload" /\ pc[w] \in {"replace", "commit"}

Init ==
    /\ Open
    /\ state = "none" /\ by = "none" /\ iv = NoClip /\ overdue = FALSE
    /\ file = NoClip /\ torn = FALSE
    /\ lock = NoOne
    /\ pc = [w \in Workers |-> "idle"]
    /\ kind = [w \in Workers |-> "none"]
    /\ side = [w \in Workers |-> "a"]
    /\ clip = [w \in Workers |-> NoClip]
    /\ purge = "idle"

-----------------------------------------------------------------------------
Goto(w, where) == pc' = [pc EXCEPT ![w] = where] /\ UNCHANGED <<kind, side, clip>>
At(w, where, ks) == pc[w] = where /\ kind[w] \in ks
Unlocked == lock = NoOne

(* The answer is out; the worker forgets the request.                      *)
Reply(w, what) ==
    /\ pc' = [pc EXCEPT ![w] = what]
    /\ kind' = [kind EXCEPT ![w] = "none"]
    /\ side' = [side EXCEPT ![w] = "a"]
    /\ clip' = [clip EXCEPT ![w] = NoClip]

(* The end of an upload's transaction, by commit or by rollback.           *)
Hold(w)    == UNCHANGED lock                            \* mutant
Release(w) == lock' = IF lock = w THEN NoOne ELSE lock

(* The _SCRUB columns this module keeps.                                   *)
Scrub == state' = "none" /\ by' = "none" /\ iv' = NoClip /\ overdue' = FALSE

(* delete_proof, on the final file.                                        *)
Unlink == file' = NoClip /\ torn' = FALSE

(* _video_view: the proof a reader of the row is shown.                    *)
ProofInView ==
    IF state \in {"recorded", "confirmed", "denied"} /\ ~(state = "recorded" /\ overdue)
    THEN iv ELSE NoClip

FirstStep(k) ==
    CASE k = "request" -> "unlink"
      [] k = "fetch"   -> "read"
      [] k = "close"   -> "closing"
      [] OTHER         -> "update"

(* _authorize for the holder of slot s: one read of the row, on which the  *)
(* rest of the handler relies.  Its UPDATE of seen_at, a column module     *)
(* RoomExchange keeps, waits for an upload under way; nothing but its      *)
(* files changes meanwhile, so the read might as well have come before it. *)
Authorize(w, s, k) ==
    /\ pc[w] \notin InFlight
    /\ \/ /\ ~present \/ closed
          /\ Reply(w, "idle")
       \/ /\ present /\ ~closed /\ expired
          /\ Goto(w, "closing")
       \/ /\ Usable
          /\ k = "fetch" => ProofInView # NoClip
          /\ pc' = [pc EXCEPT ![w] = FirstStep(k)]
          /\ kind' = [kind EXCEPT ![w] = k]
          /\ side' = [side EXCEPT ![w] = s]
          /\ clip' = [clip EXCEPT ![w] = IF k = "fetch" THEN ProofInView ELSE NoClip]
       \/ /\ Usable /\ k = "fetch" /\ ProofInView = NoClip
          /\ Reply(w, "idle")
    /\ UNCHANGED <<lifeVars, rowVars, fileVars, lock, purge>>

-----------------------------------------------------------------------------
(* POST /video                                                             *)

(* The preconditions the UPDATEs carry.                                    *)
Free == state \notin {"requested", "recorded"} \/ overdue

CanJudgeAgain(w) ==                                     \* mutant
    state \in {"recorded", "confirmed", "denied"} /\ by = side[w] /\ ~overdue
JudgeUnseen(w) == by = side[w] /\ ~overdue              \* mutant
CanJudge(w) == state = "recorded" /\ by = side[w] /\ ~overdue

CanCancel(w)  == state = "requested" /\ by = side[w]
CanDecline(w) == state = "requested" /\ by \in Slots \ {side[w]} /\ ~overdue

(* "request" deletes the proof file before its UPDATE is tried.            *)
RequestUnlinks(w) ==
    /\ At(w, "unlink", {"request"})
    /\ Unlink
    /\ Goto(w, "update")
    /\ UNCHANGED <<lifeVars, rowVars, lock, purge>>

Request(w) ==
    /\ At(w, "update", {"request"})
    /\ Unlocked
    /\ IF present /\ Free
       THEN /\ state' = "requested" /\ by' = side[w] /\ iv' = NoClip /\ overdue' = FALSE
            /\ Reply(w, "idle")
       ELSE /\ UNCHANGED rowVars
            /\ Reply(w, "idle")
    /\ UNCHANGED <<lifeVars, fileVars, lock, purge>>

Cancel(w) ==
    /\ At(w, "update", {"cancel"})
    /\ Unlocked
    /\ IF present /\ CanCancel(w)
       THEN /\ state' = "none" /\ by' = "none" /\ overdue' = FALSE
            /\ Goto(w, "after")
       ELSE /\ UNCHANGED <<state, by, overdue>>
            /\ Reply(w, "idle")
    /\ UNCHANGED <<lifeVars, iv, fileVars, lock, purge>>

(* "cancel" deletes the proof file after its commit.                       *)
CancelUnlinks(w) ==
    /\ At(w, "after", {"cancel"})
    /\ Unlink
    /\ Reply(w, "idle")
    /\ UNCHANGED <<lifeVars, rowVars, lock, purge>>

(* "decline", "confirm" and "deny" touch the row only.                     *)
Answer(w) ==
    /\ At(w, "update", {"decline"} \cup Verdicts)
    /\ Unlocked
    /\ IF present /\ (IF kind[w] = "decline" THEN CanDecline(w) ELSE CanJudge(w))
       THEN /\ state' = NewState[kind[w]]
            /\ overdue' = FALSE
            /\ Reply(w, "idle")
       ELSE /\ UNCHANGED <<state, overdue>>
            /\ Reply(w, "idle")
    /\ UNCHANGED <<lifeVars, by, iv, fileVars, lock, purge>>

-----------------------------------------------------------------------------
(* POST /video/proof                                                       *)

AnyoneMayRecord(w) ==                                   \* mutant
    state \in {"requested", "recorded"} /\ ~overdue
MayRecord(w) ==
    state \in {"requested", "recorded"} /\ by \in Slots \ {side[w]} /\ ~overdue

(* Every upload is sealed with an IV of its own: one that no row, file or  *)
(* request still speaks of.                                                *)
Unused(c) == c \notin {iv, file} /\ \A v \in Workers : clip[v] # c
FreshTakes(s) == {t \in Takes : Unused(<<s, t>>)}
NewClip(s) == <<s, CHOOSE t \in FreshTakes(s) : TRUE>>

(* The UPDATE takes the write lock; when it matches nothing the            *)
(* transaction is rolled back.                                             *)
UploadLocks(w) ==
    /\ At(w, "update", {"upload"})
    /\ Unlocked
    /\ \/ /\ present /\ MayRecord(w)
          /\ FreshTakes(side[w]) # {}
          /\ lock' = w
          /\ pc' = [pc EXCEPT ![w] = "replace"]
          /\ clip' = [clip EXCEPT ![w] = NewClip(side[w])]
          /\ UNCHANGED <<kind, side>>
       \/ /\ ~present \/ ~MayRecord(w)
          /\ UNCHANGED lock
          /\ Reply(w, "idle")
    /\ UNCHANGED <<lifeVars, rowVars, fileVars, purge>>

(* The bytes go to CODE.bin.part, which then becomes CODE.bin.  Nobody but *)
(* the holder of the lock looks at the partial file.                       *)
UploadReplaces(w) ==
    /\ At(w, "replace", {"upload"})
    /\ file' = clip[w] /\ torn' = FALSE
    /\ Goto(w, "commit")
    /\ UNCHANGED <<lifeVars, rowVars, lock, purge>>

(* The row an upload writes, seen by others from its commit on.  No other  *)
(* writer ran since its UPDATE.                                            *)
KeepsTheFirstIv(w) == IF iv = NoClip THEN clip[w] ELSE iv     \* mutant
RecordedIv(w) == clip[w]

UploadCommits(w) ==
    /\ At(w, "commit", {"upload"})
    /\ state' = "recorded" /\ iv' = RecordedIv(w) /\ overdue' = FALSE
    /\ Release(w)
    /\ Reply(w, "idle")
    /\ UNCHANGED <<lifeVars, by, fileVars, purge>>

(* GET /video/proof: the file as it is now, with the IV of the row as it   *)
(* was read.                                                               *)
FetchReads(w) ==
    /\ At(w, "read", {"fetch"})
    /\ Reply(w, IF file = NoClip THEN "idle" ELSE "sent")
    /\ UNCHANGED <<lifeVars, rowVars, fileVars, lock, purge>>

-----------------------------------------------------------------------------
(* close_room: the file first, then the row.                               *)
CloseUnlinks(w) ==
    /\ pc[w] = "closing"
    /\ Unlink
    /\ Goto(w, "scrub")
    /\ UNCHANGED <<lifeVars, rowVars, lock, purge>>

CloseScrubs(w) ==
    /\ pc[w] = "scrub"
    /\ Unlocked
    /\ CloseRow
    /\ Scrub
    /\ Reply(w, "idle")
    /\ UNCHANGED <<fileVars, lock, purge>>

(* A worker is killed: its open transaction is rolled back, what it did to *)
(* the files stays.                                                        *)
Crash(w) ==
    /\ CanCrash
    /\ pc[w] \in InFlight
    /\ Release(w)
    /\ torn' = (torn \/ pc[w] = "commit")
    /\ Reply(w, "idle")
    /\ UNCHANGED <<lifeVars, rowVars, file, purge>>

-----------------------------------------------------------------------------
(* purge_expired, run by the timer, by create_session and by get_nonce:    *)
(* the rooms that are live are read, the final files of others are         *)
(* deleted, then its statements run as one transaction.  All of it uses    *)
(* one reading of the clock, so a room that is live at the first step is   *)
(* passed over by the rest.                                                *)
LiveIsNotClosed == present /\ (closed => ~expired)      \* mutant
Live == present /\ ~closed /\ ~expired

PurgeReads ==
    /\ purge = "idle"
    /\ ~Live
    /\ purge' = "unlink"
    /\ UNCHANGED <<lifeVars, rowVars, fileVars, lock, reqVars>>

PurgeUnlinks ==
    /\ purge = "unlink"
    /\ Unlink
    /\ purge' = "statements"
    /\ UNCHANGED <<lifeVars, rowVars, lock, reqVars>>

PurgeRuns ==
    /\ purge = "statements"
    /\ Unlocked
    /\ PurgeRow
    /\ IF PurgeCloses \/ PurgeDeletes THEN Scrub ELSE UNCHANGED rowVars
    /\ purge' = "idle"
    /\ UNCHANGED <<fileVars, lock, reqVars>>

PurgeStep == PurgeReads \/ PurgeUnlinks \/ PurgeRuns

PurgeCrash ==
    /\ CanCrash
    /\ purge # "idle"
    /\ purge' = "idle"
    /\ UNCHANGED <<lifeVars, rowVars, fileVars, lock, reqVars>>

-----------------------------------------------------------------------------
(* Time passes: two minutes for a request, thirty for a recording.         *)
Lapse ==
    /\ state \in {"requested", "recorded"}
    /\ ~overdue
    /\ overdue' = TRUE
    /\ UNCHANGED <<lifeVars, state, by, iv, fileVars, lock, reqVars, purge>>

RoomExpires ==
    /\ Expire
    /\ UNCHANGED <<rowVars, fileVars, lock, reqVars, purge>>

RoomAges ==
    /\ \A w \in Workers : pc[w] \notin InFlight
    /\ Age
    /\ UNCHANGED <<rowVars, fileVars, lock, reqVars, purge>>

Handle(w) ==
    \/ RequestUnlinks(w)
    \/ Request(w)
    \/ Cancel(w)
    \/ CancelUnlinks(w)
    \/ Answer(w)
    \/ UploadLocks(w)
    \/ UploadReplaces(w)
    \/ UploadCommits(w)
    \/ FetchReads(w)
    \/ CloseUnlinks(w)
    \/ CloseScrubs(w)

Next ==
    \/ \E w \in Workers, s \in Slots, k \in Kinds : Authorize(w, s, k)
    \/ \E w \in Workers : Handle(w) \/ Crash(w)
    \/ PurgeStep \/ PurgeCrash
    \/ Lapse \/ RoomExpires \/ RoomAges

Spec == Init /\ [][Next]_vars

(* A handler that has started goes on until it ends or is killed, and the  *)
(* purge runs again and again, killed or not, until a run of it completes. *)
HandleIsFair(w) == WF_vars(Handle(w))
FairSpec ==
    /\ Spec
    /\ \A w \in Workers : HandleIsFair(w)
    /\ WF_vars(PurgeReads) /\ SF_vars(PurgeUnlinks) /\ SF_vars(PurgeRuns)

-----------------------------------------------------------------------------
(* Properties.                                                             *)

InOpenRoom == present /\ ~closed
Judged == state \in {"confirmed", "denied"}

(* The exchange as the two people see it.                                  *)
Stage ==
    IF ~InOpenRoom THEN "over"
    ELSE IF state \in {"requested", "recorded"} /\ overdue THEN "lapsed"
    ELSE state

(* Whatever the requests of both sides, the purge and the crashes do to    *)
(* the row, the file and the lock, the two people see one exchange at a    *)
(* time that is asked for, recorded and judged in this order.              *)
Exchange == INSTANCE VideoExchange WITH
                stage <- Stage, judge <- IF InOpenRoom THEN by ELSE "none"
ImplementsExchange == Exchange!Spec

(* What is judged was recorded by the person who was asked: nobody can     *)
(* slip a recording of their own under the request they made.              *)
RecordingIsBySubject ==
    InOpenRoom /\ state \in {"recorded", "confirmed", "denied"} =>
        iv # NoClip /\ by \in Slots \ {iv[1]}

(* The file a room keeps is the recording its row describes, so that the   *)
(* IV opens it; only an upload killed between replacing the file and       *)
(* committing the row leaves another one.                                  *)
FileMatchesRow ==
    Unlocked /\ iv # NoClip /\ ~torn => file \in {NoClip, iv}

(* A verdict comes from the person who asked, on the recording that is     *)
(* there and still waits for it, whoever else judges, uploads or asks at   *)
(* the same time.                                                          *)
Judging(w) == At(w, "update", Verdicts) /\ pc'[w] = "idle"
AskerJudges ==
    ~Judged /\ Judged' =>
        /\ state = "recorded" /\ ~overdue /\ iv' = iv /\ by' = by
        /\ \E w \in Workers : Judging(w) /\ side[w] = by

(* It stands, with the recording it was given on, until somebody asks      *)
(* again or the room ends; uploads and other verdicts that were under way  *)
(* do not change it.                                                       *)
VerdictStep ==
    /\ AskerJudges
    /\ Judged =>
           \/ state' = state /\ iv' = iv
           \/ state' = "requested"
           \/ closed' \/ ~present'
VerdictStands == [][VerdictStep]_vars

(* The recording of a room that has ended is gone for good, whatever was   *)
(* under way when it ended and whoever was killed meanwhile.               *)
EndedRoomLosesItsFile == (closed \/ expired) ~> [](file = NoClip)

(* "Every transition is one UPDATE that carries its own precondition", and *)
(* one file per room is kept, "deleted with the room, with the request, or *)
(* on re-recording": when nothing is under way and nobody was killed, the  *)
(* recording that awaits judgement is there.                               *)
AwaitedRecordingIsKept ==
    /\ InOpenRoom /\ ~expired
    /\ \A w \in Workers : pc[w] \notin InFlight
    /\ state = "recorded" /\ ~overdue
    => file = iv

(* A fetch is answered with a recording and the IV that opens it.          *)
FetchedProofOpens ==
    [][\A w \in Workers :
         At(w, "read", {"fetch"}) /\ pc'[w] = "sent" => file = clip[w]]_vars

-----------------------------------------------------------------------------
(* What makes these invariants inductive.                                  *)

(* While an upload holds the lock nobody else writes the row, so what its  *)
(* UPDATE asked for is still so.                                           *)
LockedRowWaits ==
    \A w \in Workers : lock = w =>
        /\ state \in {"requested", "recorded"}
        /\ by \in Slots \ {side[w]}
        /\ clip[w] \in {side[w]} \X Takes

(* In a closed room too.                                                   *)
JudgedBySubject ==
    state \in {"recorded", "confirmed", "denied"} => iv # NoClip /\ by \in Slots \ {iv[1]}

(* The file is the one of the row, or, between its replacement and the     *)
(* commit, the one the row is about to describe.                           *)
Replacing == \E w \in Workers : lock = w /\ pc[w] = "commit"
FileIsKnown ==
    ~torn =>
        /\ ~Replacing /\ iv # NoClip => file \in {NoClip, iv}
        /\ \A w \in Workers :
               lock = w /\ pc[w] = "commit" => file \in {NoClip, clip[w]}

VideoInv == TypeOK /\ LockedRowWaits /\ JudgedBySubject /\ FileIsKnown
=============================================================================
