-------------------------- MODULE VideoProofProofs --------------------------
(***************************************************************************)
(* Proofs, for any number of workers and recordings, about the video       *)
(* verification of a room.                                                 *)
(*                                                                         *)
(* The argument: an upload holds the write lock from its UPDATE to its     *)
(* commit, so nobody else writes the row meanwhile (LockedRowWaits), what  *)
(* the UPDATE asked for still holds when the row appears, and the file it  *)
(* put in place is the one the row describes from then on (FileIsKnown).   *)
(***************************************************************************)
EXTENDS VideoProof, TLAPS

USE DEF Slots

-----------------------------------------------------------------------------
(* The state stays within its types.                                       *)

(* The lock is held by the upload that is between its UPDATE and the       *)
(* commit.                                                                 *)
LockIsAnUploads ==
    \A w \in Workers :
        lock = w <=> kind[w] = "upload" /\ pc[w] \in {"replace", "commit"}

ReqTypes ==
    /\ pc \in [Workers -> {"idle", "sent"} \cup InFlight]
    /\ kind \in [Workers -> Kinds \cup {"none"}]
    /\ side \in [Workers -> Slots]
    /\ clip \in [Workers -> Clips]

DataTypes ==
    /\ LifeTypeOK
    /\ state \in States
    /\ by \in Slots \cup {"none"}
    /\ iv \in Clips
    /\ overdue \in BOOLEAN
    /\ file \in Clips /\ torn \in BOOLEAN
    /\ purge \in {"idle", "unlink", "statements"}

(* The three parts are the type invariant.                                 *)
LEMMA TypeParts ==
    TypeOK <=> DataTypes /\ ReqTypes /\ lock \in Workers \cup {NoOne} /\ LockIsAnUploads
  BY DEF TypeOK, DataTypes, ReqTypes, LockIsAnUploads

(* A room with its keys out and nothing asked is well typed.               *)
LEMMA InitTypes == Init => TypeOK
  <1> SUFFICES ASSUME Init PROVE TypeOK
    OBVIOUS
  <1>1. DataTypes
    BY DEF Init, DataTypes, LifeTypeOK, Open, States, Clips
  <1>2. ReqTypes
    BY DEF Init, ReqTypes, Clips
  <1>3. lock \in Workers \cup {NoOne} /\ LockIsAnUploads
    BY NoOneAssumption DEF Init, LockIsAnUploads
  <1> QED BY <1>1, <1>2, <1>3, TypeParts

(* Moving on keeps the request as it is.                                   *)
LEMMA GotoTypes ==
    ASSUME ReqTypes, NEW w \in Workers, NEW p \in {"idle", "sent"} \cup InFlight, Goto(w, p)
    PROVE  ReqTypes' /\ pc' = [pc EXCEPT ![w] = p] /\ UNCHANGED <<kind, side, clip>>
  BY DEF ReqTypes, Goto

(* Replying clears the request.                                            *)
LEMMA ReplyTypes ==
    ASSUME ReqTypes, NEW w \in Workers, NEW p \in {"idle", "sent"}, Reply(w, p)
    PROVE  ReqTypes'
  BY DEF ReqTypes, Reply, Clips

(* An upload that gets the lock names a recording of its own side.         *)
LEMMA NewClipTypes ==
    ASSUME NEW s \in Slots, FreshTakes(s) # {}
    PROVE  NewClip(s) \in {s} \X Takes /\ NewClip(s) \in Clips /\ NewClip(s) # NoClip
  <1> DEFINE t == CHOOSE u \in FreshTakes(s) : TRUE
  <1>1. t \in FreshTakes(s)
    OBVIOUS
  <1>2. t \in Takes
    BY <1>1 DEF FreshTakes
  <1>3. NewClip(s) = <<s, t>>
    BY DEF NewClip
  <1> HIDE DEF t
  <1>4. <<s, t>> \in {s} \X Takes /\ <<s, t>> \in Slots \X Takes
    BY <1>2
  <1> QED BY <1>3, <1>4, ClipAssumption DEF Clips

(* What a reader is shown is a recording or none.                          *)
LEMMA ViewTypes == TypeOK => ProofInView \in Clips
  BY DEF ProofInView, TypeOK, Clips

(* The columns and the file keep their types in every step.                *)
LEMMA StepData == TypeOK /\ [Next]_vars => DataTypes'
  <1> SUFFICES ASSUME TypeOK, [Next]_vars PROVE DataTypes'
    OBVIOUS
  <1>0. DataTypes /\ ReqTypes
    BY TypeParts
  <1> USE DEF DataTypes, lifeVars, rowVars, fileVars, reqVars, LifeTypeOK, States, Clips
  <1>a. ASSUME UNCHANGED lifeVars, UNCHANGED rowVars, UNCHANGED fileVars, UNCHANGED purge
        PROVE DataTypes'
    BY <1>0, <1>a
  <1>b. ASSUME Unlink, UNCHANGED lifeVars, UNCHANGED rowVars,
               purge' \in {"idle", "unlink", "statements"}
        PROVE DataTypes'
    <2>1. file' \in Clips /\ torn' \in BOOLEAN
      BY <1>b DEF Unlink
    <2> QED BY <1>0, <1>b, <2>1
  <1>1. ASSUME NEW w \in Workers, NEW s \in Slots, NEW k \in Kinds, Authorize(w, s, k)
        PROVE DataTypes'
    BY <1>1, <1>a DEF Authorize
  <1>2. ASSUME NEW w \in Workers, RequestUnlinks(w) \/ CancelUnlinks(w) \/ CloseUnlinks(w)
        PROVE DataTypes'
    BY <1>0, <1>2, <1>b DEF RequestUnlinks, CancelUnlinks, CloseUnlinks
  <1>3. ASSUME NEW w \in Workers, Request(w) PROVE DataTypes'
    BY <1>0, <1>3 DEF Request, ReqTypes
  <1>4. ASSUME NEW w \in Workers, Cancel(w) PROVE DataTypes'
    BY <1>0, <1>4 DEF Cancel
  <1>5. ASSUME NEW w \in Workers, Answer(w) PROVE DataTypes'
    <2>1. kind[w] \in {"decline", "confirm", "deny"}
      BY <1>5 DEF Answer, At, Verdicts
    <2>2. NewState[kind[w]] \in States
      BY <2>1 DEF NewState
    <2>3. state' \in States /\ overdue' \in BOOLEAN
      BY <1>0, <1>5, <2>2 DEF Answer
    <2> QED BY <1>0, <1>5, <2>3 DEF Answer
  <1>6. ASSUME NEW w \in Workers, UploadLocks(w) \/ FetchReads(w) PROVE DataTypes'
    BY <1>6, <1>a DEF UploadLocks, FetchReads
  <1>7. ASSUME NEW w \in Workers, UploadReplaces(w) PROVE DataTypes'
    BY <1>0, <1>7 DEF UploadReplaces, ReqTypes
  <1>8. ASSUME NEW w \in Workers, UploadCommits(w) PROVE DataTypes'
    BY <1>0, <1>8 DEF UploadCommits, RecordedIv, ReqTypes
  <1>9. ASSUME NEW w \in Workers, CloseScrubs(w) PROVE DataTypes'
    BY <1>0, <1>9 DEF CloseScrubs, CloseRow, Scrub
  <1>10. ASSUME NEW w \in Workers, Crash(w) PROVE DataTypes'
    <2>1. torn' \in BOOLEAN
      BY <1>10 DEF Crash
    <2> QED BY <1>0, <1>10, <2>1 DEF Crash
  <1>11. CASE PurgeReads \/ PurgeUnlinks \/ PurgeCrash
    <2>1. purge' \in {"idle", "unlink", "statements"}
      BY <1>11 DEF PurgeReads, PurgeUnlinks, PurgeCrash
    <2>2. CASE PurgeUnlinks
      BY <2>1, <2>2, <1>b DEF PurgeUnlinks
    <2>3. CASE PurgeReads \/ PurgeCrash
      BY <1>0, <2>1, <2>3 DEF PurgeReads, PurgeCrash
    <2> QED BY <1>11, <2>2, <2>3
  <1>12. CASE PurgeRuns
    <2>1. LifeTypeOK'
      BY <1>0, <1>12 DEF PurgeRuns, PurgeRow, PurgeCloses, PurgeDeletes
    <2>2. Scrub \/ UNCHANGED rowVars
      BY <1>12 DEF PurgeRuns
    <2> QED BY <1>0, <1>12, <2>1, <2>2 DEF PurgeRuns, Scrub
  <1>13. CASE Lapse
    BY <1>0, <1>13 DEF Lapse
  <1>14. CASE RoomExpires \/ RoomAges
    BY <1>0, <1>14 DEF RoomExpires, RoomAges, Expire, Age
  <1>15. CASE UNCHANGED vars
    BY <1>15, <1>a DEF vars
  <1> QED BY <1>1, <1>2, <1>3, <1>4, <1>5, <1>6, <1>7, <1>8, <1>9, <1>10, <1>11, <1>12,
             <1>13, <1>14, <1>15 DEF Next, Handle, PurgeStep

(* A step that moves one worker and leaves the lock alone, the worker      *)
(* being no upload that holds it before or after.                          *)
LEMMA LockStays ==
    ASSUME LockIsAnUploads, ReqTypes, ReqTypes', NEW w \in Workers, lock' = lock,
           \A v \in Workers \ {w} : pc'[v] = pc[v] /\ kind'[v] = kind[v],
           ~(kind[w] = "upload" /\ pc[w] \in {"replace", "commit"})
             <=> ~(kind'[w] = "upload" /\ pc'[w] \in {"replace", "commit"})
    PROVE  LockIsAnUploads'
  BY DEF LockIsAnUploads

(* Requests keep their types and the lock its holder.                      *)
LEMMA StepRequests ==
    TypeOK /\ [Next]_vars => ReqTypes' /\ lock' \in Workers \cup {NoOne} /\ LockIsAnUploads'
  <1> DEFINE Goal == ReqTypes' /\ lock' \in Workers \cup {NoOne} /\ LockIsAnUploads'
  <1> SUFFICES ASSUME TypeOK, [Next]_vars PROVE Goal
    OBVIOUS
  <1>0. ReqTypes /\ LockIsAnUploads /\ lock \in Workers \cup {NoOne}
    BY TypeParts
  <1>1. ASSUME NEW w \in Workers, NEW s \in Slots, NEW k \in Kinds, Authorize(w, s, k)
        PROVE Goal
    <2>0. pc[w] \notin InFlight /\ lock' = lock
      BY <1>1 DEF Authorize
    <2>1. CASE Reply(w, "idle")
      BY <1>0, <2>0, <2>1, ReplyTypes, LockStays DEF Reply, ReqTypes, InFlight
    <2>2. CASE Goto(w, "closing")
      BY <1>0, <2>0, <2>2, GotoTypes, LockStays DEF ReqTypes, InFlight
    <2>3. CASE /\ pc' = [pc EXCEPT ![w] = FirstStep(k)]
               /\ kind' = [kind EXCEPT ![w] = k]
               /\ side' = [side EXCEPT ![w] = s]
               /\ clip' = [clip EXCEPT ![w] = IF k = "fetch" THEN ProofInView ELSE NoClip]
      <3>1. FirstStep(k) \in {"unlink", "read", "closing", "update"}
        BY DEF FirstStep
      <3>2. (IF k = "fetch" THEN ProofInView ELSE NoClip) \in Clips
        BY ViewTypes DEF Clips
      <3>3. ReqTypes'
        BY <1>0, <2>3, <3>1, <3>2 DEF ReqTypes, InFlight
      <3> QED BY <1>0, <2>0, <2>3, <3>1, <3>3, LockStays DEF ReqTypes, InFlight
    <2> QED BY <1>1, <2>1, <2>2, <2>3 DEF Authorize
  <1>2. ASSUME NEW w \in Workers, NEW p \in {"update", "after", "scrub"}, Goto(w, p),
               pc[w] \notin {"replace", "commit"}, lock' = lock
        PROVE Goal
    BY <1>0, <1>2, GotoTypes, LockStays DEF ReqTypes, InFlight
  <1>3. ASSUME NEW w \in Workers, NEW p \in {"idle", "sent"}, Reply(w, p),
               pc[w] \notin {"replace", "commit"}, lock' = lock
        PROVE Goal
    BY <1>0, <1>3, ReplyTypes, LockStays DEF ReqTypes, Reply
  <1>4. ASSUME NEW w \in Workers,
               \/ RequestUnlinks(w) \/ Request(w) \/ Cancel(w) \/ CancelUnlinks(w)
               \/ Answer(w) \/ FetchReads(w) \/ CloseUnlinks(w) \/ CloseScrubs(w)
        PROVE Goal
    <2>1. pc[w] \notin {"replace", "commit"} /\ lock' = lock
      BY <1>4 DEF RequestUnlinks, Request, Cancel, CancelUnlinks, Answer, FetchReads,
                  CloseUnlinks, CloseScrubs, At
    <2>2. \/ \E p \in {"update", "after", "scrub"} : Goto(w, p)
          \/ \E p \in {"idle", "sent"} : Reply(w, p)
      BY <1>4 DEF RequestUnlinks, Request, Cancel, CancelUnlinks, Answer, FetchReads,
                  CloseUnlinks, CloseScrubs
    <2> QED BY <2>1, <2>2, <1>2, <1>3
  <1>5. ASSUME NEW w \in Workers, UploadLocks(w) PROVE Goal
    <2>0. pc[w] = "update" /\ kind[w] = "upload" /\ lock = NoOne
      BY <1>5 DEF UploadLocks, At, Unlocked
    <2>1. CASE /\ FreshTakes(side[w]) # {} /\ lock' = w
               /\ pc' = [pc EXCEPT ![w] = "replace"]
               /\ clip' = [clip EXCEPT ![w] = NewClip(side[w])]
               /\ UNCHANGED <<kind, side>>
      <3>1. NewClip(side[w]) \in Clips
        BY <1>0, <2>1, NewClipTypes DEF ReqTypes
      <3>2. ReqTypes'
        BY <1>0, <2>1, <3>1 DEF ReqTypes, InFlight
      <3> QED BY <1>0, <2>0, <2>1, <3>2, NoOneAssumption DEF LockIsAnUploads, ReqTypes
    <2>2. CASE lock' = lock /\ Reply(w, "idle")
      BY <2>0, <2>2, <1>3
    <2> QED BY <1>5, <2>1, <2>2 DEF UploadLocks
  <1>6. ASSUME NEW w \in Workers, UploadReplaces(w) PROVE Goal
    BY <1>0, <1>6, GotoTypes, LockStays DEF UploadReplaces, At, ReqTypes, InFlight
  <1>7. ASSUME NEW w \in Workers, Release(w), Reply(w, "idle") PROVE Goal
    <2>1. ReqTypes'
      BY <1>0, <1>7, ReplyTypes
    <2>2. lock' = IF lock = w THEN NoOne ELSE lock
      BY <1>7 DEF Release
    <2>3. \A v \in Workers \ {w} : pc'[v] = pc[v] /\ kind'[v] = kind[v]
      BY <1>0, <1>7 DEF Reply, ReqTypes
    <2>4. pc'[w] = "idle"
      BY <1>0, <1>7 DEF Reply, ReqTypes
    <2> QED BY <1>0, <2>1, <2>2, <2>3, <2>4, NoOneAssumption DEF LockIsAnUploads
  <1>8. ASSUME NEW w \in Workers, UploadCommits(w) \/ Crash(w) PROVE Goal
    BY <1>7, <1>8 DEF UploadCommits, Crash
  <1>9. ASSUME UNCHANGED <<lock, reqVars>> PROVE Goal
    BY <1>0, <1>9 DEF reqVars, ReqTypes, LockIsAnUploads
  <1>10. CASE PurgeStep \/ PurgeCrash \/ Lapse \/ RoomExpires \/ RoomAges \/ UNCHANGED vars
    BY <1>9, <1>10 DEF PurgeStep, PurgeReads, PurgeUnlinks, PurgeRuns, PurgeCrash, Lapse,
                       RoomExpires, RoomAges, vars
  <1> QED BY <1>1, <1>4, <1>5, <1>6, <1>8, <1>10 DEF Next, Handle

(* Every variable keeps its type, and the write lock is held exactly while *)
(* an upload is between its UPDATE and the commit or the crash that ends   *)
(* its transaction.                                                        *)
THEOREM TypeCorrect == Spec => []TypeOK
  <1>1. TypeOK /\ [Next]_vars => TypeOK'
    BY StepData, StepRequests DEF TypeOK, DataTypes, ReqTypes, LockIsAnUploads
  <1> QED BY InitTypes, <1>1, PTL DEF Spec

-----------------------------------------------------------------------------
(* Row, file and lock agree.                                               *)

(* Only the holder of the lock writes the row: whoever writes it finds     *)
(* nobody in the middle of an upload.                                      *)
Quiet == \A w \in Workers : lock # w

LEMMA UnlockedIsQuiet == Unlocked => Quiet
  BY NoOneAssumption DEF Unlocked, Quiet

(* A request that does not hold the lock changes nothing of the one that   *)
(* does.                                                                   *)
HolderStays ==
    \A v \in Workers : lock = v =>
        pc'[v] = pc[v] /\ side'[v] = side[v] /\ clip'[v] = clip[v]

LEMMA OthersMove ==
    ASSUME TypeOK, NEW w \in Workers, lock # w,
           \A v \in Workers \ {w} :
               pc'[v] = pc[v] /\ side'[v] = side[v] /\ clip'[v] = clip[v]
    PROVE  HolderStays
  BY DEF HolderStays

(* Going on or replying moves one worker only.                             *)
LEMMA MovesOne ==
    ASSUME TypeOK, NEW w \in Workers, NEW p, Goto(w, p) \/ Reply(w, p)
    PROVE  \A v \in Workers \ {w} :
               pc'[v] = pc[v] /\ side'[v] = side[v] /\ clip'[v] = clip[v]
  BY DEF Goto, Reply, TypeOK

(* The parts of the invariant that speak of the row and the file.          *)
Agree == LockedRowWaits /\ JudgedBySubject /\ FileIsKnown

(* A step that leaves the row, the lock and its holder alone and at most   *)
(* removes the file.                                                       *)
LEMMA RowStays ==
    ASSUME TypeOK, Agree, HolderStays, lock' = lock,
           UNCHANGED <<state, by, iv>>,
           (file' = file /\ torn' = torn) \/ file' = NoClip
    PROVE  Agree'
  <1>1. LockedRowWaits'
    BY DEF Agree, LockedRowWaits, HolderStays
  <1>2. JudgedBySubject'
    BY DEF Agree, JudgedBySubject
  <1>3. Replacing' <=> Replacing
    BY DEF Replacing, HolderStays
  <1>4. FileIsKnown'
    BY <1>3 DEF Agree, FileIsKnown, HolderStays
  <1> QED BY <1>1, <1>2, <1>4 DEF Agree

(* A write to the row while nobody holds the lock.                         *)
LEMMA RowWritten ==
    ASSUME TypeOK, Agree, Quiet, lock' = lock, UNCHANGED <<file, torn>>,
           iv' \in {iv, NoClip}, JudgedBySubject'
    PROVE  Agree'
  <1>1. LockedRowWaits'
    BY DEF Quiet, LockedRowWaits
  <1>2. ~Replacing /\ ~Replacing'
    BY DEF Quiet, Replacing
  <1>3. FileIsKnown'
    BY <1>2 DEF Agree, FileIsKnown, Quiet
  <1> QED BY <1>1, <1>3 DEF Agree

(* An upload gets the lock: what its UPDATE asked for holds now.           *)
LEMMA LockingAgrees ==
    ASSUME TypeOK, Agree, NEW w \in Workers, UploadLocks(w)
    PROVE  Agree'
  <1>0. Quiet /\ UNCHANGED <<state, by, iv, file, torn>>
    BY UnlockedIsQuiet DEF UploadLocks, rowVars, fileVars
  <1>1. CASE /\ present /\ MayRecord(w)
             /\ FreshTakes(side[w]) # {} /\ lock' = w
             /\ pc' = [pc EXCEPT ![w] = "replace"]
             /\ clip' = [clip EXCEPT ![w] = NewClip(side[w])]
             /\ UNCHANGED <<kind, side>>
    <2>1. side[w] \in Slots /\ NewClip(side[w]) \in {side[w]} \X Takes
      BY <1>1, NewClipTypes DEF TypeOK
    <2>2. clip'[w] = NewClip(side[w]) /\ pc'[w] = "replace"
      BY <1>1 DEF TypeOK
    <2>3. LockedRowWaits'
      BY <1>0, <1>1, <2>1, <2>2 DEF LockedRowWaits, MayRecord
    <2>4. JudgedBySubject'
      BY <1>0 DEF Agree, JudgedBySubject
    <2>5. ~Replacing /\ ~Replacing'
      BY <1>0, <1>1, <2>2 DEF Quiet, Replacing
    <2>6. FileIsKnown'
      BY <1>0, <1>1, <2>2, <2>5 DEF Agree, FileIsKnown
    <2> QED BY <2>3, <2>4, <2>6 DEF Agree
  <1>2. CASE lock' = lock /\ Reply(w, "idle")
    <2>1. HolderStays
      BY <1>0 DEF Quiet, HolderStays
    <2> QED BY <1>0, <1>2, <2>1, RowStays
  <1> QED BY <1>1, <1>2 DEF UploadLocks

(* The file is replaced by the holder of the lock.                         *)
LEMMA ReplacingAgrees ==
    ASSUME TypeOK, Agree, NEW w \in Workers, UploadReplaces(w)
    PROVE  Agree'
  <1>0. /\ lock = w /\ pc[w] = "replace" /\ pc'[w] = "commit"
        /\ file' = clip[w] /\ torn' = FALSE
        /\ UNCHANGED <<state, by, iv, lock, side, clip>>
    BY DEF UploadReplaces, At, Goto, TypeOK, rowVars
  <1>1. LockedRowWaits'
    BY <1>0 DEF Agree, LockedRowWaits
  <1>2. JudgedBySubject'
    BY <1>0 DEF Agree, JudgedBySubject
  <1>3. Replacing'
    BY <1>0 DEF Replacing
  <1>4. FileIsKnown'
    BY <1>0, <1>3 DEF FileIsKnown
  <1> QED BY <1>1, <1>2, <1>4 DEF Agree

(* The commit makes the row describe the file.                             *)
LEMMA CommitAgrees ==
    ASSUME TypeOK, Agree, NEW w \in Workers, UploadCommits(w)
    PROVE  Agree'
  <1>0. /\ lock = w /\ lock' = NoOne /\ pc[w] = "commit" /\ clip[w] = iv'
        /\ state' = "recorded" /\ UNCHANGED <<by, file, torn>>
    BY DEF UploadCommits, At, Release, RecordedIv, TypeOK, fileVars
  <1>1. side[w] \in Slots /\ by \in Slots \ {side[w]} /\ iv' \in {side[w]} \X Takes
    BY <1>0 DEF Agree, LockedRowWaits, TypeOK
  <1>2. LockedRowWaits'
    BY <1>0, NoOneAssumption DEF LockedRowWaits
  <1>3. iv' # NoClip
    BY <1>1, ClipAssumption
  <1>4. JudgedBySubject'
    BY <1>0, <1>1, <1>3 DEF JudgedBySubject
  <1>5. ~Replacing'
    BY <1>0, NoOneAssumption DEF Replacing
  <1>6. ~torn => file \in {NoClip, clip[w]}
    BY <1>0 DEF Agree, FileIsKnown
  <1>7. FileIsKnown'
    BY <1>0, <1>5, <1>6, NoOneAssumption DEF FileIsKnown
  <1> QED BY <1>2, <1>4, <1>7 DEF Agree

(* A crash rolls the transaction back; a file it leaves behind is torn.    *)
LEMMA CrashAgrees ==
    ASSUME TypeOK, Agree, NEW w \in Workers, Crash(w)
    PROVE  Agree'
  <1>0. /\ UNCHANGED <<state, by, iv, file>>
        /\ torn' = (torn \/ pc[w] = "commit")
        /\ lock' = IF lock = w THEN NoOne ELSE lock
    BY DEF Crash, Release, rowVars
  <1>m. \A v \in Workers \ {w} :
            pc'[v] = pc[v] /\ side'[v] = side[v] /\ clip'[v] = clip[v]
    BY MovesOne DEF Crash
  <1>1. JudgedBySubject'
    BY <1>0 DEF Agree, JudgedBySubject
  <1>2. CASE lock = w
    <2>0. \A v \in Workers : lock' # v
      BY <1>0, <1>2, NoOneAssumption
    <2>1. LockedRowWaits'
      BY <2>0 DEF LockedRowWaits
    <2>2. ~Replacing'
      BY <2>0 DEF Replacing
    <2>3. pc[w] # "commit" => ~Replacing
      BY <1>2 DEF Replacing
    <2>4. FileIsKnown'
      BY <1>0, <2>0, <2>2, <2>3 DEF Agree, FileIsKnown
    <2> QED BY <1>1, <2>1, <2>4 DEF Agree
  <1>3. CASE lock # w
    <2>1. HolderStays
      BY <1>3, <1>m, OthersMove
    <2>2. LockedRowWaits'
      BY <1>0, <1>3, <2>1 DEF Agree, LockedRowWaits, HolderStays
    <2>3. Replacing' <=> Replacing
      BY <1>0, <1>3, <2>1 DEF Replacing, HolderStays
    <2>4. FileIsKnown'
      BY <1>0, <1>3, <2>1, <2>3 DEF Agree, FileIsKnown, HolderStays
    <2> QED BY <1>1, <2>2, <2>4 DEF Agree
  <1> QED BY <1>2, <1>3

(* The handlers of POST /video and of closing write the row while nobody   *)
(* holds the lock.                                                         *)
LEMMA WritersAgree ==
    ASSUME TypeOK, Agree, NEW w \in Workers,
           Request(w) \/ Cancel(w) \/ Answer(w) \/ CloseScrubs(w)
    PROVE  Agree'
  <1>0. Quiet /\ lock' = lock /\ UNCHANGED <<file, torn>>
    BY UnlockedIsQuiet DEF Request, Cancel, Answer, CloseScrubs, fileVars
  <1>1. CASE Request(w)
    <2>1. iv' \in {iv, NoClip} /\ JudgedBySubject'
      BY <1>1 DEF Request, Agree, JudgedBySubject, rowVars
    <2> QED BY <1>0, <2>1, RowWritten
  <1>2. CASE Cancel(w)
    <2>1. iv' \in {iv, NoClip} /\ JudgedBySubject'
      BY <1>2 DEF Cancel, Agree, JudgedBySubject
    <2> QED BY <1>0, <2>1, RowWritten
  <1>3. CASE Answer(w)
    <2>1. iv' = iv /\ by' = by
      BY <1>3 DEF Answer
    <2>2. state' = state \/ state' = "declined" \/ state = "recorded"
      BY <1>3 DEF Answer, At, Verdicts, NewState, CanJudge
    <2>3. JudgedBySubject'
      BY <2>1, <2>2 DEF Agree, JudgedBySubject
    <2> QED BY <1>0, <2>1, <2>3, RowWritten
  <1>4. CASE CloseScrubs(w)
    <2>1. iv' \in {iv, NoClip} /\ JudgedBySubject'
      BY <1>4 DEF CloseScrubs, Scrub, JudgedBySubject
    <2> QED BY <1>0, <2>1, RowWritten
  <1> QED BY <1>1, <1>2, <1>3, <1>4

(* So does the purge.                                                      *)
LEMMA PurgeAgrees ==
    ASSUME TypeOK, Agree, PurgeRuns
    PROVE  Agree'
  <1>1. Scrub \/ UNCHANGED rowVars
    BY DEF PurgeRuns
  <1>2. iv' \in {iv, NoClip} /\ JudgedBySubject'
    BY <1>1 DEF Scrub, rowVars, Agree, JudgedBySubject
  <1>3. Quiet /\ lock' = lock /\ UNCHANGED <<file, torn>>
    BY UnlockedIsQuiet DEF PurgeRuns, fileVars
  <1> QED BY <1>2, <1>3, RowWritten

(* A worker that does not hold the lock starts, goes on or ends.           *)
LEMMA BystandersAgree ==
    ASSUME TypeOK, Agree, NEW w \in Workers,
           \/ \E s \in Slots, k \in Kinds : Authorize(w, s, k)
           \/ RequestUnlinks(w) \/ CancelUnlinks(w) \/ CloseUnlinks(w) \/ FetchReads(w)
    PROVE  Agree'
  <1>1. lock # w
    <2>1. pc[w] \notin {"replace", "commit"}
      BY DEF Authorize, RequestUnlinks, CancelUnlinks, CloseUnlinks, FetchReads, At, InFlight
    <2> QED BY <2>1 DEF TypeOK
  <1>2. lock' = lock /\ UNCHANGED <<state, by, iv>>
    BY DEF Authorize, RequestUnlinks, CancelUnlinks, CloseUnlinks, FetchReads, rowVars
  <1>3. (file' = file /\ torn' = torn) \/ file' = NoClip
    BY DEF Authorize, RequestUnlinks, CancelUnlinks, CloseUnlinks, FetchReads, fileVars, Unlink
  <1>4. \A v \in Workers \ {w} :
            pc'[v] = pc[v] /\ side'[v] = side[v] /\ clip'[v] = clip[v]
    <2>1. CASE \E s \in Slots, k \in Kinds : Authorize(w, s, k)
      BY <2>1 DEF Authorize, Goto, Reply, TypeOK
    <2>2. CASE RequestUnlinks(w) \/ CancelUnlinks(w) \/ CloseUnlinks(w) \/ FetchReads(w)
      <3>1. \E p \in {"update", "idle", "scrub", "sent"} : Goto(w, p) \/ Reply(w, p)
        BY <2>2 DEF RequestUnlinks, CancelUnlinks, CloseUnlinks, FetchReads
      <3> QED BY <3>1, MovesOne
    <2> QED BY <2>1, <2>2
  <1>5. HolderStays
    BY <1>1, <1>4, OthersMove
  <1> QED BY <1>2, <1>3, <1>5, RowStays

(* Every step keeps row, file and lock in agreement.                       *)
LEMMA StepAgrees == TypeOK /\ Agree /\ [Next]_vars => Agree'
  <1> SUFFICES ASSUME TypeOK, Agree, [Next]_vars PROVE Agree'
    OBVIOUS
  <1>2. CASE PurgeReads \/ PurgeUnlinks \/ PurgeCrash \/ Lapse \/ RoomExpires \/ RoomAges
             \/ UNCHANGED vars
    <2>1. lock' = lock /\ UNCHANGED <<state, by, iv>>
      BY <1>2 DEF PurgeReads, PurgeUnlinks, PurgeCrash, Lapse, RoomExpires, RoomAges, vars,
                  rowVars
    <2>2. (file' = file /\ torn' = torn) \/ file' = NoClip
      BY <1>2 DEF PurgeReads, PurgeUnlinks, PurgeCrash, Lapse, RoomExpires, RoomAges, vars,
                  fileVars, Unlink
    <2>3. HolderStays
      BY <1>2 DEF PurgeReads, PurgeUnlinks, PurgeCrash, Lapse, RoomExpires, RoomAges, vars,
                  reqVars, HolderStays
    <2> QED BY <2>1, <2>2, <2>3, RowStays
  <1> QED BY <1>2, PurgeAgrees, LockingAgrees, ReplacingAgrees, CommitAgrees, CrashAgrees,
             WritersAgree, BystandersAgree DEF Next, Handle, PurgeStep

(* Row, file and lock agree at every moment.                               *)
THEOREM Agreement == Spec => []Agree
  <1>1. Init => Agree
    BY NoOneAssumption DEF Init, Agree, LockedRowWaits, JudgedBySubject, FileIsKnown
  <1> QED BY <1>1, StepAgrees, TypeCorrect, PTL DEF Spec

(* What is judged was recorded by the person who was asked, whoever else   *)
(* asks, uploads or is killed meanwhile.                                   *)
THEOREM SubjectRecords == Spec => []RecordingIsBySubject
  <1>1. Agree => RecordingIsBySubject
    BY DEF Agree, JudgedBySubject, RecordingIsBySubject
  <1> QED BY <1>1, Agreement, PTL

(* When no upload is under way, the file a room keeps is the one its row   *)
(* describes, unless a worker was killed in the middle of an upload.       *)
THEOREM FileIsTheRows == Spec => []FileMatchesRow
  <1>1. Agree => FileMatchesRow
    BY UnlockedIsQuiet DEF Agree, FileIsKnown, Replacing, Quiet, FileMatchesRow
  <1> QED BY <1>1, Agreement, PTL

-----------------------------------------------------------------------------
(* Verdicts stand, and the handlers implement VideoExchange.               *)

(* What each step does to the row of a room.                               *)
LEMMA RowSteps ==
    ASSUME TypeOK, Agree, [Next]_vars
    PROVE  \/ UNCHANGED <<present, closed, state, by, iv, overdue>>
           \/ /\ UNCHANGED <<present, closed>>
              /\ \E w \in Workers : Request(w) \/ Cancel(w) \/ Answer(w) \/ UploadCommits(w)
           \/ /\ ~present' \/ closed'
              /\ UNCHANGED <<state, by, iv, overdue>> \/ Scrub
           \/ Lapse
  <1>1. ASSUME NEW w \in Workers,
               \/ \E s \in Slots, k \in Kinds : Authorize(w, s, k)
               \/ RequestUnlinks(w) \/ CancelUnlinks(w) \/ CloseUnlinks(w) \/ FetchReads(w)
               \/ UploadLocks(w) \/ UploadReplaces(w) \/ Crash(w)
        PROVE UNCHANGED <<present, closed, state, by, iv, overdue>>
    BY <1>1 DEF Authorize, RequestUnlinks, CancelUnlinks, CloseUnlinks, FetchReads,
                UploadLocks, UploadReplaces, Crash, rowVars, lifeVars
  <1>2. ASSUME NEW w \in Workers,
               Request(w) \/ Cancel(w) \/ Answer(w) \/ UploadCommits(w)
        PROVE UNCHANGED <<present, closed>>
    BY <1>2 DEF Request, Cancel, Answer, UploadCommits, lifeVars
  <1>3. ASSUME NEW w \in Workers, CloseScrubs(w) PROVE (~present' \/ closed') /\ Scrub
    BY <1>3 DEF CloseScrubs, CloseRow, TypeOK, LifeTypeOK
  <1>4. CASE PurgeRuns
    <2>1. CASE PurgeCloses \/ PurgeDeletes
      BY <1>4, <2>1 DEF PurgeRuns, PurgeRow
    <2>2. CASE ~PurgeCloses /\ ~PurgeDeletes
      BY <1>4, <2>2 DEF PurgeRuns, PurgeRow, rowVars, TypeOK, LifeTypeOK
    <2> QED BY <2>1, <2>2
  <1>5. CASE PurgeReads \/ PurgeUnlinks \/ PurgeCrash \/ RoomExpires \/ RoomAges \/ UNCHANGED vars
    BY <1>5 DEF PurgeReads, PurgeUnlinks, PurgeCrash, RoomExpires, RoomAges, Expire, Age,
                vars, rowVars, lifeVars
  <1> QED BY <1>1, <1>2, <1>3, <1>4, <1>5 DEF Next, Handle, PurgeStep

(* An upload commits into an exchange that is still waiting for it.        *)
LEMMA CommitIsAwaited ==
    ASSUME TypeOK, Agree, NEW w \in Workers, UploadCommits(w)
    PROVE  state \in {"requested", "recorded"}
  <1>1. lock = w
    BY DEF UploadCommits, At, TypeOK
  <1> QED BY <1>1 DEF Agree, LockedRowWaits

(* Only the asker's "confirm" or "deny" makes a verdict, on a recording.   *)
LEMMA StepJudges == TypeOK /\ Agree /\ [Next]_vars => AskerJudges
  <1> SUFFICES ASSUME TypeOK, Agree, [Next]_vars, ~Judged, Judged'
               PROVE  /\ state = "recorded" /\ ~overdue /\ iv' = iv /\ by' = by
                      /\ \E w \in Workers : Judging(w) /\ side[w] = by
    BY DEF AskerJudges
  <1> USE DEF Judged
  <1>1. ASSUME NEW w \in Workers, Request(w) \/ Cancel(w) \/ UploadCommits(w) PROVE FALSE
    BY <1>1 DEF Request, Cancel, UploadCommits, rowVars
  <1>2. ASSUME NEW w \in Workers, Answer(w)
        PROVE  /\ state = "recorded" /\ ~overdue /\ iv' = iv /\ by' = by
               /\ Judging(w) /\ side[w] = by
    <2>1. /\ At(w, "update", {"decline"} \cup Verdicts)
          /\ IF kind[w] = "decline" THEN CanDecline(w) ELSE CanJudge(w)
          /\ state' = NewState[kind[w]] /\ UNCHANGED <<by, iv>> /\ Reply(w, "idle")
      BY <1>2 DEF Answer
    <2>2. kind[w] \in Verdicts
      BY <2>1 DEF At, NewState
    <2>3. pc'[w] = "idle"
      BY <2>1 DEF Reply, TypeOK
    <2> QED BY <2>1, <2>2, <2>3 DEF Judging, At, CanJudge, Verdicts
  <1>3. CASE Lapse
    BY <1>3 DEF Lapse
  <1>4. CASE Scrub
    BY <1>4 DEF Scrub
  <1> QED BY RowSteps, <1>1, <1>2, <1>3, <1>4

(* A step that disturbs a verdict asks again or ends the room.             *)
LEMMA StepKeepsVerdict == TypeOK /\ Agree /\ [Next]_vars => VerdictStep
  <1> SUFFICES ASSUME TypeOK, Agree, [Next]_vars, Judged
               PROVE  \/ state' = state /\ iv' = iv
                      \/ state' = "requested"
                      \/ closed' \/ ~present'
    BY StepJudges DEF VerdictStep
  <1>1. ASSUME NEW w \in Workers, Request(w)
        PROVE state' = "requested" \/ (state' = state /\ iv' = iv)
    <2>1. state' = "requested" \/ UNCHANGED rowVars
      BY <1>1 DEF Request
    <2>2. CASE UNCHANGED rowVars
      <3>1. state' = state /\ iv' = iv
        BY <2>2 DEF rowVars
      <3> QED BY <3>1
    <2> QED BY <2>1, <2>2
  <1>2. ASSUME NEW w \in Workers, Cancel(w) PROVE state' = state /\ iv' = iv
    BY <1>2 DEF Cancel, CanCancel, Judged
  <1>3. ASSUME NEW w \in Workers, Answer(w) PROVE state' = state /\ iv' = iv
    BY <1>3 DEF Answer, CanDecline, CanJudge, Judged
  <1>4. ASSUME NEW w \in Workers, UploadCommits(w) PROVE FALSE
    BY <1>4, CommitIsAwaited DEF Judged
  <1>5. CASE Lapse
    BY <1>5 DEF Lapse, Judged
  <1> QED BY RowSteps, <1>1, <1>2, <1>3, <1>4, <1>5

(* A verdict comes from the asker, on the recording that waits for it;     *)
(* both stay until somebody asks again or the room ends.                   *)
THEOREM VerdictsStand == Spec => VerdictStands
  <1>1. TypeOK /\ Agree /\ [Next]_vars => [VerdictStep]_vars
    BY StepKeepsVerdict
  <1> QED BY <1>1, TypeCorrect, Agreement, PTL DEF Spec, VerdictStands

(* Every step is one of the exchange's, or nothing the two people see.     *)
LEMMA StepImplements == TypeOK /\ Agree /\ [Next]_vars => [Exchange!Next]_(Exchange!vxVars)
  <1> SUFFICES ASSUME TypeOK, Agree, [Next]_vars
               PROVE  Exchange!Next \/ UNCHANGED Exchange!vxVars
    OBVIOUS
  <1>1. CASE ~InOpenRoom'
    BY <1>1 DEF Exchange!Next, Exchange!End, Stage
  <1>2. CASE InOpenRoom' /\ InOpenRoom
    <2> USE DEF Stage
    <2>1. CASE UNCHANGED <<state, by, overdue>>
      BY <1>2, <2>1 DEF Exchange!vxVars
    <2>2. ASSUME NEW w \in Workers, Request(w), ~UNCHANGED <<state, by, overdue>>
          PROVE Exchange!Next
      <3>1. /\ state' = "requested" /\ by' = side[w] /\ overdue' = FALSE
            /\ Free /\ side[w] \in Slots
        BY <2>2 DEF Request, rowVars, TypeOK
      <3>2. Exchange!Ask(side[w])
        BY <1>2, <3>1 DEF Exchange!Ask, Free, TypeOK, States
      <3> QED BY <3>1, <3>2 DEF Exchange!Next, Exchange!Sides
    <2>3. ASSUME NEW w \in Workers, Cancel(w), ~UNCHANGED <<state, by, overdue>>
          PROVE Exchange!Next
      BY <1>2, <2>3 DEF Cancel, CanCancel, Exchange!Next, Exchange!Withdraw
    <2>4. ASSUME NEW w \in Workers, Answer(w), ~UNCHANGED <<state, by, overdue>>
          PROVE Exchange!Next
      <3>1. /\ state' = NewState[kind[w]] /\ overdue' = FALSE /\ by' = by
            /\ kind[w] \in {"decline", "confirm", "deny"}
            /\ IF kind[w] = "decline" THEN CanDecline(w) ELSE CanJudge(w)
        BY <2>4 DEF Answer, At, Verdicts
      <3>2. CASE kind[w] = "decline"
        BY <1>2, <3>1, <3>2 DEF NewState, CanDecline, Exchange!Next, Exchange!Decline
      <3>3. CASE kind[w] \in {"confirm", "deny"}
        <4>1. \E verdict \in {"confirmed", "denied"} : Exchange!Judge(verdict)
          BY <1>2, <3>1, <3>3 DEF NewState, CanJudge, Exchange!Judge
        <4> QED BY <4>1 DEF Exchange!Next
      <3> QED BY <3>1, <3>2, <3>3
    <2>5. ASSUME NEW w \in Workers, UploadCommits(w) PROVE Exchange!Next
      <3>1. state \in {"requested", "recorded"}
        BY <2>5, CommitIsAwaited
      <3>2. Exchange!Record
        BY <1>2, <2>5, <3>1 DEF UploadCommits, Exchange!Record
      <3> QED BY <3>2 DEF Exchange!Next
    <2>6. CASE Lapse
      BY <1>2, <2>6 DEF Lapse, Exchange!Next, Exchange!Lapse
    <2> QED BY <1>2, RowSteps, <2>1, <2>2, <2>3, <2>4, <2>5, <2>6 DEF InOpenRoom
  <1>3. CASE InOpenRoom' /\ ~InOpenRoom
    <2>1. UNCHANGED <<present, closed>>
      BY <1>3, RowSteps DEF InOpenRoom, Lapse, lifeVars
    <2> QED BY <1>3, <2>1 DEF InOpenRoom
  <1> QED BY <1>1, <1>2, <1>3

(* Whatever requests of both sides, purges and crashes interleave, the two *)
(* people see one exchange that is asked for, recorded and judged in this  *)
(* order.                                                                  *)
THEOREM Implements == Spec => ImplementsExchange
  <1>1. Init => Exchange!Init
    BY DEF Init, Open, Stage, InOpenRoom, Exchange!Init
  <1> QED BY <1>1, StepImplements, TypeCorrect, Agreement, PTL
          DEF Spec, ImplementsExchange, Exchange!Spec
-----------------------------------------------------------------------------
(* What the purge does for a room that has ended.                          *)

(* What each step does to the room, to uploads and to the purge.           *)
NoUpload == \A w \in Workers : kind[w] # "upload"
Over == ~Live /\ NoUpload

(* A room that is not live stays so.                                       *)
LEMMA LiveNoMore == TypeOK /\ ~Live /\ [Next]_vars => ~Live'
  BY DEF Live, Next, Handle, Authorize, RequestUnlinks, Request, Cancel, CancelUnlinks,
         Answer, UploadLocks, UploadReplaces, UploadCommits, FetchReads, CloseUnlinks,
         CloseScrubs, CloseRow, Crash, PurgeStep, PurgeReads, PurgeUnlinks, PurgeRuns,
         PurgeRow, PurgeCloses, PurgeDeletes, PurgeCrash, Lapse, RoomExpires, Expire,
         RoomAges, Age, vars, lifeVars, TypeOK, LifeTypeOK

(* It takes no new upload either.                                          *)
LEMMA OverStays == TypeOK /\ Over /\ [Next]_vars => Over'
  <1> SUFFICES ASSUME TypeOK, Over, [Next]_vars PROVE Over'
    OBVIOUS
  <1>1. ~Live'
    BY LiveNoMore DEF Over
  <1>2. ASSUME NEW w \in Workers, NEW s \in Slots, NEW k \in Kinds, Authorize(w, s, k)
        PROVE NoUpload'
    BY <1>2 DEF Authorize, Usable, Over, Live, NoUpload, Reply, Goto, TypeOK
  <1>3. ASSUME NEW w \in Workers, Handle(w) \/ Crash(w) PROVE NoUpload'
    <2>1. kind' = kind \/ kind' = [kind EXCEPT ![w] = "none"]
      BY <1>3 DEF Handle, Crash, RequestUnlinks, Request, Cancel, CancelUnlinks, Answer,
             UploadLocks, UploadReplaces, UploadCommits, FetchReads, CloseUnlinks,
             CloseScrubs, Goto, Reply
    <2> QED BY <2>1 DEF Over, NoUpload, TypeOK
  <1>4. ASSUME UNCHANGED kind PROVE NoUpload'
    BY <1>4 DEF Over, NoUpload
  <1> QED BY <1>1, <1>2, <1>3, <1>4
          DEF Over, Next, PurgeStep, PurgeReads, PurgeUnlinks, PurgeRuns, PurgeCrash, Lapse,
              RoomExpires, RoomAges, vars, reqVars

(* Nobody holds the write lock then, and nobody puts a file back.          *)
LEMMA OverIsUnlocked == TypeOK /\ Over => Unlocked
  BY DEF TypeOK, Over, NoUpload, Unlocked

LEMMA FileStaysGone == TypeOK /\ Over /\ file = NoClip /\ [Next]_vars => file' = NoClip
  BY DEF Over, NoUpload, Next, Handle, Authorize, RequestUnlinks, Request, Cancel, CancelUnlinks,
         Answer, UploadLocks, UploadReplaces, UploadCommits, FetchReads, CloseUnlinks,
         CloseScrubs, Crash, PurgeStep, PurgeReads, PurgeUnlinks, PurgeRuns, PurgeCrash,
         Lapse, RoomExpires, RoomAges, vars, fileVars, Unlink, At

(* The purge goes round, killed or not.                                    *)
LEMMA PurgeGoesRound ==
    [Next]_vars =>
        /\ purge = "idle" => purge' \in {"idle", "unlink"}
        /\ purge = "unlink" => purge' \in {"unlink", "statements", "idle"}
        /\ purge = "statements" => purge' \in {"statements", "idle"}
  BY DEF Next, Handle, Authorize, RequestUnlinks, Request, Cancel, CancelUnlinks,
         Answer, UploadLocks, UploadReplaces, UploadCommits, FetchReads, CloseUnlinks,
         CloseScrubs, Crash, PurgeStep, PurgeReads, PurgeUnlinks, PurgeRuns, PurgeCrash,
         Lapse, RoomExpires, RoomAges, vars

(* When each step of the purge can be taken.                               *)
PurgeIsFree ==
    /\ purge = "idle" /\ ~Live => ENABLED <<PurgeReads>>_vars
    /\ purge = "unlink" => ENABLED <<PurgeUnlinks>>_vars
    /\ purge = "statements" /\ Unlocked => ENABLED <<PurgeRuns>>_vars

(* Over: the room has ended and no upload is under way.                    *)
QuietEndedRoomLosesItsFile == Over ~> [](file = NoClip)

(* From the moment an ended room has no upload under way, its recording is *)
(* gone for good after some run of the purge, though runs and handlers may *)
(* be killed at any point.  The hypothesis about ENABLED says what it is   *)
(* of these actions.                                                       *)
THEOREM PurgeFindsTheFile == FairSpec /\ []PurgeIsFree => QuietEndedRoomLosesItsFile
  <1>1. TypeOK /\ Over /\ PurgeIsFree =>
           /\ purge = "idle" => ENABLED <<PurgeReads>>_vars
           /\ purge = "unlink" => ENABLED <<PurgeUnlinks>>_vars
           /\ purge = "statements" => ENABLED <<PurgeRuns>>_vars
    BY OverIsUnlocked DEF PurgeIsFree, Over
  <1>2. purge = "idle" /\ [Next]_vars => (purge = "idle")' \/ (purge = "unlink")'
    BY PurgeGoesRound
  <1>3. <<PurgeReads>>_vars => (purge = "unlink")'
    BY DEF PurgeReads
  <1>4. purge = "statements" /\ [Next]_vars => (purge = "statements")' \/ (purge = "idle")'
    BY PurgeGoesRound
  <1>5. <<PurgeRuns>>_vars => (purge = "idle")'
    BY DEF PurgeRuns
  <1>6. <<PurgeUnlinks>>_vars => (file = NoClip)'
    BY DEF PurgeUnlinks, Unlink
  <1>7. TypeOK => purge = "idle" \/ purge = "unlink" \/ purge = "statements"
    BY DEF TypeOK
  <1>8. TypeOK /\ Over /\ file = NoClip /\ [Next]_vars => (file = NoClip)'
    BY FileStaysGone
  <1> QED BY <1>1, <1>2, <1>3, <1>4, <1>5, <1>6, <1>7, <1>8, OverStays, TypeCorrect, PTL
          DEF FairSpec, Spec, QuietEndedRoomLosesItsFile

(* The uploads under way at its end have come to an end at some point.     *)
UploadsEnd == (closed \/ expired) ~> NoUpload

(* Once an ended room has no upload under way, its recording is gone for   *)
(* good in the end.  That the uploads under way when it ended come to an   *)
(* end, one after another, is a hypothesis here: there are finitely many,  *)
(* and counting them is induction.                                         *)
THEOREM EndedRoomsLoseTheirFile ==
    FairSpec /\ []PurgeIsFree /\ UploadsEnd => EndedRoomLosesItsFile
  <1>1. closed \/ expired => ~Live
    BY DEF Live
  <1>2. TypeOK /\ ~Live /\ [Next]_vars => ~Live'
    BY LiveNoMore
  <1>3. ~Live /\ NoUpload => Over
    BY DEF Over
  <1> QED BY <1>1, <1>2, <1>3, PurgeFindsTheFile, TypeCorrect, PTL
          DEF FairSpec, Spec, UploadsEnd, EndedRoomLosesItsFile, QuietEndedRoomLosesItsFile

(* A room the purge is at work on has ended.                               *)
PurgeSparesTheLiving == purge # "idle" => ~Live

(* The purge is never at work on a live room: whatever it found not to be  *)
(* live stays so until it is done, or killed.                              *)
THEOREM PurgeIsLate == Spec => []PurgeSparesTheLiving
  <1>1. Init => PurgeSparesTheLiving
    BY DEF Init, PurgeSparesTheLiving
  <1>2. TypeOK /\ PurgeSparesTheLiving /\ [Next]_vars => PurgeSparesTheLiving'
    <2> SUFFICES ASSUME TypeOK, PurgeSparesTheLiving, [Next]_vars, purge' # "idle"
                 PROVE  ~Live'
      BY DEF PurgeSparesTheLiving
    <2>1. CASE purge # "idle"
      BY <2>1, LiveNoMore DEF PurgeSparesTheLiving
    <2>2. CASE purge = "idle"
      <3>1. PurgeReads
        BY <2>2 DEF Next, Handle, Authorize, RequestUnlinks, Request, Cancel, CancelUnlinks,
               Answer, UploadLocks, UploadReplaces, UploadCommits, FetchReads, CloseUnlinks,
               CloseScrubs, Crash, PurgeStep, PurgeUnlinks, PurgeRuns, PurgeCrash,
               Lapse, RoomExpires, RoomAges, vars
      <3> QED BY <3>1, LiveNoMore DEF PurgeReads
    <2> QED BY <2>1, <2>2
  <1> QED BY <1>1, <1>2, TypeCorrect, PTL DEF Spec

-----------------------------------------------------------------------------
(* The write lock comes free.                                              *)

(* A worker on an upload, and the lock free and that worker done with it.  *)
Uploads(w) == kind[w] = "upload"
LetsGo(w) == Unlocked /\ ~Uploads(w)

(* No upload keeps the others waiting for good: the handler that holds the *)
(* write lock goes on until it commits, or is killed and rolled back.      *)
THEOREM UploadsReleaseTheLock ==
    ASSUME NEW w \in Workers
    PROVE  Spec /\ WF_vars(Handle(w)) /\ [](lock = w => ENABLED <<Handle(w)>>_vars)
             => ((lock = w) ~> LetsGo(w))
  <1> DEFINE R == lock = w /\ pc[w] = "replace"
             C == lock = w /\ pc[w] = "commit"
  <1>1. TypeOK /\ lock = w => R \/ C
    BY DEF TypeOK
  <1>2. TypeOK /\ lock = w /\ [Next]_vars =>
           \/ LetsGo(w)'
           \/ UNCHANGED <<lock, pc[w]>>
           \/ UploadReplaces(w)
    <2> SUFFICES ASSUME TypeOK, lock = w, [Next]_vars
                 PROVE  LetsGo(w)' \/ UNCHANGED <<lock, pc[w]>> \/ UploadReplaces(w)
      OBVIOUS
    <2>0. /\ ReqTypes /\ pc[w] \in {"replace", "commit"} /\ kind[w] = "upload"
          /\ \A v \in Workers \ {w} : pc[v] \notin {"replace", "commit"} \/ kind[v] # "upload"
          /\ lock # NoOne
      BY TypeParts, NoOneAssumption DEF LockIsAnUploads
    <2>1. ASSUME NEW v \in Workers, NEW s \in Slots, NEW k \in Kinds, Authorize(v, s, k)
          PROVE UNCHANGED <<lock, pc[w]>>
      BY <2>0, <2>1 DEF Authorize, InFlight, Reply, Goto, ReqTypes
    <2>2. ASSUME NEW v \in Workers, v # w, Handle(v) \/ Crash(v)
          PROVE UNCHANGED <<lock, pc[w]>>
      <3>1. \E p \in {"update", "after", "idle", "commit", "sent", "scrub"} :
               Goto(v, p) \/ Reply(v, p)
        BY <2>0, <2>2 DEF Handle, Crash, RequestUnlinks, Request, Cancel, CancelUnlinks, Answer,
               UploadReplaces, UploadCommits, FetchReads, CloseUnlinks, CloseScrubs,
               UploadLocks, Unlocked
      <3>2. pc'[w] = pc[w]
        BY <2>0, <2>2, <3>1, MovesOne
      <3>3. lock' = lock
        BY <2>0, <2>2 DEF Handle, Crash, RequestUnlinks, Request, Cancel, CancelUnlinks, Answer,
               UploadReplaces, UploadCommits, FetchReads, CloseUnlinks, CloseScrubs,
               UploadLocks, Unlocked, Release
      <3> QED BY <3>2, <3>3
    <2>3. CASE Handle(w) \/ Crash(w)
      BY <2>0, <2>3 DEF Handle, Crash, RequestUnlinks, Request, Cancel, CancelUnlinks, Answer,
             UploadCommits, FetchReads, CloseUnlinks, CloseScrubs, UploadLocks, At,
             Unlocked, Release, LetsGo, Uploads, Reply, ReqTypes
    <2>4. CASE UNCHANGED <<lock, reqVars>>
      BY <2>4 DEF reqVars
    <2> QED BY <2>1, <2>2, <2>3, <2>4 DEF Next, PurgeStep, PurgeReads, PurgeUnlinks, PurgeRuns,
            PurgeCrash, Lapse, RoomExpires, RoomAges, vars
  <1>3. TypeOK /\ lock = w /\ UploadReplaces(w) => C'
    BY DEF UploadReplaces, Goto, TypeOK
  <1>4. TypeOK /\ R /\ [Next]_vars => R' \/ C' \/ LetsGo(w)'
    BY <1>2, <1>3
  <1>5. TypeOK /\ C /\ [Next]_vars => C' \/ LetsGo(w)'
    BY <1>2 DEF UploadReplaces, At
  <1>6. TypeOK /\ R /\ <<Handle(w)>>_vars => C' \/ LetsGo(w)'
    <2> SUFFICES ASSUME TypeOK, R, Handle(w), Next PROVE C' \/ LetsGo(w)'
      BY DEF Next
    <2>1. UploadReplaces(w)
      BY DEF Handle, RequestUnlinks, Request, Cancel, CancelUnlinks, Answer,
             UploadCommits, FetchReads, CloseUnlinks, CloseScrubs, UploadLocks, At
    <2> QED BY <2>1, <1>3
  <1>7. TypeOK /\ C /\ <<Handle(w)>>_vars => LetsGo(w)'
    BY DEF Handle, RequestUnlinks, Request, Cancel, CancelUnlinks, Answer, UploadReplaces,
           UploadCommits, FetchReads, CloseUnlinks, CloseScrubs, UploadLocks, At, Release,
           Unlocked, LetsGo, Uploads, Reply, TypeOK
  <1>8. R \/ C => lock = w
    OBVIOUS
  <1> QED BY <1>1, <1>4, <1>5, <1>6, <1>7, <1>8, TypeCorrect, PTL DEF Spec

(* An upload is before, or in, its transaction.                            *)
UploadsAreAtWork == \A w \in Workers : Uploads(w) => pc[w] \in {"update", "replace", "commit"}

LEMMA AtWorkStep == TypeOK /\ UploadsAreAtWork /\ [Next]_vars => UploadsAreAtWork'
  <1> SUFFICES ASSUME TypeOK, UploadsAreAtWork, [Next]_vars, NEW w \in Workers, Uploads(w)'
               PROVE  pc'[w] \in {"update", "replace", "commit"}
    BY DEF UploadsAreAtWork
  <1> USE DEF Uploads, UploadsAreAtWork
  <1>0. ReqTypes
    BY TypeParts
  <1>1. ASSUME pc'[w] = pc[w], kind'[w] = kind[w] PROVE pc'[w] \in {"update", "replace", "commit"}
    BY <1>1
  <1>2. ASSUME NEW v \in Workers, v # w, Handle(v) \/ Crash(v)
        PROVE pc'[w] = pc[w] /\ kind'[w] = kind[w]
    BY <1>0, <1>2 DEF Handle, Crash, RequestUnlinks, Request, Cancel, CancelUnlinks, Answer,
           UploadLocks, UploadReplaces, UploadCommits, FetchReads, CloseUnlinks,
           CloseScrubs, Goto, Reply, ReqTypes
  <1>3. CASE Handle(w) \/ Crash(w)
    BY <1>0, <1>3 DEF Handle, Crash, RequestUnlinks, Request, Cancel, CancelUnlinks, Answer,
           UploadLocks, UploadReplaces, UploadCommits, FetchReads, CloseUnlinks,
           CloseScrubs, Goto, Reply, At, ReqTypes
  <1>4. ASSUME NEW v \in Workers, NEW s \in Slots, NEW k \in Kinds, Authorize(v, s, k)
        PROVE pc'[w] \in {"update", "replace", "commit"}
    BY <1>0, <1>4 DEF Authorize, Goto, Reply, FirstStep, InFlight, ReqTypes
  <1>5. CASE UNCHANGED reqVars
    BY <1>1, <1>5 DEF reqVars
  <1> QED BY <1>1, <1>2, <1>3, <1>4, <1>5 DEF Next, PurgeStep, PurgeReads, PurgeUnlinks, PurgeRuns,
          PurgeCrash, Lapse, RoomExpires, RoomAges, vars

LEMMA UploadsWork == Spec => []UploadsAreAtWork
  <1>1. Init => UploadsAreAtWork
    BY DEF Init, UploadsAreAtWork, Uploads
  <1> QED BY <1>1, AtWorkStep, TypeCorrect, PTL DEF Spec

(* When the lock is free, whoever waits for it for an upload is served, or *)
(* another upload is.                                                      *)
LEMMA UploadsAreServed ==
    ASSUME NEW w \in Workers
    PROVE  Spec /\ WF_vars(Handle(w)) /\ [](Uploads(w) /\ Unlocked => ENABLED <<Handle(w)>>_vars)
             => (Uploads(w) ~> (~Uploads(w) \/ ~Unlocked))
  <1>1. TypeOK /\ UploadsAreAtWork /\ Uploads(w) /\ Unlocked /\ <<Handle(w)>>_vars
          => ~Uploads(w)' \/ ~Unlocked'
    <2> SUFFICES ASSUME TypeOK, UploadsAreAtWork, Uploads(w), Unlocked, Handle(w)
                 PROVE  ~Uploads(w)' \/ ~Unlocked'
      OBVIOUS
    <2>1. lock # w /\ w # NoOne
      BY NoOneAssumption DEF Unlocked
    <2>2. pc[w] = "update"
      BY <2>1 DEF TypeOK, Uploads, UploadsAreAtWork
    <2>3. UploadLocks(w)
      BY <2>2 DEF Handle, RequestUnlinks, Request, Cancel, CancelUnlinks, Answer, Verdicts,
             UploadReplaces, UploadCommits, FetchReads, CloseUnlinks, CloseScrubs, At, Uploads
    <2> QED BY <2>1, <2>3 DEF UploadLocks, Reply, Uploads, Unlocked, TypeOK
  <1> QED BY <1>1, UploadsWork, TypeCorrect, PTL DEF Spec

(* No room that has ended takes on another upload.                         *)
LEMMA NoMoreUploads ==
    ASSUME NEW w \in Workers
    PROVE  TypeOK /\ ~Live /\ ~Uploads(w) /\ [Next]_vars => ~Uploads(w)'
  <1> SUFFICES ASSUME TypeOK, ~Live, ~Uploads(w), [Next]_vars PROVE kind'[w] # "upload"
    BY DEF Uploads
  <1> USE DEF Uploads
  <1>1. ASSUME NEW v \in Workers, NEW s \in Slots, NEW k \in Kinds, Authorize(v, s, k)
        PROVE kind'[w] # "upload"
    BY <1>1 DEF Authorize, Usable, Live, Reply, Goto, TypeOK
  <1>2. ASSUME NEW v \in Workers, Handle(v) \/ Crash(v) PROVE kind'[w] # "upload"
    <2>1. kind' = kind \/ kind' = [kind EXCEPT ![v] = "none"]
      BY <1>2 DEF Handle, Crash, RequestUnlinks, Request, Cancel, CancelUnlinks, Answer,
             UploadLocks, UploadReplaces, UploadCommits, FetchReads, CloseUnlinks,
             CloseScrubs, Goto, Reply
    <2> QED BY <2>1 DEF TypeOK
  <1>3. ASSUME UNCHANGED kind PROVE kind'[w] # "upload"
    BY <1>3
  <1> QED BY <1>1, <1>2, <1>3
          DEF Next, PurgeStep, PurgeReads, PurgeUnlinks, PurgeRuns, PurgeCrash, Lapse,
              RoomExpires, RoomAges, vars, reqVars

(* What ENABLED is of an upload that has the lock, or finds it free, while *)
(* Takes has one for it that nothing speaks of (a bound of the model).     *)
UploadCanGo(w) == [](Uploads(w) /\ lock \in {w, NoOne} => ENABLED <<Handle(w)>>_vars)
UploadGoes(w) ==
    /\ (lock = w) ~> LetsGo(w)
    /\ Uploads(w) ~> (~Uploads(w) \/ ~Unlocked)

(* The service file starts three workers, and of so few uploads the prover *)
(* can keep account: they take the lock in turn, each lets go of it and no *)
(* other comes, so the recording of an ended room is gone for good.        *)
THEOREM ThreeWorkersLoseIt ==
    ASSUME NEW w1, NEW w2, NEW w3, Workers = {w1, w2, w3}
    PROVE  FairSpec /\ []PurgeIsFree /\ (\A w \in Workers : UploadCanGo(w))
             => EndedRoomLosesItsFile
  <1>1. /\ (\A w \in Workers : HandleIsFair(w)) =>
               HandleIsFair(w1) /\ HandleIsFair(w2) /\ HandleIsFair(w3)
        /\ (\A w \in Workers : UploadCanGo(w)) =>
               UploadCanGo(w1) /\ UploadCanGo(w2) /\ UploadCanGo(w3)
    OBVIOUS
  <1>2. \A w \in Workers : Spec /\ HandleIsFair(w) /\ UploadCanGo(w) => UploadGoes(w)
    <2> TAKE w \in Workers
    <2>1. TypeOK /\ lock = w => Uploads(w)
      BY DEF TypeOK, Uploads
    <2>2. /\ TypeOK /\ (Uploads(w) /\ lock \in {w, NoOne} => ENABLED <<Handle(w)>>_vars) =>
                 (lock = w => ENABLED <<Handle(w)>>_vars)
          /\ (Uploads(w) /\ lock \in {w, NoOne} => ENABLED <<Handle(w)>>_vars) =>
                 (Uploads(w) /\ Unlocked => ENABLED <<Handle(w)>>_vars)
      BY <2>1 DEF Unlocked
    <2> QED BY <2>2, UploadsReleaseTheLock, UploadsAreServed, TypeCorrect, PTL
            DEF HandleIsFair, UploadCanGo, UploadGoes
  <1>3. /\ Spec /\ HandleIsFair(w1) /\ UploadCanGo(w1) => UploadGoes(w1)
        /\ Spec /\ HandleIsFair(w2) /\ UploadCanGo(w2) => UploadGoes(w2)
        /\ Spec /\ HandleIsFair(w3) /\ UploadCanGo(w3) => UploadGoes(w3)
    BY <1>2
  <1>4. TypeOK => Unlocked \/ lock = w1 \/ lock = w2 \/ lock = w3
    BY DEF TypeOK, Unlocked
  <1>5. TypeOK /\ ~Live /\ [Next]_vars =>
           /\ ~Live'
           /\ ~Uploads(w1) => ~Uploads(w1)'
           /\ ~Uploads(w2) => ~Uploads(w2)'
           /\ ~Uploads(w3) => ~Uploads(w3)'
    BY NoMoreUploads, LiveNoMore
  <1>6. /\ LetsGo(w1) => ~Uploads(w1)
        /\ LetsGo(w2) => ~Uploads(w2)
        /\ LetsGo(w3) => ~Uploads(w3)
    BY DEF LetsGo
  <1>7. ~Uploads(w1) /\ ~Uploads(w2) /\ ~Uploads(w3) => NoUpload
    BY DEF Uploads, NoUpload
  <1>8. closed \/ expired => ~Live
    BY DEF Live
  <1>9. TypeOK /\ lock = w1 => Uploads(w1)
    BY DEF TypeOK, Uploads
  <1>10. TypeOK /\ lock = w2 => Uploads(w2)
    BY DEF TypeOK, Uploads
  <1>11. TypeOK /\ lock = w3 => Uploads(w3)
    BY DEF TypeOK, Uploads
  <1>12. FairSpec /\ (\A w \in Workers : UploadCanGo(w)) => UploadsEnd
    BY <1>1, <1>3, <1>4, <1>5, <1>6, <1>7, <1>8, <1>9, <1>10, <1>11, TypeCorrect, PTL
       DEF FairSpec, Spec, UploadsEnd, UploadGoes
  <1> QED BY <1>12, EndedRoomsLoseTheirFile, PTL

-----------------------------------------------------------------------------
(* How far FetchedProofOpens fails.                                        *)

(* A fetch goes on to the file only with a recording to fetch.             *)
FetchesKnowWhat == \A w \in Workers : At(w, "read", {"fetch"}) => clip[w] # NoClip

LEMMA FetchStep == TypeOK /\ FetchesKnowWhat /\ [Next]_vars => FetchesKnowWhat'
  <1> SUFFICES ASSUME TypeOK, FetchesKnowWhat, [Next]_vars,
                      NEW v \in Workers, pc'[v] = "read", kind'[v] = "fetch"
               PROVE  clip'[v] # NoClip
    BY DEF FetchesKnowWhat, At
  <1>0. ReqTypes
    BY TypeParts
  <1>1. ASSUME pc'[v] = pc[v], kind'[v] = kind[v], clip'[v] = clip[v] PROVE clip'[v] # NoClip
    BY <1>1 DEF FetchesKnowWhat, At
  <1>2. ASSUME NEW w \in Workers, NEW s \in Slots, NEW k \in Kinds, Authorize(w, s, k)
        PROVE clip'[v] # NoClip
    <2>1. CASE v # w
      <3>1. pc'[v] = pc[v] /\ kind'[v] = kind[v] /\ clip'[v] = clip[v]
        BY <1>0, <1>2, <2>1 DEF Authorize, Reply, Goto, ReqTypes
      <3> QED BY <1>1, <3>1
    <2>2. CASE v = w
      <3>1. /\ kind' = [kind EXCEPT ![w] = k]
            /\ clip' = [clip EXCEPT ![w] = IF k = "fetch" THEN ProofInView ELSE NoClip]
            /\ k = "fetch" => ProofInView # NoClip
        BY <1>0, <1>2, <2>2 DEF Authorize, Reply, Goto, ReqTypes
      <3> QED BY <1>0, <2>2, <3>1 DEF ReqTypes
    <2> QED BY <2>1, <2>2
  <1>3. ASSUME NEW w \in Workers, NEW p, p # "read", Goto(w, p) \/ Reply(w, p)
        PROVE clip'[v] # NoClip
    <2>1. v # w /\ pc'[v] = pc[v] /\ kind'[v] = kind[v] /\ clip'[v] = clip[v]
      BY <1>0, <1>3 DEF Goto, Reply, ReqTypes
    <2> QED BY <1>1, <2>1
  <1>4. ASSUME NEW w \in Workers, Handle(w) \/ Crash(w)
        PROVE clip'[v] # NoClip
    <2>1. CASE UploadLocks(w)
      <3>1. CASE Reply(w, "idle")
        BY <1>3, <3>1
      <3>2. CASE pc' = [pc EXCEPT ![w] = "replace"] /\ kind' = kind
                 /\ clip' = [clip EXCEPT ![w] = NewClip(side[w])]
        <4>1. v # w /\ pc'[v] = pc[v] /\ kind'[v] = kind[v] /\ clip'[v] = clip[v]
          BY <1>0, <3>2 DEF ReqTypes
        <4> QED BY <1>1, <4>1
      <3> QED BY <2>1, <3>1, <3>2 DEF UploadLocks
    <2>2. CASE ~UploadLocks(w)
      <3>1. \E p \in {"update", "after", "idle", "commit", "sent", "scrub"} :
               Goto(w, p) \/ Reply(w, p)
        BY <1>4, <2>2 DEF Handle, Crash, RequestUnlinks, Request, Cancel, CancelUnlinks, Answer,
               UploadReplaces, UploadCommits, FetchReads, CloseUnlinks, CloseScrubs
      <3> QED BY <1>3, <3>1
    <2> QED BY <2>1, <2>2
  <1>5. CASE UNCHANGED reqVars
    BY <1>1, <1>5 DEF reqVars
  <1> QED BY <1>2, <1>4, <1>5 DEF Next, PurgeStep, PurgeReads, PurgeUnlinks, PurgeRuns,
          PurgeCrash, Lapse, RoomExpires, RoomAges, vars

FetchFails(w) == At(w, "read", {"fetch"}) /\ pc'[w] = "sent" /\ file # clip[w]

(* A fetch that fails was overtaken, or an upload is or was half done.     *)
OnlyOvertakenFetchesFail ==
    [][\A w \in Workers : FetchFails(w) => iv # clip[w] \/ Replacing \/ torn]_vars

(* A fetch gets bytes its IV does not open only when the row has been      *)
(* written since the fetch read it, when an upload is between replacing    *)
(* the file and its commit, or when one was killed there.                  *)
THEOREM FetchesFailWhenOvertaken == Spec => OnlyOvertakenFetchesFail
  <1>1. Spec => []FetchesKnowWhat
    <2>1. Init => FetchesKnowWhat
      BY DEF Init, FetchesKnowWhat, At
    <2> QED BY <2>1, FetchStep, TypeCorrect, PTL DEF Spec
  <1>2. ASSUME TypeOK, Agree, FetchesKnowWhat, [Next]_vars, NEW w \in Workers, FetchFails(w)
        PROVE iv # clip[w] \/ Replacing \/ torn
    <2>1. file # NoClip
      BY <1>2 DEF FetchFails, At, Next, Handle, Authorize, InFlight, FetchReads, RequestUnlinks,
             Request, Cancel, CancelUnlinks, Answer, UploadLocks, UploadReplaces,
             UploadCommits, CloseUnlinks, CloseScrubs, Crash, Goto, Reply, TypeOK, PurgeStep,
             PurgeReads, PurgeUnlinks, PurgeRuns, PurgeCrash, Lapse, RoomExpires, RoomAges,
             vars, reqVars
    <2> QED BY <1>2, <2>1 DEF FetchFails, FetchesKnowWhat, Agree, FileIsKnown
  <1>3. TypeOK /\ Agree /\ FetchesKnowWhat /\ [Next]_vars
          => [\A w \in Workers : FetchFails(w) => iv # clip[w] \/ Replacing \/ torn]_vars
    BY <1>2
  <1> QED BY <1>1, <1>3, TypeCorrect, Agreement, PTL DEF Spec, OnlyOvertakenFetchesFail
=============================================================================
