-------------------------- MODULE RateLimitProofs --------------------------
(***************************************************************************)
(* Proofs, for any number of attempts, any limit and any window, that the  *)
(* rate limit is neither exceeded nor enforced without cause.              *)
(*                                                                         *)
(* The argument: whoever deletes rows has a stamp no later than the clock, *)
(* so an attempt still within the window of the clock has its row          *)
(* (RecentHasRow).  An attempt that gets the lock sees all rows that share *)
(* a short enough window with its own, since its stamp is at most Wait     *)
(* old; it is let through only if fewer than Max of them are there.        *)
(***************************************************************************)
EXTENDS RateLimit, FiniteSetTheorems, TLAPS

(* Nothing is forgotten before its time.                                   *)
RecentHasRow == \A b \in granted : at[b] + Window >= clock => b \in rows

RateInv ==
    /\ TypeOK
    /\ IsFiniteSet(granted)
    /\ RecentHasRow
    /\ LimitHolds

(* The initial state has no attempts.                                      *)
LEMMA InitInv == Init => RateInv
  BY FS_EmptySet, TimesAssumption DEF Init, RateInv, TypeOK, RecentHasRow, LimitHolds

(* The types are kept.                                                     *)
LEMMA StepTypes == TypeOK /\ [Next]_vars => TypeOK'
  <1> SUFFICES ASSUME TypeOK, [Next]_vars PROVE TypeOK'
    OBVIOUS
  <1> USE TimesAssumption
  <1>1. CASE Tick
    <2>1. clock' \in 0 .. Horizon /\ 0 .. clock \subseteq 0 .. clock'
      BY <1>1 DEF Tick, TypeOK
    <2>2. at' \in [Attempts -> 0 .. clock']
      BY <1>1, <2>1 DEF Tick, TypeOK
    <2> QED BY <1>1, <2>1, <2>2 DEF Tick, TypeOK
  <1>2. CASE Purge
    BY <1>2 DEF Purge, TypeOK
  <1>3. ASSUME NEW a \in Attempts, Stamp(a) PROVE TypeOK'
    BY <1>3 DEF Stamp, Goto, TypeOK
  <1>4. ASSUME NEW a \in Attempts, Grant(a) PROVE TypeOK'
    BY <1>4 DEF Grant, HasLock, Kept, Goto, TypeOK
  <1>5. ASSUME NEW a \in Attempts, Refuse(a) PROVE TypeOK'
    BY <1>5 DEF Refuse, HasLock, OnlyCleaned, Kept, Goto, TypeOK
  <1>6. ASSUME NEW a \in Attempts, Fail(a) PROVE TypeOK'
    BY <1>6 DEF Fail, Goto, TypeOK
  <1>7. ASSUME NEW a \in Attempts, Clear(a) PROVE TypeOK'
    BY <1>7 DEF Clear, NoRows, Goto, TypeOK
  <1>8. CASE UNCHANGED vars
    BY <1>8 DEF vars, TypeOK
  <1> QED BY <1>1, <1>2, <1>3, <1>4, <1>5, <1>6, <1>7, <1>8 DEF Next

(* Apart from granting and clearing, granted attempts keep their stamps,   *)
(* and only rows that the window has passed are lost.                      *)
LEMMA RestStep ==
    ASSUME RateInv, granted' = granted, \A b \in granted : at'[b] = at[b], clock' \in Nat,
           clock <= clock',
           \A b \in rows : b \in rows' \/ at[b] + Window < clock'
    PROVE  IsFiniteSet(granted)' /\ RecentHasRow' /\ LimitHolds'
  <1>0. /\ \A b \in granted : at[b] \in Nat
        /\ Window \in Nat /\ clock \in Nat
    BY TimesAssumption DEF RateInv, TypeOK
  <1>1. RecentHasRow'
    BY <1>0 DEF RateInv, RecentHasRow
  <1>2. \A a \in granted : FollowersOf(a)' = FollowersOf(a)
    BY DEF FollowersOf
  <1> QED BY <1>1, <1>2 DEF RateInv, LimitHolds

(* Letting one more through keeps to the limit.                            *)
LEMMA GrantStep ==
    ASSUME RateInv, NEW a \in Attempts, Grant(a)
    PROVE  IsFiniteSet(granted)' /\ RecentHasRow' /\ LimitHolds'
  <1> USE TimesAssumption, ScaleAssumption
  <1>0. /\ at \in [Attempts -> Nat] /\ clock \in Nat
        /\ granted \in SUBSET Attempts /\ rows \in SUBSET granted
        /\ IsFiniteSet(granted)
    BY DEF RateInv, TypeOK
  <1>1. /\ clock <= at[a] + Wait /\ at[a] <= clock /\ a \notin granted
        /\ granted' = granted \cup {a} /\ rows' = Kept(a) \cup {a}
        /\ UNCHANGED <<clock, at>>
    BY DEF Grant, HasLock, RateInv, TypeOK
  <1>2. /\ IsFiniteSet(Kept(a)) /\ Cardinality(Kept(a)) \in Nat
        /\ Cardinality(Kept(a)) < Max /\ Kept(a) \subseteq granted
    BY <1>0, FS_Subset, FS_CardinalityType DEF Kept, Grant, Room
  <1>3. IsFiniteSet(granted')
    BY <1>0, <1>1, FS_AddElement
  <1>4. RecentHasRow'
    BY <1>0, <1>1 DEF RateInv, RecentHasRow, Kept, BeforeCutoff
  <1>5. ASSUME NEW c \in granted' PROVE Cardinality(FollowersOf(c)') <= Max
    <2>1. CASE a \in FollowersOf(c)'
      <3>1. at[a] + Wait <= at[c] + Window /\ at[c] <= at[a] /\ at[c] \in Nat
        BY <1>0, <1>1, <2>1 DEF FollowersOf
      <3>2. ASSUME NEW b \in FollowersOf(c)', b # a PROVE b \in Kept(a)
        <4>1. b \in granted /\ at[c] <= at[b] /\ at[b] \in Nat
          BY <1>0, <1>1, <3>2 DEF FollowersOf
        <4>2. at[b] + Window >= clock /\ at[b] + Window >= at[a]
          BY <1>0, <1>1, <3>1, <4>1
        <4> QED BY <1>0, <4>1, <4>2 DEF RateInv, RecentHasRow, Kept, BeforeCutoff
      <3>3. FollowersOf(c)' \subseteq Kept(a) \cup {a}
        BY <3>2
      <3>4. a \notin Kept(a)
        BY <1>1, <1>2
      <3>5. /\ IsFiniteSet(Kept(a) \cup {a})
            /\ Cardinality(Kept(a) \cup {a}) = Cardinality(Kept(a)) + 1
        BY <1>2, <3>4, FS_AddElement
      <3>6. /\ Cardinality(FollowersOf(c)') \in Nat
            /\ Cardinality(FollowersOf(c)') <= Cardinality(Kept(a) \cup {a})
        BY <3>3, <3>5, FS_Subset, FS_CardinalityType
      <3> QED BY <1>2, <3>5, <3>6
    <2>2. CASE a \notin FollowersOf(c)'
      <3>1. c # a
        BY <1>0, <1>1, <2>2 DEF FollowersOf
      <3>2. FollowersOf(c)' = FollowersOf(c) /\ c \in granted
        BY <1>1, <2>2, <3>1 DEF FollowersOf
      <3> QED BY <3>2 DEF RateInv, LimitHolds
    <2> QED BY <2>1, <2>2
  <1> QED BY <1>3, <1>4, <1>5 DEF LimitHolds

LEMMA StepInv == RateInv /\ [Next]_vars => RateInv'
  <1> SUFFICES ASSUME RateInv, [Next]_vars
               PROVE IsFiniteSet(granted)' /\ RecentHasRow' /\ LimitHolds'
    BY StepTypes DEF RateInv
  <1> USE TimesAssumption, ScaleAssumption
  <1>0. /\ at \in [Attempts -> Nat] /\ clock \in Nat /\ granted \in SUBSET Attempts
        /\ \A b \in granted : pc[b] \in {"granted", "cleared"}
        /\ \A b \in Attempts : at[b] <= clock
        /\ rows \in SUBSET granted
    BY DEF RateInv, TypeOK
  <1>1. CASE Tick
    BY <1>0, <1>1, RestStep DEF Tick
  <1>2. CASE Purge
    BY <1>0, <1>2, RestStep DEF Purge
  <1>3. ASSUME NEW a \in Attempts, Stamp(a)
        PROVE IsFiniteSet(granted)' /\ RecentHasRow' /\ LimitHolds'
    <2>1. \A b \in granted : at'[b] = at[b]
      BY <1>0, <1>3 DEF Stamp
    <2> QED BY <1>0, <1>3, <2>1, RestStep DEF Stamp
  <1>4. ASSUME NEW a \in Attempts, Refuse(a)
        PROVE IsFiniteSet(granted)' /\ RecentHasRow' /\ LimitHolds'
    <2>1. \A b \in rows : b \in rows' \/ at[b] + Window < clock'
      BY <1>0, <1>4 DEF Refuse, OnlyCleaned, Kept, BeforeCutoff
    <2> QED BY <1>0, <1>4, <2>1, RestStep DEF Refuse
  <1>5. ASSUME NEW a \in Attempts, Fail(a)
        PROVE IsFiniteSet(granted)' /\ RecentHasRow' /\ LimitHolds'
    BY <1>0, <1>5, RestStep DEF Fail
  <1>6. ASSUME NEW a \in Attempts, Clear(a)
        PROVE IsFiniteSet(granted)' /\ RecentHasRow' /\ LimitHolds'
    BY <1>6, FS_EmptySet DEF Clear, RecentHasRow, LimitHolds
  <1>7. CASE UNCHANGED vars
    BY <1>0, <1>7, RestStep DEF vars
  <1> QED BY <1>1, <1>2, <1>3, <1>4, <1>5, <1>6, <1>7, GrantStep DEF Next

LEMMA InvHolds == Spec => []RateInv
  BY InitInv, StepInv, PTL DEF Spec

(* Stamps are never ahead of the clock, and only attempts that were let    *)
(* through since the last clear have rows.                                 *)
THEOREM TypeCorrect == Spec => []TypeOK
  BY InvHolds, PTL DEF RateInv

(* Whatever the order of the lock, no window less the busy timeout sees    *)
(* more than Max attempts let through.                                     *)
THEOREM LimitIsKept == Spec => []LimitHolds
  BY InvHolds, PTL DEF RateInv

(* A refusal is always preceded by Max attempts within the window.         *)
THEOREM RefusalsHaveCause == Spec => RefusedForCause
  <1>1. ASSUME RateInv, [Next]_vars, NEW a \in Attempts, pc[a] # "refused", pc'[a] = "refused"
        PROVE Cardinality(InWindow(a)) >= Max
    <2> USE TimesAssumption
    <2>0. /\ at \in [Attempts -> Nat]
          /\ rows \subseteq granted /\ granted \subseteq Attempts /\ IsFiniteSet(granted)
      BY <1>1 DEF RateInv, TypeOK
    <2>1. Refuse(a)
      BY <1>1 DEF RateInv, TypeOK, Next, Tick, Purge, Stamp, Grant, Refuse, Fail, Clear, Goto, vars
    <2>2. Kept(a) \subseteq InWindow(a) /\ InWindow(a) \subseteq granted
      BY <2>0 DEF Kept, InWindow, BeforeCutoff
    <2>3. /\ IsFiniteSet(InWindow(a)) /\ Cardinality(InWindow(a)) \in Nat
          /\ Cardinality(Kept(a)) \in Nat
          /\ Cardinality(Kept(a)) <= Cardinality(InWindow(a))
      BY <2>0, <2>2, FS_Subset, FS_CardinalityType
    <2> QED BY <2>1, <2>3 DEF Refuse, Room
  <1>2. RateInv /\ [Next]_vars
          => [\A a \in Attempts :
                 pc[a] # "refused" /\ pc'[a] = "refused" => Cardinality(InWindow(a)) >= Max]_vars
    BY <1>1
  <1> QED BY <1>2, InvHolds, PTL DEF Spec, RefusedForCause
=============================================================================
