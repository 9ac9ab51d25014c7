----------------------------- MODULE RateLimit -----------------------------
(***************************************************************************)
(* The sliding window of verifier/security.py (rate_limit and              *)
(* clear_rate_limit) over the rows of rate_limits of one bucket and one    *)
(* identifier; the rows of two such pairs never meet.                      *)
(*                                                                         *)
(* Several workers count at once.  A request takes its time stamp before   *)
(* its DELETE asks for the write lock, and gets the lock within the busy   *)
(* timeout or fails; so stamps need not come in the order of the           *)
(* transactions.  From the lock to the commit nobody else writes, and      *)
(* that is one step here.                                                  *)
(***************************************************************************)
EXTENDS Naturals, FiniteSets

CONSTANTS
    Attempts,   \* the requests that are made
    Max,        \* max_attempts
    Window,     \* window_seconds
    Wait,       \* the busy timeout
    Old,        \* the age at which the purge deletes a row whatever its bucket
    Horizon     \* the last moment looked at

ASSUME TimesAssumption ==
    Max \in Nat /\ Window \in Nat /\ Wait \in Nat /\ Old \in Nat /\ Horizon \in Nat
(* A lock is given up in seconds, a window is minutes, the purge waits a   *)
(* day.                                                                    *)
ASSUME ScaleAssumption == Wait <= Window /\ Window <= Old

VARIABLES
    clock,      \* utcnow()
    pc,         \* where each attempt is
    at,         \* the time stamp it has read
    rows,       \* the attempts that have a row
    granted     \* (history) the attempts let through since the last clear

vars == <<clock, pc, at, rows, granted>>

TypeOK ==
    /\ clock \in 0 .. Horizon
    /\ pc \in [Attempts -> {"new", "waits", "granted", "refused", "failed", "cleared"}]
    /\ at \in [Attempts -> 0 .. clock]
    /\ granted \in SUBSET {a \in Attempts : pc[a] \in {"granted", "cleared"}}
    /\ rows \in SUBSET granted

Init ==
    /\ clock = 0
    /\ pc = [a \in Attempts |-> "new"]
    /\ at = [a \in Attempts |-> 0]
    /\ rows = {}
    /\ granted = {}

Goto(a, where) == pc' = [pc EXCEPT ![a] = where]

Tick ==
    /\ clock < Horizon
    /\ clock' = clock + 1
    /\ UNCHANGED <<pc, at, rows, granted>>

(* now = utcnow()                                                          *)
Stamp(a) ==
    /\ pc[a] = "new"
    /\ Goto(a, "waits")
    /\ at' = [at EXCEPT ![a] = clock]
    /\ UNCHANGED <<clock, rows, granted>>

HasLock(a) == pc[a] = "waits" /\ clock <= at[a] + Wait

(* attempted_at < cutoff                                                   *)
NotAfterCutoff(b, a)  == at[b] + Window <= at[a]        \* mutant
BeforeCutoff(b, a) == at[b] + Window < at[a]

Kept(a) == {b \in rows : ~BeforeCutoff(b, a)}
Room(a) == Cardinality(Kept(a)) < Max

Grant(a) ==
    /\ HasLock(a) /\ Room(a)
    /\ rows' = Kept(a) \cup {a}
    /\ granted' = granted \cup {a}
    /\ Goto(a, "granted")
    /\ UNCHANGED <<clock, at>>

(* Only the DELETE is committed, when the answer is out.                   *)
RefusalCounts(a) == Kept(a) \cup {a}                    \* mutant
OnlyCleaned(a) == Kept(a)

Refuse(a) ==
    /\ HasLock(a) /\ ~Room(a)
    /\ rows' = OnlyCleaned(a)
    /\ Goto(a, "refused")
    /\ UNCHANGED <<clock, at, granted>>

(* "database is locked", or the worker is killed: nothing is written.      *)
Fail(a) ==
    /\ pc[a] = "waits"
    /\ Goto(a, "failed")
    /\ UNCHANGED <<clock, at, rows, granted>>

(* clear_rate_limit after the right password.                              *)
OwnRow(a) == rows \ {a}                                 \* mutant
NoRows(a) == {}

Clear(a) ==
    /\ pc[a] = "granted"
    /\ rows' = NoRows(a)
    /\ granted' = {}
    /\ Goto(a, "cleared")
    /\ UNCHANGED <<clock, at>>

(* purge_expired, every bucket alike                                       *)
Purge ==
    /\ rows' = {b \in rows : at[b] + Old >= clock}
    /\ UNCHANGED <<clock, pc, at, granted>>

Next ==
    \/ Tick
    \/ Purge
    \/ \E a \in Attempts : Stamp(a) \/ Grant(a) \/ Refuse(a) \/ Fail(a) \/ Clear(a)

Spec == Init /\ [][Next]_vars

-----------------------------------------------------------------------------
(* Properties.                                                             *)

(* The limit holds: whatever order the waiting requests get the lock in,   *)
(* no more than Max attempts are let through in a window, less the time a  *)
(* stamp may be old when it is written.                                    *)
FollowersOf(a) == {b \in granted : at[a] <= at[b] /\ at[b] + Wait <= at[a] + Window}
LimitHolds == \A a \in granted : Cardinality(FollowersOf(a)) <= Max

(* Nobody is locked out without cause: who is refused comes after Max      *)
(* attempts that were let through and that its window still holds, so      *)
(* refused attempts do not prolong a lock-out.                             *)
InWindow(a) == {b \in granted : at[b] + Window >= at[a]}
RefusedForCause ==
    [][\A a \in Attempts :
          pc[a] # "refused" /\ pc'[a] = "refused" => Cardinality(InWindow(a)) >= Max]_vars
=============================================================================
