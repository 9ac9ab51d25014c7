------------------------------ MODULE Startup ------------------------------
(***************************************************************************)
(* What is done before a worker answers its first request: init_db in      *)
(* verifier/db.py brings the database up to date, verify_ca in             *)
(* verifier/ca.py looks at the certificate authority (create_app in        *)
(* verifier/__init__.py).  Several workers start at the same moment, and a *)
(* worker that fails or is killed is started again, while others that      *)
(* already serve may be asked to create the authority (POST                *)
(* /admin/api/init-ca, generate_ca), whose key and certificate are two     *)
(* files with no lock.                                                     *)
(***************************************************************************)
EXTENDS Naturals

CONSTANTS
    Workers,
    Columns,    \* _ADDED_COLUMNS, by their place in it: 1 .. n
    Cas,        \* one for each run of generate_ca
    NoOne, NoFile,
    Empty,      \* a file that was truncated and not yet written
    MaxKills    \* how many workers are killed at most

ASSUME NoOneAssumption == NoOne \notin Workers
ASSUME ColumnsAssumption == \A n \in Columns : 1 .. n \subseteq Columns
ASSUME FilesAssumption == NoFile \notin Cas /\ Empty \notin Cas \cup {NoFile}
ASSUME KillsAssumption == MaxKills \in Nat

VARIABLES
    tables,     \* the tables exist
    columns,    \* those of Columns that have been committed
    lock,       \* who holds the write lock
    keyFile, certFile,  \* ca.key and ca.crt
    made,       \* the authorities generated so far
    pc,
    mine,       \* the authority a worker is making or has read the key of
    kills

dbVars == <<tables, columns, lock>>
caVars == <<keyFile, certFile>>
vars == <<dbVars, caVars, made, pc, mine, kills>>

Booting    == {"off", "create", "wait", "alter", "check", "readCert"}
Generating == {"truncKey", "writeKey", "truncCert", "writeCert"}
Serving    == {"serving"} \cup Generating

File == Cas \cup {NoFile, Empty}

TypeOK ==
    /\ tables \in BOOLEAN
    /\ columns \in SUBSET Columns
    /\ lock \in Workers \cup {NoOne}
    /\ keyFile \in File /\ certFile \in File
    /\ made \in SUBSET Cas
    /\ pc \in [Workers -> Booting \cup Serving]
    /\ mine \in [Workers -> File]
    /\ kills \in 0 .. MaxKills
    /\ ~tables => columns = {}
    /\ \A w \in Workers : lock = w <=> pc[w] = "alter"

(* No database yet, or that of some earlier release.                       *)
Init ==
    /\ tables \in BOOLEAN
    /\ columns \in {{}} \cup {1 .. n : n \in IF tables THEN Columns ELSE {}}
    /\ lock = NoOne
    /\ keyFile = NoFile /\ certFile = NoFile
    /\ made = {}
    /\ pc = [w \in Workers |-> "off"]
    /\ mine = [w \in Workers |-> NoFile]
    /\ kills = 0

Goto(w, where) == pc' = [pc EXCEPT ![w] = where]

-----------------------------------------------------------------------------
(* init_db                                                                 *)

Boot(w) ==
    /\ pc[w] = "off"
    /\ Goto(w, "create")
    /\ UNCHANGED <<dbVars, caVars, made, mine, kills>>

(* executescript(SCHEMA): new tables have every column, and those that are *)
(* there are left alone, without a lock.                                   *)
CreateTables(w) ==
    /\ pc[w] = "create"
    /\ tables' = TRUE
    /\ columns' = IF tables THEN columns ELSE Columns
    /\ Goto(w, "wait")
    /\ UNCHANGED <<lock, caVars, made, mine, kills>>

(* BEGIN IMMEDIATE, or "database is locked" after the busy timeout.        *)
Begin(w) ==
    /\ pc[w] = "wait" /\ lock = NoOne
    /\ lock' = w
    /\ Goto(w, "alter")
    /\ UNCHANGED <<tables, columns, caVars, made, mine, kills>>

TimesOut(w) ==
    /\ pc[w] = "wait" /\ lock # NoOne
    /\ Goto(w, "off")
    /\ UNCHANGED <<dbVars, caVars, made, mine, kills>>

(* The loop over _ADDED_COLUMNS.                                           *)
UntilOneIsThere == {c \in Columns : \A d \in columns : c < d}   \* mutant
EachMissing == Columns \ columns

StaysLocked == lock                                     \* mutant
Released == NoOne

AlterTables(w) ==
    /\ pc[w] = "alter"
    /\ columns' = columns \cup EachMissing
    /\ lock' = Released
    /\ Goto(w, "check")
    /\ UNCHANGED <<tables, caVars, made, mine, kills>>

-----------------------------------------------------------------------------
(* The certificate authority.                                              *)

KeyExists == keyFile # NoFile                           \* mutant
ca_exists == keyFile # NoFile /\ certFile # NoFile

(* load_ca reads the key first.                                            *)
CheckCA(w) ==
    /\ pc[w] = "check"
    /\ IF ~ca_exists THEN Goto(w, "serving") /\ UNCHANGED mine
       ELSE IF keyFile = Empty THEN Goto(w, "off") /\ UNCHANGED mine
       ELSE Goto(w, "readCert") /\ mine' = [mine EXCEPT ![w] = keyFile]
    /\ UNCHANGED <<dbVars, caVars, made, kills>>

(* verify_ca: "ca.key does not belong to ca.crt".                          *)
Belongs(w) == certFile = mine[w]

ReadCert(w) ==
    /\ pc[w] = "readCert"
    /\ Goto(w, IF Belongs(w) THEN "serving" ELSE "off")
    /\ mine' = [mine EXCEPT ![w] = NoFile]
    /\ UNCHANGED <<dbVars, caVars, made, kills>>

(* api_init_ca and generate_ca                                             *)
InitCA(w, c) ==
    /\ pc[w] = "serving" /\ ~ca_exists
    /\ c \notin made
    /\ made' = made \cup {c}
    /\ mine' = [mine EXCEPT ![w] = c]
    /\ Goto(w, "truncKey")
    /\ UNCHANGED <<dbVars, caVars, kills>>

WriteKey(w) ==
    /\ \/ pc[w] = "truncKey" /\ keyFile' = Empty /\ Goto(w, "writeKey")
       \/ pc[w] = "writeKey" /\ keyFile' = mine[w] /\ Goto(w, "truncCert")
    /\ UNCHANGED <<dbVars, certFile, made, mine, kills>>

WriteCert(w) ==
    /\ \/ pc[w] = "truncCert" /\ certFile' = Empty /\ Goto(w, "writeCert") /\ UNCHANGED mine
       \/ /\ pc[w] = "writeCert" /\ certFile' = mine[w] /\ Goto(w, "serving")
          /\ mine' = [mine EXCEPT ![w] = NoFile]
    /\ UNCHANGED <<dbVars, keyFile, made, kills>>

Kill(w) ==
    /\ kills < MaxKills /\ pc[w] # "off"
    /\ kills' = kills + 1
    /\ Goto(w, "off")
    /\ mine' = [mine EXCEPT ![w] = NoFile]
    /\ lock' = IF lock = w THEN NoOne ELSE lock
    /\ UNCHANGED <<tables, columns, caVars, made>>

Starts(w) ==
    \/ Boot(w) \/ CreateTables(w) \/ Begin(w) \/ AlterTables(w)
    \/ CheckCA(w) \/ ReadCert(w)
Generates(w) == WriteKey(w) \/ WriteCert(w)

Next ==
    \E w \in Workers :
        \/ Starts(w) \/ Generates(w) \/ TimesOut(w) \/ Kill(w)
        \/ \E c \in Cas : InitCA(w, c)

Spec == Init /\ [][Next]_vars

(* Workers run, and are started again; whoever waits for the lock gets it  *)
(* when it comes free.                                                     *)
RunsOn(w) == WF_vars(Starts(w)) /\ WF_vars(Generates(w))
FairSpec == Spec /\ \A w \in Workers : RunsOn(w)

-----------------------------------------------------------------------------
(* Properties.                                                             *)

(* No request meets a database without some of the columns, however many   *)
(* workers migrate at once and wherever one is killed.                     *)
ServesMigrated ==
    \A w \in Workers : pc[w] \in Serving \cup {"check", "readCert"} => columns = Columns

(* The workers all come up, unless they have to refuse what two            *)
(* generations at once, or a killed one, left of the authority.            *)
BrokenCA ==
    /\ keyFile # NoFile /\ certFile # NoFile
    /\ keyFile = Empty \/ certFile # keyFile
AllComeUp ==
    (<>[]~BrokenCA) => <>[](\A w \in Workers : pc[w] \in Serving)
=============================================================================
