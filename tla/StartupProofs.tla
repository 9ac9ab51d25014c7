--------------------------- MODULE StartupProofs ---------------------------
(***************************************************************************)
(* Proofs, for any number of workers, columns, authorities and kills, that *)
(* a worker which has passed init_db finds every column, and that what is  *)
(* left of the authority is broken only after a kill or by two generations *)
(* that overlap; and that the three workers of the service file come up.   *)
(*                                                                         *)
(* The argument for the columns: they only come; the transaction that adds *)
(* the last ones has one holder, and a worker goes past it by no other     *)
(* way.                                                                    *)
(***************************************************************************)
EXTENDS Startup, TLAPS

(* No worker is past the creation of the tables before they are there.     *)
TablesFirst == \A w \in Workers : pc[w] \in {"off", "create"} \/ tables

LEMMA InitTypes == Init => TypeOK
  <1> SUFFICES ASSUME Init PROVE TypeOK
    OBVIOUS
  <1>1. columns \in SUBSET Columns
    BY ColumnsAssumption DEF Init
  <1>2. ~tables => columns = {}
    BY DEF Init
  <1> QED BY <1>1, <1>2, NoOneAssumption, KillsAssumption DEF Init, TypeOK, File, Booting, Serving

LEMMA StepTypes == TypeOK /\ TablesFirst /\ [Next]_vars => TypeOK'
  <1> SUFFICES ASSUME TypeOK, TablesFirst, [Next]_vars PROVE TypeOK'
    OBVIOUS
  <1> USE NoOneAssumption, KillsAssumption
      DEF TypeOK, File, Goto, dbVars, caVars, Booting, Serving, Generating
  <1>1. ASSUME NEW w \in Workers, Boot(w) PROVE TypeOK'
    BY <1>1 DEF Boot
  <1>2. ASSUME NEW w \in Workers, CreateTables(w) PROVE TypeOK'
    BY <1>2 DEF CreateTables
  <1>3. ASSUME NEW w \in Workers, Begin(w) PROVE TypeOK'
    BY <1>3 DEF Begin
  <1>4. ASSUME NEW w \in Workers, TimesOut(w) PROVE TypeOK'
    BY <1>4 DEF TimesOut
  <1>5. ASSUME NEW w \in Workers, AlterTables(w) PROVE TypeOK'
    <2>1. tables
      BY <1>5 DEF AlterTables, TablesFirst
    <2> QED BY <1>5, <2>1 DEF AlterTables, EachMissing, Released
  <1>6. ASSUME NEW w \in Workers, CheckCA(w) PROVE TypeOK'
    BY <1>6 DEF CheckCA
  <1>7. ASSUME NEW w \in Workers, ReadCert(w) PROVE TypeOK'
    BY <1>7 DEF ReadCert
  <1>8. ASSUME NEW w \in Workers, NEW c \in Cas, InitCA(w, c) PROVE TypeOK'
    <2>1. made' \in SUBSET Cas /\ mine' \in [Workers -> File]
      BY <1>8 DEF InitCA
    <2>2. pc' \in [Workers -> Booting \cup Serving] /\ \A v \in Workers : lock = v <=> pc'[v] = "alter"
      BY <1>8 DEF InitCA
    <2> QED BY <1>8, <2>1, <2>2 DEF InitCA
  <1>9. ASSUME NEW w \in Workers, WriteKey(w) PROVE TypeOK'
    BY <1>9 DEF WriteKey
  <1>10. ASSUME NEW w \in Workers, WriteCert(w) PROVE TypeOK'
    BY <1>10 DEF WriteCert
  <1>11. ASSUME NEW w \in Workers, Kill(w) PROVE TypeOK'
    BY <1>11 DEF Kill
  <1>12. CASE UNCHANGED vars
    BY <1>12 DEF vars
  <1> QED BY <1>1, <1>2, <1>3, <1>4, <1>5, <1>6, <1>7, <1>8, <1>9, <1>10, <1>11, <1>12
          DEF Next, Starts, Generates

LEMMA StepTables == TypeOK /\ TablesFirst /\ [Next]_vars => TablesFirst'
  BY DEF TypeOK, TablesFirst, Next, Starts, Generates, Boot, CreateTables, Begin, AlterTables,
     CheckCA, ReadCert, TimesOut, InitCA, WriteKey, WriteCert, Kill, Goto, dbVars, vars

(* A column that is there stays, and no worker gets past the transaction   *)
(* but by committing it.                                                   *)
LEMMA ColumnsCome ==
    ASSUME TypeOK, [Next]_vars
    PROVE  columns \in SUBSET columns'
  BY DEF Next, Starts, Generates, Boot, CreateTables, Begin, AlterTables, CheckCA, ReadCert,
     TimesOut, InitCA, WriteKey, WriteCert, Kill, dbVars, vars, TypeOK

LEMMA StepMigrated ==
    TypeOK /\ TablesFirst /\ ServesMigrated /\ [Next]_vars => ServesMigrated'
  <1> DEFINE past == Serving \cup {"check", "readCert"}
  <1> SUFFICES ASSUME TypeOK, TablesFirst, ServesMigrated, [Next]_vars,
                      NEW v \in Workers, pc'[v] \in past
               PROVE  columns' = Columns
    BY DEF ServesMigrated
  <1>1. columns' \in SUBSET Columns
    BY StepTypes DEF TypeOK
  <1>2. CASE pc[v] \in past
    BY <1>1, <1>2, ColumnsCome DEF ServesMigrated
  <1>3. CASE pc[v] \notin past
    <2>1. AlterTables(v)
      BY <1>3 DEF Next, Starts, Generates, Boot, CreateTables, Begin, AlterTables, CheckCA,
         ReadCert, TimesOut, InitCA, WriteKey, WriteCert, Kill, Goto, vars, TypeOK, Serving,
         Generating
    <2> QED BY <1>1, <2>1 DEF AlterTables, EachMissing
  <1> QED BY <1>2, <1>3

LEMMA Typed == Spec => [](TypeOK /\ TablesFirst)
  <1>1. Init => TablesFirst
    BY DEF Init, TablesFirst
  <1> QED BY <1>1, InitTypes, StepTypes, StepTables, PTL DEF Spec

(* The write lock is held by the worker in the migration and by nobody     *)
(* else, whoever times out or is killed.                                   *)
THEOREM TypeCorrect == Spec => []TypeOK
  BY Typed, PTL

(* Whatever release the database is of and however many workers migrate it *)
(* at once, none goes on without all of _ADDED_COLUMNS.                    *)
THEOREM MigratedFirst == Spec => []ServesMigrated
  <1>1. Init => ServesMigrated
    BY DEF Init, ServesMigrated, Serving, Generating
  <1> QED BY <1>1, StepMigrated, Typed, PTL DEF Spec

-----------------------------------------------------------------------------
(* No step of another worker moves a worker.                               *)
LEMMA OneMoves ==
    ASSUME TypeOK, [Next]_vars, NEW w \in Workers
    PROVE  \/ UNCHANGED <<pc[w], mine[w]>>
           \/ Starts(w) \/ Generates(w) \/ TimesOut(w) \/ Kill(w)
           \/ \E c \in Cas : InitCA(w, c)
  <1>1. ASSUME NEW v \in Workers, v # w,
               \/ Starts(v) \/ Generates(v) \/ TimesOut(v) \/ Kill(v)
               \/ \E c \in Cas : InitCA(v, c)
        PROVE  UNCHANGED <<pc[w], mine[w]>>
    BY <1>1 DEF TypeOK, Starts, Generates, Boot, CreateTables, Begin, AlterTables, CheckCA,
       ReadCert, TimesOut, InitCA, WriteKey, WriteCert, Kill, Goto
  <1> QED BY <1>1 DEF Next, vars

(* Who writes the files has an authority to write.                         *)
MakersKnowWhat == \A w \in Workers : pc[w] \in Generating => mine[w] \in Cas

LEMMA MakersStep == TypeOK /\ MakersKnowWhat /\ [Next]_vars => MakersKnowWhat'
  <1> SUFFICES ASSUME TypeOK, MakersKnowWhat, [Next]_vars, NEW w \in Workers, pc'[w] \in Generating
               PROVE  mine'[w] \in Cas
    BY DEF MakersKnowWhat
  <1> USE DEF TypeOK, MakersKnowWhat, Generating
  <1>1. CASE UNCHANGED <<pc[w], mine[w]>>
    BY <1>1
  <1>2. CASE Starts(w) \/ TimesOut(w) \/ Kill(w)
    BY <1>2 DEF Starts, Boot, CreateTables, Begin, AlterTables, CheckCA, ReadCert, TimesOut,
       Kill, Goto
  <1>3. CASE Generates(w) \/ \E c \in Cas : InitCA(w, c)
    BY <1>3 DEF Generates, WriteKey, WriteCert, InitCA, Goto
  <1> QED BY <1>1, <1>2, <1>3, OneMoves

LEMMA MakersKnow == Spec => []MakersKnowWhat
  <1>1. Init => MakersKnowWhat
    BY DEF Init, MakersKnowWhat, Generating
  <1> QED BY <1>1, MakersStep, TypeCorrect, PTL DEF Spec

-----------------------------------------------------------------------------
(* How the authority can be broken.                                        *)

(* One generation and no kill: whoever generates is alone, and how far it  *)
(* has come tells what is in the files.                                    *)
Undisturbed == kills = 0 /\ \A c, d \in made : c = d
Quiet == \A w \in Workers : pc[w] \notin Generating
FilesOf(w) ==
    /\ made = {mine[w]}
    /\ \A v \in Workers : pc[v] \in Generating => v = w
    /\ pc[w] = "truncKey"  => keyFile = NoFile  /\ certFile = NoFile
    /\ pc[w] = "writeKey"  => keyFile = Empty   /\ certFile = NoFile
    /\ pc[w] = "truncCert" => keyFile = mine[w] /\ certFile = NoFile
    /\ pc[w] = "writeCert" => keyFile = mine[w] /\ certFile = Empty
FilesFit ==
    Undisturbed =>
        /\ \A w \in Workers : pc[w] \in Generating => FilesOf(w)
        /\ Quiet => certFile = keyFile /\ IF made = {} THEN keyFile = NoFile ELSE keyFile \in made

LEMMA FilesStep == TypeOK /\ MakersKnowWhat /\ FilesFit /\ [Next]_vars => FilesFit'
  <1> SUFFICES ASSUME TypeOK, MakersKnowWhat, FilesFit, [Next]_vars, Undisturbed'
               PROVE  /\ \A w \in Workers : pc'[w] \in Generating => FilesOf(w)'
                      /\ Quiet' => /\ certFile' = keyFile'
                                   /\ IF made' = {} THEN keyFile' = NoFile ELSE keyFile' \in made'
    BY DEF FilesFit
  <1>1. Undisturbed
    BY DEF Undisturbed, Next, Starts, Generates, Boot, CreateTables, Begin, AlterTables, CheckCA,
       ReadCert, TimesOut, InitCA, WriteKey, WriteCert, Kill, vars, TypeOK
  <1> USE <1>1 DEF TypeOK, FilesFit, FilesOf, Quiet, Generating
  <1>2. ASSUME NEW v \in Workers, Starts(v) \/ TimesOut(v)
        PROVE  /\ UNCHANGED <<caVars, made>>
               /\ pc[v] \notin Generating /\ pc'[v] \notin Generating
               /\ \A w \in Workers : w # v => pc'[w] = pc[w] /\ mine'[w] = mine[w]
    BY <1>2 DEF Starts, Boot, CreateTables, Begin, AlterTables, CheckCA, ReadCert, TimesOut, Goto
  <1>3. ASSUME NEW v \in Workers, Starts(v) \/ TimesOut(v) PROVE FilesFit'
    BY <1>2, <1>3 DEF caVars
  <1>4. ASSUME NEW v \in Workers, NEW c \in Cas, InitCA(v, c) PROVE FilesFit'
    <2>1. made = {} /\ made' = {c}
      BY <1>4 DEF InitCA, Undisturbed
    <2>2. Quiet /\ keyFile = NoFile /\ certFile = NoFile
      BY <2>1
    <2> QED BY <1>4, <2>1, <2>2 DEF InitCA, Goto, caVars
  <1>5. ASSUME NEW v \in Workers, WriteKey(v) PROVE FilesFit'
    <2>1. FilesOf(v)
      BY <1>5 DEF WriteKey
    <2> QED BY <1>5, <2>1 DEF WriteKey, Goto
  <1>6. ASSUME NEW v \in Workers, WriteCert(v) PROVE FilesFit'
    <2>1. FilesOf(v)
      BY <1>6 DEF WriteCert
    <2>2. CASE pc[v] = "truncCert"
      BY <1>6, <2>1, <2>2 DEF WriteCert, Goto
    <2>3. CASE pc[v] = "writeCert"
      BY <1>6, <2>1, <2>3 DEF WriteCert, Goto
    <2> QED BY <1>6, <2>2, <2>3 DEF WriteCert
  <1>7. ASSUME NEW v \in Workers, Kill(v) PROVE FALSE
    BY <1>7 DEF Kill, Undisturbed
  <1>8. CASE UNCHANGED vars
    BY <1>8 DEF vars, caVars
  <1> QED BY <1>3, <1>4, <1>5, <1>6, <1>7, <1>8 DEF Next, Generates

(* What verify_ca refuses (ca.key does not belong to ca.crt, or is empty)  *)
(* is only there while an authority is being written, after a worker was   *)
(* killed, or when POST /admin/api/init-ca has begun a second authority,   *)
(* which it does only before the first one's files are both there.         *)
THEOREM BrokenCAHasCause ==
    Spec => [](BrokenCA /\ Undisturbed => ~Quiet)
  <1>1. Init => FilesFit
    BY DEF Init, FilesFit, FilesOf, Quiet, Generating
  <1>2. TypeOK /\ FilesFit => (BrokenCA /\ Undisturbed => ~Quiet)
    BY FilesAssumption DEF TypeOK, FilesFit, BrokenCA
  <1> QED BY <1>1, <1>2, FilesStep, TypeCorrect, MakersKnow, PTL DEF Spec

(* A second authority is begun only while the first is not all there.      *)
THEOREM SecondAuthorityOverlaps ==
    Spec => [][made' # made /\ Undisturbed => made = {} \/ ~Quiet]_vars
  <1>1. TypeOK /\ FilesFit /\ [Next]_vars =>
            (made' # made /\ Undisturbed => made = {} \/ ~Quiet)
    <2> SUFFICES ASSUME TypeOK, FilesFit, [Next]_vars, made' # made, Undisturbed, made # {}, Quiet
                 PROVE  FALSE
      OBVIOUS
    <2>1. PICK w \in Workers, c \in Cas : InitCA(w, c)
      BY DEF Next, Starts, Generates, Boot, CreateTables, Begin, AlterTables, CheckCA, ReadCert,
         TimesOut, WriteKey, WriteCert, Kill, vars
    <2>2. keyFile \in Cas /\ certFile = keyFile
      BY DEF FilesFit, TypeOK
    <2> QED BY <2>1, <2>2, FilesAssumption DEF InitCA, ca_exists
  <1>2. Init => FilesFit
    BY DEF Init, FilesFit, FilesOf, Quiet, Generating
  <1> QED BY <1>1, <1>2, FilesStep, TypeCorrect, MakersKnow, PTL DEF Spec

-----------------------------------------------------------------------------
(* The workers come up.                                                    *)

(* A worker past the migration that will not be sent back: it serves, is   *)
(* about to look at the authority, or has read the key of one that is      *)
(* whole.                                                                  *)
Serves(w) == pc[w] \in Serving
Passed(w) ==
    \/ Serves(w) \/ pc[w] = "check"
    \/ pc[w] = "readCert" /\ mine[w] = keyFile /\ certFile = keyFile /\ keyFile # NoFile

NoKill == \A w \in Workers : ~Kill(w)

(* An authority that is whole stays as it is as long as it is not broken.  *)
LEMMA WholeStays ==
    ASSUME TypeOK, MakersKnowWhat, [Next]_vars, ~BrokenCA', keyFile # NoFile, certFile = keyFile
    PROVE  UNCHANGED caVars
  <1>1. ASSUME NEW v \in Workers, WriteKey(v) \/ WriteCert(v)
        PROVE  UNCHANGED caVars
    BY <1>1, FilesAssumption DEF WriteKey, WriteCert, BrokenCA, caVars, MakersKnowWhat, Generating
  <1> QED BY <1>1 DEF Next, Starts, Generates, Boot, CreateTables, Begin, AlterTables, CheckCA,
          ReadCert, TimesOut, InitCA, Kill, vars, caVars

(* What a step that kills nobody can make of one worker, while the         *)
(* authority is not broken.                                                *)
LEMMA WorkerMoves ==
    ASSUME TypeOK, MakersKnowWhat, ~BrokenCA, ~BrokenCA', [Next]_vars, [NoKill]_vars,
           NEW w \in Workers
    PROVE  /\ Serves(w) => Serves(w)'
           /\ Passed(w) => Passed(w)'
           /\ pc[w] = "check" => Serves(w)' \/ pc'[w] = "readCert" \/ pc'[w] = "check"
           /\ lock = w => lock' = w \/ Passed(w)'
           /\ pc[w] = "off" => pc'[w] \in {"off", "create"}
           /\ pc[w] = "create" => pc'[w] \in {"create", "wait"}
           /\ pc[w] = "wait" /\ lock = NoOne => pc'[w] = "wait" \/ lock' = w
           /\ pc[w] = "readCert" => pc'[w] \in {"readCert", "off"} \/ Serves(w)'
  <1> USE DEF TypeOK, Serves, Passed, Serving, Generating
  <1>1. CASE UNCHANGED <<pc[w], mine[w]>>
    <2>1. Passed(w) => Passed(w)'
      BY <1>1, WholeStays DEF caVars
    <2>2. lock = w => lock' = w \/ Passed(w)'
      BY <1>1, NoOneAssumption DEF Next, Starts, Generates, Boot, CreateTables, Begin, AlterTables,
         CheckCA, ReadCert, TimesOut, InitCA, WriteKey, WriteCert, Kill, dbVars, vars, Goto, Released
    <2> QED BY <1>1, <2>1, <2>2
  <1>2. CASE Boot(w) \/ CreateTables(w) \/ Begin(w) \/ TimesOut(w)
    BY <1>2 DEF Boot, CreateTables, Begin, TimesOut, Goto, dbVars
  <1>3. CASE AlterTables(w)
    BY <1>3 DEF AlterTables, Goto
  <1>4. CASE CheckCA(w)
    BY <1>4 DEF CheckCA, Goto, ca_exists, BrokenCA, caVars, dbVars
  <1>5. CASE ReadCert(w)
    BY <1>5 DEF ReadCert, Belongs, Goto, caVars, dbVars
  <1>6. CASE Generates(w) \/ \E c \in Cas : InitCA(w, c)
    BY <1>6 DEF Generates, WriteKey, WriteCert, InitCA, Goto, dbVars
  <1>7. CASE Kill(w)
    <2>1. UNCHANGED vars
      BY <1>7 DEF NoKill
    <2> QED BY <1>1, <2>1 DEF vars
  <1> QED BY <1>1, <1>2, <1>3, <1>4, <1>5, <1>6, <1>7, OneMoves DEF Starts

(* How far a worker that runs gets by one step of its own.                 *)
LEMMA WorkerGetsOn ==
    ASSUME TypeOK, ~BrokenCA, NEW w \in Workers, Starts(w)
    PROVE  /\ lock = w => Passed(w)'
           /\ pc[w] = "off" => pc'[w] = "create"
           /\ pc[w] = "create" => pc'[w] = "wait"
           /\ pc[w] = "wait" => lock' = w
           /\ pc[w] = "check" => Serves(w)' \/ pc'[w] = "readCert"
           /\ pc[w] = "readCert" => pc'[w] = "off" \/ Serves(w)'
           /\ pc[w] = "readCert" /\ Passed(w) => Serves(w)'
  BY DEF TypeOK, Starts, Boot, CreateTables, Begin, AlterTables, CheckCA, ReadCert, Goto,
     Belongs, ca_exists, BrokenCA, Serves, Passed, Serving, Generating

(* What ENABLED is of a worker's own steps, and how one gets on: it comes  *)
(* by the lock or waits while another has it, passes the migration with    *)
(* it, and then serves.                                                    *)
CanStart(w) ==
    \/ pc[w] \in {"off", "create", "alter", "check", "readCert"}
    \/ pc[w] = "wait" /\ lock = NoOne
StartsCanGo(w) == [](CanStart(w) => ENABLED <<Starts(w)>>_vars)
Calm == []TypeOK /\ []MakersKnowWhat /\ []~BrokenCA /\ [][Next]_vars /\ [][NoKill]_vars
Free == lock = NoOne
GetsOn(w) ==
    /\ (lock = w) ~> Passed(w)
    /\ (~Passed(w)) ~> (Passed(w) \/ ~Free)
    /\ Passed(w) ~> Serves(w)

LEMMA WorkersGetOn ==
    ASSUME NEW w \in Workers
    PROVE  Calm /\ RunsOn(w) /\ StartsCanGo(w) => GetsOn(w)
  <1>1. TypeOK /\ MakersKnowWhat /\ ~BrokenCA /\ ~BrokenCA' /\ [Next]_vars /\ [NoKill]_vars =>
           /\ Serves(w) => Serves(w)'
           /\ Passed(w) => Passed(w)'
           /\ pc[w] = "check" => Serves(w)' \/ (pc[w] = "readCert")' \/ (pc[w] = "check")'
           /\ lock = w => (lock = w)' \/ Passed(w)'
           /\ pc[w] = "off" => (pc[w] = "off")' \/ (pc[w] = "create")'
           /\ pc[w] = "create" => (pc[w] = "create")' \/ (pc[w] = "wait")'
           /\ pc[w] = "wait" /\ Free => (pc[w] = "wait")' \/ (lock = w)'
           /\ pc[w] = "readCert" => (pc[w] = "readCert")' \/ (pc[w] = "off")' \/ Serves(w)'
    BY WorkerMoves DEF Free
  <1>2. TypeOK /\ ~BrokenCA /\ <<Starts(w)>>_vars =>
           /\ lock = w => Passed(w)'
           /\ pc[w] = "off" => (pc[w] = "create")'
           /\ pc[w] = "create" => (pc[w] = "wait")'
           /\ pc[w] = "wait" => (lock = w)'
           /\ pc[w] = "check" => Serves(w)' \/ (pc[w] = "readCert")'
           /\ pc[w] = "readCert" => (pc[w] = "off")' \/ Serves(w)'
           /\ pc[w] = "readCert" /\ Passed(w) => Serves(w)'
    BY WorkerGetsOn
  <1>3. TypeOK => Passed(w) \/ pc[w] = "off" \/ pc[w] = "create" \/ pc[w] = "wait"
                 \/ pc[w] = "readCert" \/ lock = w
    BY DEF TypeOK, Booting, Passed, Serves
  <1>4. TypeOK => /\ Passed(w) => Serves(w) \/ pc[w] = "check" \/ pc[w] = "readCert"
                  /\ Serves(w) => Passed(w)
                  /\ pc[w] = "check" => Passed(w)
                  /\ pc[w] = "off" => ~Passed(w)
                  /\ lock = w => ~Free
    BY NoOneAssumption DEF Passed, Serves, Serving, Generating, Free
  <1>5. TypeOK => /\ pc[w] = "off" \/ pc[w] = "create" \/ pc[w] = "check" \/ pc[w] = "readCert" => CanStart(w)
                  /\ lock = w => CanStart(w)
                  /\ pc[w] = "wait" /\ Free => CanStart(w)
    BY DEF CanStart, TypeOK, Free
  <1>6. Calm /\ RunsOn(w) /\ StartsCanGo(w) => ((lock = w) ~> Passed(w))
    BY <1>1, <1>2, <1>5, PTL DEF Calm, RunsOn, StartsCanGo
  <1>7. Calm /\ RunsOn(w) /\ StartsCanGo(w) => (Passed(w) ~> Serves(w))
    BY <1>1, <1>2, <1>4, <1>5, PTL DEF Calm, RunsOn, StartsCanGo
  <1>8. Calm /\ RunsOn(w) /\ StartsCanGo(w) => ((~Passed(w)) ~> (Passed(w) \/ ~Free))
    BY <1>1, <1>2, <1>3, <1>4, <1>5, PTL DEF Calm, RunsOn, StartsCanGo
  <1> QED BY <1>6, <1>7, <1>8 DEF GetsOn

(* From some point on nobody is killed.  It is so wherever MaxKills bounds *)
(* the kills, but to count them down is induction.                         *)
KillsEnd == <>[][NoKill]_vars

(* The service file starts three workers.  Once nobody is killed any more, *)
(* and the authority is not left broken, all of them come up: they take    *)
(* the write lock in turn, and who times out on it tries again.            *)
THEOREM ThreeWorkersComeUp ==
    ASSUME NEW w1, NEW w2, NEW w3, Workers = {w1, w2, w3}
    PROVE  FairSpec /\ KillsEnd /\ (\A w \in Workers : StartsCanGo(w)) => AllComeUp
  <1>1. /\ (\A w \in Workers : RunsOn(w)) => RunsOn(w1) /\ RunsOn(w2) /\ RunsOn(w3)
        /\ (\A w \in Workers : StartsCanGo(w)) =>
               StartsCanGo(w1) /\ StartsCanGo(w2) /\ StartsCanGo(w3)
    OBVIOUS
  <1>2. /\ Calm /\ RunsOn(w1) /\ StartsCanGo(w1) => GetsOn(w1)
        /\ Calm /\ RunsOn(w2) /\ StartsCanGo(w2) => GetsOn(w2)
        /\ Calm /\ RunsOn(w3) /\ StartsCanGo(w3) => GetsOn(w3)
    BY WorkersGetOn
  <1>3. TypeOK /\ MakersKnowWhat /\ ~BrokenCA /\ ~BrokenCA' /\ [Next]_vars /\ [NoKill]_vars =>
           /\ Serves(w1) => Serves(w1)'
           /\ Serves(w2) => Serves(w2)'
           /\ Serves(w3) => Serves(w3)'
           /\ Passed(w1) => Passed(w1)'
           /\ Passed(w2) => Passed(w2)'
           /\ Passed(w3) => Passed(w3)'
    BY WorkerMoves
  <1>4. TypeOK => Free \/ lock = w1 \/ lock = w2 \/ lock = w3
    BY DEF TypeOK, Free
  <1>5. TypeOK => /\ lock = w1 => ~Passed(w1)
                  /\ lock = w2 => ~Passed(w2)
                  /\ lock = w3 => ~Passed(w3)
    BY DEF TypeOK, Passed, Serves, Serving, Generating
  <1>6. Calm /\ GetsOn(w1) /\ GetsOn(w2) /\ GetsOn(w3)
          => <>[](Serves(w1) /\ Serves(w2) /\ Serves(w3))
    BY <1>3, <1>4, <1>5, PTL DEF Calm, GetsOn
  <1>7. Serves(w1) /\ Serves(w2) /\ Serves(w3) => \A w \in Workers : pc[w] \in Serving
    BY DEF Serves
  <1>8. Spec => []TypeOK /\ []MakersKnowWhat
    BY TypeCorrect, MakersKnow, PTL
  <1>9. Spec /\ KillsEnd /\ <>[]~BrokenCA => <>Calm
    BY <1>8, PTL DEF Spec, KillsEnd, Calm
  <1>10. RunsOn(w1) /\ RunsOn(w2) /\ RunsOn(w3) /\ StartsCanGo(w1) /\ StartsCanGo(w2) /\ StartsCanGo(w3)
           => [](Calm => <>[](Serves(w1) /\ Serves(w2) /\ Serves(w3)))
    BY <1>2, <1>6, PTL DEF RunsOn, StartsCanGo
  <1> QED BY <1>1, <1>7, <1>9, <1>10, PTL DEF FairSpec, AllComeUp
=============================================================================
