------------------------- MODULE CredentialsProofs -------------------------
(***************************************************************************)
(* Proofs, for any number of users, workers and links, that a private key  *)
(* leaves the server at most once and only by the link it was made for.    *)
(*                                                                         *)
(* The argument: whoever makes a link spends all earlier ones of its user  *)
(* in the same transaction (LiveLinkIsCurrent), and links are never made   *)
(* unused again; so a download whose link is still unused when it consumes *)
(* it has fetched the bundle of that link, and is the only one to go on    *)
(* (DownloadsRely, OneSpender).                                            *)
(***************************************************************************)
EXTENDS Credentials, TLAPS

-----------------------------------------------------------------------------
(* The state stays within its types.                                       *)

DataTypes ==
    /\ serial \in [Users -> Links \cup {NoLink}]
    /\ p12 \in [Users -> Links \cup {NoLink}]
    /\ revoked \in [Users -> BOOLEAN]
    /\ owner \in [Links -> Users \cup {NoUser}]
    /\ used \in [Links -> BOOLEAN]
    /\ lapsed \in [Links -> BOOLEAN]
    /\ handed \in SUBSET (Links \X {"once", "again"})

ReqTypes ==
    /\ pc \in [Workers -> {"idle"} \cup InFlight]
    /\ subject \in [Workers -> Users \cup {NoUser}]
    /\ link \in [Workers -> Links \cup {NoLink}]
    /\ form \in [Workers -> Forms]
    /\ seen \in [Workers -> Links \cup {NoLink}]

(* What a worker in the middle of a request knows of it.                   *)
RequestIsNamed ==
    \A w \in Workers :
        /\ pc[w] # "idle" => subject[w] \in Users
        /\ pc[w] \in {"consume"} \cup Spending =>
              link[w] \in Links /\ owner[link[w]] = subject[w]

(* Rows that were not inserted yet have nothing in them.                   *)
AbsentIsBlank ==
    /\ \A u \in Users :
          serial[u] = NoLink =>
             p12[u] = NoLink /\ ~revoked[u] /\ \A l \in Links : owner[l] # u
    /\ \A l \in Links : owner[l] = NoUser => ~used[l] /\ ~lapsed[l]

(* The four parts are the type invariant.                                  *)
LEMMA TypeParts == TypeOK <=> DataTypes /\ ReqTypes /\ RequestIsNamed /\ AbsentIsBlank
  BY DEF TypeOK, DataTypes, ReqTypes, RequestIsNamed, AbsentIsBlank

(* An empty database with idle workers is well typed.                      *)
LEMMA InitTypes == Init => TypeOK
  <1> SUFFICES ASSUME Init PROVE TypeOK
    OBVIOUS
  <1>1. DataTypes
    BY DEF Init, DataTypes
  <1>2. ReqTypes
    BY DEF Init, ReqTypes, Forms
  <1>3. RequestIsNamed
    BY DEF Init, RequestIsNamed, Spending
  <1>4. AbsentIsBlank
    BY NoUserAssumption DEF Init, AbsentIsBlank
  <1> QED BY <1>1, <1>2, <1>3, <1>4, TypeParts

(* A link is made of a name no other row has.                              *)
LEMMA MintFacts ==
    ASSUME TypeOK, NEW u \in Users, Mint(u)
    PROVE  \E n \in Links :
              /\ owner[n] = NoUser /\ ~used[n]
              /\ serial' = [serial EXCEPT ![u] = n]
              /\ p12' = [p12 EXCEPT ![u] = n]
              /\ owner' = [owner EXCEPT ![n] = u]
              /\ lapsed' = lapsed
  <1> DEFINE n == CHOOSE l \in Unborn : TRUE
  <1>1. n \in Unborn
    BY DEF Mint
  <1>2. n \in Links /\ owner[n] = NoUser
    BY <1>1 DEF Unborn
  <1>3. NewLink = n
    BY DEF NewLink
  <1> HIDE DEF n
  <1>4. ~used[n]
    BY <1>2 DEF TypeOK
  <1> QED BY <1>2, <1>3, <1>4 DEF Mint

(* A reply clears the request and touches no other.                        *)
LEMMA ReplyFacts ==
    ASSUME ReqTypes, NEW w \in Workers, Reply(w)
    PROVE  /\ ReqTypes'
           /\ pc'[w] = "idle"
           /\ \A v \in Workers \ {w} :
                 /\ pc'[v] = pc[v] /\ subject'[v] = subject[v]
                 /\ link'[v] = link[v] /\ seen'[v] = seen[v]
  <1>1. ReqTypes'
    BY DEF ReqTypes, Reply, Forms
  <1> QED BY <1>1 DEF ReqTypes, Reply

(* Moving on changes the place only.                                       *)
LEMMA GotoFacts ==
    ASSUME ReqTypes, NEW w \in Workers, NEW p \in InFlight, Goto(w, p)
    PROVE  /\ ReqTypes'
           /\ pc'[w] = p
           /\ \A v \in Workers \ {w} : pc'[v] = pc[v]
           /\ UNCHANGED <<subject, link, seen>>
  BY DEF ReqTypes, Goto

(* Beginning names the user.                                               *)
LEMMA BeginFacts ==
    ASSUME ReqTypes, NEW w \in Workers, NEW u \in Users, NEW p \in InFlight, Begin(w, u, p)
    PROVE  /\ ReqTypes'
           /\ pc'[w] = p /\ subject'[w] = u
           /\ \A v \in Workers \ {w} : pc'[v] = pc[v] /\ subject'[v] = subject[v]
           /\ UNCHANGED <<link, seen>>
  BY DEF ReqTypes, Begin

(* A worker that moved on, began or was relieved leaves every request      *)
(* named, as long as links keep their owners.                              *)
LEMMA NamesStay ==
    ASSUME RequestIsNamed, NEW w \in Workers,
           \A l \in Links : owner[l] # NoUser => owner'[l] = owner[l],
           \A v \in Workers \ {w} :
              pc'[v] = pc[v] /\ subject'[v] = subject[v] /\ link'[v] = link[v],
           pc'[w] # "idle" => subject'[w] \in Users,
           pc'[w] \in {"consume"} \cup Spending =>
              link'[w] \in Links /\ owner'[link'[w]] = subject'[w]
    PROVE  RequestIsNamed'
  BY NoUserAssumption DEF RequestIsNamed, Spending

(* Every handler, the purge, the crashes and time keep the types.          *)
LEMMA StepTypes == TypeOK /\ [Next]_vars => TypeOK'
  <1> DEFINE Goal == DataTypes' /\ ReqTypes' /\ RequestIsNamed' /\ AbsentIsBlank'
  <1> SUFFICES ASSUME TypeOK, [Next]_vars PROVE Goal
    BY DEF TypeOK, DataTypes, ReqTypes, RequestIsNamed, AbsentIsBlank
  <1>0. DataTypes /\ ReqTypes /\ RequestIsNamed /\ AbsentIsBlank
    BY TypeParts
  <1>d. ASSUME UNCHANGED <<userVars, linkVars>> PROVE AbsentIsBlank'
    BY <1>0, <1>d DEF userVars, linkVars, AbsentIsBlank
  <1>s. ASSUME UNCHANGED <<userVars, linkVars, handed>> PROVE DataTypes' /\ AbsentIsBlank'
    BY <1>0, <1>d, <1>s DEF userVars, linkVars, DataTypes
  <1>1. ASSUME NEW w \in Workers, NEW u \in Users, RegisterReads(w, u) \/ ReissueReads(w, u)
        PROVE Goal
    <2>1. UNCHANGED <<userVars, linkVars, handed>> /\ pc[w] = "idle"
      BY <1>1 DEF RegisterReads, ReissueReads
    <2>2. \E p \in {"insert", "update"} : Begin(w, u, p)
      BY <1>1 DEF RegisterReads, ReissueReads
    <2>3. PICK p \in {"insert", "update"} : Begin(w, u, p)
      BY <2>2
    <2>4. RequestIsNamed'
      BY <1>0, <2>1, <2>3, BeginFacts, NamesStay DEF InFlight, linkVars, Spending
    <2> QED BY <1>0, <1>s, <2>1, <2>3, <2>4, BeginFacts DEF InFlight
  <1>2. ASSUME NEW w \in Workers, RegisterInserts(w) PROVE Goal
    <2>0. subject[w] \in Users /\ Reply(w) /\ revoked' = revoked /\ used' = used /\ handed' = handed
      BY <1>0, <1>2 DEF RegisterInserts, RequestIsNamed
    <2>1. CASE KeyIsFree(subject[w]) /\ Mint(subject[w])
      <3>1. PICK n \in Links :
              /\ owner[n] = NoUser /\ ~used[n]
              /\ serial' = [serial EXCEPT ![subject[w]] = n]
              /\ p12' = [p12 EXCEPT ![subject[w]] = n]
              /\ owner' = [owner EXCEPT ![n] = subject[w]]
              /\ lapsed' = lapsed
        BY <2>0, <2>1, MintFacts
      <3>2. DataTypes'
        BY <1>0, <2>0, <3>1 DEF DataTypes
      <3>3. RequestIsNamed'
        BY <1>0, <2>0, <3>1, ReplyFacts, NamesStay DEF Spending, DataTypes
      <3>4. AbsentIsBlank'
        BY <1>0, <2>0, <3>1, NoLinkAssumption, NoUserAssumption DEF AbsentIsBlank, DataTypes
      <3> QED BY <1>0, <2>0, <3>2, <3>3, <3>4, ReplyFacts
    <2>2. CASE UNCHANGED <<serial, p12, owner, lapsed>>
      <3>1. RequestIsNamed'
        BY <1>0, <2>0, <2>2, ReplyFacts, NamesStay DEF Spending
      <3> QED BY <1>0, <1>s, <2>0, <2>2, <3>1, ReplyFacts DEF userVars, linkVars
    <2> QED BY <1>2, <2>1, <2>2 DEF RegisterInserts
  <1>3. ASSUME NEW w \in Workers, ReissueUpdates(w) PROVE Goal
    <2>0. /\ subject[w] \in Users /\ Reply(w) /\ revoked' = revoked /\ handed' = handed
          /\ used' = [l \in Links |-> used[l] \/ owner[l] = subject[w]]
      BY <1>0, <1>3 DEF ReissueUpdates, RequestIsNamed, AllSpent
    <2>1. PICK n \in Links :
              /\ owner[n] = NoUser /\ ~used[n]
              /\ serial' = [serial EXCEPT ![subject[w]] = n]
              /\ p12' = [p12 EXCEPT ![subject[w]] = n]
              /\ owner' = [owner EXCEPT ![n] = subject[w]]
              /\ lapsed' = lapsed
      BY <1>3, <2>0, MintFacts DEF ReissueUpdates
    <2>2. DataTypes'
      <3>1. used' \in [Links -> BOOLEAN]
        BY <1>0, <2>0 DEF DataTypes
      <3> QED BY <1>0, <2>0, <2>1, <3>1 DEF DataTypes
    <2>3. RequestIsNamed'
      BY <1>0, <2>0, <2>1, ReplyFacts, NamesStay DEF Spending, DataTypes
    <2>4. AbsentIsBlank'
      BY <1>0, <2>0, <2>1, NoLinkAssumption, NoUserAssumption DEF AbsentIsBlank, DataTypes
    <2> QED BY <1>0, <2>0, <2>2, <2>3, <2>4, ReplyFacts
  <1>4. ASSUME NEW u \in Users, NEW flag \in BOOLEAN, SetRevoked(u, flag) PROVE Goal
    <2>0. /\ serial[u] # NoLink /\ revoked' = [revoked EXCEPT ![u] = flag]
          /\ UNCHANGED <<serial, p12, owner, lapsed, reqVars, handed>>
          /\ used' = used \/ used' = [l \in Links |-> used[l] \/ owner[l] = u]
      BY <1>4 DEF SetRevoked, SpentByRevoking, AllSpent, Known
    <2>1. DataTypes'
      <3>1. used' \in [Links -> BOOLEAN] /\ revoked' \in [Users -> BOOLEAN]
        BY <1>0, <2>0 DEF DataTypes
      <3> QED BY <1>0, <2>0, <3>1 DEF DataTypes
    <2>2. ReqTypes' /\ RequestIsNamed'
      BY <1>0, <2>0 DEF reqVars, ReqTypes, RequestIsNamed
    <2>3. AbsentIsBlank'
      BY <1>0, <2>0, NoUserAssumption DEF AbsentIsBlank, DataTypes
    <2> QED BY <2>1, <2>2, <2>3
  <1>5. ASSUME NEW w \in Workers, NEW l \in Links, NEW f \in Forms, Fetch(w, l, f)
        PROVE Goal
    <2>0. /\ owner[l] \in Users /\ p12[owner[l]] \in Links \cup {NoLink}
          /\ UNCHANGED <<userVars, linkVars, handed>>
      BY <1>0, <1>5 DEF Fetch, DataTypes
    <2>1. ReqTypes'
      BY <1>0, <1>5, <2>0 DEF Fetch, ReqTypes, InFlight
    <2>2. /\ subject'[w] = owner[l] /\ link'[w] = l
          /\ \A v \in Workers \ {w} :
                pc'[v] = pc[v] /\ subject'[v] = subject[v] /\ link'[v] = link[v]
      BY <1>0, <1>5 DEF Fetch, ReqTypes
    <2>3. RequestIsNamed'
      BY <1>0, <2>0, <2>2, NamesStay DEF linkVars
    <2> QED BY <1>s, <2>0, <2>1, <2>3
  <1>6. ASSUME NEW w \in Workers, NEW p \in InFlight, Goto(w, p), owner' = owner,
               pc[w] \in {"consume"} \cup Spending
        PROVE ReqTypes' /\ RequestIsNamed'
    <2>1. subject[w] \in Users /\ link[w] \in Links /\ owner[link[w]] = subject[w]
      BY <1>0, <1>6 DEF RequestIsNamed, Spending
    <2> QED BY <1>0, <1>6, <2>1, GotoFacts, NamesStay
  <1>7. ASSUME NEW w \in Workers, Reply(w), owner' = owner
        PROVE ReqTypes' /\ RequestIsNamed'
    BY <1>0, <1>7, ReplyFacts, NamesStay DEF Spending
  <1>8. ASSUME NEW w \in Workers, Consume(w) PROVE Goal
    <2>0. /\ pc[w] = "consume" /\ used' = [used EXCEPT ![link[w]] = TRUE]
          /\ UNCHANGED <<serial, p12, revoked, owner, lapsed, handed>>
          /\ Goto(w, "build") \/ Reply(w)
      BY <1>8 DEF Consume, userVars
    <2>1. link[w] \in Links /\ owner[link[w]] \in Users
      BY <1>0, <2>0 DEF RequestIsNamed
    <2>2. DataTypes'
      BY <1>0, <2>0 DEF DataTypes
    <2>3. AbsentIsBlank'
      BY <1>0, <2>0, <2>1, NoUserAssumption DEF AbsentIsBlank, DataTypes
    <2> QED BY <1>6, <1>7, <2>0, <2>2, <2>3 DEF InFlight, Spending
  <1>9. ASSUME NEW w \in Workers, Build(w) PROVE Goal
    <2>1. UNCHANGED <<userVars, linkVars, handed>> /\ pc[w] = "build"
      BY <1>9 DEF Build
    <2>2. Goto(w, "wipe") \/ Reply(w)
      BY <1>9 DEF Build
    <2> QED BY <1>s, <1>6, <1>7, <2>1, <2>2 DEF InFlight, Spending, linkVars
  <1>10. ASSUME NEW w \in Workers, Wipe(w) PROVE Goal
    <2>0. /\ pc[w] = "wipe" /\ Goto(w, "send")
          /\ p12' = [p12 EXCEPT ![subject[w]] = NoLink]
          /\ UNCHANGED <<serial, revoked, owner, used, lapsed, handed>>
      BY <1>10 DEF Wipe, linkVars
    <2>1. DataTypes' /\ AbsentIsBlank'
      BY <1>0, <2>0 DEF DataTypes, AbsentIsBlank
    <2> QED BY <1>6, <2>0, <2>1 DEF InFlight, Spending
  <1>11. ASSUME NEW w \in Workers, Send(w) PROVE Goal
    <2>0. Reply(w) /\ UNCHANGED <<userVars, linkVars>>
      BY <1>11 DEF Send
    <2>1. seen[w] \in Links \cup {NoLink}
      BY <1>0 DEF ReqTypes
    <2>2. handed' \in SUBSET (Links \X {"once", "again"})
      BY <1>0, <1>11, <2>1 DEF Send, DataTypes
    <2>3. DataTypes'
      BY <1>0, <2>0, <2>2 DEF DataTypes, userVars, linkVars
    <2> QED BY <1>d, <1>7, <2>0, <2>3 DEF linkVars
  <1>12. CASE Purge
    <2>1. DataTypes'
      BY <1>0, <1>12 DEF Purge, DataTypes, linkVars
    <2>2. ReqTypes' /\ RequestIsNamed'
      BY <1>0, <1>12 DEF Purge, reqVars, linkVars, ReqTypes, RequestIsNamed
    <2>3. AbsentIsBlank'
      BY <1>0, <1>12 DEF Purge, AbsentIsBlank, linkVars
    <2> QED BY <2>1, <2>2, <2>3
  <1>13. ASSUME NEW l \in Links, LinkLapses(l) PROVE Goal
    <2>1. DataTypes'
      BY <1>0, <1>13 DEF LinkLapses, DataTypes, userVars
    <2>2. ReqTypes' /\ RequestIsNamed'
      BY <1>0, <1>13 DEF LinkLapses, reqVars, ReqTypes, RequestIsNamed
    <2>3. AbsentIsBlank'
      BY <1>0, <1>13 DEF LinkLapses, AbsentIsBlank, userVars, DataTypes
    <2> QED BY <2>1, <2>2, <2>3
  <1>14. ASSUME NEW w \in Workers, Crash(w) PROVE Goal
    <2>1. Reply(w) /\ UNCHANGED <<userVars, linkVars, handed>>
      BY <1>14 DEF Crash
    <2> QED BY <1>s, <1>7, <2>1 DEF linkVars
  <1>15. CASE UNCHANGED vars
    <2>1. UNCHANGED <<userVars, linkVars, handed, reqVars>>
      BY <1>15 DEF vars
    <2>2. ReqTypes' /\ RequestIsNamed'
      BY <1>0, <2>1 DEF reqVars, linkVars, ReqTypes, RequestIsNamed
    <2> QED BY <1>s, <2>1, <2>2
  <1> QED BY <1>1, <1>2, <1>3, <1>4, <1>5, <1>8, <1>9, <1>10, <1>11, <1>12, <1>13, <1>14,
             <1>15 DEF Next, Handle

(* Every variable keeps its type, a download knows its link and its user,  *)
(* and a user or link that was never made has nothing attached to it.      *)
THEOREM TypeCorrect == Spec => []TypeOK
  BY InitTypes, StepTypes, PTL DEF Spec

-----------------------------------------------------------------------------
(* How a step changes the two tables.                                      *)

(* Link n is made for user u: his earlier ones are spent with it.          *)
Minted(u, n) ==
    /\ owner[n] = NoUser /\ ~used[n]
    /\ serial' = [serial EXCEPT ![u] = n]
    /\ p12' = [p12 EXCEPT ![u] = n]
    /\ owner' = [owner EXCEPT ![n] = u]
    /\ revoked' = revoked
    /\ \A l \in Links : owner[l] = u => used'[l]
    /\ \A l \in Links : used[l] => used'[l]

(* No link is made: links are only spent, bundles only wiped, and who is   *)
(* revoked has no unused link.                                             *)
OnlySpent ==
    /\ UNCHANGED <<serial, owner>>
    /\ \A u \in Users : p12'[u] \in {p12[u], NoLink}
    /\ \A u \in Users :
          revoked'[u] => revoked[u] \/ \A l \in Links : owner[l] = u => used'[l]
    /\ \A l \in Links : used[l] => used'[l]

LEMMA TableSteps ==
    ASSUME TypeOK, [Next]_vars
    PROVE  OnlySpent \/ \E u \in Users, n \in Links : Minted(u, n)
  <1> USE DEF userVars, linkVars
  <1>0. DataTypes /\ RequestIsNamed /\ AbsentIsBlank
    BY TypeParts
  <1>s. ASSUME UNCHANGED <<userVars, linkVars>> PROVE OnlySpent
    BY <1>s DEF OnlySpent
  <1>1. ASSUME NEW w \in Workers, NEW u \in Users, RegisterReads(w, u) \/ ReissueReads(w, u)
        PROVE OnlySpent
    BY <1>s, <1>1 DEF RegisterReads, ReissueReads
  <1>2. ASSUME NEW w \in Workers, RegisterInserts(w)
        PROVE OnlySpent \/ \E u \in Users, n \in Links : Minted(u, n)
    <2>0. subject[w] \in Users /\ revoked' = revoked /\ used' = used
      BY <1>0, <1>2 DEF RegisterInserts, RequestIsNamed
    <2>1. CASE KeyIsFree(subject[w]) /\ Mint(subject[w])
      <3>1. \A l \in Links : owner[l] # subject[w]
        BY <1>0, <2>0, <2>1 DEF KeyIsFree, Known, AbsentIsBlank
      <3> QED BY <2>0, <2>1, <3>1, MintFacts DEF Minted
    <2>2. CASE UNCHANGED <<serial, p12, owner, lapsed>>
      BY <1>s, <2>0, <2>2
    <2> QED BY <1>2, <2>1, <2>2 DEF RegisterInserts
  <1>3. ASSUME NEW w \in Workers, ReissueUpdates(w)
        PROVE \E u \in Users, n \in Links : Minted(u, n)
    <2>1. subject[w] \in Users /\ Mint(subject[w]) /\ revoked' = revoked
      BY <1>0, <1>3 DEF ReissueUpdates, RequestIsNamed
    <2>2. used' = [l \in Links |-> used[l] \/ owner[l] = subject[w]]
      BY <1>3 DEF ReissueUpdates, AllSpent
    <2> QED BY <2>1, <2>2, MintFacts DEF Minted
  <1>4. ASSUME NEW u \in Users, NEW flag \in BOOLEAN, SetRevoked(u, flag) PROVE OnlySpent
    <2>0. /\ UNCHANGED <<serial, p12, owner>>
          /\ revoked' = [revoked EXCEPT ![u] = flag]
          /\ used' = IF flag THEN [l \in Links |-> used[l] \/ owner[l] = u] ELSE used
      BY <1>4 DEF SetRevoked, SpentByRevoking, AllSpent
    <2>1. CASE flag
      <3>1. \A l \in Links : used'[l] <=> used[l] \/ owner[l] = u
        BY <2>0, <2>1
      <3> QED BY <1>0, <2>0, <3>1 DEF OnlySpent, DataTypes
    <2>2. CASE ~flag
      BY <1>0, <2>0, <2>2 DEF OnlySpent, DataTypes
    <2> QED BY <2>1, <2>2
  <1>5. ASSUME NEW w \in Workers, NEW l \in Links, NEW f \in Forms, Fetch(w, l, f)
        PROVE OnlySpent
    BY <1>s, <1>5 DEF Fetch
  <1>6. ASSUME NEW w \in Workers, Consume(w) PROVE OnlySpent
    <2>1. link[w] \in Links /\ used' = [used EXCEPT ![link[w]] = TRUE]
      BY <1>0, <1>6 DEF Consume, RequestIsNamed
    <2>2. \A l \in Links : used[l] => used'[l]
      BY <1>0, <2>1 DEF DataTypes
    <2> QED BY <1>6, <2>2 DEF Consume, OnlySpent
  <1>7. ASSUME NEW w \in Workers, Build(w) \/ Send(w) \/ Crash(w) PROVE OnlySpent
    BY <1>s, <1>7 DEF Build, Send, Crash
  <1>8. ASSUME NEW w \in Workers, Wipe(w) PROVE OnlySpent
    BY <1>0, <1>8 DEF Wipe, OnlySpent, DataTypes
  <1>9. CASE Purge
    BY <1>0, <1>9 DEF Purge, OnlySpent, DataTypes
  <1>10. ASSUME NEW l \in Links, LinkLapses(l) PROVE OnlySpent
    BY <1>10 DEF LinkLapses, OnlySpent
  <1>11. CASE UNCHANGED vars
    BY <1>s, <1>11 DEF vars
  <1> QED BY <1>1, <1>2, <1>3, <1>4, <1>5, <1>6, <1>7, <1>8, <1>9, <1>10, <1>11
          DEF Next, Handle

(* What both kinds of step have in common.                                 *)
LEMMA TableMonotone ==
    ASSUME TypeOK, [Next]_vars
    PROVE  /\ \A l \in Links : used[l] => used'[l]
           /\ \A l \in Links : owner[l] # NoUser => owner'[l] = owner[l]
           /\ \A u \in Users :
                 revoked'[u] => revoked[u] \/ \A l \in Links : owner[l] = u => used'[l]
  <1>1. CASE OnlySpent
    BY <1>1 DEF OnlySpent
  <1>2. ASSUME NEW u \in Users, NEW n \in Links, Minted(u, n)
        PROVE \A l \in Links : owner[l] # NoUser => owner'[l] = owner[l]
    BY <1>2 DEF Minted, TypeOK
  <1>3. ASSUME NEW u \in Users, NEW n \in Links, Minted(u, n)
        PROVE revoked' = revoked /\ \A l \in Links : used[l] => used'[l]
    BY <1>3 DEF Minted
  <1> QED BY <1>1, <1>2, <1>3, TableSteps

(* The unused link stays the one of the current certificate.               *)
LEMMA LiveStep == TypeOK /\ LiveLinkIsCurrent /\ [Next]_vars => LiveLinkIsCurrent'
  <1> SUFFICES ASSUME TypeOK, LiveLinkIsCurrent, [Next]_vars,
                      NEW l \in Links, owner'[l] # NoUser, ~used'[l]
               PROVE serial'[owner'[l]] = l
    BY DEF LiveLinkIsCurrent
  <1>0. /\ serial \in [Users -> Links \cup {NoLink}]
        /\ owner \in [Links -> Users \cup {NoUser}]
    BY DEF TypeOK
  <1>1. CASE OnlySpent
    BY <1>1 DEF OnlySpent, LiveLinkIsCurrent
  <1>2. ASSUME NEW u \in Users, NEW n \in Links, Minted(u, n)
        PROVE serial'[owner'[l]] = l
    <2>1. serial' = [serial EXCEPT ![u] = n] /\ owner' = [owner EXCEPT ![n] = u]
      BY <1>2 DEF Minted
    <2>2. CASE l = n
      BY <1>0, <2>1, <2>2
    <2>3. CASE l # n
      <3>1. owner'[l] = owner[l] /\ owner[l] \in Users
        BY <1>0, <2>1, <2>3
      <3>2. ~used[l] /\ owner[l] # u
        BY <1>2 DEF Minted
      <3> QED BY <1>0, <2>1, <3>1, <3>2 DEF LiveLinkIsCurrent
    <2> QED BY <2>2, <2>3
  <1> QED BY <1>1, <1>2, TableSteps

(* The bundle stays the one of the current certificate.                    *)
LEMMA BundleStep == TypeOK /\ BundleIsCurrent /\ [Next]_vars => BundleIsCurrent'
  <1> SUFFICES ASSUME TypeOK, BundleIsCurrent, [Next]_vars PROVE BundleIsCurrent'
    OBVIOUS
  <1>1. CASE OnlySpent
    BY <1>1 DEF OnlySpent, BundleIsCurrent
  <1>2. ASSUME NEW u \in Users, NEW n \in Links, Minted(u, n) PROVE BundleIsCurrent'
    BY <1>2 DEF Minted, BundleIsCurrent, TypeOK
  <1> QED BY <1>1, <1>2, TableSteps

-----------------------------------------------------------------------------
(* How a step changes the downloads that are under way.                    *)

Rely(w) ==
    /\ pc[w] = "consume" /\ ~used[link[w]] =>
          ~revoked[subject[w]] /\ seen[w] \in {link[w], NoLink}
    /\ pc[w] \in Spending => used[link[w]] /\ seen[w] \in {link[w], NoLink}

LEMMA DownloadsRelyAll == DownloadsRely <=> \A w \in Workers : Rely(w)
  BY DEF DownloadsRely, Rely

(* Every step but these three leaves each worker where it is in its        *)
(* download or takes it out of it.                                         *)
Stays(w) == pc'[w] = pc[w] /\ UNCHANGED <<subject[w], link[w], seen[w]>>
Leaves(w) == pc'[w] \notin {"consume"} \cup Spending
Advances(w) ==
    /\ pc[w] \in Spending /\ pc'[w] \in Spending
    /\ UNCHANGED <<subject[w], link[w], seen[w]>>

LEMMA RequestSteps ==
    ASSUME TypeOK, [Next]_vars
    PROVE  \/ \A v \in Workers : Stays(v) \/ Leaves(v) \/ Advances(v)
           \/ \E w \in Workers :
                 /\ \A v \in Workers \ {w} : Stays(v)
                 /\ \/ \E l \in Links, f \in Forms : Fetch(w, l, f)
                    \/ Consume(w) /\ Goto(w, "build") /\ ~used[link[w]]
  <1> DEFINE Calm == \A v \in Workers : Stays(v) \/ Leaves(v) \/ Advances(v)
  <1>0. ReqTypes
    BY TypeParts
  <1>r. ASSUME NEW w \in Workers, Reply(w) PROVE Calm
    BY <1>0, <1>r, ReplyFacts DEF Stays, Leaves, Spending
  <1>u. ASSUME UNCHANGED reqVars PROVE Calm
    BY <1>u DEF reqVars, Stays
  <1>g. ASSUME NEW w \in Workers, NEW p \in Spending, Goto(w, p)
        PROVE /\ \A v \in Workers \ {w} : Stays(v)
              /\ pc[w] \in Spending => Advances(w)
    BY <1>0, <1>g, GotoFacts DEF Stays, Advances, InFlight
  <1>1. ASSUME NEW w \in Workers, NEW u \in Users, RegisterReads(w, u) \/ ReissueReads(w, u)
        PROVE Calm
    <2>1. \E p \in {"insert", "update"} : Begin(w, u, p)
      BY <1>1 DEF RegisterReads, ReissueReads
    <2>2. PICK p \in {"insert", "update"} : Begin(w, u, p)
      BY <2>1
    <2>3. pc'[w] = p /\ \A v \in Workers \ {w} : Stays(v)
      BY <1>0, <2>2, BeginFacts DEF Stays, InFlight
    <2> QED BY <2>3 DEF Leaves, Spending
  <1>2. ASSUME NEW w \in Workers, RegisterInserts(w) \/ ReissueUpdates(w) \/ Send(w) \/ Crash(w)
        PROVE Calm
    BY <1>r, <1>2 DEF RegisterInserts, ReissueUpdates, Send, Crash
  <1>3. ASSUME NEW u \in Users, NEW flag \in BOOLEAN, SetRevoked(u, flag) PROVE Calm
    BY <1>u, <1>3 DEF SetRevoked
  <1>4. ASSUME NEW w \in Workers, NEW l \in Links, NEW f \in Forms, Fetch(w, l, f)
        PROVE \A v \in Workers \ {w} : Stays(v)
    BY <1>0, <1>4 DEF Fetch, Stays, ReqTypes
  <1>5. ASSUME NEW w \in Workers, Consume(w)
        PROVE Calm \/ /\ \A v \in Workers \ {w} : Stays(v)
                      /\ Goto(w, "build") /\ ~used[link[w]]
    BY <1>r, <1>g, <1>5 DEF Consume, StillUnused, Spending
  <1>6. ASSUME NEW w \in Workers, Build(w) \/ Wipe(w) PROVE Calm
    <2>1. Reply(w) \/ \E p \in Spending : Goto(w, p)
      BY <1>6 DEF Build, Wipe, Spending
    <2>2. pc[w] \in Spending
      BY <1>6 DEF Build, Wipe, Spending
    <2> QED BY <1>r, <1>g, <2>1, <2>2
  <1>7. CASE Purge \/ \E l \in Links : LinkLapses(l)
    BY <1>u, <1>7 DEF Purge, LinkLapses
  <1>8. CASE UNCHANGED vars
    BY <1>u, <1>8 DEF vars
  <1> QED BY <1>1, <1>2, <1>3, <1>4, <1>5, <1>6, <1>7, <1>8 DEF Next, Handle

(* What a download fetched stays good.                                     *)
LEMMA RelyStep ==
    TypeOK /\ LiveLinkIsCurrent /\ BundleIsCurrent /\ DownloadsRely /\ [Next]_vars
      => DownloadsRely'
  <1> SUFFICES ASSUME TypeOK, LiveLinkIsCurrent, BundleIsCurrent, DownloadsRely, [Next]_vars,
                      NEW w \in Workers
               PROVE Rely(w)'
    BY DEF DownloadsRely, Rely
  <1>0. Rely(w) /\ RequestIsNamed /\ ReqTypes /\ DataTypes
    BY TypeParts, DownloadsRelyAll
  <1>1. CASE Leaves(w)
    BY <1>1 DEF Leaves, Rely
  <1>2. CASE Stays(w) \/ Advances(w)
    <2>1. UNCHANGED <<subject[w], link[w], seen[w]>>
      BY <1>2 DEF Stays, Advances
    <2>2. /\ pc'[w] = "consume" => pc[w] = "consume"
          /\ pc'[w] \in Spending => pc[w] \in Spending
      BY <1>2 DEF Stays, Advances, Spending
    <2>3. ASSUME pc'[w] = "consume", ~used'[link[w]]
          PROVE ~revoked'[subject[w]] /\ seen[w] \in {link[w], NoLink}
      <3>1. link[w] \in Links /\ owner[link[w]] = subject[w] /\ subject[w] \in Users
        BY <1>0, <2>2, <2>3 DEF RequestIsNamed
      <3>2. ~used[link[w]]
        BY <2>3, <3>1, TableMonotone
      <3> QED BY <1>0, <2>2, <2>3, <3>1, <3>2, TableMonotone DEF Rely
    <2>4. ASSUME pc'[w] \in Spending PROVE used'[link[w]] /\ seen[w] \in {link[w], NoLink}
      <3>1. link[w] \in Links
        BY <1>0, <2>2, <2>4 DEF RequestIsNamed
      <3> QED BY <1>0, <2>2, <2>4, <3>1, TableMonotone DEF Rely
    <2> QED BY <2>1, <2>3, <2>4 DEF Rely
  <1>3. ASSUME NEW l \in Links, NEW f \in Forms, Fetch(w, l, f) PROVE Rely(w)'
    <2>1. /\ pc'[w] = "consume" /\ subject'[w] = owner[l] /\ link'[w] = l
          /\ seen'[w] = p12[owner[l]]
      BY <1>0, <1>3 DEF Fetch, ReqTypes
    <2>2. owner[l] \in Users /\ ~revoked[owner[l]] /\ ~used[l] /\ revoked' = revoked
      BY <1>0, <1>3 DEF Fetch, DataTypes, userVars
    <2>3. p12[owner[l]] \in {l, NoLink}
      BY <2>2, NoUserAssumption DEF LiveLinkIsCurrent, BundleIsCurrent
    <2> QED BY <2>1, <2>2, <2>3 DEF Rely, Spending
  <1>4. ASSUME Consume(w), Goto(w, "build"), ~used[link[w]] PROVE Rely(w)'
    <2>1. pc[w] = "consume" /\ used' = [used EXCEPT ![link[w]] = TRUE] /\ link[w] \in Links
      BY <1>0, <1>4 DEF Consume, RequestIsNamed
    <2>2. seen[w] \in {link[w], NoLink}
      BY <1>0, <1>4, <2>1 DEF Rely
    <2>3. used'[link[w]]
      BY <1>0, <2>1 DEF DataTypes
    <2>4. pc'[w] = "build" /\ UNCHANGED <<subject, link, seen>>
      BY <1>0, <1>4, GotoFacts DEF InFlight, Spending
    <2> QED BY <2>2, <2>3, <2>4 DEF Rely
  <1> QED BY <1>1, <1>2, <1>3, <1>4, RequestSteps

(* Bundles leave by Send alone.                                            *)
LEMMA HandedSteps ==
    ASSUME TypeOK, [Next]_vars
    PROVE  handed' = handed \/ \E w \in Workers : Send(w)
  <1> QED BY DEF Next, Handle, RegisterReads, ReissueReads, Fetch, RegisterInserts,
             ReissueUpdates, Consume, Build, Wipe, Crash, SetRevoked, LinkLapses, Purge, vars

(* Whoever spends a link is the only one to, and finds it not handed out.  *)
LEMMA SpenderStep ==
    TypeOK /\ DownloadsRely /\ OneSpender /\ KeyLeavesOnce /\ [Next]_vars
      => OneSpender' /\ KeyLeavesOnce'
  <1> SUFFICES ASSUME TypeOK, DownloadsRely, OneSpender, KeyLeavesOnce, [Next]_vars
               PROVE OneSpender' /\ KeyLeavesOnce'
    OBVIOUS
  <1>0. RequestIsNamed /\ ReqTypes /\ DataTypes
    BY TypeParts
  <1>1. \A v \in Workers : pc'[v] \in Spending =>
           /\ link'[v] = link[v]
           /\ \/ pc[v] \in Spending
              \/ Consume(v) /\ ~used[link[v]] /\ pc[v] = "consume"
    <2>1. \A v \in Workers : Stays(v) \/ Leaves(v) \/ Advances(v) =>
             (pc'[v] \in Spending => link'[v] = link[v] /\ pc[v] \in Spending)
      BY DEF Stays, Leaves, Advances
    <2>2. ASSUME NEW v \in Workers, NEW l \in Links, NEW f \in Forms, Fetch(v, l, f)
          PROVE pc'[v] \notin Spending
      BY <1>0, <2>2 DEF Fetch, ReqTypes, Spending
    <2>3. ASSUME NEW v \in Workers, Consume(v), Goto(v, "build")
          PROVE link' = link /\ pc[v] = "consume"
      BY <2>3 DEF Consume, Goto
    <2> QED BY <2>1, <2>2, <2>3, RequestSteps
  <1>2. \A v \in Workers : pc[v] \in Spending => used[link[v]] /\ link[v] \in Links
    BY <1>0 DEF DownloadsRely, RequestIsNamed
  <1>3. ASSUME NEW v \in Workers, NEW w \in Workers,
               pc'[v] \in Spending, pc'[w] \in Spending, link'[v] = link'[w]
        PROVE v = w
    <2>1. CASE pc[v] \in Spending /\ pc[w] \in Spending
      BY <1>1, <1>3, <2>1 DEF OneSpender
    <2>2. ASSUME NEW x \in Workers, NEW y \in Workers, pc[x] \in Spending, ~used[link[y]],
                 link[x] = link[y]
          PROVE FALSE
      BY <1>2, <2>2
    <2>3. CASE Consume(v) /\ Consume(w) /\ pc[v] = "consume" /\ pc[w] = "consume"
      <3>1. SUFFICES ASSUME v # w PROVE FALSE
        OBVIOUS
      <3>2. pc'[v] = "consume" \/ pc'[v] = "idle" \/ pc'[w] = "consume" \/ pc'[w] = "idle"
        BY <1>0, <2>3, <3>1 DEF Consume, Goto, Reply, ReqTypes
      <3> QED BY <1>3, <3>2 DEF Spending
    <2> QED BY <1>1, <1>3, <2>1, <2>2, <2>3
  <1>4. CASE handed' = handed
    <2>1. ASSUME NEW l \in Links, <<l, "once">> \in handed
          PROVE used'[l] /\ \A w \in Workers : pc'[w] \in Spending => link'[w] # l
      <3>1. used[l] /\ \A w \in Workers : pc[w] \in Spending => link[w] # l
        BY <2>1 DEF OneSpender
      <3> QED BY <1>1, <3>1, TableMonotone
    <2> QED BY <1>3, <1>4, <2>1 DEF OneSpender, KeyLeavesOnce
  <1>5. ASSUME NEW w \in Workers, Send(w) PROVE OneSpender' /\ KeyLeavesOnce'
    <2>1. /\ pc[w] \in Spending /\ seen[w] \in {link[w], NoLink} /\ link[w] \in Links
          /\ used[link[w]] /\ UNCHANGED used
      BY <1>0, <1>5 DEF Send, Spending, DownloadsRely, linkVars, RequestIsNamed
    <2>2. /\ pc'[w] = "idle"
          /\ \A v \in Workers \ {w} : pc'[v] = pc[v] /\ link'[v] = link[v]
      BY <1>0, <1>5, ReplyFacts DEF Send
    <2>3. <<link[w], "once">> \notin handed
      BY <2>1 DEF OneSpender
    <2>4. handed' = handed \/ handed' = handed \cup {<<link[w], "once">>}
      BY <1>5, <2>1, <2>3 DEF Send
    <2>5. ASSUME NEW l \in Links, <<l, "once">> \in handed'
          PROVE used'[l] /\ \A v \in Workers : pc'[v] \in Spending => link'[v] # l
      <3>1. CASE l = link[w]
        <4>1. \A v \in Workers \ {w} : pc[v] \in Spending => link[v] # l
          BY <2>1, <3>1 DEF OneSpender
        <4> QED BY <2>1, <2>2, <3>1, <4>1 DEF Spending
      <3>2. CASE l # link[w]
        <4>1. <<l, "once">> \in handed
          BY <2>4, <2>5, <3>2
        <4> QED BY <2>1, <2>2, <4>1 DEF OneSpender, Spending
      <3> QED BY <3>1, <3>2
    <2>6. \A l \in Links : <<l, "again">> \notin handed'
      <3>1. \A l \in Links : <<l, "again">> # <<link[w], "once">>
        OBVIOUS
      <3> QED BY <2>4, <3>1 DEF KeyLeavesOnce
    <2> QED BY <1>3, <2>5, <2>6 DEF OneSpender, KeyLeavesOnce
  <1> QED BY <1>4, <1>5, HandedSteps

-----------------------------------------------------------------------------
(* The inductive invariant.                                                *)
CredentialsInv ==
    /\ TypeOK
    /\ LiveLinkIsCurrent
    /\ BundleIsCurrent
    /\ DownloadsRely
    /\ OneSpender
    /\ KeyLeavesOnce

LEMMA InvHolds == Spec => []CredentialsInv
  <1>1. Init => CredentialsInv
    <2>1. Init => LiveLinkIsCurrent /\ BundleIsCurrent
      BY DEF Init, LiveLinkIsCurrent, BundleIsCurrent
    <2>2. Init => DownloadsRely /\ OneSpender /\ KeyLeavesOnce
      BY DEF Init, DownloadsRely, OneSpender, KeyLeavesOnce, Spending
    <2> QED BY <2>1, <2>2, InitTypes DEF CredentialsInv
  <1>2. CredentialsInv /\ [Next]_vars => CredentialsInv'
    BY StepTypes, LiveStep, BundleStep, RelyStep, SpenderStep DEF CredentialsInv
  <1> QED BY <1>1, <1>2, PTL DEF Spec

(* However many downloads race for it and whatever is reissued, revoked or *)
(* purged meanwhile, a private key leaves the server at most once.         *)
THEOREM KeysLeaveOnce == Spec => []KeyLeavesOnce
  BY InvHolds, PTL DEF CredentialsInv

(* A link that can be spent is the one of the certificate in force.        *)
THEOREM LiveLinks == Spec => []LiveLinkIsCurrent
  BY InvHolds, PTL DEF CredentialsInv

(* No link delivers the bundle of another registration.                    *)
THEOREM LinksYieldTheirOwn == Spec => []LinkYieldsItsOwnBundle
  <1>1. CredentialsInv => LinkYieldsItsOwnBundle
    BY DEF CredentialsInv, DownloadsRely, LinkYieldsItsOwnBundle
  <1> QED BY <1>1, InvHolds, PTL

(* A download under way when its user is revoked does not get the link.    *)
THEOREM RevocationsStop == Spec => []RevocationStopsDownloads
  <1>1. CredentialsInv => RevocationStopsDownloads
    BY DEF CredentialsInv, DownloadsRely, RevocationStopsDownloads
  <1> QED BY <1>1, InvHolds, PTL
-----------------------------------------------------------------------------
(* The purge does its work.                                                *)

(* The certificate in force is that of a link of its user.                 *)
SerialIsOwned == \A u \in Users : serial[u] \in Links => owner[serial[u]] = u

LEMMA OwnedStep == TypeOK /\ SerialIsOwned /\ [Next]_vars => SerialIsOwned'
  <1> SUFFICES ASSUME TypeOK, SerialIsOwned, [Next]_vars PROVE SerialIsOwned'
    OBVIOUS
  <1>1. CASE OnlySpent
    BY <1>1 DEF OnlySpent, SerialIsOwned
  <1>2. ASSUME NEW u \in Users, NEW n \in Links, Minted(u, n) PROVE SerialIsOwned'
    <2>1. owner[n] = NoUser
      BY <1>2 DEF Minted
    <2> QED BY <1>2, <2>1, NoUserAssumption DEF Minted, SerialIsOwned, TypeOK
  <1> QED BY <1>1, <1>2, TableSteps

LEMMA OwnedHolds == Spec => []SerialIsOwned
  <1>1. Init => SerialIsOwned
    BY NoLinkAssumption DEF Init, SerialIsOwned
  <1> QED BY <1>1, OwnedStep, TypeCorrect, PTL DEF Spec

(* A bundle the timer's query picks out.                                   *)
PurgeHasWork == \E u \in Users : p12[u] # NoLink /\ ~HasGoodLink(u)

(* A link that can fetch nothing any more never can again.                 *)
Dead(l) == owner[l] # NoUser /\ (used[l] \/ lapsed[l])
Kept(u, l) == p12[u] = l /\ Dead(l)
Gone(u, l) == p12[u] # l /\ Dead(l)

LEMMA LapseMonotone ==
    ASSUME TypeOK, [Next]_vars, NEW l \in Links, lapsed[l] PROVE lapsed'[l]
  <1> USE DEF userVars, linkVars
  <1>1. ASSUME NEW k \in Links, LinkLapses(k) PROVE lapsed'[l]
    BY <1>1 DEF LinkLapses, TypeOK
  <1>2. ASSUME NEW w \in Workers, RegisterInserts(w) \/ ReissueUpdates(w) PROVE lapsed'[l]
    BY <1>2 DEF RegisterInserts, ReissueUpdates, Mint
  <1> QED BY <1>1, <1>2 DEF Next, Handle, RegisterReads, ReissueReads, Fetch, Consume, Build,
             Wipe, Send, Crash, SetRevoked, Purge, vars

LEMMA DeadStep == ASSUME TypeOK, [Next]_vars, NEW l \in Links, Dead(l) PROVE Dead(l)'
  BY TableMonotone, LapseMonotone DEF Dead

(* No certificate is made for a dead link, so its bundle does not return.  *)
LEMMA GoneStep ==
    ASSUME TypeOK, [Next]_vars, NEW u \in Users, NEW l \in Links, Gone(u, l)
    PROVE  Gone(u, l)'
  <1>1. Dead(l)'
    BY DeadStep DEF Gone
  <1>2. CASE OnlySpent
    BY <1>1, <1>2, NoLinkAssumption DEF OnlySpent, Gone
  <1>3. ASSUME NEW v \in Users, NEW n \in Links, Minted(v, n) PROVE p12'[u] # l
    <2>1. n # l /\ p12' = [p12 EXCEPT ![v] = n]
      BY <1>3 DEF Minted, Gone, Dead
    <2> QED BY <2>1 DEF Gone, TypeOK
  <1> QED BY <1>1, <1>2, <1>3, TableSteps DEF Gone

(* A bundle whose link is dead is work for the purge: its user can have no *)
(* other good link, since that would be the one of his certificate.        *)
LEMMA DeadBundleIsWork ==
    ASSUME CredentialsInv, SerialIsOwned, NEW u \in Users, NEW l \in Links,
           p12[u] = l, used[l] \/ lapsed[l]
    PROVE  Kept(u, l) /\ p12[u] # NoLink /\ ~HasGoodLink(u)
  <1>1. serial[u] = l /\ l # NoLink
    BY NoLinkAssumption DEF CredentialsInv, BundleIsCurrent
  <1>2. owner[l] = u
    BY <1>1 DEF SerialIsOwned
  <1>3. ASSUME NEW m \in Links, owner[m] = u, ~used[m], ~lapsed[m] PROVE FALSE
    <2>1. m = l
      BY <1>1, <1>3, NoUserAssumption DEF CredentialsInv, LiveLinkIsCurrent
    <2> QED BY <1>3, <2>1
  <1> QED BY <1>1, <1>2, <1>3, NoUserAssumption DEF Kept, Dead, HasGoodLink, LinksOf

(* If the timer keeps firing, a bundle whose link was spent or has lapsed  *)
(* is wiped in the end and never comes back, whoever was killed in between. *)
(* The hypothesis about ENABLED says what it is of this action.            *)
THEOREM KeysAreWiped ==
    FairSpec /\ [](PurgeHasWork => ENABLED <<Purge>>_vars) => KeyIsWiped
  <1> SUFFICES ASSUME NEW u \in Users, NEW l \in Links
               PROVE FairSpec /\ [](PurgeHasWork => ENABLED <<Purge>>_vars)
                      => ((p12[u] = l /\ (used[l] \/ lapsed[l])) ~> [](p12[u] # l))
    BY DEF KeyIsWiped
  <1>1. TypeOK /\ Kept(u, l) /\ [Next]_vars => Kept(u, l)' \/ Gone(u, l)'
    BY DeadStep DEF Kept, Gone
  <1>2. TypeOK /\ Gone(u, l) /\ [Next]_vars => Gone(u, l)'
    BY GoneStep
  <1>3. CredentialsInv /\ SerialIsOwned /\ p12[u] = l /\ (used[l] \/ lapsed[l])
          => Kept(u, l) /\ PurgeHasWork
    BY DeadBundleIsWork DEF PurgeHasWork
  <1>4. CredentialsInv /\ SerialIsOwned /\ Kept(u, l) => PurgeHasWork /\ ~HasGoodLink(u)
    BY DeadBundleIsWork DEF PurgeHasWork, Kept, Dead
  <1>5. TypeOK /\ Kept(u, l) /\ ~HasGoodLink(u) /\ <<Purge>>_vars => Gone(u, l)'
    <2> SUFFICES ASSUME TypeOK, Kept(u, l), ~HasGoodLink(u), Purge PROVE Gone(u, l)'
      OBVIOUS
    <2>1. p12'[u] = NoLink /\ UNCHANGED <<owner, used, lapsed>>
      BY DEF Purge, linkVars
    <2> QED BY <2>1, NoLinkAssumption DEF Kept, Gone, Dead
  <1>6. CredentialsInv => TypeOK
    BY DEF CredentialsInv
  <1>7. Gone(u, l) => p12[u] # l
    BY DEF Gone
  <1> QED BY <1>1, <1>2, <1>3, <1>4, <1>5, <1>6, <1>7, InvHolds, OwnedHolds, PTL
          DEF FairSpec, Spec
-----------------------------------------------------------------------------
(* How far LiveLinkHasItsBundle fails.                                     *)

Good(l) == owner[l] # NoUser /\ ~used[l] /\ ~lapsed[l]

BundleLost(l) == Good(l) /\ p12[owner[l]] = l /\ p12'[owner[l]] # l

(* A download that had spent an earlier link of the same user.             *)
LateWipe(w, l) ==
    /\ Wipe(w) /\ subject[w] = owner[l]
    /\ link[w] # l /\ used[link[w]] /\ owner[link[w]] = owner[l]

(* A good link loses its bundle to one thing only: the wipe of a download  *)
(* that had spent an earlier link of the same user before the reissue.     *)
OnlyLateWipesHurt ==
    [][\A l \in Links :
          BundleLost(l) => used'[l] \/ \E w \in Workers : LateWipe(w, l)]_vars

(* An administrator who reissues while nobody is downloading gets a link   *)
(* that keeps its bundle: wiping is the only step that takes it away       *)
(* before the link is spent or lapses.                                     *)
THEOREM GoodLinksLoseTheirBundleToLateWipes == Spec => OnlyLateWipesHurt
  <1> DEFINE Goal(l) == used'[l] \/ \E w \in Workers : LateWipe(w, l)
  <1>1. ASSUME CredentialsInv, [Next]_vars, NEW l \in Links, BundleLost(l) PROVE Goal(l)
    <2>0. /\ DataTypes /\ ReqTypes /\ RequestIsNamed /\ TypeOK /\ DownloadsRely
          /\ owner[l] \in Users /\ ~used[l] /\ ~lapsed[l]
          /\ p12[owner[l]] = l /\ p12'[owner[l]] # l
      <3>1. TypeOK /\ DownloadsRely /\ DataTypes /\ ReqTypes /\ RequestIsNamed
        BY <1>1, TypeParts DEF CredentialsInv
      <3> QED BY <1>1, <3>1 DEF BundleLost, Good, DataTypes
    <2>1. ASSUME NEW w \in Workers, Wipe(w) PROVE Goal(l)
      <3>1. subject[w] = owner[l] /\ pc[w] = "wipe"
        BY <2>0, <2>1 DEF Wipe, DataTypes
      <3>2. link[w] \in Links /\ owner[link[w]] = owner[l] /\ used[link[w]]
        BY <2>0, <3>1 DEF RequestIsNamed, DownloadsRely, Spending
      <3> QED BY <2>0, <2>1, <3>1, <3>2 DEF LateWipe
    <2>2. CASE Purge
      <3>1. HasGoodLink(owner[l])
        BY <2>0 DEF HasGoodLink, LinksOf
      <3> QED BY <2>0, <2>2, <3>1 DEF Purge
    <2>3. ASSUME NEW w \in Workers, RegisterInserts(w) \/ ReissueUpdates(w) PROVE Goal(l)
      <3>1. p12' # p12
        BY <2>0
      <3>2. subject[w] \in Users /\ Mint(subject[w])
        BY <2>0, <2>3, <3>1 DEF RegisterInserts, ReissueUpdates, RequestIsNamed
      <3>3. \E n \in Links : p12' = [p12 EXCEPT ![subject[w]] = n]
        BY <2>0, <3>2, MintFacts
      <3>4. owner[l] = subject[w]
        BY <2>0, <3>3 DEF DataTypes
      <3>5. CASE RegisterInserts(w)
        BY <2>0, <3>1, <3>4, <3>5, NoLinkAssumption
           DEF RegisterInserts, KeyIsFree, Known, TypeOK, DataTypes
      <3>6. CASE ReissueUpdates(w)
        BY <3>4, <3>6 DEF ReissueUpdates, AllSpent
      <3> QED BY <2>3, <3>5, <3>6
    <2>4. CASE UNCHANGED p12
      BY <2>0, <2>4
    <2> HIDE DEF Goal
    <2> QED BY <1>1, <2>1, <2>2, <2>3, <2>4
            DEF Next, Handle, RegisterReads, ReissueReads, Fetch, Consume, Build,
                Send, Crash, SetRevoked, LinkLapses, vars, userVars
  <1>2. CredentialsInv /\ [Next]_vars
          => [\A l \in Links :
                BundleLost(l) => used'[l] \/ \E w \in Workers : LateWipe(w, l)]_vars
    BY <1>1
  <1> QED BY <1>2, InvHolds, PTL DEF Spec, OnlyLateWipesHurt
-----------------------------------------------------------------------------
(* Who is left a link when a user is revoked.                              *)

(* A revoked user comes to have a live download link in one way: a reissue *)
(* under way while _set_revoked spent the links.  Registrations, restores  *)
(* and downloads never leave one.                                          *)
THEOREM RevokedKeepNoLinks == Spec => RevokedKeepNoLink
  <1>1. ASSUME CredentialsInv, [Next]_vars, NEW u \in Users, ~LinkLeft(u), LinkLeft(u)'
        PROVE  \E w \in Workers : LateReissue(w, u)
    <2>0. TypeOK /\ DataTypes /\ ReqTypes /\ RequestIsNamed
      BY <1>1, TypeParts DEF CredentialsInv
    <2> USE DEF LinkLeft, HasGoodLink, LinksOf
    <2>1. ASSUME NEW v \in Users, NEW flag \in BOOLEAN, SetRevoked(v, flag) PROVE FALSE
      BY <1>1, <2>0, <2>1 DEF SetRevoked, SpentByRevoking, AllSpent, DataTypes
    <2>2. ASSUME NEW w \in Workers, RegisterInserts(w) PROVE FALSE
      <3>1. CASE UNCHANGED <<owner, used, lapsed>>
        BY <1>1, <2>2, <3>1 DEF RegisterInserts
      <3>2. CASE KeyIsFree(subject[w]) /\ Mint(subject[w])
        <4>1. subject[w] \in Users /\ ~revoked[subject[w]]
          BY <2>0, <2>2, <3>2 DEF RegisterInserts, RequestIsNamed, KeyIsFree, Known, TypeOK
        <4>2. subject[w] # u
          BY <1>1, <2>2, <4>1 DEF RegisterInserts
        <4>3. PICK n \in Links : owner' = [owner EXCEPT ![n] = subject[w]] /\ UNCHANGED lapsed
          BY <3>2, <4>1, <2>0, MintFacts
        <4> QED BY <1>1, <2>0, <2>2, <4>2, <4>3 DEF RegisterInserts, DataTypes
      <3> QED BY <2>2, <3>1, <3>2 DEF RegisterInserts
    <2>3. ASSUME NEW w \in Workers, ReissueUpdates(w) PROVE LateReissue(w, u)
      <3>1. subject[w] \in Users /\ Mint(subject[w]) /\ UNCHANGED revoked
        BY <2>0, <2>3 DEF ReissueUpdates, RequestIsNamed
      <3>2. PICK n \in Links : owner' = [owner EXCEPT ![n] = subject[w]] /\ UNCHANGED lapsed
        BY <3>1, <2>0, MintFacts
      <3>3. ASSUME subject[w] # u PROVE FALSE
        BY <1>1, <2>0, <2>3, <3>1, <3>2, <3>3 DEF ReissueUpdates, AllSpent, DataTypes
      <3> QED BY <1>1, <2>3, <3>1, <3>3 DEF LateReissue
    <2>4. ASSUME UNCHANGED <<revoked, owner>>,
                 \A l \in Links : (used[l] => used'[l]) /\ (lapsed[l] => lapsed'[l])
          PROVE  FALSE
      BY <1>1, <2>4
    <2>5. ASSUME NEW w \in Workers,
                 \/ Consume(w) \/ Build(w) \/ Wipe(w) \/ Send(w) \/ Crash(w)
                 \/ \E v \in Users : RegisterReads(w, v) \/ ReissueReads(w, v)
                 \/ \E l \in Links, f \in Forms : Fetch(w, l, f)
          PROVE  FALSE
      BY <2>0, <2>4, <2>5 DEF Consume, Build, Wipe, Send, Crash, RegisterReads, ReissueReads,
         Fetch, userVars, linkVars, DataTypes
    <2>6. CASE Purge \/ (\E l \in Links : LinkLapses(l)) \/ UNCHANGED vars
      BY <2>0, <2>4, <2>6 DEF Purge, LinkLapses, vars, userVars, linkVars, DataTypes
    <2> QED BY <1>1, <2>1, <2>2, <2>3, <2>5, <2>6 DEF Next, Handle
  <1>2. CredentialsInv /\ [Next]_vars
          => [\A u \in Users :
                ~LinkLeft(u) /\ LinkLeft(u)' => \E w \in Workers : LateReissue(w, u)]_vars
    BY <1>1
  <1> QED BY <1>2, InvHolds, PTL DEF Spec, RevokedKeepNoLink
=============================================================================
