---------------------------- MODULE Credentials ----------------------------
(***************************************************************************)
(* A person's certificate and private key on their way out of the server:  *)
(* verifier/blueprints/admin.py (register, reissue, revoke, restore),      *)
(* verifier/blueprints/download.py (the one-time link) and the part of     *)
(* purge_expired in verifier/db.py that wipes bundles, over the tables     *)
(* users and download_tokens.  A request refused on what it reads changes  *)
(* nothing and is left out.                                                *)
(*                                                                         *)
(* Every row of download_tokens is written in the transaction that stores  *)
(* the certificate and the bundle it was made for; so the link, the bundle *)
(* and the serial number of one such transaction bear one name, a member   *)
(* of Links.  A handler reads once and relies on what it has read; each of *)
(* its later steps is a transaction of its own.                            *)
(***************************************************************************)
CONSTANTS
    Users,
    Workers,    \* the processes that handle requests
    Links,      \* one for each registration or reissue
    NoUser,     \* a link that was not made yet
    NoLink      \* a NULL p12_b64, no certificate, no request

ASSUME NoUserAssumption == NoUser \notin Users
ASSUME NoLinkAssumption == NoLink \notin Links

VARIABLES
    serial,     \* users.serial, NoLink for a user who has no row
    p12,        \* users.p12_b64
    revoked,    \* users.revoked
    owner,      \* download_tokens.user_id, NoUser where there is no row
    used,       \* download_tokens.used
    lapsed,     \* utcnow() is past download_tokens.expires_at
    pc, subject, link,
    form,       \* what a download asks for: the bundle or the iOS profile
    seen,       \* the bundle in the row a download has fetched
    handed      \* (history) how often each bundle has left the server

userVars == <<serial, p12, revoked>>
linkVars == <<owner, used, lapsed>>
reqVars  == <<pc, subject, link, form, seen>>
vars == <<userVars, linkVars, reqVars, handed>>

Forms == {"p12", "profile"}
Spending == {"build", "wipe", "send"}
InFlight == {"insert", "update", "consume"} \cup Spending

AnyId(u) == TRUE                                        \* mutant
Known(u)  == serial[u] # NoLink

TypeOK ==
    /\ serial \in [Users -> Links \cup {NoLink}]
    /\ p12 \in [Users -> Links \cup {NoLink}]
    /\ revoked \in [Users -> BOOLEAN]
    /\ owner \in [Links -> Users \cup {NoUser}]
    /\ used \in [Links -> BOOLEAN]
    /\ lapsed \in [Links -> BOOLEAN]
    /\ pc \in [Workers -> {"idle"} \cup InFlight]
    /\ subject \in [Workers -> Users \cup {NoUser}]
    /\ link \in [Workers -> Links \cup {NoLink}]
    /\ form \in [Workers -> Forms]
    /\ seen \in [Workers -> Links \cup {NoLink}]
    /\ handed \in SUBSET (Links \X {"once", "again"})
    /\ \A w \in Workers :
          /\ pc[w] # "idle" => subject[w] \in Users
          /\ pc[w] \in {"consume"} \cup Spending =>
                link[w] \in Links /\ owner[link[w]] = subject[w]
    /\ \A u \in Users :
          serial[u] = NoLink =>
             p12[u] = NoLink /\ ~revoked[u] /\ \A l \in Links : owner[l] # u
    /\ \A l \in Links : owner[l] = NoUser => ~used[l] /\ ~lapsed[l]

Init ==
    /\ serial = [u \in Users |-> NoLink]
    /\ p12 = [u \in Users |-> NoLink]
    /\ revoked = [u \in Users |-> FALSE]
    /\ owner = [l \in Links |-> NoUser]
    /\ used = [l \in Links |-> FALSE]
    /\ lapsed = [l \in Links |-> FALSE]
    /\ pc = [w \in Workers |-> "idle"]
    /\ subject = [w \in Workers |-> NoUser]
    /\ link = [w \in Workers |-> NoLink]
    /\ form = [w \in Workers |-> "p12"]
    /\ seen = [w \in Workers |-> NoLink]
    /\ handed = {}

-----------------------------------------------------------------------------
Goto(w, where) ==
    /\ pc' = [pc EXCEPT ![w] = where]
    /\ UNCHANGED <<subject, link, form, seen>>

(* The answer is out; the worker forgets the request.                      *)
Reply(w) ==
    /\ pc' = [pc EXCEPT ![w] = "idle"]
    /\ subject' = [subject EXCEPT ![w] = NoUser]
    /\ link' = [link EXCEPT ![w] = NoLink]
    /\ form' = [form EXCEPT ![w] = "p12"]
    /\ seen' = [seen EXCEPT ![w] = NoLink]

(* An administrator's request about user u that has passed its read.       *)
Begin(w, u, where) ==
    /\ pc' = [pc EXCEPT ![w] = where]
    /\ subject' = [subject EXCEPT ![w] = u]
    /\ UNCHANGED <<link, form, seen>>

LinksOf(u) == {l \in Links : owner[l] = u}
Unborn == {l \in Links : owner[l] = NoUser}
NewLink == CHOOSE l \in Unborn : TRUE

(* UPDATE download_tokens SET used=1 WHERE user_id=?                       *)
NoneSpent(u) == used                                    \* mutant
AllSpent(u)  == [l \in Links |-> used[l] \/ owner[l] = u]

(* _new_download_link, with the certificate and bundle stored beside it.   *)
Mint(u) ==
    /\ Unborn # {}
    /\ serial' = [serial EXCEPT ![u] = NewLink]
    /\ p12' = [p12 EXCEPT ![u] = NewLink]
    /\ owner' = [owner EXCEPT ![NewLink] = u]
    /\ UNCHANGED lapsed

-----------------------------------------------------------------------------
(* POST /admin/api/register: the user is looked for, then inserted; the    *)
(* primary key refuses a second row.                                       *)
RegisterReads(w, u) ==
    /\ pc[w] = "idle"
    /\ ~Known(u)
    /\ Begin(w, u, "insert")
    /\ UNCHANGED <<userVars, linkVars, handed>>

InsertOrReplace(u) == TRUE                              \* mutant
KeyIsFree(u) == ~Known(u)

RegisterInserts(w) ==
    LET u == subject[w] IN
    /\ pc[w] = "insert"
    /\ \/ KeyIsFree(u) /\ Mint(u)
       \/ ~KeyIsFree(u) /\ UNCHANGED <<serial, p12, owner, lapsed>>
    /\ Reply(w)
    /\ UNCHANGED <<revoked, used, handed>>

(* POST /admin/api/reissue                                                 *)
ReissueReads(w, u) ==
    /\ pc[w] = "idle"
    /\ Known(u) /\ ~revoked[u]
    /\ Begin(w, u, "update")
    /\ UNCHANGED <<userVars, linkVars, handed>>

ReissueUpdates(w) ==
    LET u == subject[w] IN
    /\ pc[w] = "update"
    /\ Mint(u)
    /\ used' = AllSpent(u)
    /\ Reply(w)
    /\ UNCHANGED <<revoked, handed>>

(* POST /admin/api/revoke and restore: one transaction.                    *)
RevokeOnly(u, flag) == used                             \* mutant
SpentByRevoking(u, flag) == IF flag THEN AllSpent(u) ELSE used

SetRevoked(u, flag) ==
    /\ Known(u)
    /\ revoked' = [revoked EXCEPT ![u] = flag]
    /\ used' = SpentByRevoking(u, flag)
    /\ UNCHANGED <<serial, p12, owner, lapsed, reqVars, handed>>

-----------------------------------------------------------------------------
(* GET /download/<token>/p12 and /mobileconfig                             *)

(* _fetch: the token's row joined with its user's, and the checks of it.   *)
Fetch(w, l, f) ==
    /\ pc[w] = "idle"
    /\ owner[l] # NoUser
    /\ ~revoked[owner[l]] /\ ~used[l] /\ ~lapsed[l]
    /\ pc' = [pc EXCEPT ![w] = "consume"]
    /\ subject' = [subject EXCEPT ![w] = owner[l]]
    /\ link' = [link EXCEPT ![w] = l]
    /\ form' = [form EXCEPT ![w] = f]
    /\ seen' = [seen EXCEPT ![w] = p12[owner[l]]]
    /\ UNCHANGED <<userVars, linkVars, handed>>

AnyToken(w) == TRUE                                     \* mutant
StillUnused(w) == ~used[link[w]]

(* _consume: used=1 WHERE token=? AND used=0.                              *)
Consume(w) ==
    /\ pc[w] = "consume"
    /\ used' = [used EXCEPT ![link[w]] = TRUE]
    /\ IF StillUnused(w) THEN Goto(w, "build") ELSE Reply(w)
    /\ UNCHANGED <<userVars, owner, lapsed, handed>>

(* builder(row): decoding a bundle that is not there fails, a profile is   *)
(* made of it all the same.                                                *)
Build(w) ==
    /\ pc[w] = "build"
    /\ IF form[w] = "p12" /\ seen[w] = NoLink THEN Reply(w) ELSE Goto(w, "wipe")
    /\ UNCHANGED <<userVars, linkVars, handed>>

(* UPDATE users SET p12_b64=NULL: whatever bundle is there by now.         *)
Wipe(w) ==
    /\ pc[w] = "wipe"
    /\ p12' = [p12 EXCEPT ![subject[w]] = NoLink]
    /\ Goto(w, "send")
    /\ UNCHANGED <<serial, revoked, linkVars, handed>>

Send(w) ==
    /\ pc[w] = "send"
    /\ handed' =
          IF seen[w] = NoLink THEN handed
          ELSE handed \cup {<<seen[w], IF <<seen[w], "once">> \in handed THEN "again" ELSE "once">>}
    /\ Reply(w)
    /\ UNCHANGED <<userVars, linkVars>>

-----------------------------------------------------------------------------
(* purge_expired: a bundle goes when its user has no link to fetch it by.  *)
HasUnusedLink(u) == \E l \in LinksOf(u) : ~used[l]      \* mutant
HasGoodLink(u) == \E l \in LinksOf(u) : ~used[l] /\ ~lapsed[l]

Purge ==
    /\ p12' = [u \in Users |-> IF HasGoodLink(u) THEN p12[u] ELSE NoLink]
    /\ UNCHANGED <<serial, revoked, linkVars, reqVars, handed>>

LinkLapses(l) ==
    /\ owner[l] # NoUser /\ ~lapsed[l]
    /\ lapsed' = [lapsed EXCEPT ![l] = TRUE]
    /\ UNCHANGED <<userVars, owner, used, reqVars, handed>>

Crash(w) ==
    /\ pc[w] # "idle"
    /\ Reply(w)
    /\ UNCHANGED <<userVars, linkVars, handed>>

Handle(w) ==
    \/ RegisterInserts(w)
    \/ ReissueUpdates(w)
    \/ Consume(w)
    \/ Build(w)
    \/ Wipe(w)
    \/ Send(w)

Next ==
    \/ \E w \in Workers, u \in Users : RegisterReads(w, u) \/ ReissueReads(w, u)
    \/ \E w \in Workers, l \in Links, f \in Forms : Fetch(w, l, f)
    \/ \E w \in Workers : Handle(w) \/ Crash(w)
    \/ \E u \in Users, flag \in BOOLEAN : SetRevoked(u, flag)
    \/ \E l \in Links : LinkLapses(l)
    \/ Purge

Spec == Init /\ [][Next]_vars

(* The purge timer keeps firing; nobody need finish a request.             *)
FairSpec == Spec /\ WF_vars(Purge)

-----------------------------------------------------------------------------
(* Properties.                                                             *)

(* A private key leaves the server at most once, as a bundle or as a       *)
(* profile: both "spend the same one-time link", however many downloads    *)
(* of it race and whatever is reissued meanwhile.                          *)
KeyLeavesOnce == \A l \in Links : <<l, "again">> \notin handed

(* A link never hands out a bundle other than the one it was made for: a   *)
(* person holding an old link does not get the key of a new certificate.   *)
LinkYieldsItsOwnBundle ==
    \A w \in Workers : pc[w] \in Spending => seen[w] \in {link[w], NoLink}

(* A link that can still be spent is the one of its user's current         *)
(* certificate, so at most one is good at a time and what it delivers logs *)
(* in ("the old certificate stops working at once").                       *)
LiveLinkIsCurrent ==
    \A l \in Links : owner[l] # NoUser /\ ~used[l] => serial[owner[l]] = l

(* A download that has read its row before its user was revoked does not   *)
(* win the link any more, not even when a reissue or a restoration came in *)
(* between.                                                                *)
RevocationStopsDownloads ==
    \A w \in Workers : pc[w] = "consume" /\ ~used[link[w]] => ~revoked[subject[w]]

(* "The private-key bundle is only needed until the one-time link is spent *)
(* or lapses": after that it is gone for good, even when the download that *)
(* should have wiped it was killed.                                        *)
KeyIsWiped ==
    \A u \in Users, l \in Links :
        (p12[u] = l /\ (used[l] \/ lapsed[l])) ~> [](p12[u] # l)

(* "A revoked user must not keep a live download link", nor get one: one   *)
(* thing alone gives them a link that waits to be spent, a reissue that    *)
(* had found them not revoked before they were.                            *)
LinkLeft(u) == revoked[u] /\ HasGoodLink(u)
LateReissue(w, u) == ReissueUpdates(w) /\ subject[w] = u
RevokedKeepNoLink ==
    [][\A u \in Users :
          ~LinkLeft(u) /\ LinkLeft(u)' => \E w \in Workers : LateReissue(w, u)]_vars

(* The comment about bundles from the other side: the bundle is there      *)
(* until the link is spent or lapses.                                      *)
LiveLinkHasItsBundle ==
    \A l \in Links :
        owner[l] # NoUser /\ ~used[l] /\ ~lapsed[l] => p12[owner[l]] = l

-----------------------------------------------------------------------------
(* What makes these invariants inductive.                                  *)

(* The bundle of a user is the one of the current certificate, if any.     *)
BundleIsCurrent == \A u \in Users : p12[u] \in {serial[u], NoLink}

(* A download can rely on what it fetched for as long as its link is       *)
(* unused, and after it has spent it.                                      *)
DownloadsRely ==
    \A w \in Workers :
        /\ pc[w] = "consume" /\ ~used[link[w]] =>
              ~revoked[subject[w]] /\ seen[w] \in {link[w], NoLink}
        /\ pc[w] \in Spending => used[link[w]] /\ seen[w] \in {link[w], NoLink}

(* One download at most has spent a link and not answered yet, and none    *)
(* once the bundle is out.                                                 *)
OneSpender ==
    /\ \A v, w \in Workers :
          pc[v] \in Spending /\ pc[w] \in Spending /\ link[v] = link[w] => v = w
    /\ \A l \in Links :
          <<l, "once">> \in handed =>
             used[l] /\ \A w \in Workers : pc[w] \in Spending => link[w] # l
=============================================================================
