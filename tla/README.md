# KoVerify in TLA+

KoVerify is a small web service in which two people meet in a *room*, each
proves who they are, and then exchange secrets end to end encrypted and may ask
each other for a short video.  It is a Flask application run by several gunicorn
workers over one SQLite database and one directory of files, with a purge job on
a timer and a browser page that polls.

Everything that makes it hard comes from that arrangement.  A handler is a short
sequence of SQL statements; a `SELECT` is an autocommit read, and the first
`INSERT`, `UPDATE` or `DELETE` opens a write transaction that lasts to the
`commit`.  So requests of different people, the purge and kills interleave
between a read and the write it led to, between two transactions of one handler,
and between a transaction and the file it goes with.  The page has one thread,
but gives way at every `await`, and several polls may be under way.  The modules
here are about these interleavings.  Paths below are relative to the repository
(`src/`).

## 1. Inventory

### Room life (`verifier/db.py`, `verifier/blueprints/api.py`)

* State: a row of `sessions`: `expires_at`, `closed_at`, and the columns below.
* Operations: `create_session` (purges, then inserts), `_gone` and `_authorize`
  (whoever touches an expired room closes it), `close_room`, `purge_expired`
  (from the timer, from `create_session` and from `get_nonce`).
* Hard: closing and expiry race with every handler that has read the row.
* Correct when: a closed room stays closed; its code is not drawn again while its
  tombstone lasts; a room nobody comes back to is wiped.

### Seats (`verifier/blueprints/api.py`, `certs.py`, `totp.py`)

* State: `user_a/b`, `a/b_token_hash`; `users.totp_last_step`, `users.revoked`;
  the table `nonces`.
* Operations: `verify_totp`, `verify_cert`, `verify_mtls`, which end in
  `record_verification` and `claim_slot`; `get_nonce`, `consume_nonce`.
* Hard: two requests of one person, the two transactions of `claim_slot`, a code
  or nonce sent twice at once, a purge in between, a kill in between.
* Correct when: one seat per person; a seat's credential is its holder's; a
  one-time secret is good once; a seat changes hands only with the room's end.

### Room exchange (`verifier/blueprints/room.py`, without its video part)

* State: `a/b_commit`, `a/b_pub`, `a/b_seen_at`, the table `room_items`.
* Operations: `_authorize`, `publish_commitment`, `publish_key`, `add_item`,
  `delete_item`, `room_state`, `close`.
* Hard: every decision is made on the copy of the row `_authorize` read, the
  write comes a transaction later.
* Correct when: commit precedes reveal, whatever the order of requests; an
  accepted value is the stored one; nothing goes in before both keys are out; nothing that was shared
  outlives the room.

### Video verification (`verifier/blueprints/room.py`, `verifier/db.py`)

* State: `video_state/by/at`, `proof_iv`; the file `CODE.bin`; SQLite's write
  lock, held by an upload while it writes its file.
* Operations: the five actions of `POST /video`, the upload, the download,
  `close_room` and `purge_expired` with their deletions of files.
* Hard: row and file are changed one after the other, in different orders by
  different handlers, and nothing locks the file.
* Correct when: the subject records and the asker judges what was recorded; a
  verdict stands; the IV in the row opens the file; the file goes with the room.

### Room page (`templates/result.html`, `templates/static/room-crypto.js`)

* State: the seat (token, own key, pinned commitment) in memory and in local
  storage; the derived room key; the items listed; the poll timer.
* Operations: `startRoom`, `pollRoom`, `exchangeKeys`, `renderRoom`, `closeRoom`,
  `tampered`.
* Hard: polls overlap, answers arrive out of order, the page is reloaded between
  any two steps, `closeRoom` runs while a render awaits.
* Correct when: what was published can be found again; the pin precedes the key
  and never changes; alarm is raised for a cause; the page comes to show the
  room as it is, and to know that it has ended.

### Credentials (`verifier/blueprints/admin.py`, `download.py`, `db.py`)

* State: `users.serial`, `p12_b64`, `revoked`; the table `download_tokens`.
* Operations: `api_register`, `api_reissue`, `_set_revoked`, `_deliver` for the
  bundle and for the iOS profile, the purge of bundles.
* Hard: a download reads, spends its link, builds, wipes and sends in separate
  steps, with reissues and revocations in between.
* Correct when: a private key leaves once, by its own link, not after a
  revocation, and is not kept.

### Rate limit (`verifier/security.py`)

* State: the table `rate_limits`, by bucket and identifier.
* Operations: `rate_limit`, `clear_rate_limit`, the purge.
* Hard: the time stamp is taken before the write lock is waited for.
* Correct when: no window holds more than the limit; nobody is refused without
  as many attempts in the window.

### Start-up (`verifier/db.py: init_db`, `verifier/ca.py`, `verifier/__init__.py`)

* State: the tables and columns of the database; `ca.key` and `ca.crt`.
* Operations: `init_db`, `verify_ca`, and `api_init_ca` with `generate_ca` in a
  worker that serves already.
* Hard: several workers at once, kills, two files without a lock.
* Correct when: nobody serves an old schema; the workers come up.

### Not modelled

| part | why |
|---|---|
| certificates and PKCS#12 containers (`ca.py: issue_user_cert`, `build_p12`), development server certificate | pure construction by a cryptographic library |
| device certificates (`mtls.py`) | a decision over mode, shared secret, peer and headers of one request, without state; the tests go through the cases |
| deploy, rollback and backup scripts | shell over systemd, rsync and the file system: what a failed step leaves is decided outside the repository |
| configuration (`config.py`) | a check of the environment, sequential and pure |
| entry, verification, admin and download pages | forms that show one answer |
| QR codes, configuration profiles | formatting |
| application factory, admin session | wiring and a signed cookie with an age |

`PROJECT.json` lists the components with their files, and every hazard with its
line and the properties about it.

## 2. Modules

```
RoomLife            the life of one row, its clock, close and purge
 |- Seats           + MCSeats        + SeatsProofs
 |- RoomExchange    + MCRoomExchange + RoomExchangeProofs   implements KeyExchange
 `- VideoProof      + MCVideoProof   + VideoProofProofs     implements VideoExchange

KeyExchange         + KeyExchangeProofs   what RoomExchange implements and RoomPage relies on
VideoExchange                           what VideoProof implements

RoomPage            + MCRoomPage     + RoomPageProofs       over a server that is KeyExchange
Credentials         + MCCredentials  + CredentialsProofs
RateLimit           + MCRateLimit    + RateLimitProofs
Startup             + MCStartup      + StartupProofs
```

**RoomLife** holds four variables (`present`, `closed`, `expired`, `aged`) and,
for each SQL statement that concerns a room's life, the part that does.  The
three component modules extend it; each adds its own columns to those statements
(`Purge`, `CloseRoom`, `CreateSession`), so `close_room` is one operator in
`RoomLife` and three complete actions.  The clock is the two comparisons the code
makes with it: past `expires_at`, and a day past the end.

**Seats** has one action per read or transaction of a verification:
`StartVerify` (the read of the row and `_gone`), `MatchStep`, `BurnStep`,
`SelectNonce`, `DeleteNonce`, `LookupUser`, `LoadSession` (the read in
`record_verification`), `Claim` (its transaction, both `UPDATE`s) and
`IssueToken` (the second transaction of `claim_slot`).  `pc[r]` says which comes
next; `who`, `how`, `proof`, `slot` are the handler's locals.

**RoomExchange** has `Authorize` (the read), `Touch` (the `UPDATE` of `seen_at`)
and then one action per endpoint's statement.  What the handler keeps of the row
it read is `fit` (the checks it passed) and `held` (the row already held this
value, which is how a repetition is accepted).  `KeyExchange` is what the room
promises: promise once, show only after both promised, show what was promised.

**VideoProof** has one action per step of an upload (`UploadLocks`,
`UploadReplaces`, `UploadCommits`), of `close_room` (`CloseUnlinks`,
`CloseScrubs`), of the purge (`PurgeReads`, `PurgeUnlinks`, `PurgeRuns`), of a
download (`Authorize`, `FetchReads`), and one per `UPDATE` of `POST /video`.  A
worker handles one request after another.  A recording is named after its maker
and a take that nothing else speaks of any more, so `iv = file` says that the
row's IV opens the file.  `VideoExchange` is the exchange as the two people see
it: asked, recorded, judged, in this order, or lapsed.

**RoomPage** is the composition of one person's page with the promise that
`RoomExchange` is proved to keep: the server is `KX == INSTANCE KeyExchange`,
whose actions appear as the other person's steps (`PeerPromises`, `PeerShows`),
as the handling of the page's own posts (`HandlePost`) and as the end of the room.
A poll is `PollRoom`, `Serve` (the answer is taken), `Receive` (it arrives, and
the script runs to its next `await`) and one action per `await` after it:
`PostAnswered`, `Checked`, `Derived`, `ItemOpened`.  The operators between them
are the stretches of the script between two awaits: `ExchangeKeys`, `Rendered`,
`OpenRoom`, `Alarm`, `CloseRoom`.  With `CanSwap` the server may once give
another key or commitment for the other person's than before; that is what the
pin is for.

**Credentials** has one action per read or transaction: a registration is
`RegisterReads`, `RegisterInserts`; a reissue is `ReissueReads`,
`ReissueUpdates`; a revocation is one transaction; a download is `Fetch`,
`Consume`, `Build`, `Wipe`, `Send`.  The certificate, bundle and link that one
transaction stores have one name, so "the link is that of the current
certificate" is `serial[owner[l]] = l`.

**RateLimit** gives each attempt a `Stamp` and then, while the lock can still be
had, `Grant` or `Refuse`; `Fail` is a busy timeout or a kill.  It is the one
module with a clock, since its subject is the difference of two readings.

**Startup** follows a worker through `Boot`, `CreateTables`, `Begin`,
`AlterTables`, `CheckCA`, `ReadCert`; a worker that serves may run `InitCA` and
the four writes of `generate_ca` (each file is truncated, then written).

### What is abstracted

* Each module keeps the columns it is about.  In `RoomExchange` and `VideoProof`
  the room starts open with both people seated; the reuse of a room's code is
  in `Seats` alone.
* `Crash(r)` is a worker killed between two actions (timeout, restart,
  deployment): what was committed stays, an open transaction is rolled back, a
  file stays as it is.
* `RoomAges` waits until no request is in flight: gunicorn kills a worker after
  60 seconds, the tombstone lasts a day.
* A purge uses one reading of the clock, so a room that is live at its first step
  is passed over by the others.  A handler's own reading of the clock, taken just
  before it waits for the write lock, is taken to be that of the write (except in
  `RateLimit`).
* A commitment is named after the key it is the hash of; a code is the time step
  it is good for; a token is the request it was given to.
* Rate limits and the validation of bodies are left out of the other modules:
  both only refuse.  A malformed request to a room is a poll, since `_authorize`
  has run by then.
* `VideoProof` has one purge at a time; two behave as one that is restarted,
  since a purge only deletes files and writes what it finds under the lock.  The
  partial file of an upload is not kept apart, since nothing reads it.
* `RoomPage`: notices, the video panel, sending, other tabs and seats older than
  commitments are left out; `startRoom` is one step, so a poll that the return to
  the tab starts while the first key is generated is not there (section 5).
  `room_state` reads row and items at one moment.  The close button is inside
  `room-live`, so closing needs a room key.  The derivation of the key and of the
  safety code are two awaits in the code and one (`Derived`) here: nothing that
  the properties speak of happens between them.
* `RoomPage`: storage works.  `saveSeat` swallows a `localStorage.setItem` that
  fails (a full or disabled storage) and goes on, so that the key and the pin are
  in memory only.  `PublishedKeyIsSaved` and `RevealAfterPin`, and the theorems
  `PublishedIsSaved` and `RevealsAfterPin`, are about browsers where it does not
  fail.
* `Startup`: gunicorn halts when a worker fails to boot and systemd starts the
  service again; here the worker starts again, and the others may be killed.
  The migration is one step under its lock: SQLite rolls back all of it or none.

## 3. Runs

| run | bounds | shows |
|---|---|---|
| `SeatsSafety` | 2 users, 3 requests, 2 steps, 1 nonce | by TOTP code and by signed nonce, with kills, purge and reuse of the code: one seat each; the credential of a seat is its holder's; a code and a nonce are good once; seats are settled; closing is final |
| `RoomPromises` | 2 workers, 2 keys | commit before reveal (`ImplementsExchange`), accepted means stored, an ended room is emptied for good |
| `VideoPromises` | 2 workers, 2 takes | the two people's view (`ImplementsExchange`); the recording is the subject's; row and file agree unless an upload was killed between them; a verdict is the asker's, on a recording that waits for it, and stands; the recording of an ended room goes for good |
| `RoomPage` | 1 own key, 2 polls, 1 item, 1 reload, 1 swap | what was published is in storage; the pin precedes the key and stays; the room opens with the pinned key only; no false alarm; an alarmed page displays the room only by a derivation it was awaiting; polling goes on; an ended room is learned of; the page comes to list what the room holds |
| `Credentials` | 1 user, 2 workers, 3 links | a key leaves once, by its own link; the good link is the current one; a revocation stops downloads that have read before, and only a reissue under way leaves a revoked user a link; keys are wiped for good |
| `RateLimit` | 5 attempts, limit 2, window 3, lock wait 1, purge at 5, 7 ticks | the limit holds; refusals have cause |
| `Startup` | 3 workers, 3 columns, 2 authorities, 3 kills | nobody serves an old schema; the workers come up |
| `SeatsTombstone`, `VideoRecordedFile`, `VideoFetch`, `CredentialsLink`, `RoomPageClosed` | | expected violations, section 5 |

**Bounds.**  Two users and three requests: two requests can race for a seat or
a secret while a third closes, takes the other seat or touches the expired room.
Two TOTP steps and one nonce are enough for a replay, a double send and a code
older than the last one spent.  The third method, a device certificate, is a
certificate verification without the nonce: `SeatsTombstone` uses it, the
theorems cover it with the others.

Workers of `RoomExchange`, `VideoProof` and `Credentials` start over when they
have answered, so two of them make runs of any number of requests, two at a time,
with the purge as the third actor.  Two keys are what it takes to publish
something other than what was committed.  In `VideoProof` two takes per person
are one in the row and one in the file or on its way; a take is free again when
nothing speaks of it, so the number of recordings is not bounded.  With three (row,
file after a kill, and on its way) `VideoPromises` was run too: 571,128 states, the
same result; the theorems hold for any number.  In
`Credentials` three links are a registration and two reissues, so that a late
download can meet two newer bundles; users share nothing but the table.

In `RoomPage` two polls are what it takes to overtake, and one item shows what
a late list does (with two items and two keys the safety properties were run too:
2.9 million states).  In `RateLimit` five attempts are two over the limit plus
one, over two windows and a bit.  In `Startup` three columns tell "none", "some"
and "all but one" apart, and three kills can take every worker, as a halt of
gunicorn does.

Requests, users, nonces, workers, keys and attempts are interchangeable;
symmetry is used in runs of safety properties only.

**Deadlock** is checked in every run but three: all attempts of `RateLimit` may
be over, a page of `RoomPage` that is closed does nothing, and the workers of
`Startup` all serve in the end.

**Fairness.**  Safety assumes none.  Liveness assumes:

* `RoomExchange`, `VideoProof`: a handler that has started goes on until it ends
  or is killed (gunicorn does one or the other within 60 seconds), and the purge
  keeps running (`deploy/verifier-purge.timer`, every five minutes).  In
  `VideoProof`, where a purge has several steps and may be killed at each, its
  later steps are strongly fair: some purge is not killed.
* `Credentials`: the purge keeps running, and nothing else.  A download need not
  get to its wipe.
* `RoomPage`: timers fire and the script runs on after an await; each request is
  answered or lost, and of requests that are made again and again some get
  through (strong fairness of `Serve`, `Receive` and of the handling of each kind
  of post).  For `PageCatchesUp` the other person's page does its part.
* `Startup`: a worker runs and is started again (`Restart=on-failure`).

No arrival of a request, no passing of time, no closing and no kill is ever
assumed to happen.

## 4. Proofs

Eight modules prove, for every value of the constants, the safety and action
properties the runs check on small ones, how far each expected violation goes
(section 5), and liveness as far as the prover reaches.  They use the modules'
named assumptions (a null is not a member of the set it is the null of; bounds are
numbers, a lock is given up sooner than a window passes and a window sooner than
the purge's day; columns are numbered from 1; an authority is neither "no file"
nor an empty one) and nothing else, except where a theorem states a hypothesis of
its own: three theorems are about the three workers of `deploy/verifier.service`,
one about a server that cannot change what it says (`~CanSwap`), and those about
liveness are described below.

**Seats.**  The properties are not inductive.  `SeatsInv` adds what is:

1. `TypeCorrect`: the types.
2. The discipline of requests: a request at work knows whom it verifies and how,
   and none is past its first read of a row that is gone or a day old.  This is
   what keeps a request from writing to the *next* room with the same code.
3. `ProvedIsSpent`: past the step that spends it, a request's code is not newer
   than `totp_last_step` and its nonce is not in the table.  Together with "the
   step that spends it found it unspent" this gives `CodeOnce` and `NonceOnce`.
4. `ClaimsAreExclusive` and `TokensWereGranted`: between the two transactions of
   `claim_slot` the seat is the request's own and has no credential.  These give
   `CredentialsMatch`, `LockedSeatsExplained` and, with 2, `SeatsSettled`.

`OneSeatEach` follows from the precondition of the `UPDATE` alone: the check that
`record_verification` makes on the row it read contributes nothing to it.
`ClosedStaysClosed` follows from the statements of the row's life.
`TwoCredentialsTwoPeople` puts the pieces together into what a room promises: the
two credentials of an open room are with two different people, each by a granted
request of their own, with a nonce or code nobody else got through with.

**KeyExchange** promises more than its actions say at once: what was shown was
promised (`ShowsWhatWasPromised`), once a key is out nothing is promised any more
(`NobodyChoosesLate`), and a key that is out stays (`KeysAreForGood`).  These are
proved of it, and carried over to the handlers through `Implements`.  That is also
what connects `RoomPage` with the code of the server: its environment is written
with the actions of `KeyExchange`, so nothing is proved of it there; that the real
handlers make no steps but these is `Implements`.

**RoomExchange.**  The key fact is `RowGrows`: while a room is open, a step only
fills columns of its row.  So what a handler concluded from an older copy is still
true when it writes (`ReadIsStillTrue`, theorem `ReadsStayTrue`): both
commitments are there, the key is the committed one, both keys are out.  From it
follow `KeysAreCommitted`, `ItemsFollowKeys`, `AcceptedIsStored` and
`Implements`: each step of the handlers is a step of `KeyExchange` or a stutter.
So its theorems hold of the handlers: `room.py` says of a server that wants to
fool somebody that it "has to choose that fake key before it has seen" a real one,
and that is `NobodyChoosesLate` of the columns `a/b_commit`, for any interleaving.

**VideoProof.**  Here the row does change under a handler, and every `UPDATE`
carries its own precondition.  What spans steps is the upload: `LockedRowWaits`
says that while it holds the lock the row is as its `UPDATE` found it, because
every other writer needs the lock (`RowSteps`, `OthersMove`).  With
`JudgedBySubject`, and `FileIsKnown` for the moment between the replacement of
the file and the commit, this is inductive (`Agreement`), and gives
`SubjectRecords`, `FileIsTheRows`, `VerdictsStand` and `Implements`.  The exchange
that `Implements` speaks of does not say who judges; that it is the asker, and on
the recording that is there, is in `VerdictsStand`.

**Credentials.**  `LiveLinkIsCurrent` and `BundleIsCurrent` hold of the tables
after every transaction.  A download that was under way relies on them through
`DownloadsRely`: for as long as its link is unused, what it fetched is the bundle
of that link or none and its user is not revoked, since reissue and revocation
both spend all links; once it has spent the link it is the only one that has
(`OneSpender`).  Hence `KeysLeaveOnce`, `LinksYieldTheirOwn`, `LiveLinks` and
`RevocationsStop`.

**RateLimit.**  `RecentHasRow`: an attempt let through keeps its row for as long
as a request that could still count it may come, although requests do not come in
the order of their stamps; this is where the wait for the lock enters, and why the
limit holds for the window less that wait and not for the window itself.

**RoomPage.**  `PageInv` is the conjunction of the properties and of what carries
them from step to step.  `SeatIsSaved`: at every await what is in memory is in
storage.  `PostsAreSaved`: a commitment or key on its way is that of the saved
seat, a key only with a pin.  `PollsKnowThePin`: a poll that is past the pin was
given the very commitment that is pinned, and one that derives was given the key
of it, however old its answer is.  `HonestUntilSwapped`: until the server changes
what it says, every answer and the pin are of one key.  Each step of a poll is one
of seven kinds (`Rests`, `Commits`, `Pins`, `Derives`, `Opens`, `Accuses`,
`Closes`), which say what the other polls and the storage see of it; each kind
keeps the invariant.  Nothing is assumed about which polls overlap.
`OpensForPeer` says what it is all for: until the server changes what it says, the
room opens with the other person's own key and no other.  With a server that
cannot, alarm is never raised (`HonestServerNoAlarm`).

**Startup.**  Columns only come, a worker is past the creation of the tables only
when they are there (`TablesFirst`), and past the migration by no other way than
its commit.

For the authority, `FilesFit` says what is in the two files at each step of the
one generation there is, if nobody was killed; so the files disagree only with a
cause (`BrokenCAHasCause`), and a second authority is begun only while the first is
being written (`SecondAuthorityOverlaps`).

**Liveness.**  The temporal backend knows `WF` and `SF` by their definitions, so
a proof from fairness is possible once it is said what `ENABLED` is of the fair
actions.  The provers do not expand `ENABLED`, so that is a hypothesis of these
theorems, and only that: a named condition on the state implies `ENABLED` of the
action (`PurgeHasWork`, `PurgeIsFree`, `AddsCanGo`, `UploadCanGo`, `StartsCanGo`).
TLC finds each to hold in every reachable state of the modules' instances, with
one proviso: `UploadCanGo` also says that a take is left to record, so `VideoProof`
was given four takes for it.  What is then proved:

* `KeysAreWiped`: a spent or lapsed bundle is wiped for good.  Links and
  certificates are never given out twice, so once wiped it does not come back.
* `PurgeFindsTheItems`, `PurgeFindsTheFile`: once an ended room has no request
  that may add to it (`Over`), the purge takes what is left, for good, although the
  purge of `VideoProof` has three steps and may be killed at each.
* `AddsComeToAnEnd`, `UploadsReleaseTheLock`: each worker that is under way when the
  room ends gets to its end.  That *all* have ended at one moment is a count of
  them, which is induction; so `EndedRoomsAreEmptied` and
  `EndedRoomsLoseTheirFile` have it as a hypothesis (`AddsEnd`, `UploadsEnd`) for
  any number of workers.
* `ThreeWorkersEmptyIt`, `ThreeWorkersLoseIt`, `ThreeWorkersComeUp`: for the
  `--workers 3` of `deploy/verifier.service` no count is needed: the three names
  stand for themselves, and the temporal backend does the bookkeeping.  These have
  no hypothesis about requests or uploads; the last has that killing ends
  (`KillsEnd`), which `MaxKills` brings about in the model.

**Only model-checked**: `ClosingIsLearned` and `PageCatchesUp` (how many polls
overlap is not bounded by the code, and the argument counts them),
`AllComeUp` for other than three workers, `EndedRoomIsEmptied` and
`EndedRoomLosesItsFile` for other than three workers without the hypotheses
`AddsEnd` and `UploadsEnd`, and what `ENABLED` is of the fair actions.

## 5. What the expected violations say

| run | the code | what is said of it |
|---|---|---|
| `SeatsTombstone` | a verification that read the row before it was closed writes a user, a method and a token to the tombstone | `README.md`: only a bare tombstone remains |
| `VideoRecordedFile` | "request" deletes the proof file before its `UPDATE` is tried, so a refused request destroys a recording that awaits judgement; "cancel" deletes after its commit, when the next recording may be there | `room.py`: every transition carries its own precondition; one file, deleted with its request |
| `VideoFetch` | a download sends the file of now with the IV of the row as read | `room.py`, `test_room.py`: data and IV are of one upload |
| `CredentialsLink` | a download wipes whatever bundle the user has by then, also one reissued since, whose link is good | `db.py`: the bundle is needed until the link is spent or lapses; `download.py`: a failed transfer is recovered by reissuing |
| `RoomPageClosed` | a render that awaits while `closeRoom` clears the page goes on to fill it | `result.html`: nothing about a room may stay on the page |

How far each goes is proved:

* `SettledTombstoneStaysBare`: once the requests that read the row open are
  through, a tombstone that is bare stays bare until it is deleted.
* `FetchesFailWhenOvertaken`: a download pairs bytes and IV wrongly only when the
  row has been written since it was read, when an upload is between its
  `os.replace` and its commit, or when one was killed there.
* `GoodLinksLoseTheirBundleToLateWipes`: a good link loses its bundle only to the
  wipe of a download that had spent an earlier link of that user.
* `LateOpeningsShow`, `CleanPageStaysBlank`: a closed page shows something again
  only by the render or opening that awaited while it was closed; a page closed
  with none of these under way is blank for good.
* `VideoRecordedFile` loses a recording by "request" and "cancel" in the very steps
  that say so; `PurgeIsLate` says that the purge is not another way: it is at work
  on a room that has ended and stays so.

The passing runs also bound the damage: a file left by an upload that overlaps
`close_room` is deleted by the purge (`EndedRoomLosesItsFile`), and so is an item
inserted into a closed room (`EndedRoomIsEmptied`); a private key is wiped though
its download was killed (`KeyIsWiped`).

Other things that came up while reading and are not runs; most are in the list
of hazards at their lines:

* two requests that count at the same moment exceed 50 items by one;
* `CODE.bin.part` of a killed upload is not among the names the purge looks at;
* a worker killed between the two transactions of `claim_slot` leaves a seat that
  nobody can use or take, and one killed between an upload's `os.replace` and its
  commit a file that the row's IV does not open: `LockedSeatIsExplained` (proved,
  not run) and `FileMatchesRow` except these two and say that nothing else does it;
* two generations of the authority at once may leave the key of one and the
  certificate of the other, and then every start refuses (`AllComeUp` excepts it,
  `BrokenCAHasCause` says when);
* a reissue asks whether the user is revoked when it reads them, and a revocation
  before it writes leaves the revoked user an unused link, against `admin.py:237`
  ("a revoked user must not keep a live download link"); it is good again once the
  user is restored.  `RevokedKeepNoLink` excepts this and `RevokedKeepNoLinks`
  proves that nothing else does it;
* a render that awaits the derivation of the key when another poll raises the alarm
  goes on to display the room and takes the warning away (`result.html:467-468`),
  where `README.md:102-104` says the page refuses to continue.  `AlarmedPageRefuses`
  excepts this and `AlarmedPagesRefuse` proves that nothing else does it; what is
  displayed is still sealed for the pinned key (`OpenWithPinnedKey`);
* `Retry-After` may be a second short;
* two renders of one item leave a box that no deletion removes;
* a page that has raised alarm keeps its key in storage for up to a day;
* a poll started while `startRoom` generates its key would commit to the hash of
  nothing.

## 6. What is left

* The video panel of the page over `VideoExchange`; a second tab; `startRoom` in
  its two steps.
* The trust decision of `mtls.py` as operators against a table of its modes.
