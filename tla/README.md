# Verification of the posts / relay / related / auth system

TLA+ models of the services in this repository, the TLC configurations that
check them on small instances, and TLAPS proofs of their main invariants for all
instances. `PROJECT.json` lists the runs, the source lines every definition
stands for, the mutants that show each property can fail, the hazards of the
code and the findings.

Contents: [the system](#the-system), [the modules](#the-modules),
[the runs](#the-runs), [the findings](#the-findings),
[fairness](#fairness), [the proofs](#the-proofs),
[what is only model-checked](#only-model-checked),
[what is not modelled](#not-modelled), [plan](#plan).

## The system

| Component | State | Operations | Talks to |
|---|---|---|---|
| Posts API (`services/posts`, gunicorn with 3 workers) | `posts_post`, `posts_outboxevent` | create, update, destroy (list, retrieve read only) | its database only; every write records an outbox row in the same transaction |
| Outbox relay (`services/relay`) | none of its own; row locks, producer buffer | claim a batch, publish, mark published; SIGTERM | reads and marks `posts_outboxevent`, writes Kafka topics `post_created`, `post_updated`, `post_deleted` |
| Related consumer (`services/related/consumer.py`) | `post`, `processed_events`, `revoked_tokens`; Kafka offsets | `handle` per record, offset commit | reads the three post topics and `token_revoked` |
| Related API (`services/related/app.py`) | none | read only | reads `post` |
| Auth (`services/auth`) | `users`, `refresh_tokens`, `outbox_events` | register, login, refresh, revoke; JWKS | its database |
| authd's start (`cmd/authd/main.go`, `Store.Migrate`) | the signing key in memory; the schema and `schema_migrations` | read or generate the key, connect with retries, migrate, serve | its database |
| Token verification (`jwtauth.py` of posts and related) | per worker process, the cached key set and keys | verify a token, fetch the key document | authd's `/.well-known/jwks.json` |
| authd's relay (`cmd/authd/relay.go`) | none | claim, write, mark, once a second | reads and marks `outbox_events`, writes `token_revoked` |
| Revocation consumer of posts (`consume_revocations`) | `posts_revokedtoken`; Kafka offsets | apply, purge | reads `token_revoked` |

Nothing spans two systems in one transaction: the outbox makes database and
Kafka agree in the end, at the price of duplicates, and `processed_events` takes
the duplicates out again. The hard behaviours are therefore

* interleavings: three API workers whose reads happen before their transactions,
  several relays on one table, several group members on one database, concurrent
  refreshes and revocations;
* crashes between two steps that belong together: publish and mark, apply and
  commit the offset, redeem and store a refresh token;
* delivery: records lost on the way, duplicated, sent late by a producer whose
  pass has failed, read in any relative order across topics;
* time: expiry of tokens against the purge of the denylists, and against keys
  cached from before authd changed its own;
* starting: authd processes that migrate one database against each other, with
  the database coming and going.

What makes each part correct:

* Posts API: the table and the outbox never disagree.
* Relay: a row marked published is in Kafka; every committed row gets there; the
  rows of one topic and key arrive in order, unless two deletes of one slug
  overlapped; more than one relay does not duplicate.
* Consumer: no record is passed over in silence; an event takes effect once.
* Handlers: any two posts carry each other's score of their current titles, and
  refer to existing posts only.
* All together: the related service ends up with the posts of the posts service.
* Auth: rotation leaves one live token per session; a revocation ends sessions.
* Broadcast: each service enforces each revocation, until the token expires, and
  does not accept a token again that it has refused before that.
* Start: a schema file is applied wholly or not at all, by one instance, and every
  instance ends up serving.
* Verification: caching makes authd dispensable, and neither refuses tokens of a
  new key nor accepts those of an old one for long.

## The modules

| Module | Models | Composes |
|---|---|---|
| `AtLeastOnce` | what an outbox relay promises (abstract specification) | |
| `OutboxRelay` | `relay.py` with its Kafka producer, any number of relays | shown to implement `AtLeastOnce` |
| `PostsApi` | `views.py` over `models.py`, any number of workers | |
| `RelatedTable` | the handlers of `consumer.py` as functions from table to table | |
| `EventReplay` | the handlers applied to the outbox in order: the contract of the two services | `PostsApi`, `RelatedTable` |
| `RelatedConsumer` | `handle`, `main` and the consumer group | `RelatedTable` |
| `Pipeline` | end to end | `PostsApi`, `RelatedConsumer`, the order and delivery of `OutboxRelay` |
| `AuthSessions` | `api.go`, `store.go`, `tokens.go`: accounts, sessions, tokens, time | |
| `Revocation` | authd's relay, `token_revoked`, both consumers and denylists, time | shown to implement `AtLeastOnce` |
| `AuthdStartup` | `run` of `main.go` and `Store.Migrate`, any number of authd instances, crashes and outages | |
| `TokenVerification` | signing and JWKS of `tokens.go`, the verifiers of both `jwtauth.py` and their caches, time | `AuthdStartup` |

`MC*.tla` give the constants of a module their values for TLC, `*_proofs.tla`
hold its theorems. Definitions marked *Mutant* are the plausible bugs the
properties are tried against; no specification uses them.

### How state and actions correspond to the code

**`OutboxRelay`.** A row is its index in `outbox`, which is its `created_at`
order and stands for its UUID; a Kafka record is the index of its row. `open`
and `visible` separate a row's insertion from its commit, since `created_at` is
taken inside the API's transaction. Writes to one post wait for each other, so no
two rows of one topic and key are open at a time, except `Deletes`, the rows of
`posts_post_deleted`: a destroy that finds its post gone locks nothing
(`views.py:64-67`), and one whose post was renamed after it was read records the old
slug. `overlapped` is the history of such pairs. One pass of `run_once` is `ClaimBatch`, a
`Send` per row, broker steps, `MarkPublished`: `batch[r]` is the set of rows the
open transaction has locked, `acked` and `failed` the resolved futures. The
producer's buffer `queue` outlives a failed pass: its records are then *orphaned*
and still sent. `PassFails` is the `except` of `main`, `ConnectionLost` a dropped
`psycopg` connection, which `main` never reopens: the server rolls back at once, and
`publish_batch`, which does not use the connection, goes on sending the rest of its
batch (`late`, `SendLate`) until `mark_published` raises. `Stop` and `Exit` are SIGTERM
and the orderly exit after the batch and `producer.flush()`.

**`PostsApi`.** Each handler is split where another request may run: lookup,
validation, transaction. A transaction that writes a post is one step: it holds
the row lock, or the index entry of the slug, from its first statement to its
commit, so conflicting transactions also take `created_at` in commit order. The
exception is a destroy that finds its post gone: it locks nothing, and records
its event in a step of its own. `UpdateSave` inserts the row when it has been
deleted since the lookup, which is what Django's `Model.save()` does. Requests
answered 400 or 404 change nothing and are not steps.

**`RelatedTable`.** `title` stands for title, image and body. `Clean` and `Strip`
are parameters; the code's only guarantee the properties need is that titles
equal up to `strip()` are equal up to `clean()`, the `StripAssumption`. A score
is the unordered pair of cleaned titles, so a stale score is visible as such.

**`RelatedConsumer`.** `main`'s loop is `Poll`, `Read`, `Write`,
`CommitOffsets`. `handle` is two steps because Postgres runs it under READ
COMMITTED: what it read (`snap`) may be stale when its flush runs. `Flush` writes
the changed columns only, as SQLAlchemy does; `FlushFails` is a primary key, the
unique slug or a row that is gone. `Rebalance` leaves out members in the middle
of a record; they find out at their offset commit (`CommitFails`, after which the
container restarts). `refused` records the events for which `handle` returned
False.

**`Pipeline`** replaces the relay by what `OutboxRelay` provides when one relay
runs and the producer gives no record up: the creates and the updates of one key
are first published in row order (`MustFollow`; `OrderKept` proves it of
`OutboxRelay`), any row may be published again. The deletes of a slug come in any
order, which allows more than the relay does.

**`AuthSessions`.** A refresh token is the index of its row, an access token its
index in `access`. A session, a login with the refreshes that follow it, is
history: the code does not record it, the properties are about it. `refresh` is
redemption (`ConsumeRefreshToken`), signing (`IssueAccess`) and insertion
(`StoreRefreshToken`), between which other requests run. One clock serves the Go
process and the database.

**`Revocation`.** One relay goroutine per authd instance. `ClaimOutbox` holds no
lock after it returns, because it runs outside a transaction. Per service the
consumer is `HasNext`/apply, then `CommitOffset`; the posts consumer purges when
its topic is quiet, the related one while applying a revocation. A request is two
steps, as in `authenticate` and `requires_auth`: `CheckExpiry` is `jwt.decode`, which
checks `exp`, `LookUp` the query of the denylist, at any time after it. `checked`
holds the tokens some request has passed the first check with; any number of them
may be under way, so an answer takes nothing out of it. `refused` is history. (No
route of the related service is guarded by `requires_auth` at this commit: there the
property is about its denylist.)

**`AuthdStartup`.** `stage[i]` is how far `run` of instance `i` has come: `Start` is
`loadOrCreateKey`, `Connect` the successful end of `connectWithRetry`,
`CreateLedger`, `CheckFile`, `ApplyFile` and `RecordFile` the statements of
`Migrate`, `Serve` everything after it. `CheckFile` is a step of its own because
its SELECT runs outside the transaction of the file; `ApplyFile` begins that
transaction and `RecordFile` commits it, so only the latter changes what others
see. A second `CREATE TABLE` of a name waits for the first one's transaction
(`Blocked`) and fails once it has committed (`ApplyFails`): the process ends, is
started again and finds the file recorded. `CREATE TABLE IF NOT EXISTS` too may
fail for the one that loses a race, in Postgres' catalogue; the model lets any
subset of the racers lose. `GiveUp` is the deadline of `connectWithRetry` or an
error of `Migrate`, which does not retry. An ended process has lost its key.
Generated keys are numbered; one that was never served was seen by nobody, and its
number is used again. A key file that cannot be read or parsed ends the process
before its first step, and is not a step.

**`TokenVerification`.** `key[i]` of `AuthdStartup` signs tokens (`IssueAccess`) and
is published (`PublicJWKS`). A worker's request (`Authenticate`) asks its
`PyJWKClient` for the key of the token's kid: first the keys it remembers
(`cache_keys=True`), then the cached set while it is not older than `Lifespan` (300
seconds), then a fetch, which brings the document of a serving instance or fails,
and a failed fetch empties the cached set. Which of too many keys the client
forgets is left open. The history variables `known` and `retired` are read by the
properties only. The public exponent goes through `bigEndian` and back through
`Decoded`, as it does on the wire.

## The runs

Every bound is a named constant: rows (`MaxEvents`, `MaxRows`), requests
(`MaxRequests`), copies (`MaxCopies`, `MaxRecords`), faults (`MaxFaults`), signals
(`MaxStops`, `MaxCrashes`, `MaxOutages`), clock (`MaxTime`, `MaxClock`), signing
keys (`MaxKeys`), logins and tokens (`MaxSessions`, `MaxTokens`,
`MaxRevokes`). Deadlock checking is off throughout: with these bounds every
system comes to rest, as the real one does when clients stop.

| Run | Instance | Checks |
|---|---|---|
| `MCOutboxRelay` | 2 relays, 3 rows of 2 keys on 2 partitions, batch 2, 1 fault of any kind, 1 SIGTERM | `TypeOK`, `PublishedIsInLog`, `DuplicatesNeedFaults`, refinement of `AtLeastOnce`, `EventuallyPublished` |
| `MCRelayOrder` | 1 relay, 4 rows of 2 keys (one of them deletes) on 1 partition, 2 faults (all but a record given up) | `RowOrderKept` |
| `MCReplay` | 3 workers, 5 requests, 2 slugs, 3 titles, renames | `TypeOK`, `OutboxExplainsTable`, `ReplayAgrees`, `ReplayRelatesBothWays`, `ReplayNoDangling` |
| `MCConsumer` | 2 members, 3 events of one post, 2 records per topic, 2 faults of any kind | `TypeOK`, `CommittedIsHandled`, `AppliedOnce` |
| `MCPipeline` | 2 workers, 1 consumer, 3 creates, updates or destroys, up to 2 copies, 1 crash or rebalance | `ConvergesWhenQuiet`, `RelatesBothWays`, `ReferencesExist`, `EventuallyConverges` |
| `MCAuthSessions` | 2 users, 2 handlers, 2 logins, 3 refresh tokens, 2 revocations, 3 ticks with lifetimes 2 and 3 | `TypeOK`, `OneLiveToken`, `RevokeEndsSessions`, `AccessBounded` |
| `MCRevocation` | 1 authd, 2 tokens expiring at 1 and 2, 2 revocations, requests to posts with the first token, 2 faults of any kind | `TypeOK`, `CommittedIsRefused`, `RefusedForGood`, refinement of `AtLeastOnce`, `EventuallyRefused`, `PostsTableBounded` |
| `MCTokenVerification` | 2 authd instances, 2 schema files, 3 keys, 1 crash, 1 outage, 1 worker that remembers 2 keys, 3 tokens, 2 ticks with lifetimes 2 (token) and 1 (key set), with and without a key file | `TypeOK`, `SchemaWhole`, `CurrentTokenAccepted`, `VerifiesWithoutAuthd`, `OldKeyBounded`, `EventuallyServing` |
| `MCRelayConnectionLost`, `MCConsumerSkips`, `MCConsumerTwo`, `MCPipelineDestroy` | see [the findings](#the-findings) | one property each, violated |

Why the bounds are enough. Two of a kind is where interference starts: two
relays, members, handlers or instances, two rows of one key and one of another,
two posts that refer to each other. One more request or row than that lets a slug
be reused (create, destroy, create) and a key have an update before and after.
Two faults allow a fault while another is being recovered from; with two relays
one fault of a relay is met by the other one at work. Several authd instances
are left to the proofs: their duplicates and reorderings look to the consumers
like those of a failed write, which the run has. Three keys are one more than a
worker remembers in the run, so that one is evicted, and two instances without a
key file use two of them at once; one worker is enough because workers share
nothing. Requests touch nothing but the history, so one service and one token
show what they do to each other, to the purge and to the clock. A token of lifetime 2 outlives a key set of lifetime 1. Tokens that
expire at different ticks make the purge for one meet the other. Each property
has a mutant that its run rejects, which shows that the bounds reach the case.
The safety properties with a proof do not depend on the bounds at all.

Where the code is known to fail, instances or properties say so (see the
findings and the limits): `MCPipeline` has one consumer and does not rename slugs,
`ConvergesWhenQuiet` and `EventuallyConverges` say nothing once a delete has been
recorded (`Deleting`), `MCRelayOrder` has one relay and gives
no record up, `RowOrderKept` excepts overlapping deletes (`overlapped`),
`RefusedForGood` requests that checked `exp` in time and look the token up after
its expiry, and the properties of `EventReplay` name their condition
(`DeletesAreCurrent`, `Renamed`, `OldSlugs`).

## The findings

Four runs, expected to end in a violation, check what a comment, the README or a
test says and find the code does otherwise. `PROJECT.json` quotes the lines.

| Run | What the code does |
|---|---|
| `MCPipelineDestroy` | create, update and delete are different topics, so a delete can overtake its create and the post stays in the related service |
| `MCConsumerSkips` | a record whose `handle` failed is passed over by the next record's offset commit; it is neither redelivered nor blocks its partition |
| `MCConsumerTwo` | two group members do not see each other's uncommitted posts, which then miss each other's score |
| `MCRelayConnectionLost` | a relay that is alone retries for ever on a closed database connection |

Further limits of the code are written into the models and into the conditions
of passing properties:

* `destroy` reads before its transaction. One that was overtaken records a delete
  of a post it did not delete, or under a slug the post no longer has, and the
  related service then deletes, by slug, another post or none
  (`DeletesAreCurrent`).
* A rename leaves the old slug in the other posts' `related` for good
  (`OldSlugs`), and an update that changes the slug and not the title puts the new
  one in none of them (`Renamed`).
* Two destroys of one slug may hold open outbox rows at a time (`overlapped`); the
  later one may commit, and be published, first. Without that exception
  `RowOrderKept` fails with one relay and no fault.
* A record the producer gives up is published behind later ones of its key, and
  two relays publish one key's rows in either order (the bounds of
  `MCRelayOrder`).
* A revocation between the redemption of a refresh token and the insertion of its
  successor does not end that session (`EndedBy`); and `/revoke` accepts a token
  that was revoked before, since `Verify` asks no denylist.
* `authenticate` checks `exp` first and looks up the denylist afterwards. A purge
  between the two, at the expiry of the token, lets through a request with a token
  that was refused before. The comment at posts `jwtauth.py:109-110` calls an entry
  useful only until the token stops verifying; for requests under way it is useful
  a little longer.
* `ClaimOutbox` runs outside a transaction, so its `FOR UPDATE SKIP LOCKED` keeps
  no row from a second authd instance between claim and mark: the row is
  published by both.
* The related service purges its denylist only while applying another revocation
  and skips a revocation on a database error (`skipped`).
* `main.go:95-96` says that with a generated key a restart makes every previously
  issued token stop verifying. A worker that has the old key in its cache goes on
  accepting them until they expire; `OldKeyBounded` is what does hold.
* A failed fetch of the key document is an exception of PyJWT's own family, so
  both services answer it like a bad token; the branches for "cannot verify token
  right now" (posts `jwtauth.py:85`, related `jwtauth.py:58`) are not reached by it.
* Of two instances that migrate an empty database the slower one fails on a table
  that exists and needs its restart to go on.

## Fairness

* `OutboxRelay`: weak fairness of each step of a running relay and of the
  producer's sender. `main` loops until SIGTERM and survives exceptions,
  `restart: unless-stopped` brings a dead process back; a broker that is down for
  a while is a finite number of faults.
* `Pipeline`: the relay publishes every row at least once (`EventuallyPublished`
  of `OutboxRelay`), and weak fairness of each consumer's next step, for the same
  reasons.
* `Revocation`: the ticker of authd's relay, the loops of both consumers, and the
  purge of the posts consumer, which runs whenever its topic has been quiet for a
  second (`consumer_timeout_ms`).
* `AuthdStartup` (stated in `TokenVerification`): weak fairness of each instance's
  next step of `run`, which includes being started again by
  `restart: unless-stopped`, and of the database's return. `EventuallyServing` needs
  no more: crashes and outages are finite, and a lost race is not lost twice.

Clients, their requests, faults, signals and the clock are never assumed to act.

## The proofs

All theorems hold for every value of the constants under the named assumptions
of the modules: bounds are natural numbers, `BatchSize` is at least 1, fault kinds
are known ones, partitions are partitions, lifetimes are positive, kids of
different keys differ (`DigestAssumption`: 64 bits of SHA-256 without collision),
and the public exponent is below 2^24 (`ExponentAssumption`; generated keys have
65537). `StripAssumption` says that titles equal up to `strip()` are equal up to
`clean()`. In `Pipeline` a record's partition is chosen by its topic and key
(`KeyAssumption`), as Kafka's partitioner does, and the ids the database gives out
to the admitted requests are among those the consumer is modelled with
(`RequestsAssumption`).

| Module | Theorem | Inductive invariant |
|---|---|---|
| `OutboxRelay_proofs` | `TypeCorrect`, `NoEventLost` (`PublishedIsInLog`), `RelayDelivers` (refinement) | `TypeOK`, and `QueuedIsVisible`: what a producer holds is a committed row; `AckedIsInLog`: an acknowledged row is in its partition |
| | `DuplicatesBounded` (`DuplicatesNeedFaults`) | `DInv`: the records of a row in the log, those on their way in any producer's buffer, the late sends to come and the one some pass may still send are together at most `1 + faults` (`Accounted`); `HeldOnce`: a row is locked by one relay; `LiveIsUnanswered`, `LiveOnce`: a live future is of a row sent once and not answered |
| | for one relay whose producer gives nothing up (`OneRelay`) `OrderKept` (`RowOrderKept`) | `OInv`: `QueueInOrder`, a buffered row is behind its predecessors or they are in the log; `SentIsUnderWay`, so is what a pass has sent; `LateClosed`, what a broken pass has still to send; `BatchClosed`, a batch skips no older row of a key; `EndedInOrder`, no row commits behind a later one of its key; each of them but for deletes that `overlapped` |
| `EventReplay_proofs` | of `PostsApi`: `TypeCorrect`, `OutboxAccounts` (`OutboxExplainsTable`) | `TypeOK`, and `TaskOK`: what a request in flight refers to was given out by the sequence |
| | `ReplayGivesTheSamePosts` (`ReplayAgrees`) | `AgreeInv`: slugs in `posts_post` are unique; what the events amount to is a table; as long as every delete took effect when it was recorded (`DeletesTookEffect`) its ids, slugs and titles are those of `posts_post`, but for the posts that a destroy found gone and that came back before its event, so that their last event is a delete (`SamePosts`, `Forgotten`) |
| | `ReplayKeepsScoresMutual` (`ReplayRelatesBothWays`), `ReplayLosesNoReference` (`ReplayNoDangling`) | `RelateInv`: the properties, and every row has the slug of an event of its own (`SlugRecorded`), so that an event with another slug makes the post a renamed one; slugs are unique |
| | `EventsKeepSlugs`: without renames by clients, all events of a post have one slug (`NeverRenamed`) | `EventsInv`: ids are given out before they are recorded, a create is the first event of its id, and what a request in flight has read is a slug of that post's events |
| `RelatedTable_proofs` | `HandleReferences`, `HandleDangles`: what an event does to the scores that others hold of a post, and to references to slugs that are gone; and lemmas about what `apply_created`, `apply_updated` and `apply_deleted` return, keep and change | (a fact about functions) |
| `RelatedConsumer_proofs` | `NoSilentSkip` (`CommittedIsHandled`), `EffectOnce` (`AppliedOnce`) | `GroupTypeOK`, and `BusyHasMessage`, `PassedIsSettled`: every record before a position is applied, refused, or in the hands of the partition's owner; `CommittingIsSettled`: who is about to commit has settled its record |
| | `TypeCorrect`; for one consumer (`Alone`) `ScoresMutual` (`RelatesBothWays`), `NoLostReferences` (`ReferencesExist`) | `RInv`: `TInv`, the properties, and `SlugRecorded`: a row has the slug of an event of its post; `SnapCurrent`: what the consumer has read is still what the table holds |
| `Pipeline_proofs` | for one consumer (`Alone`) `PipelineScoresMutual` (`RelatesBothWays`), `PipelineNoLostReferences` (`ReferencesExist`) | `PInv`: the invariants of the posts service (`ApiInv`) and of the consumer, and `LogInv`: a record is in the partition of its key, behind the older rows of its topic and key |
| | for one consumer, if no client renames and no database error makes `handle` give up a record (`Lossless`), `QuietMeansConverged` (`ConvergesWhenQuiet`) | `Replaying`, as long as no delete is recorded: nothing is refused; what is processed or in hand has its older rows of the same topic and key processed (`ProcessedClosed`, `WorkingClosed`); a row of the related service has the title of the last update processed, or of the create (`TableExplained`) |
| `AuthSessions_proofs` | `TypeCorrect`, `Rotation` (`OneLiveToken`), `RevocationEnds` (`RevokeEndsSessions`), `AccessEnds` (`AccessBounded`) | the properties, and `SameUser`: a row's user is its session's; `ShortLived`: no token in the making outlives `now + AccessTTL` |
| `Revocation_proofs` | `TypeCorrect`, `RefusalIsFinal` (`RefusedForGood`), `NoRevocationMissed` (`CommittedIsRefused`), `RelayDelivers` (refinement) | `TypeOK`, and `ReadIsEnforced`: every record before a position is enforced or skipped; `ProcessedIsEnforced`: so is every processed event; `RefusedIsEnforced`: so is a token that a request was refused for, which `RefusalIsFinal` needs; `WrittenIsInLog`: a claimed row no longer unwritten is in the topic |
| `TokenVerification_proofs` | of `AuthdStartup`: `MigrationsWhole` (`SchemaWhole`) | types, and `PassedIsApplied`: the loop of an instance has passed a file only once it is in force; `LoopBounds`: where the loop is at each stage |
| | `TypeCorrect`, `SchemaStaysWhole`, `CurrentAccepted`, `AuthdNotNeeded`, `OldKeysEnd`; `ExponentPublished`, a fact about `bigEndian` | `TypeOK`, and `CachesGenuine`: what is cached was published by authd; `TokensEnd`: a token ends within a lifetime of the end of its key; `CachesComplete`: a found key is forgotten only when there are too many |

Why strengthening is needed. `PublishedIsInLog` says nothing of the futures that
`MarkPublished` turns into marks, `CommittedIsHandled` nothing of the records
between the committed offset and the position, which the next commit covers, and
`OneLiveToken` nothing of a handler that has redeemed a token and not yet stored
the next. `CurrentTokenAccepted` compares a token with the key an instance has now,
not with what a cache may hold under the same kid, and `OldKeyBounded` must bound
tokens before their key is old. `ReplayAgrees` compares two tables, and a destroy
changes one of them in a transaction whose event is recorded at its end or, when
it found nothing to delete, in a step of its own: the invariant has to hold in
between, and so speaks of the posts that are on their way out. `ConvergesWhenQuiet`
says nothing at all until everything has travelled. The added conjuncts speak of
exactly those. Each proof has the shape
`Init => IInv`, `IInv /\ [Next]_vars => IInv'` with one step per action, and
`IInv =>` the property. A refinement is proved by showing that each action is a
step of the abstract specification or leaves its variables alone.

What the handlers make of an outbox is a recursive function on its length,
`Replay`. That a new event is one more application of `Apply` (`ReplayStep`) needs
the recursion to be well defined and to agree on a common prefix of two outboxes;
both are proved by taking the least length at which they would fail. From there
the invariants go on from step to step of the system and no induction over the
events is left.

`QuietMeansConverged` puts three arguments together. The outbox explains
`posts_post` (`OutboxAccounts`), and without deletes every post has the title of
its last event. The logs have the rows of a topic and key in order, no offset
passes an unprocessed record, and so the events of a post are processed in order
within each topic; a create that comes after an update finds the post there and
changes nothing. Hence the row of the related service, too, has the title of the
last event once all are processed. That the consumer's transaction never fails
(`NeverFails`), which would lose an event, rests on the unique slugs of
`posts_post`.

## Only model-checked

* Liveness under fairness (`EventuallyPublished`, `EventuallyConverges`,
  `EventuallyRefused`, `PostsTableBounded`, `EventuallyServing`): out of the
  prover's reach.

Every invariant and action property a passing run checks is also a theorem.
`RelatesBothWays` and `ReferencesExist` are proved for one consumer only, and no
more is true: with two, a session writes what it computed from a table that has
changed since, and `MCConsumerTwo` shows the scores disagree. `ConvergesWhenQuiet`
is proved without renames and given-up records: a rename puts a slug another post
still has in the related service into an event that may arrive first, and a record
`handle` has given up is lost. Among the passing runs only `MCReplay` renames, with
the events in order; that renames keep `RelatesBothWays` and `ReferencesExist` in
any order of the topics is shown by the theorems.

## Not modelled

* The read-only routes, formatting, logging, validation of field lengths, emails
  and passwords.
* argon2id, SHA-256, RSA signatures: a token verifies if and only if this service
  signed it and it has not expired.
* The numeric value of the cosine similarity.
* Malformed Kafka payloads: every record was produced by this code.
* Kafka's replication and group protocol, Postgres and the client libraries,
  beyond what the code uses of them (external in the map of `PROJECT.json`).
* What two statements of one handler of the related consumer see of another member's
  commits in between: the reads of a handler are one snapshot. With one consumer there
  is no other writer, and what `CommittedIsHandled` and `AppliedOnce` say of several
  turns on `processed_events` and offsets; `MCConsumerTwo` is violated as it is.
* The status codes and messages of refused requests, `/healthz`, and the issuer and
  audience of tokens, which are the same settings everywhere.
* `settings.py`, the admin, the URL configuration, Alembic's `env.py` and the
  generated migrations of the Python services: configuration without logic of
  the program's own. Their migrations are run by jobs of their own before the
  services start.

## Plan

Done, in this order: `AtLeastOnce`, `OutboxRelay`; `PostsApi`, `RelatedTable`,
`EventReplay`; `RelatedConsumer`; `Pipeline`; `AuthSessions`; `Revocation`;
`AuthdStartup` and `TokenVerification`; the proofs listed above.

Next, in order of importance:

1. A revoked token end to end (`AuthSessions` with `Revocation`): what a request
   that was authenticated before the denial may still do.
