------------------------------ MODULE Revocation ------------------------------
(***************************************************************************)
(* The broadcast of a revoked access token: the outbox of the auth service, *)
(* the relay goroutine of authd, the token_revoked topic, and the denylist  *)
(* of each Python service with the consumer that fills it (the posts        *)
(* service's consume_revocations, the related service's consumer.py).       *)
(*                                                                          *)
(* A row of outbox_events is its index, which also stands for the UUID sent *)
(* as event_id; a record of the topic is the index of its row.  The topic   *)
(* has one partition.  All processes read one clock.  Each service has one  *)
(* consumer process, which is its whole consumer group.                     *)
(***************************************************************************)
EXTENDS Integers, Sequences, FiniteSets

CONSTANTS
    Instances,     \* authd processes, each with its relay
    Tokens,        \* access tokens
    ExpiresAt(_),  \* the exp claim of a token
    Presented,     \* bound: the tokens clients present, with the service
    BatchSize,     \* the limit given to ClaimOutbox
    MaxTime,       \* bound: ticks of the clock
    MaxRows,       \* bound: revocations
    MaxFaults,     \* bound: faults in a behaviour
    Faults         \* the kinds of fault that may happen

Services == {"posts", "related"}
FaultKinds == {"ackLost", "writeFails", "markFails", "authdCrash",
               "consumerCrash", "postsDbError", "relatedDbError"}

ASSUME ExpiryAssumption == \A t \in Tokens : ExpiresAt(t) \in Nat
ASSUME PresentedAssumption == Presented \subseteq Services \X Tokens
ASSUME BatchSizeAssumption == BatchSize \in Nat \ {0}
ASSUME BoundsAssumption == MaxTime \in Nat /\ MaxRows \in Nat /\ MaxFaults \in Nat
ASSUME FaultsAssumption == Faults \subseteq FaultKinds

VARIABLES
    now,        \* the clock
    outbox,     \* the rows of outbox_events: the token each refuses
    published,  \* rows whose published_at is set
    log,        \* the records of token_revoked
    ids,        \* per instance, the rows its publishBatch has claimed
    unwritten,  \* per instance, those the broker has not acknowledged yet
    denied,     \* per service, its table of revoked tokens
    processed,  \* the related service's processed_events
    skipped,    \* history: rows whose handle() has returned False
    position,   \* per service, how far its consumer has read
    committed,  \* per service, the committed offset of its group
    pc,         \* per service, whether its consumer is about to poll or to commit
    checked,    \* per service, the tokens a request has passed the exp check with
    refused,    \* history: per service, the tokens whose latest request to be
                \* looked up was refused as revoked
    faults      \* number of faults so far

relayVars == <<ids, unwritten>>
tableVars == <<denied, processed, skipped>>
groupVars == <<position, committed, pc>>
requestVars == <<checked, refused>>
vars == <<now, outbox, published, log, ids, unwritten, denied, processed, skipped,
          position, committed, pc, checked, refused, faults>>

Rows == 1..Len(outbox)

TypeOK ==
    /\ now \in Nat
    /\ outbox \in Seq(Tokens)
    /\ published \in SUBSET Rows
    /\ log \in Seq(Rows)
    /\ ids \in [Instances -> SUBSET Rows]
    /\ unwritten \in [Instances -> SUBSET Rows]
    /\ \A r \in Instances : unwritten[r] \subseteq ids[r]
    /\ denied \in [Services -> SUBSET Tokens]
    /\ processed \in SUBSET Rows
    /\ skipped \in SUBSET Rows
    /\ position \in [Services -> Nat]
    /\ committed \in [Services -> Nat]
    /\ \A s \in Services : committed[s] <= position[s] /\ position[s] <= Len(log)
    /\ pc \in [Services -> {"poll", "commit"}]
    /\ checked \in [Services -> SUBSET Tokens]
    /\ refused \in [Services -> SUBSET Tokens]
    /\ faults \in Nat

Init ==
    /\ now = 0
    /\ outbox = <<>>
    /\ published = {}
    /\ log = <<>>
    /\ ids = [r \in Instances |-> {}]
    /\ unwritten = [r \in Instances |-> {}]
    /\ denied = [s \in Services |-> {}]
    /\ processed = {}
    /\ skipped = {}
    /\ position = [s \in Services |-> 0]
    /\ committed = [s \in Services |-> 0]
    /\ pc = [s \in Services |-> "poll"]
    /\ checked = [s \in Services |-> {}]
    /\ refused = [s \in Services |-> {}]
    /\ faults = 0

Fault(kind) ==
    /\ kind \in Faults
    /\ faults < MaxFaults
    /\ faults' = faults + 1

Tick ==
    /\ now < MaxTime
    /\ now' = now + 1
    /\ UNCHANGED <<outbox, published, log, relayVars, tableVars, groupVars,
                   requestVars, faults>>

-----------------------------------------------------------------------------
(* The auth service and its relay. *)

\* POST /revoke of a token that still verifies: the outbox row.
RevokeAccessToken(t) ==
    /\ now < ExpiresAt(t)
    /\ Len(outbox) < MaxRows
    /\ outbox' = Append(outbox, t)
    /\ UNCHANGED <<now, published, log, relayVars, tableVars, groupVars, requestVars,
                   faults>>

Unpublished == Rows \ published

\* ORDER BY created_at LIMIT n
Oldest(S, n) == {e \in S : Cardinality({f \in S : f < e}) < n}

\* The statement runs outside a transaction: its row locks end with it, so
\* SKIP LOCKED keeps no row from another instance's later claim.
ClaimOutbox(r) ==
    /\ ids[r] = {}
    /\ Unpublished # {}
    /\ ids' = [ids EXCEPT ![r] = Oldest(Unpublished, BatchSize)]
    /\ unwritten' = [unwritten EXCEPT ![r] = Oldest(Unpublished, BatchSize)]
    /\ UNCHANGED <<now, outbox, published, log, tableVars, groupVars, requestVars,
                   faults>>

FirstUnwritten(r, e) == e \in unwritten[r] /\ \A f \in unwritten[r] : e <= f

\* WriteMessages: the broker appends a message and acknowledges it.
WriteMessage(r) ==
    /\ \E e \in unwritten[r] :
        /\ FirstUnwritten(r, e)
        /\ log' = Append(log, e)
        /\ unwritten' = [unwritten EXCEPT ![r] = @ \ {e}]
    /\ UNCHANGED <<now, outbox, published, ids, tableVars, groupVars, requestVars,
                   faults>>

\* The message is appended, its acknowledgement is lost, the writer tries again.
AckLost(r) ==
    /\ Fault("ackLost")
    /\ \E e \in unwritten[r] : FirstUnwritten(r, e) /\ log' = Append(log, e)
    /\ UNCHANGED <<now, outbox, published, relayVars, tableVars, groupVars,
                   requestVars>>

\* publishBatch has returned; what it claimed is forgotten.
EndBatch(r) ==
    /\ ids' = [ids EXCEPT ![r] = {}]
    /\ unwritten' = [unwritten EXCEPT ![r] = {}]

\* WriteMessages gives up, having written some of the messages: no row is marked.
WriteFails(r) ==
    /\ unwritten[r] # {}
    /\ Fault("writeFails")
    /\ EndBatch(r)
    /\ UNCHANGED <<now, outbox, published, log, tableVars, groupVars, requestVars>>

\* Mutant: rows are marked when they are claimed, before they are written.
WrittenOrNot(r) == ids[r] # {}

\* WriteMessages has returned without an error.
Written(r) == ids[r] # {} /\ unwritten[r] = {}

MarkPublished(r) ==
    /\ Written(r)
    /\ published' = published \cup ids[r]
    /\ EndBatch(r)
    /\ UNCHANGED <<now, outbox, log, tableVars, groupVars, requestVars, faults>>

\* The UPDATE fails: everything was written and nothing is marked.
MarkFails(r) ==
    /\ Written(r)
    /\ Fault("markFails")
    /\ EndBatch(r)
    /\ UNCHANGED <<now, outbox, published, log, tableVars, groupVars, requestVars>>

\* authd dies, or exits on SIGTERM without waiting for the relay goroutine.
AuthdCrash(r) ==
    /\ ids[r] # {}
    /\ Fault("authdCrash")
    /\ EndBatch(r)
    /\ UNCHANGED <<now, outbox, published, log, tableVars, groupVars, requestVars>>

-----------------------------------------------------------------------------
(* The denylists. *)

\* Mutant: rows are dropped one tick before the token expires.
ExpiredSoon(D) == {t \in D : ExpiresAt(t) <= now + 1}

\* expires_at <= now
Expired(D) == {t \in D : ExpiresAt(t) <= now}

\* The record the consumer of s is given next.
HasNext(s) == pc[s] = "poll" /\ position[s] < Len(log)
NextRow(s) == log[position[s] + 1]

\* _apply: update_or_create, then main commits.
PostsApply ==
    /\ HasNext("posts")
    /\ denied' = [denied EXCEPT !["posts"] = @ \cup {outbox[NextRow("posts")]}]
    /\ position' = [position EXCEPT !["posts"] = @ + 1]
    /\ pc' = [pc EXCEPT !["posts"] = "commit"]
    /\ UNCHANGED <<now, outbox, published, log, relayVars, processed, skipped, committed,
                   requestVars, faults>>

\* Mutant: the purge runs for each message, not when the topic is quiet.
MayPurgeBehind == HasNext("posts")

\* The iterator has found nothing for consumer_timeout_ms, or SIGTERM ends it.
MayPurge == pc["posts"] = "poll"

\* purge_expired_revocations
PostsPurge ==
    /\ MayPurge
    /\ Expired(denied["posts"]) # {}
    /\ denied' = [denied EXCEPT !["posts"] = @ \ Expired(@)]
    /\ UNCHANGED <<now, outbox, published, log, relayVars, processed, skipped, groupVars,
                   requestVars, faults>>

\* apply_token_revoked: insert if absent, then drop what has expired.
ApplyTokenRevoked(D, t) == (D \cup {t}) \ Expired(D \cup {t})

\* handle() of the related service: an event already processed is passed over.
RelatedHandle ==
    /\ HasNext("related")
    /\ LET e == NextRow("related") IN
       /\ denied' = IF e \in processed THEN denied
                    ELSE [denied EXCEPT !["related"] = ApplyTokenRevoked(@, outbox[e])]
       /\ processed' = processed \cup {e}
    /\ position' = [position EXCEPT !["related"] = @ + 1]
    /\ pc' = [pc EXCEPT !["related"] = "commit"]
    /\ UNCHANGED <<now, outbox, published, log, relayVars, skipped, committed, requestVars,
                   faults>>

\* SQLAlchemyError: rollback, False, and the loop goes on to the next record.
RelatedDbError ==
    /\ HasNext("related")
    /\ Fault("relatedDbError")
    /\ skipped' = skipped \cup {NextRow("related")}
    /\ position' = [position EXCEPT !["related"] = @ + 1]
    /\ UNCHANGED <<now, outbox, published, log, relayVars, denied, processed, committed,
                   pc, requestVars>>

\* consumer.commit()
CommitOffset(s) ==
    /\ pc[s] = "commit"
    /\ committed' = [committed EXCEPT ![s] = position[s]]
    /\ pc' = [pc EXCEPT ![s] = "poll"]
    /\ UNCHANGED <<now, outbox, published, log, relayVars, tableVars, position, requestVars,
                   faults>>

\* Mutant: a group without a committed position starts at the end (latest).
ResumeAtLatest(s) == Len(log)

\* Mutant: the first record after the committed offset is left out.
ResumeAfter(s) == committed[s] + 1

\* auto_offset_reset=earliest where nothing is committed.
ResumeAt(s) == committed[s]

\* A new consumer process (restart: unless-stopped).
Restart(s) ==
    /\ position' = [position EXCEPT ![s] = ResumeAt(s)]
    /\ pc' = [pc EXCEPT ![s] = "poll"]
    /\ UNCHANGED <<now, outbox, published, log, relayVars, tableVars, committed,
                   requestVars>>

\* _apply and purge_expired_revocations let database errors out: the command ends.
PostsDbError ==
    /\ pc["posts"] = "poll"
    /\ Fault("postsDbError")
    /\ Restart("posts")

\* The process dies at any point, the one between apply and commit included.
ConsumerCrash(s) ==
    /\ Fault("consumerCrash")
    /\ Restart(s)

-----------------------------------------------------------------------------
(* The requests. *)

\* jwt.decode of authenticate and requires_auth: the token has not expired.  Any
\* number of requests may then be on their way to the table.
CheckExpiry(s, t) ==
    /\ <<s, t>> \in Presented
    /\ now < ExpiresAt(t)
    /\ checked' = [checked EXCEPT ![s] = @ \cup {t}]
    /\ UNCHANGED <<now, outbox, published, log, relayVars, tableVars, groupVars, refused,
                   faults>>

\* Such a request looks the token up in the table, at once or much later.
LookUp(s, t) ==
    /\ t \in checked[s]
    /\ refused' = [refused EXCEPT ![s] = IF t \in denied[s] THEN @ \cup {t} ELSE @ \ {t}]
    /\ UNCHANGED <<now, outbox, published, log, relayVars, tableVars, groupVars, checked,
                   faults>>

-----------------------------------------------------------------------------

RelayStep(r) == ClaimOutbox(r) \/ WriteMessage(r) \/ MarkPublished(r)

ConsumerStep == PostsApply \/ RelatedHandle \/ \E s \in Services : CommitOffset(s)

Disturb ==
    \/ \E r \in Instances : AckLost(r) \/ WriteFails(r) \/ MarkFails(r) \/ AuthdCrash(r)
    \/ \E s \in Services : ConsumerCrash(s)
    \/ PostsDbError \/ RelatedDbError

Next ==
    \/ Tick
    \/ \E t \in Tokens : RevokeAccessToken(t)
    \/ \E r \in Instances : RelayStep(r)
    \/ ConsumerStep
    \/ PostsPurge
    \/ \E s \in Services, t \in Tokens : CheckExpiry(s, t) \/ LookUp(s, t)
    \/ Disturb

Spec == Init /\ [][Next]_vars

\* The relay's ticker and the consumers' loops keep running, and an idle second
\* comes between revocations; clients, requests, faults and the clock owe nothing.
Fairness ==
    /\ \A r \in Instances : WF_vars(RelayStep(r))
    /\ WF_vars(PostsApply) /\ WF_vars(RelatedHandle)
    /\ \A s \in Services : WF_vars(CommitOffset(s))
    /\ WF_vars(PostsPurge)

FairSpec == Spec /\ Fairness

-----------------------------------------------------------------------------
(* Properties. *)

\* Service s enforces the revocation of t: no request that begins now gets past
\* both checks of authenticate or requires_auth.
Enforced(s, t) == t \in denied[s] \/ now >= ExpiresAt(t)

\* A token that a request was refused for as revoked is not accepted again before
\* it has expired, whatever is delivered late, twice or again after a restart:
\* the purge drops only rows that expiry has overtaken.  What can still come is
\* a request that checked exp in time and looks the token up after the purge.
RefusedForGood ==
    [][\A s \in Services : \A t \in refused[s] \ refused'[s] : now >= ExpiresAt(t)]_vars

\* No offset is committed past a revocation the service does not enforce, other
\* than one that handle() of the related service has skipped.
CommittedIsRefused ==
    \A s \in Services : \A i \in 1..committed[s] :
        (s = "related" /\ log[i] \in skipped) \/ Enforced(s, outbox[log[i]])

\* authd's relay keeps the promise of AtLeastOnce although it holds no lock: a
\* revocation marked published is in the topic, and only recorded ones are.
TopicOf(t) == "token_revoked"
Relayed == INSTANCE AtLeastOnce WITH
    Events <- Tokens, Partitions <- {"token_revoked"}, PartitionOf <- TopicOf,
    visible <- Rows, log <- [p \in {"token_revoked"} |-> log]
AtLeastOnceDelivery == Relayed!Spec

\* Every revocation is in the end enforced by every service, well before the
\* token expires if the clock stands still, or has failed in handle() of the
\* related service.
EventuallyRefused ==
    \A e \in 1..MaxRows, s \in Services :
        (e \in Rows) ~> \/ s = "related" /\ e \in skipped
                        \/ e \in Rows /\ Enforced(s, outbox[e])

\* The posts service drops every row of its denylist once the token has expired,
\* so the table stays bounded.
PostsTableBounded ==
    \A t \in Tokens :
        (t \in denied["posts"] /\ ExpiresAt(t) <= now) ~> (t \notin denied["posts"])

=============================================================================
