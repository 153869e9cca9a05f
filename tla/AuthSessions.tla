----------------------------- MODULE AuthSessions -----------------------------
(***************************************************************************)
(* The auth service, services/auth: concurrent handlers of POST /register,  *)
(* /login, /refresh and /revoke over the users, refresh_tokens and          *)
(* outbox_events tables.                                                    *)
(*                                                                          *)
(* Every statement on a single row is one step.  Between redeeming a        *)
(* refresh token and storing its successor a handler holds nothing, so      *)
(* other handlers run in between.  RevokeAccessToken is one step, taken at  *)
(* its UPDATE of refresh_tokens: until its commit a redemption of a row the *)
(* UPDATE has locked waits and then finds the row revoked, and a row stored *)
(* meanwhile is not revoked by it.                                          *)
(*                                                                          *)
(* A refresh token is its row's index and an access token its index in      *)
(* access.  A login and the tokens refreshed from it form a session, which  *)
(* the code does not record: session numbers are history.                   *)
(***************************************************************************)
EXTENDS Integers, Sequences

CONSTANTS
    Users,        \* accounts: an address up to lower()
    Handlers,     \* goroutines serving requests
    AccessTTL,    \* ACCESS_TTL_SECONDS, in ticks
    RefreshTTL,   \* REFRESH_TTL_SECONDS, in ticks
    MaxTime,      \* bound: ticks of the clock
    MaxSessions,  \* bound: logins
    MaxTokens,    \* bound: refresh tokens stored
    MaxRevokes    \* bound: revocations queued

ASSUME TTLAssumption == AccessTTL \in Nat \ {0} /\ RefreshTTL \in Nat \ {0}
ASSUME BoundsAssumption ==
    /\ MaxTime \in Nat /\ MaxSessions \in Nat /\ MaxTokens \in Nat /\ MaxRevokes \in Nat

VARIABLES
    users,     \* the users table
    refresh,   \* the refresh_tokens table, in the order of insertion
    access,    \* the access tokens handed to clients
    outbox,    \* the outbox_events table: the access tokens to refuse
    task,      \* per handler, the token pair it is issuing
    now,       \* the clock
    sessions   \* history: per login, its user and when a revocation ended it

vars == <<users, refresh, access, outbox, task, now, sessions>>

Open == -1    \* the session has not been ended by a revocation
Session == [user : Users, ended : Int]

RefreshRow == [user : Users, expires : Nat, revoked : BOOLEAN, session : Nat]
AccessToken == [user : Users, expires : Nat, session : Nat]

\* A handler is idle, is about to sign the access token of a session, or has
\* signed it and is about to store the refresh token.
Idle == [pc |-> "idle", session |-> 0, expires |-> 0]
Task == [pc : {"idle", "sign", "store"}, session : Nat, expires : Nat]

Busy(h) == task[h].pc # "idle"
Serves(h, s) == Busy(h) /\ task[h].session = s

TypeOK ==
    /\ users \in SUBSET Users
    /\ refresh \in Seq(RefreshRow)
    /\ access \in Seq(AccessToken)
    /\ outbox \in Seq(1..Len(access))
    /\ task \in [Handlers -> Task]
    /\ now \in Nat
    /\ sessions \in Seq(Session)
    /\ \A i \in DOMAIN sessions : sessions[i].user \in users
    /\ \A h \in Handlers : Busy(h) => task[h].session \in DOMAIN sessions
    /\ \A i \in DOMAIN refresh : refresh[i].session \in DOMAIN sessions
    /\ \A a \in DOMAIN access : access[a].session \in DOMAIN sessions

Init ==
    /\ users = {}
    /\ refresh = <<>>
    /\ access = <<>>
    /\ outbox = <<>>
    /\ task = [h \in Handlers |-> Idle]
    /\ now = 0
    /\ sessions = <<>>

-----------------------------------------------------------------------------
(* /register and /login *)

\* CreateUser: the unique index on lower(email) refuses a second account (409).
CreateUser(u) ==
    /\ u \notin users
    /\ users' = users \cup {u}
    /\ UNCHANGED <<refresh, access, outbox, task, now, sessions>>

\* Mutant: an address UserByEmail does not find is let in.
CanLogInUnknown(u) == u \in Users

\* UserByEmail finds the account and VerifyPassword accepts; any other login is
\* answered 401 and changes nothing.
CanLogIn(u) == u \in users

Login(h, u) ==
    /\ CanLogIn(u)
    /\ ~Busy(h)
    /\ Len(sessions) < MaxSessions
    /\ sessions' = Append(sessions, [user |-> u, ended |-> Open])
    /\ task' = [task EXCEPT ![h] = [pc |-> "sign", session |-> Len(sessions) + 1,
                                    expires |-> 0]]
    /\ UNCHANGED <<users, refresh, access, outbox, now>>

-----------------------------------------------------------------------------
(* /refresh *)

\* Mutant: the UPDATE has no revoked_at IS NULL.
RedeemableTwice(i) == refresh[i].expires > now

\* WHERE token_hash = $1 AND revoked_at IS NULL AND expires_at > now()
Redeemable(i) == ~refresh[i].revoked /\ refresh[i].expires > now

\* Redeeming revokes: one UPDATE.  UserByID then finds the user, as rows of
\* users are never deleted.
ConsumeRefreshToken(h, i) ==
    /\ ~Busy(h)
    /\ Redeemable(i)
    /\ refresh' = [refresh EXCEPT ![i].revoked = TRUE]
    /\ task' = [task EXCEPT ![h] = [pc |-> "sign", session |-> refresh[i].session,
                                    expires |-> 0]]
    /\ UNCHANGED <<users, access, outbox, now, sessions>>

-----------------------------------------------------------------------------
(* issueTokens *)

\* Mutant: the access token gets the lifetime of the refresh token.
IssueAccessForLong(h) ==
    /\ task[h].pc = "sign"
    /\ task' = [task EXCEPT ![h] = [pc |-> "store", session |-> @.session,
                                    expires |-> now + RefreshTTL]]
    /\ UNCHANGED <<users, refresh, access, outbox, now, sessions>>

\* The access token is signed, for AccessTTL from now.
IssueAccess(h) ==
    /\ task[h].pc = "sign"
    /\ task' = [task EXCEPT ![h] = [pc |-> "store", session |-> @.session,
                                    expires |-> now + AccessTTL]]
    /\ UNCHANGED <<users, refresh, access, outbox, now, sessions>>

\* StoreRefreshToken inserts the row, and the response carries both tokens.
StoreRefreshToken(h) ==
    /\ task[h].pc = "store"
    /\ Len(refresh) < MaxTokens
    /\ LET s == task[h].session
           u == sessions[s].user IN
       /\ refresh' = Append(refresh, [user |-> u, expires |-> now + RefreshTTL,
                                      revoked |-> FALSE, session |-> s])
       /\ access' = Append(access, [user |-> u, expires |-> task[h].expires, session |-> s])
    /\ task' = [task EXCEPT ![h] = Idle]
    /\ UNCHANGED <<users, outbox, now, sessions>>

\* A statement fails (500) or the process dies: no token reaches the client,
\* and a refresh token redeemed before stays redeemed.
Fails(h) ==
    /\ Busy(h)
    /\ task' = [task EXCEPT ![h] = Idle]
    /\ UNCHANGED <<users, refresh, access, outbox, now, sessions>>

-----------------------------------------------------------------------------
(* /revoke *)

\* Issuer.Verify: signed by this service and exp not reached.
Verify(a) == now < access[a].expires

\* Mutant: only the newest refresh token of the user is revoked.
RevokedWithNewest(u) ==
    {i \in DOMAIN refresh : /\ refresh[i].user = u
                            /\ \A j \in DOMAIN refresh : refresh[j].user = u => j <= i}

\* WHERE user_id = $1 AND revoked_at IS NULL
RevokedWith(u) == {i \in DOMAIN refresh : refresh[i].user = u /\ ~refresh[i].revoked}

\* History: the sessions of u a revocation ends.  One that a handler is in the
\* middle of issuing tokens for is not ended: its next token is stored later.
EndedBy(u) == {s \in DOMAIN sessions : /\ sessions[s].user = u
                                       /\ sessions[s].ended = Open
                                       /\ \A h \in Handlers : ~Serves(h, s)}

\* One transaction: the user's refresh tokens and the announcement.
RevokeAccessToken(a) ==
    /\ Verify(a)
    /\ Len(outbox) < MaxRevokes
    /\ LET u == access[a].user IN
       /\ refresh' = [i \in DOMAIN refresh |->
                        IF i \in RevokedWith(u) THEN [refresh[i] EXCEPT !.revoked = TRUE]
                                                ELSE refresh[i]]
       /\ sessions' = [s \in DOMAIN sessions |->
                        IF s \in EndedBy(u) THEN [sessions[s] EXCEPT !.ended = now]
                                            ELSE sessions[s]]
    /\ outbox' = Append(outbox, a)
    /\ UNCHANGED <<users, access, task, now>>

Tick ==
    /\ now < MaxTime
    /\ now' = now + 1
    /\ UNCHANGED <<users, refresh, access, outbox, task, sessions>>

Next ==
    \/ \E u \in Users : CreateUser(u)
    \/ \E h \in Handlers :
        \/ \E u \in Users : Login(h, u)
        \/ \E i \in DOMAIN refresh : ConsumeRefreshToken(h, i)
        \/ IssueAccess(h)
        \/ StoreRefreshToken(h)
        \/ Fails(h)
    \/ \E a \in DOMAIN access : RevokeAccessToken(a)
    \/ Tick

Spec == Init /\ [][Next]_vars

-----------------------------------------------------------------------------
(* Properties. *)

\* Rotation: a session has one token that can still be redeemed, or one handler
\* issuing the next, and never two of them, whoever presents its tokens how
\* often and at the same time: a replay does not mint a second live session.
OneLiveToken ==
    /\ \A i, j \in DOMAIN refresh :
           (~refresh[i].revoked /\ ~refresh[j].revoked
              /\ refresh[i].session = refresh[j].session) => i = j
    /\ \A g, h \in Handlers :
           (Busy(g) /\ Busy(h) /\ task[g].session = task[h].session) => g = h
    /\ \A h \in Handlers : \A i \in DOMAIN refresh :
           ~refresh[i].revoked => ~Serves(h, refresh[i].session)

\* A revocation ends every session of the user that no handler is renewing at
\* that moment: none of its tokens can be redeemed again and no handler will
\* issue it another one.
RevokeEndsSessions ==
    \A s \in DOMAIN sessions : sessions[s].ended # Open =>
        /\ \A i \in DOMAIN refresh : refresh[i].session = s => refresh[i].revoked
        /\ \A h \in Handlers : ~Serves(h, s)

\* The access tokens of a session a revocation has ended, the ones it did not
\* name included, stop verifying one access lifetime later.
AccessBounded ==
    \A a \in DOMAIN access : LET s == sessions[access[a].session] IN
        s.ended # Open => access[a].expires <= s.ended + AccessTTL

=============================================================================
