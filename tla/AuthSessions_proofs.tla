------------------------- MODULE AuthSessions_proofs -------------------------
(***************************************************************************)
(* Proofs about AuthSessions: for any number of users, handlers, logins    *)
(* and revocations a session has at most one live token, a revocation ends *)
(* the sessions no handler is renewing, and their access tokens expire one *)
(* lifetime later.  The strengthening adds that a token belongs to the     *)
(* user of its session and that no access token, handed out or about to    *)
(* be, lives longer than AccessTTL from now.                               *)
(***************************************************************************)
EXTENDS AuthSessions, TLAPS

SameUser == \A i \in DOMAIN refresh : refresh[i].user = sessions[refresh[i].session].user

ShortLived ==
    /\ \A a \in DOMAIN access : access[a].expires <= now + AccessTTL
    /\ \A h \in Handlers : task[h].expires <= now + AccessTTL

IInv == TypeOK /\ SameUser /\ ShortLived /\ OneLiveToken /\ RevokeEndsSessions /\ AccessBounded

\* What TypeOK says of single rows, tokens and handlers.
LEMMA Basics ==
    ASSUME TypeOK
    PROVE  /\ now \in Nat
           /\ \A h \in Handlers : task[h] \in Task /\ task[h].expires \in Nat
           /\ \A h \in Handlers : task[h].pc # "idle" => task[h].session \in DOMAIN sessions
           /\ \A i \in DOMAIN refresh : refresh[i] \in RefreshRow
           /\ \A i \in DOMAIN refresh : refresh[i].session \in DOMAIN sessions
           /\ \A a \in DOMAIN access : access[a].expires \in Nat
           /\ \A a \in DOMAIN access : access[a].session \in DOMAIN sessions
           /\ \A s \in DOMAIN sessions : sessions[s] \in Session /\ sessions[s].user \in users
<1>1. \A h \in Handlers : task[h] \in Task /\ task[h].expires \in Nat
  BY DEF TypeOK, Task
<1>2. \A h \in Handlers : task[h].pc # "idle" => task[h].session \in DOMAIN sessions
  BY DEF TypeOK, Busy
<1>3. \A i \in DOMAIN refresh : refresh[i] \in RefreshRow
  BY DEF TypeOK
<1>4. \A a \in DOMAIN access : access[a] \in AccessToken
  BY DEF TypeOK
<1>5. \A a \in DOMAIN access : access[a].expires \in Nat
  BY <1>4 DEF AccessToken
<1>6. \A s \in DOMAIN sessions : sessions[s] \in Session
  BY DEF TypeOK
<1> QED BY <1>1, <1>2, <1>3, <1>5, <1>6 DEF TypeOK

\* The initial state satisfies the invariant.
LEMMA InitIInv == Init => IInv
BY TTLAssumption DEF Init, IInv, TypeOK, SameUser, ShortLived, OneLiveToken, RevokeEndsSessions,
    AccessBounded, Idle, Task, Busy, Serves

\* A new account disturbs nothing but the users table.
LEMMA CreateUserStep ==
    ASSUME IInv, NEW u \in Users, CreateUser(u)
    PROVE  IInv'
BY DEF CreateUser, IInv, TypeOK, SameUser, ShortLived, OneLiveToken, RevokeEndsSessions,
    AccessBounded, Busy, Serves

\* The clock going on only makes room for ShortLived.
LEMMA TickStep ==
    ASSUME IInv, Tick
    PROVE  IInv'
<1>1. TypeOK' /\ SameUser' /\ OneLiveToken' /\ RevokeEndsSessions' /\ AccessBounded'
  BY DEF Tick, IInv, TypeOK, SameUser, OneLiveToken, RevokeEndsSessions, AccessBounded,
      Busy, Serves
<1>2. ShortLived'
  BY TTLAssumption, Basics DEF Tick, IInv, ShortLived
<1> QED BY <1>1, <1>2 DEF IInv

\* A login opens a session whose number no token and no handler has.
LEMMA LoginStep ==
    ASSUME IInv, NEW h \in Handlers, NEW u \in Users, Login(h, u)
    PROVE  IInv'
<1> DEFINE n == Len(sessions) + 1
<1>1. /\ sessions' \in Seq(Session)
      /\ DOMAIN sessions = 1..Len(sessions) /\ Len(sessions) \in Nat
      /\ DOMAIN sessions' = DOMAIN sessions \cup {n} /\ n \notin DOMAIN sessions
      /\ \A s \in DOMAIN sessions : sessions'[s] = sessions[s]
      /\ sessions'[n] = [user |-> u, ended |-> Open]
  BY DEF Login, IInv, TypeOK, Session, Open
<1>2. /\ task' \in [Handlers -> Task]
      /\ task'[h] = [pc |-> "sign", session |-> n, expires |-> 0]
      /\ \A g \in Handlers : g # h => task'[g] = task[g]
  BY <1>1 DEF Login, IInv, TypeOK, Task
<1>3. UNCHANGED <<users, refresh, access, outbox, now>> /\ u \in users
  BY DEF Login, CanLogIn
<1>4. TypeOK'
  <2>1. \A i \in DOMAIN sessions' : sessions'[i].user \in users'
    BY <1>1, <1>3 DEF IInv, TypeOK
  <2>2. \A g \in Handlers : Busy(g)' => task'[g].session \in DOMAIN sessions'
    BY <1>1, <1>2, Basics DEF IInv, Busy
  <2> QED BY <1>1, <1>2, <1>3, <2>1, <2>2 DEF IInv, TypeOK
<1>5. SameUser' /\ AccessBounded'
  BY <1>1, <1>3, Basics DEF IInv, SameUser, AccessBounded
<1>6. ShortLived'
  BY <1>2, <1>3, TTLAssumption, Basics DEF IInv, ShortLived
<1>7. OneLiveToken'
  BY <1>1, <1>2, <1>3, Basics DEF IInv, OneLiveToken, Busy, Serves
<1>8. RevokeEndsSessions'
  BY <1>1, <1>2, <1>3, Basics DEF IInv, RevokeEndsSessions, Busy, Serves
<1> QED BY <1>4, <1>5, <1>6, <1>7, <1>8 DEF IInv

\* Redeeming hands the session's one live place from the token to the handler.
LEMMA ConsumeStep ==
    ASSUME IInv, NEW h \in Handlers, NEW i \in DOMAIN refresh, ConsumeRefreshToken(h, i)
    PROVE  IInv'
<1>1. /\ refresh' \in Seq(RefreshRow)
      /\ DOMAIN refresh' = DOMAIN refresh
      /\ refresh'[i].revoked
      /\ \A j \in DOMAIN refresh : /\ refresh'[j].user = refresh[j].user
                                   /\ refresh'[j].session = refresh[j].session
                                   /\ j # i => refresh'[j] = refresh[j]
  <2>1. refresh' = [refresh EXCEPT ![i] = [refresh[i] EXCEPT !.revoked = TRUE]]
    BY DEF ConsumeRefreshToken
  <2>2. /\ refresh[i] \in RefreshRow
        /\ [refresh[i] EXCEPT !.revoked = TRUE] \in RefreshRow
        /\ [refresh[i] EXCEPT !.revoked = TRUE].revoked
        /\ [refresh[i] EXCEPT !.revoked = TRUE].user = refresh[i].user
        /\ [refresh[i] EXCEPT !.revoked = TRUE].session = refresh[i].session
    BY Basics DEF IInv, RefreshRow
  <2>3. refresh' \in Seq(RefreshRow) /\ DOMAIN refresh' = DOMAIN refresh
    BY <2>1, <2>2 DEF IInv, TypeOK
  <2> QED BY <2>1, <2>2, <2>3
<1>2. /\ task' \in [Handlers -> Task]
      /\ task'[h] = [pc |-> "sign", session |-> refresh[i].session, expires |-> 0]
      /\ \A g \in Handlers : g # h => task'[g] = task[g]
  BY DEF ConsumeRefreshToken, IInv, TypeOK, Task, RefreshRow
<1>3. /\ UNCHANGED <<users, access, outbox, now, sessions>>
      /\ ~Busy(h) /\ ~refresh[i].revoked
  BY DEF ConsumeRefreshToken, Redeemable
<1>4. TypeOK'
  <2>1. \A g \in Handlers : Busy(g)' => task'[g].session \in DOMAIN sessions'
    BY <1>2, <1>3, Basics DEF IInv, Busy
  <2> QED BY <1>1, <1>2, <1>3, <2>1 DEF IInv, TypeOK
<1>5. SameUser' /\ AccessBounded'
  BY <1>1, <1>3, Basics DEF IInv, SameUser, AccessBounded
<1>6. ShortLived'
  BY <1>2, <1>3, TTLAssumption, Basics DEF IInv, ShortLived
<1>7. OneLiveToken'
  <2>1. \A k, j \in DOMAIN refresh' :
            (~refresh'[k].revoked /\ ~refresh'[j].revoked
               /\ refresh'[k].session = refresh'[j].session) => k = j
    BY <1>1 DEF IInv, OneLiveToken
  <2>2. \A g, k \in Handlers :
            (task'[g].pc # "idle" /\ task'[k].pc # "idle"
               /\ task'[g].session = task'[k].session) => g = k
    BY <1>1, <1>2, <1>3 DEF IInv, OneLiveToken, Busy, Serves
  <2>3. \A g \in Handlers : \A j \in DOMAIN refresh' :
            ~refresh'[j].revoked => ~(task'[g].pc # "idle" /\ task'[g].session = refresh'[j].session)
    BY <1>1, <1>2, <1>3 DEF IInv, OneLiveToken, Busy, Serves
  <2> QED BY <2>1, <2>2, <2>3 DEF OneLiveToken, Busy, Serves
<1>8. RevokeEndsSessions'
  BY <1>1, <1>2, <1>3, Basics DEF IInv, RevokeEndsSessions, Busy, Serves
<1> QED BY <1>4, <1>5, <1>6, <1>7, <1>8 DEF IInv

\* Signing changes the handler's step and the lifetime it has in hand.
LEMMA IssueStep ==
    ASSUME IInv, NEW h \in Handlers, IssueAccess(h)
    PROVE  IInv'
<1>1. /\ task' \in [Handlers -> Task]
      /\ task'[h] = [pc |-> "store", session |-> task[h].session, expires |-> now + AccessTTL]
      /\ \A g \in Handlers : g # h => task'[g] = task[g]
  <2>1. [pc |-> "store", session |-> task[h].session, expires |-> now + AccessTTL] \in Task
    BY TTLAssumption, Basics DEF IInv, Task
  <2> QED BY <2>1 DEF IssueAccess, IInv, TypeOK
<1>2. /\ UNCHANGED <<users, refresh, access, outbox, now, sessions>>
      /\ task[h].pc = "sign"
  BY DEF IssueAccess
<1>3. /\ \A g \in Handlers : Busy(g)' <=> Busy(g)
      /\ \A g \in Handlers : task'[g].session = task[g].session
  BY <1>1, <1>2 DEF Busy
<1>4. TypeOK'
  <2>1. \A g \in Handlers : Busy(g)' => task'[g].session \in DOMAIN sessions'
    BY <1>1, <1>2, <1>3, Basics DEF IInv, Busy
  <2> QED BY <1>1, <1>2, <2>1 DEF IInv, TypeOK
<1>6. SameUser' /\ OneLiveToken' /\ RevokeEndsSessions' /\ AccessBounded'
  BY <1>2, <1>3 DEF IInv, SameUser, OneLiveToken, RevokeEndsSessions, AccessBounded, Serves
<1>5. ShortLived'
  BY <1>1, <1>2, TTLAssumption, Basics DEF IInv, ShortLived
<1> QED BY <1>4, <1>5, <1>6 DEF IInv

\* Storing hands the live place from the handler to the new token; the session
\* is open, as a handler serves it.
LEMMA StoreStep ==
    ASSUME IInv, NEW h \in Handlers, StoreRefreshToken(h)
    PROVE  IInv'
<1> DEFINE s == task[h].session
           u == sessions[s].user
           n == Len(refresh) + 1
           m == Len(access) + 1
<1>1. /\ s \in DOMAIN sessions /\ u \in Users /\ sessions[s].ended = Open
      /\ Serves(h, s) /\ task[h] \in Task
  <2>1. s \in DOMAIN sessions /\ Serves(h, s) /\ task[h] \in Task
    BY DEF StoreRefreshToken, IInv, TypeOK, Busy, Serves
  <2>2. u \in Users
    BY <2>1 DEF IInv, TypeOK, Session
  <2> QED BY <2>1, <2>2 DEF IInv, RevokeEndsSessions
<1>2. /\ refresh' \in Seq(RefreshRow)
      /\ DOMAIN refresh' = DOMAIN refresh \cup {n} /\ n \notin DOMAIN refresh
      /\ \A i \in DOMAIN refresh : refresh'[i] = refresh[i]
      /\ refresh'[n] = [user |-> u, expires |-> now + RefreshTTL, revoked |-> FALSE, session |-> s]
  <2>1. [user |-> u, expires |-> now + RefreshTTL, revoked |-> FALSE, session |-> s] \in RefreshRow
    BY <1>1, TTLAssumption DEF IInv, TypeOK, RefreshRow, Task
  <2> QED BY <2>1 DEF StoreRefreshToken, IInv, TypeOK
<1>3. /\ access' \in Seq(AccessToken)
      /\ DOMAIN access' = DOMAIN access \cup {m} /\ m \notin DOMAIN access
      /\ \A a \in DOMAIN access : access'[a] = access[a]
      /\ access'[m] = [user |-> u, expires |-> task[h].expires, session |-> s]
      /\ outbox' \in Seq(1..Len(access'))
  <2>1. [user |-> u, expires |-> task[h].expires, session |-> s] \in AccessToken
    BY <1>1 DEF AccessToken, Task
  <2>2. outbox \in Seq(1..(Len(access) + 1)) /\ outbox' = outbox
    BY DEF StoreRefreshToken, IInv, TypeOK
  <2> QED BY <2>1, <2>2 DEF StoreRefreshToken, IInv, TypeOK
<1>4. /\ task' \in [Handlers -> Task]
      /\ task'[h] = Idle
      /\ \A g \in Handlers : g # h => task'[g] = task[g]
  BY DEF StoreRefreshToken, IInv, TypeOK, Task, Idle
<1>5. UNCHANGED <<users, outbox, now, sessions>>
  BY DEF StoreRefreshToken
<1>6. TypeOK'
  <2>1. \A g \in Handlers : Busy(g)' => task'[g].session \in DOMAIN sessions'
    BY <1>4, <1>5, Basics DEF IInv, Busy, Idle
  <2>2. /\ \A i \in DOMAIN refresh' : refresh'[i].session \in DOMAIN sessions'
        /\ \A a \in DOMAIN access' : access'[a].session \in DOMAIN sessions'
    BY <1>1, <1>2, <1>3, <1>5 DEF IInv, TypeOK
  <2> QED BY <1>2, <1>3, <1>4, <1>5, <2>1, <2>2 DEF IInv, TypeOK
<1>7. SameUser'
  BY <1>2, <1>5 DEF IInv, SameUser
<1>8. ShortLived'
  <2>1. access'[m].expires <= now + AccessTTL
    BY <1>3 DEF IInv, ShortLived
  <2>2. \A a \in DOMAIN access' : access'[a].expires <= now + AccessTTL
    BY <1>3, <2>1 DEF IInv, ShortLived
  <2>3. \A g \in Handlers : task'[g].expires <= now + AccessTTL
    BY <1>4, TTLAssumption, Basics DEF IInv, ShortLived, Idle
  <2> QED BY <1>5, <2>2, <2>3 DEF ShortLived
<1>9. OneLiveToken'
  BY <1>1, <1>2, <1>4, Basics DEF IInv, OneLiveToken, Busy, Serves, Idle
<1>10. RevokeEndsSessions'
  BY <1>1, <1>2, <1>4, <1>5, Basics DEF IInv, RevokeEndsSessions, Busy, Serves, Idle
<1>11. AccessBounded'
  BY <1>1, <1>3, <1>5 DEF IInv, AccessBounded
<1> QED BY <1>6, <1>7, <1>8, <1>9, <1>10, <1>11 DEF IInv

\* A request that fails frees its handler.
LEMMA FailsStep ==
    ASSUME IInv, NEW h \in Handlers, Fails(h)
    PROVE  IInv'
<1>1. /\ task' \in [Handlers -> Task]
      /\ task'[h] = Idle
      /\ \A g \in Handlers : g # h => task'[g] = task[g]
  BY DEF Fails, IInv, TypeOK, Task, Idle
<1>2. UNCHANGED <<users, refresh, access, outbox, now, sessions>>
  BY DEF Fails
<1>3. \A g \in Handlers : Busy(g)' => Busy(g) /\ task'[g] = task[g]
  BY <1>1 DEF Busy, Idle
<1>4. TypeOK'
  <2>1. \A g \in Handlers : Busy(g)' => task'[g].session \in DOMAIN sessions'
    BY <1>1, <1>2, <1>3, Basics DEF IInv, Busy
  <2> QED BY <1>1, <1>2, <2>1 DEF IInv, TypeOK
<1>6. SameUser' /\ OneLiveToken' /\ RevokeEndsSessions' /\ AccessBounded'
  BY <1>2, <1>3 DEF IInv, SameUser, OneLiveToken, RevokeEndsSessions, AccessBounded, Serves
<1>5. ShortLived'
  BY <1>1, <1>2, TTLAssumption, Basics DEF IInv, ShortLived, Idle
<1> QED BY <1>4, <1>5, <1>6 DEF IInv

\* A revocation revokes every live token of the sessions it ends.
LEMMA RevokeStep ==
    ASSUME IInv, NEW a \in DOMAIN access, RevokeAccessToken(a)
    PROVE  IInv'
<1> DEFINE u == access[a].user
<1>1. /\ refresh' \in Seq(RefreshRow)
      /\ DOMAIN refresh' = DOMAIN refresh
      /\ \A i \in DOMAIN refresh : /\ refresh'[i].user = refresh[i].user
                                   /\ refresh'[i].session = refresh[i].session
                                   /\ refresh[i].revoked => refresh'[i].revoked
                                   /\ refresh[i].user = u => refresh'[i].revoked
  <2>1. /\ DOMAIN refresh' = DOMAIN refresh
        /\ \A i \in DOMAIN refresh : refresh'[i] = IF i \in RevokedWith(u)
              THEN [refresh[i] EXCEPT !.revoked = TRUE] ELSE refresh[i]
    BY DEF RevokeAccessToken
  <2>2. /\ DOMAIN refresh = 1..Len(refresh) /\ Len(refresh) \in Nat
        /\ \A i \in DOMAIN refresh : refresh[i] \in RefreshRow
    BY DEF IInv, TypeOK
  <2>3. \A i \in DOMAIN refresh : refresh'[i] \in RefreshRow
    BY <2>1, <2>2 DEF RefreshRow
  <2>4. refresh' \in Seq(RefreshRow)
    BY <2>2, <2>3 DEF RevokeAccessToken
  <2> QED BY <2>1, <2>2, <2>4 DEF RevokedWith, RefreshRow
<1>2. /\ sessions' \in Seq(Session)
      /\ DOMAIN sessions' = DOMAIN sessions
      /\ \A s \in DOMAIN sessions :
           /\ sessions'[s].user = sessions[s].user
           /\ \/ sessions'[s].ended = sessions[s].ended
              \/ /\ s \in EndedBy(u)
                 /\ sessions'[s].ended = now
  <2>1. /\ DOMAIN sessions' = DOMAIN sessions
        /\ \A s \in DOMAIN sessions : sessions'[s] = IF s \in EndedBy(u)
              THEN [sessions[s] EXCEPT !.ended = now] ELSE sessions[s]
    BY DEF RevokeAccessToken
  <2>2. /\ DOMAIN sessions = 1..Len(sessions) /\ Len(sessions) \in Nat
        /\ \A s \in DOMAIN sessions : sessions[s] \in Session
    BY DEF IInv, TypeOK
  <2>3. now \in Int
    BY DEF IInv, TypeOK
  <2>4. \A s \in DOMAIN sessions : sessions'[s] \in Session
    BY <2>1, <2>2, <2>3 DEF Session
  <2>5. sessions' \in Seq(Session)
    BY <2>2, <2>4 DEF RevokeAccessToken
  <2> QED BY <2>1, <2>2, <2>5 DEF Session
<1>3. UNCHANGED <<users, access, task, now>> /\ outbox' \in Seq(1..Len(access'))
  BY DEF RevokeAccessToken, IInv, TypeOK
<1>4. TypeOK'
  <2>1. \A h \in Handlers : Busy(h)' => task'[h].session \in DOMAIN sessions'
    BY <1>2, <1>3, Basics DEF IInv, Busy
  <2> QED BY <1>1, <1>2, <1>3, <2>1 DEF IInv, TypeOK
<1>5. SameUser'
  BY <1>1, <1>2, Basics DEF IInv, SameUser
<1>6. ShortLived'
  BY <1>3 DEF IInv, ShortLived
<1>7. OneLiveToken'
  BY <1>1, <1>3 DEF IInv, OneLiveToken, Busy, Serves
<1>8. RevokeEndsSessions'
  <2> SUFFICES ASSUME NEW s \in DOMAIN sessions, sessions'[s].ended # Open
               PROVE  /\ \A i \in DOMAIN refresh : refresh[i].session = s => refresh'[i].revoked
                      /\ \A h \in Handlers : ~Serves(h, s)
    BY <1>1, <1>2, <1>3 DEF RevokeEndsSessions, Serves, Busy
  <2>1. CASE sessions'[s].ended = sessions[s].ended
    BY <1>1, <2>1 DEF IInv, RevokeEndsSessions
  <2>2. CASE s \in EndedBy(u)
    BY <1>1, <2>2 DEF IInv, SameUser, EndedBy
  <2> QED BY <1>2, <2>1, <2>2
<1>9. AccessBounded'
  <2> SUFFICES ASSUME NEW b \in DOMAIN access, sessions'[access[b].session].ended # Open
               PROVE  access[b].expires <= sessions'[access[b].session].ended + AccessTTL
    BY <1>3 DEF AccessBounded
  <2>1. access[b].session \in DOMAIN sessions
    BY DEF IInv, TypeOK
  <2>2. CASE sessions'[access[b].session].ended = sessions[access[b].session].ended
    BY <2>2 DEF IInv, AccessBounded
  <2>3. CASE sessions'[access[b].session].ended = now
    BY <2>3 DEF IInv, ShortLived
  <2> QED BY <1>2, <2>1, <2>2, <2>3
<1> QED BY <1>4, <1>5, <1>6, <1>7, <1>8, <1>9 DEF IInv

\* A stuttering step changes nothing the invariant reads.
LEMMA StutterStep ==
    ASSUME IInv, UNCHANGED vars
    PROVE  IInv'
BY DEF vars, IInv, TypeOK, SameUser, ShortLived, OneLiveToken, RevokeEndsSessions,
    AccessBounded, Busy, Serves

\* The invariant is inductive.
LEMMA NextIInv == IInv /\ [Next]_vars => IInv'
<1> SUFFICES ASSUME IInv, [Next]_vars PROVE IInv'
  OBVIOUS
<1>1. ASSUME NEW u \in Users, CreateUser(u) PROVE IInv'
  BY <1>1, CreateUserStep
<1>2. ASSUME NEW h \in Handlers, NEW u \in Users, Login(h, u) PROVE IInv'
  BY <1>2, LoginStep
<1>3. ASSUME NEW h \in Handlers, NEW i \in DOMAIN refresh, ConsumeRefreshToken(h, i) PROVE IInv'
  BY <1>3, ConsumeStep
<1>4. ASSUME NEW h \in Handlers, IssueAccess(h) PROVE IInv'
  BY <1>4, IssueStep
<1>5. ASSUME NEW h \in Handlers, StoreRefreshToken(h) PROVE IInv'
  BY <1>5, StoreStep
<1>6. ASSUME NEW h \in Handlers, Fails(h) PROVE IInv'
  BY <1>6, FailsStep
<1>7. ASSUME NEW a \in DOMAIN access, RevokeAccessToken(a) PROVE IInv'
  BY <1>7, RevokeStep
<1>8. CASE Tick
  BY <1>8, TickStep
<1>9. CASE UNCHANGED vars
  BY <1>9, StutterStep
<1> QED BY <1>1, <1>2, <1>3, <1>4, <1>5, <1>6, <1>7, <1>8, <1>9 DEF Next

\* The tables keep their types, and every token and handler its session.
THEOREM TypeCorrect == Spec => []TypeOK
<1>1. IInv => TypeOK
  BY DEF IInv
<1> QED BY <1>1, InitIInv, NextIInv, PTL DEF Spec

\* Redeeming refresh tokens never leaves a session with two live ones, however
\* many handlers race.
THEOREM Rotation == Spec => []OneLiveToken
<1>1. IInv => OneLiveToken
  BY DEF IInv
<1> QED BY <1>1, InitIInv, NextIInv, PTL DEF Spec

\* A revocation ends for good the sessions that no handler is renewing.
THEOREM RevocationEnds == Spec => []RevokeEndsSessions
<1>1. IInv => RevokeEndsSessions
  BY DEF IInv
<1> QED BY <1>1, InitIInv, NextIInv, PTL DEF Spec

\* One access lifetime after a revocation the sessions it ended have no access
\* token that verifies.
THEOREM AccessEnds == Spec => []AccessBounded
<1>1. IInv => AccessBounded
  BY DEF IInv
<1> QED BY <1>1, InitIInv, NextIInv, PTL DEF Spec

=============================================================================
