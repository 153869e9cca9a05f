-------------------------- MODULE TokenVerification --------------------------
(***************************************************************************)
(* Local verification: authd signs access tokens and publishes its public  *)
(* key, and the workers of the posts and related services check tokens     *)
(* against the keys they have cached, services/posts/posts/jwtauth.py and  *)
(* services/related/jwtauth.py.  authd starts, ends and starts again as in *)
(* AuthdStartup, with the same key or a new one.                           *)
(*                                                                         *)
(* PyJWKClient is external: it caches the key set for Lifespan and, with   *)
(* cache_keys=True, the last MaxCachedKeys keys it has found, for as long  *)
(* as the process lives; which key it evicts is left open.  A failed fetch *)
(* clears the cached set.  The denylist is the subject of Revocation.      *)
(***************************************************************************)
EXTENDS AuthdStartup, Sequences

CONSTANTS
    Workers,        \* processes that verify tokens, of either service
    Exponent,       \* the public exponent of the signing keys
    Digest(_),      \* SHA-256 of a modulus, shortened
    AccessTTL,      \* lifetime of an access token
    Lifespan,       \* lifetime of a cached key set
    MaxCachedKeys,  \* keys a client remembers
    MaxTokens,      \* bound: access tokens
    MaxClock        \* bound: time

\* rsa.GenerateKey uses 65537; a key file may have another exponent.
ASSUME ExponentAssumption == Exponent \in Nat \ {0} /\ Exponent < 256 * 256 * 256
ASSUME DigestAssumption ==
    \A k, l \in Keys : Digest(k) # 0 /\ (Digest(k) = Digest(l) => k = l)
ASSUME VerificationAssumption ==
    /\ AccessTTL \in Nat /\ Lifespan \in Nat /\ MaxCachedKeys \in Nat \ {0}
    /\ MaxTokens \in Nat /\ MaxClock \in Nat

VARIABLES
    clock,
    tokens,     \* the access tokens issued so far
    retired,    \* history: per key, when authd last gave it up
    jwkSet,     \* per worker, the cached key set and the last tick it is good for
    keyCache,   \* per worker, the keys found so far and still remembered
    known       \* history: per worker, the keys found since the process started

workerVars == <<jwkSet, keyCache, known>>
vars == <<startupVars, clock, tokens, retired, workerVars>>

-----------------------------------------------------------------------------
(* authd's side. *)

\* Mutant: the kid is a name, the same for every key.
FixedKeyID(k) == Digest(1)

KeyID(k) == Digest(k)

\* Mutant: two bytes, enough for the exponents 3 and 17.
TwoBytes(value) == <<(value \div 256) % 256, value % 256>>

\* The three low bytes without leading zeros.
bigEndian(value) ==
    LET out == <<(value \div 65536) % 256, (value \div 256) % 256, value % 256>>
    IN  IF out[1] # 0 THEN out
        ELSE IF out[2] # 0 THEN <<out[2], out[3]>> ELSE <<out[3]>>

\* The key document has one key.
PublicJWKS(i) == [kid |-> KeyID(key[i]), n |-> key[i], e |-> bigEndian(Exponent)]

AccessToken == [kid : {KeyID(k) : k \in Keys}, key : Keys, exp : Nat]

\* Mutant: the lifetime of a refresh token.
IssueAccessForLong(i) ==
    /\ i \in Serving
    /\ Cardinality(tokens) < MaxTokens
    /\ tokens' = tokens \cup {[kid |-> KeyID(key[i]), key |-> key[i],
                               exp |-> clock + 2 * AccessTTL]}
    /\ UNCHANGED <<startupVars, clock, retired, workerVars>>

\* Login or refresh: a token signed with the key of the instance.
IssueAccess(i) ==
    /\ i \in Serving
    /\ Cardinality(tokens) < MaxTokens
    /\ tokens' = tokens \cup {[kid |-> KeyID(key[i]), key |-> key[i],
                               exp |-> clock + AccessTTL]}
    /\ UNCHANGED <<startupVars, clock, retired, workerVars>>

-----------------------------------------------------------------------------
(* A worker's side. *)

\* No key: none cached, none matching, or the fetch failed.
NoKey == [kid |-> 0, n |-> 0, e |-> <<>>]
NoSet == [jwk |-> NoKey, until |-> 0]

\* The number a base64url "e" stands for.
Decoded(e) ==
    CASE Len(e) = 1 -> e[1]
      [] Len(e) = 2 -> 256 * e[1] + e[2]
      [] Len(e) = 3 -> 65536 * e[1] + 256 * e[2] + e[3]
      [] OTHER -> 0

\* The key set is there, not older than Lifespan, and has the kid.
InSet(w, kid) == jwkSet[w] # NoSet /\ clock <= jwkSet[w].until /\ jwkSet[w].jwk.kid = kid

InCache(w, kid) == \E jwk \in keyCache[w] : jwk.kid = kid

\* get_signing_key asks authd, for the first time or because the kid is new.
NeedsFetch(w, kid) == ~InCache(w, kid) /\ ~InSet(w, kid)

\* What get_signing_key returns when authd answers a fetch with fetched.
SigningKey(w, kid, fetched) ==
    IF InCache(w, kid) THEN CHOOSE jwk \in keyCache[w] : jwk.kid = kid
    ELSE IF InSet(w, kid) THEN jwkSet[w].jwk
    ELSE IF fetched.kid = kid THEN fetched ELSE NoKey

\* jwt.decode: the signature is of this key, and the token has not expired.
Verifies(jwk, token) ==
    /\ jwk.n = token.key /\ Decoded(jwk.e) = Exponent
    /\ clock < token.exp

Accepts(w, token, fetched) == Verifies(SigningKey(w, token.kid, fetched), token)

\* Mutant: cache_keys=False.
RememberNothing(cache, jwk) == {cache}

\* Mutant: a lookup that failed is remembered too.
RememberFailures(cache, jwk) == {cache \cup {jwk}}

\* The caches after a key has been found.
Remember(cache, jwk) ==
    IF jwk = NoKey \/ jwk \in cache THEN {cache}
    ELSE IF Cardinality(cache) < MaxCachedKeys THEN {cache \cup {jwk}}
    ELSE {(cache \ {old}) \cup {jwk} : old \in cache}

\* authenticate and requires_auth for a request with a token; fetched is what a
\* fetch of the key set brings, NoKey when it fails.
Authenticate(w, token, fetched) ==
    LET found == SigningKey(w, token.kid, fetched) IN
    /\ jwkSet' = IF ~NeedsFetch(w, token.kid) THEN jwkSet
                 ELSE [jwkSet EXCEPT ![w] =
                         IF fetched = NoKey THEN NoSet
                         ELSE [jwk |-> fetched, until |-> clock + Lifespan]]
    /\ \E cache \in Remember(keyCache[w], found) :
           keyCache' = [keyCache EXCEPT ![w] = cache]
    /\ known' = [known EXCEPT ![w] = IF found = NoKey THEN @ ELSE @ \cup {found.n}]
    /\ UNCHANGED <<startupVars, clock, tokens, retired>>

\* A worker process is replaced: the client is a global of the process.
WorkerRestart(w) ==
    /\ jwkSet' = [jwkSet EXCEPT ![w] = NoSet]
    /\ keyCache' = [keyCache EXCEPT ![w] = {}]
    /\ known' = [known EXCEPT ![w] = {}]
    /\ UNCHANGED <<startupVars, clock, tokens, retired>>

-----------------------------------------------------------------------------

Init ==
    /\ StartupInit
    /\ clock = 0
    /\ tokens = {}
    /\ retired = [k \in Keys |-> 0]
    /\ jwkSet = [w \in Workers |-> NoSet]
    /\ keyCache = [w \in Workers |-> {}]
    /\ known = [w \in Workers |-> {}]

\* The keys served with.
Live == {key[i] : i \in Serving}

AuthdStep ==
    /\ StartupNext
    /\ retired' = [k \in Keys |-> IF k \in Live THEN clock ELSE retired[k]]
    /\ UNCHANGED <<clock, tokens, workerVars>>

Tick ==
    /\ clock < MaxClock
    /\ clock' = clock + 1
    /\ UNCHANGED <<startupVars, tokens, retired, workerVars>>

Next ==
    \/ AuthdStep
    \/ \E i \in Instances : IssueAccess(i)
    \/ \E w \in Workers, token \in tokens, fetched \in {PublicJWKS(i) : i \in Serving} \cup {NoKey} :
           Authenticate(w, token, fetched)
    \/ \E w \in Workers : WorkerRestart(w)
    \/ Tick

Spec == Init /\ [][Next]_vars

\* The container runtime starts an ended process again, run() goes on, and the
\* database comes back.
Fairness ==
    /\ \A i \in Instances : WF_vars(RunStep(i) /\ AuthdStep)
    /\ WF_vars(DatabaseUp /\ AuthdStep)

FairSpec == Spec /\ Fairness

-----------------------------------------------------------------------------
(* Properties. *)

JWK == [kid : {KeyID(k) : k \in Keys}, n : Keys, e : {bigEndian(Exponent)}]

TypeOK ==
    /\ StartupTypeOK
    /\ clock \in Nat
    /\ tokens \in SUBSET AccessToken
    /\ retired \in [Keys -> Nat]
    /\ jwkSet \in [Workers -> [jwk : JWK, until : Nat] \cup {NoSet}]
    /\ keyCache \in [Workers -> SUBSET JWK]
    /\ known \in [Workers -> SUBSET Keys]

\* A token of a key an authd instance serves with is good at every worker that
\* can reach the instance, whatever the worker has cached: keys of the time
\* before a restart, an old key set, or nothing.  A new key needs no wait.
CurrentTokenAccepted ==
    \A w \in Workers, i \in Serving, token \in tokens :
        token.key = key[i] /\ clock < token.exp => Accepts(w, token, PublicJWKS(i))

\* Every key a worker has found once is good for verifying without authd, up to
\* the number of keys its client remembers: authd may be down, or restart.
VerifiesWithoutAuthd ==
    \A w \in Workers, token \in tokens :
        /\ token.key \in known[w] /\ Cardinality(known[w]) <= MaxCachedKeys
        /\ clock < token.exp
        => Accepts(w, token, NoKey)

\* A worker may accept tokens of a key authd has no more (a new key after a
\* restart), and only within one access lifetime of the end of the old key.
OldKeyBounded ==
    \A w \in Workers, token \in tokens :
        token.key \notin Live /\ Accepts(w, token, NoKey)
            => clock < retired[token.key] + AccessTTL

\* Every instance ends up serving, through lost races between migrating
\* instances, crashes and database outages, and stays there.
EventuallyServing == <>[](Serving = Instances)

=============================================================================
