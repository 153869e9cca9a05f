---------------------- MODULE TokenVerification_proofs ----------------------
(***************************************************************************)
(* Proofs about AuthdStartup and TokenVerification: for any number of      *)
(* authd instances, schema files, workers, keys and tokens, any lifetimes, *)
(* and any crashes, outages and failed fetches, the schema is in force     *)
(* exactly as recorded and complete before anybody serves, and what a      *)
(* worker has cached neither keeps it from accepting tokens of a current   *)
(* key nor lets it accept tokens of an old key for long.                   *)
(*                                                                         *)
(* SchemaWhole is not inductive: that files come in their order, and that  *)
(* a serving instance has seen all of them, rests on what Migrate's loop   *)
(* knows at each instance: the files it has passed are in force.  The      *)
(* properties of the workers say what a worker would answer; the invariant *)
(* behind them is that whatever is cached is a key document authd has      *)
(* published, and that a kid therefore names one key.                      *)
(***************************************************************************)
EXTENDS TokenVerification, FiniteSetTheorems, TLAPS

-----------------------------------------------------------------------------
(* The start of authd. *)

\* The loop of Migrate has passed a file only once it is in force.
PassedIsApplied ==
    \A i \in Instances : stage[i] \in {"check", "apply", "record", "serving"}
        => \A f \in AllFiles : f < file[i] => f \in applied

\* The loop begins with the first file, applies files there are, and is over
\* when the instance serves.
LoopBounds ==
    \A i \in Instances :
        /\ stage[i] \in {"down", "connect", "ledger"} => file[i] = 1
        /\ stage[i] \in {"apply", "record"} => file[i] \in AllFiles
        /\ stage[i] = "serving" => file[i] = Files + 1

\* The process has a key from its start on.
RunningHasKey == \A i \in Instances : stage[i] # "down" => key[i] \in Keys

InOrder == \A f \in applied : 1..f \subseteq applied

SInv == /\ StartupTypeOK
        /\ PassedIsApplied
        /\ LoopBounds
        /\ RunningHasKey
        /\ InOrder
        /\ recorded = applied

\* The initial states satisfy the invariant.
LEMMA InitSInv == StartupInit => SInv
<1> SUFFICES ASSUME StartupInit PROVE SInv
  OBVIOUS
<1>1. StartupTypeOK
  <2>1. keyFile \in BOOLEAN /\ dbUp \in BOOLEAN /\ ledger \in BOOLEAN
    BY DEF StartupInit
  <2>2. stage \in [Instances -> Stages] /\ key \in [Instances -> Keys \cup {0}]
    BY DEF StartupInit, Stages
  <2>3. 1 \in 1..(Files + 1) /\ 0 \in 0..MaxCrashes /\ 0 \in 0..MaxOutages
    BY StartupAssumption
  <2>4. file \in [Instances -> 1..(Files + 1)]
    BY <2>3 DEF StartupInit
  <2> QED BY <2>1, <2>2, <2>3, <2>4 DEF StartupInit, StartupTypeOK
<1>2. PassedIsApplied /\ LoopBounds /\ RunningHasKey /\ InOrder /\ recorded = applied
  BY DEF StartupInit, PassedIsApplied, LoopBounds, RunningHasKey, InOrder
<1> QED BY <1>1, <1>2 DEF SInv

\* Processes that end forget what the invariant says of them.
LEMMA EndedSInv ==
    ASSUME SInv, NEW S \in SUBSET Instances, Ended(S),
           UNCHANGED <<keyFile, served, ledger, applied, recorded>>,
           dbUp' \in BOOLEAN, crashes' \in 0..MaxCrashes, outages' \in 0..MaxOutages
    PROVE  SInv'
<1> USE StartupAssumption DEF SInv, Ended
<1>1. StartupTypeOK'
  BY DEF StartupTypeOK, Stages
<1>2. PassedIsApplied' /\ LoopBounds' /\ RunningHasKey'
  BY DEF StartupTypeOK, PassedIsApplied, LoopBounds, RunningHasKey
<1> QED BY <1>1, <1>2 DEF InOrder

\* A step of run() preserves the invariant.
LEMMA RunSInv ==
    ASSUME SInv, NEW i \in Instances, RunStep(i)
    PROVE  SInv'
<1> USE StartupAssumption DEF SInv, dbVars
<1>1. CASE Start(i)
  <2>1. PICK k \in LoadOrCreateKey : key' = [key EXCEPT ![i] = k]
    BY <1>1 DEF Start
  <2>2. k \in Keys
    BY <2>1 DEF LoadOrCreateKey, Keys
  <2> QED BY <1>1, <2>1, <2>2 DEF Start, At, StartupTypeOK, Stages, PassedIsApplied,
             LoopBounds, RunningHasKey, InOrder
<1>2. CASE Connect(i)
  BY <1>2 DEF Connect, At, StartupTypeOK, Stages, PassedIsApplied, LoopBounds,
     RunningHasKey, InOrder
<1>3. CASE CreateLedger(i)
  <2>1. PICK losers \in SUBSET {j \in Instances \ {i} : stage[j] = "ledger" /\ ~ledger} :
           /\ stage' = [j \in Instances |-> IF j = i THEN "check"
                                            ELSE IF j \in losers THEN "down" ELSE stage[j]]
           /\ key' = [j \in Instances |-> IF j \in losers THEN 0 ELSE key[j]]
    BY <1>3 DEF CreateLedger
  <2>2. UNCHANGED <<keyFile, file, served, dbUp, applied, recorded, outages, crashes>>
        /\ ledger' = TRUE /\ stage[i] = "ledger"
    BY <1>3 DEF CreateLedger
  <2>3. StartupTypeOK' /\ LoopBounds' /\ RunningHasKey'
    BY <2>1, <2>2 DEF StartupTypeOK, Stages, LoopBounds, RunningHasKey
  <2>4. PassedIsApplied'
    BY <2>1, <2>2 DEF StartupTypeOK, PassedIsApplied, LoopBounds, AllFiles
  <2> QED BY <2>2, <2>3, <2>4 DEF InOrder
<1>4. CASE CheckFile(i)
  <2>1. CASE file[i] \in recorded
    <3>1. file' = [file EXCEPT ![i] = file[i] + 1] /\ file[i] \in AllFiles
          /\ UNCHANGED <<keyFile, stage, key, served, dbVars, crashes>> /\ stage[i] = "check"
      BY <1>4, <2>1 DEF CheckFile
    <3>2. StartupTypeOK' /\ LoopBounds' /\ RunningHasKey'
      BY <3>1 DEF StartupTypeOK, LoopBounds, RunningHasKey, AllFiles
    <3>3. PassedIsApplied'
      BY <3>1, <2>1 DEF StartupTypeOK, PassedIsApplied, AllFiles
    <3> QED BY <3>1, <3>2, <3>3 DEF InOrder
  <2>2. CASE file[i] \notin recorded
    <3>1. /\ stage' = [stage EXCEPT ![i] = "apply"] /\ file[i] \in AllFiles
          /\ UNCHANGED <<keyFile, file, key, served, dbVars, crashes>> /\ stage[i] = "check"
      BY <1>4, <2>2 DEF CheckFile
    <3>2. StartupTypeOK' /\ LoopBounds' /\ RunningHasKey'
      BY <3>1 DEF StartupTypeOK, Stages, LoopBounds, RunningHasKey, AllFiles
    <3>3. PassedIsApplied'
      BY <3>1 DEF StartupTypeOK, PassedIsApplied, AllFiles
    <3> QED BY <3>1, <3>2, <3>3 DEF InOrder
  <2> QED BY <2>1, <2>2
<1>5. CASE ApplyFile(i)
  BY <1>5 DEF ApplyFile, At, StartupTypeOK, Stages, PassedIsApplied, LoopBounds,
     RunningHasKey, InOrder
<1>6. CASE ApplyFails(i)
  <2>1. Ended({i}) /\ UNCHANGED <<keyFile, served, dbVars, crashes>>
    BY <1>6 DEF ApplyFails
  <2> QED BY <2>1, EndedSInv DEF StartupTypeOK
<1>7. CASE RecordFile(i)
  <2>1. /\ stage[i] = "record" /\ stage' = [stage EXCEPT ![i] = "check"]
        /\ applied' = applied \cup {file[i]} /\ recorded' = recorded \cup {file[i]}
        /\ file' = [file EXCEPT ![i] = file[i] + 1]
        /\ UNCHANGED <<keyFile, key, served, dbUp, ledger, outages, crashes>>
    BY <1>7 DEF RecordFile, At
  <2>2. file[i] \in AllFiles
    BY <2>1 DEF LoopBounds
  <2>3. file[i] + 1 \in 1..(Files + 1) /\ "check" \in Stages
    BY <2>2 DEF AllFiles, Stages
  <2>7. StartupTypeOK'
    BY <2>1, <2>2, <2>3 DEF StartupTypeOK
  <2>8. LoopBounds' /\ RunningHasKey'
    BY <2>1, <2>2 DEF StartupTypeOK, LoopBounds, RunningHasKey
  <2>4. PassedIsApplied'
    BY <2>1, <2>2 DEF StartupTypeOK, PassedIsApplied, AllFiles
  <2>5. 1..file[i] \subseteq applied'
    BY <2>1, <2>2 DEF PassedIsApplied, AllFiles
  <2>6. InOrder'
    BY <2>1, <2>5 DEF InOrder
  <2> QED BY <2>1, <2>4, <2>6, <2>7, <2>8
<1>8. CASE Serve(i)
  <2>1. key[i] \in Keys
    BY <1>8 DEF Serve, Migrated, RunningHasKey
  <2>2. /\ stage[i] = "check" /\ file[i] = Files + 1
        /\ stage' = [stage EXCEPT ![i] = "serving"]
        /\ served' = served \cup {key[i]}
        /\ UNCHANGED <<keyFile, file, key, dbVars, crashes>>
    BY <1>8 DEF Serve, Migrated
  <2>3. StartupTypeOK' /\ LoopBounds' /\ RunningHasKey'
    BY <2>1, <2>2 DEF StartupTypeOK, Stages, LoopBounds, RunningHasKey
  <2>4. PassedIsApplied'
    BY <2>2 DEF StartupTypeOK, PassedIsApplied
  <2> QED BY <2>2, <2>3, <2>4 DEF InOrder
<1> QED BY <1>1, <1>2, <1>3, <1>4, <1>5, <1>6, <1>7, <1>8 DEF RunStep

\* Every step preserves the invariant.
LEMMA StepSInv == SInv /\ [StartupNext]_startupVars => SInv'
<1> SUFFICES ASSUME SInv, [StartupNext]_startupVars PROVE SInv'
  OBVIOUS
<1> USE StartupAssumption DEF dbVars
<1>1. ASSUME NEW i \in Instances, RunStep(i) PROVE SInv'
  BY <1>1, RunSInv
<1>2. ASSUME NEW i \in Instances, GiveUp(i) PROVE SInv'
  <2>1. Ended({i}) /\ UNCHANGED <<keyFile, served, dbVars, crashes>>
    BY <1>2 DEF GiveUp
  <2> QED BY <2>1, EndedSInv DEF SInv, StartupTypeOK
<1>3. ASSUME NEW i \in Instances, Crash(i) PROVE SInv'
  <2>1. Ended({i}) /\ UNCHANGED <<keyFile, served, dbVars>> /\ crashes' \in 0..MaxCrashes
    BY <1>3 DEF Crash, SInv, StartupTypeOK
  <2> QED BY <2>1, EndedSInv DEF SInv, StartupTypeOK
<1>4. CASE DatabaseDown
  <2>1. /\ Ended({i \in Instances : stage[i] = "record"})
        /\ dbUp' = FALSE /\ outages' \in 0..MaxOutages
        /\ UNCHANGED <<keyFile, served, ledger, applied, recorded, crashes>>
    BY <1>4 DEF DatabaseDown, SInv, StartupTypeOK
  <2> QED BY <2>1, EndedSInv DEF SInv, StartupTypeOK
<1>5. CASE DatabaseUp
  BY <1>5 DEF DatabaseUp, procVars, SInv, StartupTypeOK, PassedIsApplied, LoopBounds,
     RunningHasKey, InOrder
<1>6. CASE UNCHANGED startupVars
  BY <1>6 DEF startupVars, SInv, StartupTypeOK, PassedIsApplied, LoopBounds,
     RunningHasKey, InOrder
<1> QED BY <1>1, <1>2, <1>3, <1>4, <1>5, <1>6 DEF StartupNext

\* What the invariant says of the schema.
LEMMA SInvWhole == SInv => SchemaWhole
<1> SUFFICES ASSUME SInv, NEW i \in Serving PROVE applied = AllFiles
  BY DEF SInv, SchemaWhole, InOrder
<1> USE StartupAssumption DEF SInv
<1>1. file[i] = Files + 1 /\ stage[i] = "serving" /\ i \in Instances
  BY DEF Serving, LoopBounds
<1>2. \A f \in AllFiles : f \in applied
  BY <1>1 DEF PassedIsApplied, AllFiles
<1> QED BY <1>2 DEF StartupTypeOK

\* For any number of instances, files, crashes and outages: whatever instance
\* dies or loses a race in Migrate (store.go), a file is in force if and only if
\* it is recorded, files come in order, and authd serves on a whole schema.
THEOREM MigrationsWhole == StartupSpec => []SchemaWhole
BY InitSInv, StepSInv, SInvWhole, PTL DEF StartupSpec

-----------------------------------------------------------------------------
(* The tokens and the caches of their verifiers. *)

\* What authd publishes for a key.
Document(k) == [kid |-> KeyID(k), n |-> k, e |-> bigEndian(Exponent)]

Genuine(jwk) == jwk.n \in Keys /\ jwk = Document(jwk.n)

TokensGenuine == \A token \in tokens : token.kid = KeyID(token.key)

CachesGenuine ==
    \A w \in Workers :
        /\ jwkSet[w] = NoSet \/ Genuine(jwkSet[w].jwk)
        /\ \A jwk \in keyCache[w] : Genuine(jwk)

\* A token ends within one lifetime, of now or of the end of its key.
TokensEnd ==
    \A token \in tokens :
        /\ token.exp <= clock + AccessTTL
        /\ token.key \notin Live => token.exp <= retired[token.key] + AccessTTL

Names(cache) == {jwk.n : jwk \in cache}

\* A worker remembers the keys it has found, all of them while they fit.
CachesComplete ==
    \A w \in Workers :
        /\ Names(keyCache[w]) \subseteq known[w]
        /\ Cardinality(known[w]) <= MaxCachedKeys => known[w] \subseteq Names(keyCache[w])

IInv == /\ SInv
        /\ TypeOK
        /\ TokensGenuine
        /\ CachesGenuine
        /\ TokensEnd
        /\ CachesComplete

-----------------------------------------------------------------------------
(* Lemmas about the operators. *)

\* bigEndian of tokens.go loses nothing of an exponent below 2^24: decoding its
\* one, two or three bytes gives the exponent back.
THEOREM ExponentPublished ==
    ASSUME NEW value \in Nat, value < 256 * 256 * 256
    PROVE  Decoded(bigEndian(value)) = value
<1> DEFINE a == (value \div 65536) % 256
           b == (value \div 256) % 256
           c == value % 256
<1>1. a \in Nat /\ b \in Nat /\ c \in Nat /\ value = 65536 * a + 256 * b + c
  BY SMT
<1>2. bigEndian(value) = IF a # 0 THEN <<a, b, c>> ELSE IF b # 0 THEN <<b, c>> ELSE <<c>>
  BY DEF bigEndian
<1> HIDE DEF a, b, c
<1>3. CASE a # 0
  <2>1. bigEndian(value) = <<a, b, c>>
    BY <1>2, <1>3
  <2>2. Decoded(<<a, b, c>>) = 65536 * a + 256 * b + c
    BY <1>1, SMT DEF Decoded
  <2> QED BY <1>1, <2>1, <2>2, SMT
<1>4. CASE a = 0 /\ b # 0
  <2>1. bigEndian(value) = <<b, c>>
    BY <1>2, <1>4
  <2>2. Decoded(<<b, c>>) = 256 * b + c
    BY <1>1, SMT DEF Decoded
  <2> QED BY <1>1, <1>4, <2>1, <2>2, SMT
<1>5. CASE a = 0 /\ b = 0
  <2>1. bigEndian(value) = <<c>>
    BY <1>2, <1>5
  <2>2. Decoded(<<c>>) = c
    BY <1>1, SMT DEF Decoded
  <2> QED BY <1>1, <1>5, <2>1, <2>2, SMT
<1> QED BY <1>3, <1>4, <1>5

\* The kid tells keys apart, and is never that of NoKey.
LEMMA KeyIDs ==
    ASSUME NEW k \in Keys, NEW l \in Keys
    PROVE  KeyID(k) # 0 /\ (KeyID(k) = KeyID(l) => k = l)
BY DigestAssumption DEF KeyID

\* A genuine document verifies the tokens of its kid that have not expired.
LEMMA GenuineVerifies ==
    ASSUME NEW jwk, Genuine(jwk), NEW token \in tokens, TypeOK, TokensGenuine,
           jwk.kid = token.kid, clock < token.exp
    PROVE  Verifies(jwk, token)
<1>1. token.key \in Keys /\ token.kid = KeyID(token.key)
  BY DEF TypeOK, AccessToken, TokensGenuine
<1>2. jwk.kid = KeyID(jwk.n) /\ jwk.e = bigEndian(Exponent) /\ jwk.n \in Keys
  BY DEF Genuine, Document
<1>3. jwk.n = token.key
  BY <1>1, <1>2, KeyIDs
<1>4. Decoded(jwk.e) = Exponent
  BY <1>2, ExponentPublished, ExponentAssumption
<1> QED BY <1>3, <1>4 DEF Verifies

\* The key an instance publishes is genuine.
LEMMA PublishedGenuine ==
    ASSUME SInv, NEW i \in Serving
    PROVE  Genuine(PublicJWKS(i)) /\ PublicJWKS(i) # NoKey
<1>1. key[i] \in Keys
  BY DEF SInv, RunningHasKey, Serving
<1>2. KeyID(key[i]) # 0
  BY <1>1, KeyIDs
<1>3. PublicJWKS(i) = Document(key[i]) /\ PublicJWKS(i).n = key[i]
        /\ PublicJWKS(i).kid = KeyID(key[i]) /\ NoKey.kid = 0
  BY DEF PublicJWKS, Document, NoKey
<1> QED BY <1>1, <1>2, <1>3 DEF Genuine

\* What get_signing_key finds is genuine, and its kid is the one asked for.
LEMMA FoundGenuine ==
    ASSUME CachesGenuine, NEW w \in Workers, NEW kid, NEW fetched,
           fetched = NoKey \/ Genuine(fetched),
           SigningKey(w, kid, fetched) # NoKey
    PROVE  Genuine(SigningKey(w, kid, fetched)) /\ SigningKey(w, kid, fetched).kid = kid
<1>1. CASE InCache(w, kid)
  BY <1>1 DEF InCache, SigningKey, CachesGenuine
<1>2. CASE ~InCache(w, kid) /\ InSet(w, kid)
  BY <1>2 DEF InSet, SigningKey, CachesGenuine
<1>3. CASE ~InCache(w, kid) /\ ~InSet(w, kid)
  BY <1>3 DEF SigningKey
<1> QED BY <1>1, <1>2, <1>3

\* As many keys are remembered as have different names.
LEMMA CacheSize ==
    ASSUME NEW cache, \A jwk \in cache : Genuine(jwk)
    PROVE  /\ IsFiniteSet(cache) /\ IsFiniteSet(Names(cache))
           /\ Cardinality(cache) \in Nat /\ Cardinality(Names(cache)) \in Nat
           /\ Cardinality(cache) <= Cardinality(Names(cache))
<1> DEFINE f == [k \in Names(cache) |-> Document(k)]
<1>1. Names(cache) \subseteq Keys
  BY DEF Names, Genuine
<1>2. IsFiniteSet(Names(cache))
  <2>1. IsFiniteSet(Keys)
    BY StartupAssumption, FS_Interval DEF Keys
  <2> QED BY <1>1, <2>1, FS_Subset
<1>3. f \in Surjection(Names(cache), cache)
  <2>1. \A k \in Names(cache) : Document(k) \in cache
    BY DEF Names, Genuine
  <2>2. \A jwk \in cache : jwk.n \in Names(cache) /\ f[jwk.n] = jwk
    BY DEF Names, Genuine
  <2> QED BY <2>1, <2>2 DEF Surjection
<1>4. IsFiniteSet(cache) /\ Cardinality(cache) <= Cardinality(Names(cache))
  BY <1>2, <1>3, FS_Surjection
<1> QED BY <1>2, <1>4, FS_CardinalityType

\* A key is evicted only when more keys are known than the client remembers.
LEMMA RememberComplete ==
    ASSUME NEW cache, \A jwk \in cache : Genuine(jwk),
           NEW keys \in SUBSET Keys, Names(cache) \subseteq keys,
           Cardinality(keys) <= MaxCachedKeys => keys \subseteq Names(cache),
           NEW found, Genuine(found), found # NoKey,
           NEW cache2 \in Remember(cache, found)
    PROVE  /\ \A jwk \in cache2 : Genuine(jwk)
           /\ Names(cache2) \subseteq keys \cup {found.n}
           /\ Cardinality(keys \cup {found.n}) <= MaxCachedKeys
                => keys \cup {found.n} \subseteq Names(cache2)
<1>1. (\A jwk \in cache2 : Genuine(jwk)) /\ Names(cache2) \subseteq keys \cup {found.n}
  BY DEF Remember, Names
<1>2. IsFiniteSet(keys) /\ IsFiniteSet(keys \cup {found.n})
  <2>1. IsFiniteSet(Keys)
    BY StartupAssumption, FS_Interval DEF Keys
  <2> QED BY <2>1, FS_Subset, FS_AddElement
<1>3. /\ Cardinality(keys) \in Nat /\ Cardinality(keys \cup {found.n}) \in Nat
      /\ Cardinality(keys) <= Cardinality(keys \cup {found.n})
  BY <1>2, FS_CardinalityType, FS_Subset
<1> SUFFICES ASSUME Cardinality(keys \cup {found.n}) <= MaxCachedKeys
             PROVE  keys \cup {found.n} \subseteq Names(cache2)
  BY <1>1
<1>4. MaxCachedKeys \in Nat
  BY VerificationAssumption
<1>5. keys \subseteq Names(cache)
  BY <1>3, <1>4
<1>6. CASE found \in cache
  BY <1>5, <1>6 DEF Remember, Names
<1>7. CASE found \notin cache /\ Cardinality(cache) < MaxCachedKeys
  BY <1>5, <1>7 DEF Remember, Names
<1>8. CASE found \notin cache /\ ~(Cardinality(cache) < MaxCachedKeys)
  <2>1. found.n \notin Names(cache)
    BY <1>8 DEF Names, Genuine
  <2>2. Cardinality(Names(cache) \cup {found.n}) = Cardinality(Names(cache)) + 1
    BY <2>1, CacheSize, FS_AddElement
  <2>3. Cardinality(Names(cache) \cup {found.n}) <= Cardinality(keys \cup {found.n})
    <3>1. Names(cache) \cup {found.n} \in SUBSET (keys \cup {found.n})
      OBVIOUS
    <3> QED BY <1>2, <3>1, FS_Subset
  <2>4. Cardinality(cache) >= MaxCachedKeys /\ Cardinality(cache) \in Nat
        /\ Cardinality(Names(cache)) \in Nat /\ Cardinality(cache) <= Cardinality(Names(cache))
    BY <1>4, <1>8, CacheSize
  <2> QED BY <1>3, <1>4, <2>2, <2>3, <2>4
<1> QED BY <1>6, <1>7, <1>8

-----------------------------------------------------------------------------
(* The invariant is inductive. *)

\* The initial states satisfy the invariant.
LEMMA InitIInv == Init => IInv
<1> SUFFICES ASSUME Init PROVE IInv
  OBVIOUS
<1>1. SInv
  BY InitSInv DEF Init
<1>2. TypeOK
  BY <1>1 DEF Init, TypeOK, SInv
<1>3. TokensGenuine /\ CachesGenuine /\ TokensEnd
  BY DEF Init, TokensGenuine, CachesGenuine, TokensEnd
<1>4. CachesComplete
  BY DEF Init, CachesComplete, Names
<1> QED BY <1>1, <1>2, <1>3, <1>4 DEF IInv

\* A step of authd's start or end: the tokens of a key it gives up have been
\* issued before.
LEMMA AuthdIInv == IInv /\ AuthdStep => IInv'
<1> SUFFICES ASSUME IInv, AuthdStep PROVE IInv'
  OBVIOUS
<1> USE DEF IInv
<1>1. UNCHANGED <<clock, tokens, workerVars>>
      /\ retired' = [k \in Keys |-> IF k \in Live THEN clock ELSE retired[k]]
  BY DEF AuthdStep
<1>2. SInv'
  BY StepSInv DEF AuthdStep
<1>3. TypeOK'
  BY <1>1, <1>2 DEF TypeOK, SInv, workerVars
<1>4. TokensGenuine' /\ CachesGenuine' /\ CachesComplete'
  BY <1>1 DEF TokensGenuine, CachesGenuine, CachesComplete, workerVars
<1>5. TokensEnd'
  <2> SUFFICES ASSUME NEW token \in tokens
               PROVE  /\ token.exp <= clock + AccessTTL
                      /\ token.exp <= retired'[token.key] + AccessTTL
    BY <1>1 DEF TokensEnd
  <2>1. token.key \in Keys
    BY DEF TypeOK, AccessToken
  <2>2. retired'[token.key] = IF token.key \in Live THEN clock ELSE retired[token.key]
    BY <1>1, <2>1
  <2> QED BY <2>2 DEF TokensEnd
<1> QED BY <1>2, <1>3, <1>4, <1>5

\* A new token is of a key in use.
LEMMA IssueIInv ==
    ASSUME IInv, NEW i \in Instances, IssueAccess(i)
    PROVE  IInv'
<1> USE DEF IInv
<1> DEFINE new == [kid |-> KeyID(key[i]), key |-> key[i], exp |-> clock + AccessTTL]
<1>1. /\ i \in Serving /\ tokens' = tokens \cup {new}
      /\ UNCHANGED <<startupVars, clock, retired, workerVars>>
  BY DEF IssueAccess
<1>2. SInv'
  BY <1>1 DEF startupVars, SInv, StartupTypeOK, PassedIsApplied, LoopBounds,
     RunningHasKey, InOrder
<1>3. key[i] \in Keys /\ key[i] \in Live
  BY <1>1 DEF SInv, RunningHasKey, Serving, Live
<1>4. new \in AccessToken
  BY <1>3, VerificationAssumption DEF AccessToken, TypeOK
<1>5. TypeOK'
  BY <1>1, <1>2, <1>4 DEF TypeOK, SInv, workerVars
<1>6. TokensGenuine' /\ CachesGenuine' /\ CachesComplete'
  BY <1>1 DEF TokensGenuine, CachesGenuine, CachesComplete, workerVars
<1>7. TokensEnd'
  <2>1. new.exp <= clock + AccessTTL /\ new.key \in Live
    BY <1>3, VerificationAssumption DEF TypeOK
  <2>2. Live' = Live
    BY <1>1 DEF Live, Serving, startupVars
  <2> QED BY <1>1, <2>1, <2>2 DEF TokensEnd
<1> QED BY <1>2, <1>5, <1>6, <1>7

\* Time passes.
LEMMA TickIInv == IInv /\ Tick => IInv'
<1> SUFFICES ASSUME IInv, Tick PROVE IInv'
  OBVIOUS
<1> USE DEF IInv
<1>1. clock' = clock + 1 /\ UNCHANGED <<startupVars, tokens, retired, workerVars>>
      /\ clock \in Nat
  BY DEF Tick, TypeOK
<1>2. SInv'
  BY <1>1 DEF startupVars, SInv, StartupTypeOK, PassedIsApplied, LoopBounds,
     RunningHasKey, InOrder
<1>3. TypeOK'
  BY <1>1, <1>2 DEF TypeOK, SInv, workerVars
<1>4. TokensGenuine' /\ CachesGenuine' /\ CachesComplete'
  BY <1>1 DEF TokensGenuine, CachesGenuine, CachesComplete, workerVars
<1>5. TokensEnd'
  <2>1. \A token \in tokens : token.exp \in Nat
    BY DEF TypeOK, AccessToken
  <2>2. Live' = Live
    BY <1>1 DEF Live, Serving, startupVars
  <2> QED BY <1>1, <2>1, <2>2, VerificationAssumption DEF TokensEnd
<1> QED BY <1>2, <1>3, <1>4, <1>5

\* What leaves authd, the clock and the tokens alone leaves their part alone.
LEMMA WorkerStep ==
    ASSUME IInv, UNCHANGED <<startupVars, clock, tokens, retired>>
    PROVE  SInv' /\ TokensGenuine' /\ TokensEnd'
<1>1. SInv'
  BY DEF IInv, startupVars, SInv, StartupTypeOK, PassedIsApplied, LoopBounds,
     RunningHasKey, InOrder
<1>2. Live' = Live
  BY DEF Live, Serving, startupVars
<1> QED BY <1>1, <1>2 DEF IInv, TokensGenuine, TokensEnd

\* A genuine document is one TypeOK allows.
LEMMA GenuineType ==
    ASSUME NEW jwk, Genuine(jwk)
    PROVE  jwk \in JWK
BY DEF Genuine, Document, JWK

\* A new worker process starts with empty caches.
LEMMA RestartIInv ==
    ASSUME IInv, NEW w \in Workers, WorkerRestart(w)
    PROVE  IInv'
<1> USE DEF IInv
<1>1. /\ jwkSet' = [jwkSet EXCEPT ![w] = NoSet]
      /\ keyCache' = [keyCache EXCEPT ![w] = {}]
      /\ known' = [known EXCEPT ![w] = {}]
      /\ UNCHANGED <<startupVars, clock, tokens, retired>>
  BY DEF WorkerRestart
<1>2. SInv' /\ TokensGenuine' /\ TokensEnd'
  BY <1>1, WorkerStep
<1>3. TypeOK'
  BY <1>1, <1>2 DEF TypeOK, SInv
<1>4. CachesGenuine'
  BY <1>1 DEF TypeOK, CachesGenuine
<1>5. CachesComplete'
  BY <1>1 DEF TypeOK, CachesComplete, Names
<1> QED BY <1>2, <1>3, <1>4, <1>5

\* A request leaves only genuine keys in the caches, and forgets one only when
\* there are too many.
LEMMA AuthenticateIInv ==
    ASSUME IInv, NEW w \in Workers, NEW token \in tokens,
           NEW fetched \in {PublicJWKS(i) : i \in Serving} \cup {NoKey},
           Authenticate(w, token, fetched)
    PROVE  IInv'
<1> USE DEF IInv
<1> DEFINE found == SigningKey(w, token.kid, fetched)
<1>1. PICK cache \in Remember(keyCache[w], found) :
         /\ keyCache' = [keyCache EXCEPT ![w] = cache]
         /\ known' = [known EXCEPT ![w] = IF found = NoKey THEN known[w]
                                          ELSE known[w] \cup {found.n}]
         /\ jwkSet' = IF ~NeedsFetch(w, token.kid) THEN jwkSet
                      ELSE [jwkSet EXCEPT ![w] =
                              IF fetched = NoKey THEN NoSet
                              ELSE [jwk |-> fetched, until |-> clock + Lifespan]]
         /\ UNCHANGED <<startupVars, clock, tokens, retired>>
  BY DEF Authenticate
<1>2. SInv' /\ TokensGenuine' /\ TokensEnd'
  BY <1>1, WorkerStep
<1>3. fetched = NoKey \/ Genuine(fetched)
  BY PublishedGenuine
<1>4. found = NoKey \/ Genuine(found)
  BY <1>3, FoundGenuine
<1> HIDE DEF found
<1>5. jwkSet' \in [Workers -> [jwk : JWK, until : Nat] \cup {NoSet}]
  <2>1. fetched = NoKey \/ [jwk |-> fetched, until |-> clock + Lifespan] \in [jwk : JWK, until : Nat]
    BY <1>3, GenuineType, VerificationAssumption DEF TypeOK
  <2> QED BY <1>1, <2>1 DEF TypeOK
<1>6. \A x \in Workers : jwkSet'[x] = NoSet \/ Genuine(jwkSet'[x].jwk)
  <2>1. CASE NeedsFetch(w, token.kid) /\ fetched # NoKey
    <3>1. jwkSet' = [jwkSet EXCEPT ![w] = [jwk |-> fetched, until |-> clock + Lifespan]]
      BY <1>1, <2>1
    <3> QED BY <1>3, <2>1, <3>1 DEF TypeOK, CachesGenuine
  <2>2. CASE ~(NeedsFetch(w, token.kid) /\ fetched # NoKey)
    BY <1>1, <2>2 DEF TypeOK, CachesGenuine
  <2> QED BY <2>1, <2>2
<1>7. CASE found = NoKey
  <2>1. keyCache' = keyCache /\ known' = known
    BY <1>1, <1>7 DEF Remember, TypeOK
  <2>2. TypeOK'
    BY <1>1, <1>2, <1>5, <2>1 DEF TypeOK, SInv
  <2>3. CachesGenuine' /\ CachesComplete'
    BY <1>6, <2>1 DEF CachesGenuine, CachesComplete
  <2> QED BY <1>2, <2>2, <2>3
<1>8. CASE found # NoKey
  <2>1. Genuine(found) /\ found.n \in Keys
    BY <1>4, <1>8 DEF Genuine
  <2>2. known' = [known EXCEPT ![w] = known[w] \cup {found.n}]
    BY <1>1, <1>8
  <2>3. /\ \A jwk \in keyCache[w] : Genuine(jwk)
        /\ known[w] \in SUBSET Keys
        /\ Names(keyCache[w]) \subseteq known[w]
        /\ Cardinality(known[w]) <= MaxCachedKeys => known[w] \subseteq Names(keyCache[w])
    BY DEF CachesGenuine, CachesComplete, TypeOK
  <2>4. /\ \A jwk \in cache : Genuine(jwk)
        /\ Names(cache) \subseteq known[w] \cup {found.n}
        /\ Cardinality(known[w] \cup {found.n}) <= MaxCachedKeys
             => known[w] \cup {found.n} \subseteq Names(cache)
    BY <1>1, <1>8, <2>1, <2>3, RememberComplete
  <2>5. cache \in SUBSET JWK
    BY <2>4, GenuineType
  <2>6. TypeOK'
    BY <1>1, <1>2, <1>5, <2>1, <2>2, <2>5 DEF TypeOK, SInv
  <2>7. CachesGenuine'
    BY <1>1, <1>6, <2>4 DEF CachesGenuine, TypeOK
  <2>8. CachesComplete'
    BY <1>1, <2>2, <2>4 DEF CachesComplete, TypeOK
  <2> QED BY <1>2, <2>6, <2>7, <2>8
<1> QED BY <1>7, <1>8

\* Every step preserves the invariant.
LEMMA StepIInv == IInv /\ [Next]_vars => IInv'
<1> SUFFICES ASSUME IInv, [Next]_vars PROVE IInv'
  OBVIOUS
<1>1. CASE UNCHANGED vars
  <2>1. SInv' /\ TokensGenuine' /\ TokensEnd'
    BY <1>1, WorkerStep DEF vars
  <2>2. TypeOK'
    BY <1>1, <2>1 DEF vars, workerVars, IInv, TypeOK, SInv
  <2>3. CachesGenuine' /\ CachesComplete'
    BY <1>1 DEF vars, workerVars, IInv, CachesGenuine, CachesComplete
  <2> QED BY <2>1, <2>2, <2>3 DEF IInv
<1> QED BY <1>1, AuthdIInv, IssueIInv, AuthenticateIInv, RestartIInv, TickIInv DEF Next

LEMMA Invariant == Spec => []IInv
BY InitIInv, StepIInv, PTL DEF Spec

-----------------------------------------------------------------------------
(* The theorems. *)

\* The type invariant of token verification.
THEOREM TypeCorrect == Spec => []TypeOK
<1>1. IInv => TypeOK
  BY DEF IInv
<1> QED BY <1>1, Invariant, PTL

\* The schema is whole in the composed system as well.
THEOREM SchemaStaysWhole == Spec => []SchemaWhole
<1>1. IInv => SchemaWhole
  BY SInvWhole DEF IInv
<1> QED BY <1>1, Invariant, PTL

\* A token of a key in use is accepted by every worker that reaches its
\* instance, whatever jwk_client() (posts and related jwtauth.py) has cached.
THEOREM CurrentAccepted == Spec => []CurrentTokenAccepted
<1>1. IInv => CurrentTokenAccepted
  <2> SUFFICES ASSUME IInv, NEW w \in Workers, NEW i \in Serving, NEW token \in tokens,
                      token.key = key[i], clock < token.exp
               PROVE  Accepts(w, token, PublicJWKS(i))
    BY DEF CurrentTokenAccepted
  <2>1. Genuine(PublicJWKS(i)) /\ PublicJWKS(i) # NoKey
    BY PublishedGenuine DEF IInv
  <2>2. PublicJWKS(i).kid = token.kid
    BY DEF PublicJWKS, IInv, TokensGenuine
  <2>3. SigningKey(w, token.kid, PublicJWKS(i)) # NoKey
    <3>1. ASSUME NEW jwk, Genuine(jwk) PROVE jwk # NoKey
      BY <3>1, KeyIDs DEF Genuine, Document, NoKey
    <3>2. CASE InCache(w, token.kid)
      BY <3>1, <3>2 DEF InCache, SigningKey, IInv, CachesGenuine
    <3>3. CASE ~InCache(w, token.kid) /\ InSet(w, token.kid)
      BY <3>1, <3>3 DEF InSet, SigningKey, IInv, CachesGenuine
    <3>4. CASE ~InCache(w, token.kid) /\ ~InSet(w, token.kid)
      BY <2>1, <2>2, <3>4 DEF SigningKey
    <3> QED BY <3>2, <3>3, <3>4
  <2>4. /\ Genuine(SigningKey(w, token.kid, PublicJWKS(i)))
        /\ SigningKey(w, token.kid, PublicJWKS(i)).kid = token.kid
    BY <2>1, <2>3, FoundGenuine DEF IInv
  <2> QED BY <2>4, GenuineVerifies DEF Accepts, IInv
<1> QED BY <1>1, Invariant, PTL

\* Once found, a key verifies tokens with authd down or restarted, as the module
\* comments of both jwtauth.py say, while the client remembers it.
THEOREM AuthdNotNeeded == Spec => []VerifiesWithoutAuthd
<1>1. IInv => VerifiesWithoutAuthd
  <2> SUFFICES ASSUME IInv, NEW w \in Workers, NEW token \in tokens,
                      token.key \in known[w], Cardinality(known[w]) <= MaxCachedKeys,
                      clock < token.exp
               PROVE  Accepts(w, token, NoKey)
    BY DEF VerifiesWithoutAuthd
  <2>1. PICK jwk \in keyCache[w] : jwk.n = token.key
    BY DEF IInv, CachesComplete, Names
  <2>2. jwk.kid = token.kid
    <3>1. jwk.kid = KeyID(jwk.n)
      <4>1. Genuine(jwk)
        BY <2>1 DEF IInv, CachesGenuine
      <4>2. Document(jwk.n).kid = KeyID(jwk.n)
        BY DEF Document
      <4> QED BY <4>1, <4>2 DEF Genuine
    <3> QED BY <2>1, <3>1 DEF IInv, TokensGenuine
  <2>3. InCache(w, token.kid)
    BY <2>2 DEF InCache
  <2>4. /\ SigningKey(w, token.kid, NoKey) \in keyCache[w]
        /\ SigningKey(w, token.kid, NoKey).kid = token.kid
    BY <2>3 DEF InCache, SigningKey
  <2>5. Genuine(SigningKey(w, token.kid, NoKey))
    BY <2>4 DEF IInv, CachesGenuine
  <2> QED BY <2>4, <2>5, GenuineVerifies DEF Accepts, IInv
<1> QED BY <1>1, Invariant, PTL

\* Tokens of a key authd has given up are accepted for at most one access
\* lifetime (IssueAccess, tokens.go) after it has.
THEOREM OldKeysEnd == Spec => []OldKeyBounded
<1>1. IInv => OldKeyBounded
  <2> SUFFICES ASSUME IInv, NEW w \in Workers, NEW token \in tokens,
                      token.key \notin Live, Accepts(w, token, NoKey)
               PROVE  clock < retired[token.key] + AccessTTL
    BY DEF OldKeyBounded
  <2>1. clock < token.exp /\ token.exp <= retired[token.key] + AccessTTL
    BY DEF Accepts, Verifies, IInv, TokensEnd
  <2>2. clock \in Nat /\ token.exp \in Nat /\ retired[token.key] \in Nat
    BY DEF IInv, TypeOK, AccessToken
  <2> QED BY <2>1, <2>2, VerificationAssumption
<1> QED BY <1>1, Invariant, PTL

=============================================================================
