-------------------------- MODULE Revocation_proofs --------------------------
(***************************************************************************)
(* Proofs about Revocation, for any number of authd processes, tokens and  *)
(* faults: a token refused once is not accepted before it expires, no      *)
(* offset is committed past a revocation that is not enforced, and the     *)
(* relay that holds no locks still implements AtLeastOnce.  The            *)
(* strengthening speaks of what a consumer has read rather than committed, *)
(* of the events the related service will not apply again, of what a       *)
(* relay has written, and of the tokens requests were refused for.         *)
(***************************************************************************)
EXTENDS Revocation, TLAPS

InLog(e) == \E i \in 1..Len(log) : log[i] = e

Handled(s, i) == (s = "related" /\ log[i] \in skipped) \/ Enforced(s, outbox[log[i]])

ReadIsEnforced == \A s \in Services : \A i \in 1..position[s] : Handled(s, i)
RelatedEnforces(e) == Enforced("related", outbox[e])
ProcessedIsEnforced == \A e \in processed : RelatedEnforces(e)
WrittenIsInLog == \A r \in Instances : \A e \in ids[r] \ unwritten[r] : InLog(e)

IInv == TypeOK /\ ReadIsEnforced /\ ProcessedIsEnforced /\ WrittenIsInLog

\* What is appended to stays as it was, and what is enforced stays enforced.
EnforcedKept == \A s \in Services, t \in Tokens : Enforced(s, t) => Enforced(s, t)'
Grows ==
    /\ Len(outbox) <= Len(outbox') /\ \A e \in Rows : outbox'[e] = outbox[e]
    /\ Len(log) <= Len(log') /\ \A i \in 1..Len(log) : log'[i] = log[i]
    /\ skipped \subseteq skipped'
    /\ EnforcedKept

\* The initial state satisfies the invariant.
LEMMA InitIInv == Init => IInv
<1> SUFFICES ASSUME Init PROVE IInv
  OBVIOUS
<1>1. TypeOK
  BY DEF Init, TypeOK, Rows, Services
<1>2. ReadIsEnforced /\ ProcessedIsEnforced /\ WrittenIsInLog
  BY DEF Init, ReadIsEnforced, ProcessedIsEnforced, WrittenIsInLog, Services
<1> QED BY <1>1, <1>2 DEF IInv

\* What TypeOK says of single rows and records.
LEMMA Basics ==
    ASSUME TypeOK
    PROVE  /\ now \in Nat
           /\ Len(outbox) \in Nat /\ Len(log) \in Nat
           /\ \A e \in Rows : outbox[e] \in Tokens
           /\ \A i \in 1..Len(log) : log[i] \in Rows
           /\ \A s \in Services : /\ position[s] \in Nat /\ committed[s] \in Nat
                                  /\ committed[s] <= position[s] /\ position[s] <= Len(log)
<1>1. Len(outbox) \in Nat /\ \A e \in Rows : outbox[e] \in Tokens
  BY DEF TypeOK, Rows
<1>2. Len(log) \in Nat /\ \A i \in 1..Len(log) : log[i] \in Rows
  BY DEF TypeOK
<1> QED BY <1>1, <1>2 DEF TypeOK

\* A step that leaves the tables and the clock alone keeps all enforced.
LEMMA SameTables ==
    ASSUME UNCHANGED <<denied, now>>
    PROVE  EnforcedKept
BY DEF EnforcedKept, Enforced

\* Rows and records that are enforced stay enforced when the state grows.
LEMMA GrowsKeeps ==
    ASSUME IInv, Grows
    PROVE  /\ \A s \in Services : \A i \in 1..position[s] : Handled(s, i)'
           /\ \A e \in processed : RelatedEnforces(e)'
           /\ \A e \in Rows : InLog(e) => InLog(e)'
<1>1. ASSUME NEW s \in Services, NEW i \in 1..position[s] PROVE Handled(s, i)'
  <2>1. /\ i \in 1..Len(log) /\ log'[i] = log[i]
        /\ log[i] \in Rows /\ outbox'[log[i]] = outbox[log[i]] /\ outbox[log[i]] \in Tokens
    BY Basics DEF IInv, Grows
  <2>2. PICK t \in Tokens : t = outbox[log[i]]
    BY <2>1
  <2>3. Handled(s, i)
    BY DEF IInv, ReadIsEnforced
  <2>4. Enforced(s, t) => Enforced(s, t)'
    BY DEF Grows, EnforcedKept
  <2>5. (s = "related" /\ log'[i] \in skipped') \/ Enforced(s, t)'
    BY <2>1, <2>2, <2>3, <2>4 DEF Handled, Grows
  <2> QED BY <2>1, <2>2, <2>5 DEF Handled, Enforced
<1>2. ASSUME NEW e \in processed PROVE RelatedEnforces(e)'
  <2>1. e \in Rows /\ outbox'[e] = outbox[e] /\ outbox[e] \in Tokens
    BY Basics DEF IInv, TypeOK, Grows
  <2>2. PICK t \in Tokens : t = outbox[e]
    BY <2>1
  <2>3. Enforced("related", t)'
    BY <2>2 DEF IInv, ProcessedIsEnforced, RelatedEnforces, Grows, EnforcedKept, Services
  <2> QED BY <2>1, <2>2, <2>3 DEF Enforced, RelatedEnforces
<1>3. ASSUME NEW e \in Rows, InLog(e) PROVE InLog(e)'
  BY <1>3, Basics DEF IInv, Grows, InLog
<1> QED BY <1>1, <1>2, <1>3

\* A step that grows the state, reads no record and marks no event processed
\* keeps the invariant if it keeps the types and what the relays have written.
LEMMA NoReadKeeps ==
    ASSUME IInv, Grows, TypeOK', processed' = processed,
           \A s \in Services : position'[s] <= position[s],
           \A r \in Instances : \A e \in ids'[r] \ unwritten'[r] : e \in Rows /\ InLog(e)'
    PROVE  IInv'
<1>1. ReadIsEnforced'
  <2>1. \A s \in Services : 1..position'[s] \subseteq 1..position[s]
    BY Basics DEF IInv, TypeOK
  <2> QED BY <2>1, GrowsKeeps DEF ReadIsEnforced
<1>2. ProcessedIsEnforced'
  BY GrowsKeeps DEF ProcessedIsEnforced
<1>3. WrittenIsInLog'
  BY DEF WrittenIsInLog
<1> QED BY <1>1, <1>2, <1>3 DEF IInv

-----------------------------------------------------------------------------

\* The clock and the clients.
LEMMA OutsideStep ==
    ASSUME IInv, Tick \/ \E t \in Tokens : RevokeAccessToken(t)
    PROVE  IInv' /\ Grows
<1>1. CASE Tick
  <2>1. /\ UNCHANGED <<outbox, published, log, ids, unwritten, denied, processed, skipped,
                      position, committed, pc, faults, checked, refused>>
        /\ now' = now + 1
    BY <1>1 DEF Tick, relayVars, tableVars, groupVars, requestVars
  <2>2. TypeOK'
    BY <2>1 DEF IInv, TypeOK, Rows
  <2>3. EnforcedKept
    BY <2>1, Basics, ExpiryAssumption DEF IInv, EnforcedKept, Enforced
  <2>4. Grows
    BY <2>1, <2>3, Basics DEF IInv, Grows
  <2>5. \A r \in Instances : \A e \in ids'[r] \ unwritten'[r] : e \in Rows /\ InLog(e)'
    BY <2>1 DEF IInv, TypeOK, WrittenIsInLog, InLog
  <2>6. \A s \in Services : position'[s] <= position[s]
    BY <2>1, Basics DEF IInv
  <2> QED BY <2>1, <2>2, <2>4, <2>5, <2>6, NoReadKeeps
<1>2. ASSUME NEW t \in Tokens, RevokeAccessToken(t) PROVE IInv' /\ Grows
  <2>1. /\ UNCHANGED <<now, published, log, ids, unwritten, denied, processed, skipped,
                      position, committed, pc, faults, checked, refused>>
        /\ outbox' = Append(outbox, t)
    BY <1>2 DEF RevokeAccessToken, relayVars, tableVars, groupVars, requestVars
  <2>2. /\ outbox' \in Seq(Tokens) /\ Len(outbox') = Len(outbox) + 1
        /\ \A e \in Rows : outbox'[e] = outbox[e]
        /\ Rows \subseteq Rows'
    BY <2>1 DEF IInv, TypeOK, Rows
  <2>3. log \in Seq(Rows')
    BY <2>2, Basics DEF IInv, TypeOK
  <2>4. TypeOK'
    BY <2>1, <2>2, <2>3 DEF IInv, TypeOK
  <2>5. Grows
    <3>1. EnforcedKept
      BY <2>1, SameTables
    <3>2. Len(outbox) <= Len(outbox') /\ Len(log) <= Len(log')
      BY <2>1, <2>2, Basics DEF IInv
    <3> QED BY <2>1, <2>2, <3>1, <3>2 DEF Grows
  <2>6. \A r \in Instances : \A e \in ids'[r] \ unwritten'[r] : e \in Rows /\ InLog(e)'
    BY <2>1 DEF IInv, TypeOK, WrittenIsInLog, InLog
  <2>7. \A s \in Services : position'[s] <= position[s]
    BY <2>1, Basics DEF IInv
  <2> QED BY <2>1, <2>4, <2>5, <2>6, <2>7, NoReadKeeps
<1> QED BY <1>1, <1>2

\* The relay changes no table and no offset; appending leaves the records there.
LEMMA RelayKeeps ==
    ASSUME IInv, TypeOK',
           UNCHANGED <<now, outbox, denied, processed, skipped, position>>,
           log' = log \/ \E e \in Rows : log' = Append(log, e),
           \A r \in Instances : \A e \in ids'[r] \ unwritten'[r] : e \in Rows /\ InLog(e)'
    PROVE  IInv' /\ Grows
<1>1. Len(log) <= Len(log') /\ \A i \in 1..Len(log) : log'[i] = log[i]
  BY Basics DEF IInv, TypeOK
<1>2. Grows
  BY <1>1, SameTables, Basics DEF IInv, Grows
<1>3. \A s \in Services : position'[s] <= position[s]
  BY Basics DEF IInv
<1> QED BY <1>2, <1>3, NoReadKeeps

\* What a relay claims it has yet to write, and what it drops is not asked for.
LEMMA ClaimOrEnd ==
    ASSUME IInv, NEW r \in Instances,
           UNCHANGED <<now, outbox, log, denied, processed, skipped, position, committed,
                       pc, checked, refused>>,
           published' = published \/ published' = published \cup ids[r],
           faults' \in Nat,
           NEW C \in SUBSET Rows,
           ids' = [ids EXCEPT ![r] = C], unwritten' = [unwritten EXCEPT ![r] = C]
    PROVE  IInv' /\ Grows
<1>1. TypeOK'
  BY DEF IInv, TypeOK, Rows
<1>2. \A q \in Instances : \A e \in ids'[q] \ unwritten'[q] : e \in Rows /\ InLog(e)'
  BY DEF IInv, TypeOK, WrittenIsInLog, InLog
<1> QED BY <1>1, <1>2, RelayKeeps

LEMMA RelayStepKeeps ==
    ASSUME IInv, NEW r \in Instances, RelayStep(r)
    PROVE  IInv' /\ Grows
<1>1. CASE ClaimOutbox(r)
  <2>1. Oldest(Unpublished, BatchSize) \in SUBSET Rows
    BY DEF Oldest, Unpublished
  <2> QED BY <1>1, <2>1, ClaimOrEnd
          DEF ClaimOutbox, tableVars, groupVars, requestVars, IInv, TypeOK
<1>2. CASE WriteMessage(r)
  <2>1. PICK e \in unwritten[r] :
            /\ log' = Append(log, e)
            /\ unwritten' = [unwritten EXCEPT ![r] = @ \ {e}]
    BY <1>2 DEF WriteMessage
  <2>2. UNCHANGED <<now, outbox, published, ids, denied, processed, skipped, position,
                    committed, pc, faults, checked, refused>>
    BY <1>2 DEF WriteMessage, tableVars, groupVars, requestVars
  <2>3. e \in Rows
    BY <2>1 DEF IInv, TypeOK
  <2>4. /\ log' \in Seq(Rows) /\ Len(log') = Len(log) + 1
        /\ log'[Len(log')] = e
        /\ \A i \in 1..Len(log) : log'[i] = log[i]
    BY <2>1, <2>3 DEF IInv, TypeOK
  <2>5. TypeOK'
    <3>1. /\ unwritten' \in [Instances -> SUBSET Rows]
          /\ \A q \in Instances : unwritten'[q] \subseteq ids[q]
      BY <2>1 DEF IInv, TypeOK
    <3>2. \A s \in Services : committed[s] <= position[s] /\ position[s] <= Len(log')
      BY <2>4, Basics DEF IInv
    <3> QED BY <2>2, <2>4, <3>1, <3>2 DEF IInv, TypeOK, Rows
  <2>6. InLog(e)' /\ \A f : InLog(f) => InLog(f)'
    BY <2>4, Basics DEF IInv, InLog
  <2>7. \A q \in Instances : \A f \in ids'[q] \ unwritten'[q] : f \in Rows /\ InLog(f)'
    BY <2>1, <2>2, <2>3, <2>6 DEF IInv, TypeOK, WrittenIsInLog
  <2> QED BY <2>1, <2>2, <2>3, <2>5, <2>7, RelayKeeps
<1>3. CASE MarkPublished(r)
  <2>1. /\ UNCHANGED <<now, outbox, log, denied, processed, skipped, position, committed,
                       pc, checked, refused>>
        /\ published' = published \cup ids[r]
        /\ ids' = [ids EXCEPT ![r] = {}] /\ unwritten' = [unwritten EXCEPT ![r] = {}]
    BY <1>3 DEF MarkPublished, EndBatch, tableVars, groupVars, requestVars
  <2>2. faults' \in Nat /\ {} \in SUBSET Rows
    BY <1>3 DEF MarkPublished, IInv, TypeOK
  <2> QED BY <2>1, <2>2, ClaimOrEnd
<1> QED BY <1>1, <1>2, <1>3 DEF RelayStep

LEMMA RelayFaultKeeps ==
    ASSUME IInv, NEW r \in Instances,
           AckLost(r) \/ WriteFails(r) \/ MarkFails(r) \/ AuthdCrash(r)
    PROVE  IInv' /\ Grows
<1>1. CASE AckLost(r)
  <2>1. PICK e \in unwritten[r] : log' = Append(log, e)
    BY <1>1 DEF AckLost
  <2>2. /\ UNCHANGED <<now, outbox, published, ids, unwritten, denied, processed, skipped,
                      position, committed, pc, checked, refused>>
        /\ faults' = faults + 1
    BY <1>1 DEF AckLost, Fault, relayVars, tableVars, groupVars, requestVars
  <2>3. e \in Rows
    BY <2>1 DEF IInv, TypeOK
  <2>4. /\ log' \in Seq(Rows) /\ Len(log') = Len(log) + 1
        /\ \A i \in 1..Len(log) : log'[i] = log[i]
    BY <2>1, <2>3 DEF IInv, TypeOK
  <2>5. TypeOK'
    BY <2>2, <2>4, Basics DEF IInv, TypeOK, Rows
  <2>6. \A f : InLog(f) => InLog(f)'
    BY <2>4, Basics DEF IInv, InLog
  <2>7. \A q \in Instances : \A f \in ids'[q] \ unwritten'[q] : f \in Rows /\ InLog(f)'
    BY <2>2, <2>6 DEF IInv, TypeOK, WrittenIsInLog
  <2> QED BY <2>1, <2>2, <2>3, <2>5, <2>7, RelayKeeps
<1>2. CASE WriteFails(r) \/ MarkFails(r) \/ AuthdCrash(r)
  <2>1. /\ UNCHANGED <<now, outbox, log, denied, processed, skipped, position, committed,
                       pc, checked, refused>>
        /\ published' = published
        /\ ids' = [ids EXCEPT ![r] = {}] /\ unwritten' = [unwritten EXCEPT ![r] = {}]
        /\ faults' = faults + 1
    BY <1>2 DEF WriteFails, MarkFails, AuthdCrash, EndBatch, Fault, tableVars, groupVars,
    requestVars
  <2>2. faults' \in Nat /\ {} \in SUBSET Rows
    BY <2>1 DEF IInv, TypeOK
  <2> QED BY <2>1, <2>2, ClaimOrEnd
<1> QED BY <1>1, <1>2

-----------------------------------------------------------------------------

\* A consumer that starts over reads again what it has not committed.
LEMMA RestartKeeps ==
    ASSUME IInv, NEW s \in Services, Restart(s), faults' = faults + 1
    PROVE  IInv' /\ Grows
<1>1. /\ UNCHANGED <<now, outbox, published, log, ids, unwritten, denied, processed,
                     skipped,
                    committed, checked, refused>>
      /\ position' = [position EXCEPT ![s] = committed[s]]
      /\ pc' = [pc EXCEPT ![s] = "poll"]
  BY DEF Restart, ResumeAt, relayVars, tableVars, requestVars
<1>2. \A q \in Services : /\ position'[q] \in Nat /\ position'[q] <= position[q]
                         /\ committed[q] <= position'[q] /\ position'[q] <= Len(log)
  BY <1>1, Basics DEF IInv, TypeOK
<1>3. position' \in [Services -> Nat] /\ pc' \in [Services -> {"poll", "commit"}]
  BY <1>1, <1>2 DEF IInv, TypeOK
<1>4. TypeOK'
  BY <1>1, <1>2, <1>3 DEF IInv, TypeOK, Rows
<1>5. EnforcedKept
  BY <1>1, SameTables
<1>6. Grows
  BY <1>1, <1>5, Basics DEF IInv, Grows
<1>7. \A r \in Instances : \A e \in ids'[r] \ unwritten'[r] : e \in Rows /\ InLog(e)'
  BY <1>1 DEF IInv, TypeOK, WrittenIsInLog, InLog
<1> QED BY <1>1, <1>2, <1>4, <1>6, <1>7, NoReadKeeps

\* A commit moves the committed offset to what has been read.
LEMMA CommitKeeps ==
    ASSUME IInv, NEW s \in Services, CommitOffset(s)
    PROVE  IInv' /\ Grows
<1>1. /\ UNCHANGED <<now, outbox, published, log, ids, unwritten, denied, processed,
                     skipped,
                    position, faults, checked, refused>>
      /\ committed' = [committed EXCEPT ![s] = position[s]]
      /\ pc' = [pc EXCEPT ![s] = "poll"]
  BY DEF CommitOffset, relayVars, tableVars, requestVars
<1>2. \A q \in Services : committed'[q] \in Nat /\ committed'[q] <= position[q]
  BY <1>1, Basics DEF IInv, TypeOK
<1>3. committed' \in [Services -> Nat] /\ pc' \in [Services -> {"poll", "commit"}]
  BY <1>1, <1>2 DEF IInv, TypeOK
<1>4. TypeOK'
  BY <1>1, <1>2, <1>3 DEF IInv, TypeOK, Rows
<1>5. EnforcedKept
  BY <1>1, SameTables
<1>6. Grows
  BY <1>1, <1>5, Basics DEF IInv, Grows
<1>7. \A r \in Instances : \A e \in ids'[r] \ unwritten'[r] : e \in Rows /\ InLog(e)'
  BY <1>1 DEF IInv, TypeOK, WrittenIsInLog, InLog
<1>8. \A q \in Services : position'[q] <= position[q]
  BY <1>1, Basics DEF IInv
<1> QED BY <1>1, <1>4, <1>6, <1>7, <1>8, NoReadKeeps

\* The purge drops only rows whose tokens have expired.
LEMMA PurgeKeeps ==
    ASSUME IInv, PostsPurge
    PROVE  IInv' /\ Grows
<1>1. /\ UNCHANGED <<now, outbox, published, log, ids, unwritten, processed, skipped,
                    position, committed, pc, faults, checked, refused>>
      /\ denied' = [denied EXCEPT !["posts"] = denied["posts"] \ Expired(denied["posts"])]
  BY DEF PostsPurge, relayVars, groupVars, requestVars
<1>2. TypeOK'
  BY <1>1 DEF IInv, TypeOK, Rows
<1>3. EnforcedKept
  BY <1>1, Basics, ExpiryAssumption DEF IInv, TypeOK, EnforcedKept, Enforced, Expired
<1>4. Grows
  BY <1>1, <1>3, Basics DEF IInv, Grows
<1>5. \A r \in Instances : \A e \in ids'[r] \ unwritten'[r] : e \in Rows /\ InLog(e)'
  BY <1>1 DEF IInv, TypeOK, WrittenIsInLog, InLog
<1>6. \A q \in Services : position'[q] <= position[q]
  BY <1>1, Basics DEF IInv
<1> QED BY <1>1, <1>2, <1>4, <1>5, <1>6, NoReadKeeps

\* Reading a record: it is enforced afterwards, or skipped.
LEMMA ReadKeeps ==
    ASSUME IInv, TypeOK', NEW s \in Services, position[s] < Len(log),
           UNCHANGED <<now, outbox, log, ids, unwritten>>,
           position' = [position EXCEPT ![s] = @ + 1],
           skipped \subseteq skipped', EnforcedKept,
           NEW k, k = position[s] + 1, Handled(s, k)',
           NEW e, processed' = processed
                    \/ (processed' = processed \cup {e} /\ RelatedEnforces(e)')
    PROVE  IInv' /\ Grows
<1>1. Grows
  BY Basics DEF IInv, Grows
<1>2. ReadIsEnforced'
  <2> SUFFICES ASSUME NEW q \in Services, NEW i \in 1..position'[q]
               PROVE  Handled(q, i)'
    BY DEF ReadIsEnforced
  <2>1. CASE i \in 1..position[q]
    BY <1>1, <2>1, GrowsKeeps
  <2>2. CASE i \notin 1..position[q]
    <3>1. q = s /\ i = k
      BY <2>2, Basics DEF IInv, TypeOK
    <3> QED BY <3>1
  <2> QED BY <2>1, <2>2
<1>3. ProcessedIsEnforced'
  BY <1>1, GrowsKeeps DEF ProcessedIsEnforced
<1>4. WrittenIsInLog'
  BY DEF IInv, WrittenIsInLog, InLog
<1> QED BY <1>1, <1>2, <1>3, <1>4 DEF IInv

LEMMA PostsApplyKeeps ==
    ASSUME IInv, PostsApply
    PROVE  IInv' /\ Grows
<1>1. PICK k, e, t : k = position["posts"] + 1 /\ e = log[k] /\ t = outbox[e]
  OBVIOUS
<1>2. /\ UNCHANGED <<now, outbox, published, log, ids, unwritten, processed, skipped,
                    committed, faults, checked, refused>>
      /\ position["posts"] < Len(log)
      /\ denied' = [denied EXCEPT !["posts"] = @ \cup {t}]
      /\ position' = [position EXCEPT !["posts"] = @ + 1]
      /\ pc' = [pc EXCEPT !["posts"] = "commit"]
  BY <1>1 DEF PostsApply, HasNext, NextRow, relayVars, requestVars
<1>3. "posts" \in Services /\ k \in 1..Len(log) /\ e \in Rows /\ t \in Tokens
  BY <1>1, <1>2, Basics DEF IInv, Services
<1>4. TypeOK'
  <2>1. \A q \in Services : /\ position'[q] \in Nat
                           /\ committed[q] <= position'[q] /\ position'[q] <= Len(log)
    BY <1>2, <1>3, Basics DEF IInv, TypeOK
  <2>2. /\ position' \in [Services -> Nat] /\ pc' \in [Services -> {"poll", "commit"}]
        /\ denied' \in [Services -> SUBSET Tokens]
    BY <1>2, <1>3, <2>1 DEF IInv, TypeOK
  <2> QED BY <1>2, <2>1, <2>2 DEF IInv, TypeOK, Rows
<1>5. EnforcedKept
  BY <1>2 DEF IInv, TypeOK, EnforcedKept, Enforced
<1>6. Handled("posts", k)'
  BY <1>1, <1>2, <1>3 DEF IInv, TypeOK, Handled, Enforced
<1> QED BY <1>1, <1>2, <1>3, <1>4, <1>5, <1>6, ReadKeeps

LEMMA RelatedHandleKeeps ==
    ASSUME IInv, RelatedHandle
    PROVE  IInv' /\ Grows
<1>1. PICK k, e, t : k = position["related"] + 1 /\ e = log[k] /\ t = outbox[e]
  OBVIOUS
<1>2. /\ UNCHANGED <<now, outbox, published, log, ids, unwritten, skipped, committed,
                     faults, checked, refused>>
      /\ position["related"] < Len(log)
      /\ denied' = IF e \in processed THEN denied
                   ELSE [denied EXCEPT !["related"] = ApplyTokenRevoked(@, t)]
      /\ processed' = processed \cup {e}
      /\ position' = [position EXCEPT !["related"] = @ + 1]
      /\ pc' = [pc EXCEPT !["related"] = "commit"]
  BY <1>1 DEF RelatedHandle, HasNext, NextRow, relayVars, requestVars
<1>3. "related" \in Services /\ k \in 1..Len(log) /\ e \in Rows /\ t \in Tokens
  BY <1>1, <1>2, Basics DEF IInv, Services
<1>4. TypeOK'
  <2>1. \A q \in Services : /\ position'[q] \in Nat
                           /\ committed[q] <= position'[q] /\ position'[q] <= Len(log)
    BY <1>2, <1>3, Basics DEF IInv, TypeOK
  <2>2. /\ position' \in [Services -> Nat] /\ pc' \in [Services -> {"poll", "commit"}]
    BY <1>2, <1>3, <2>1 DEF IInv, TypeOK
  <2>3. denied' \in [Services -> SUBSET Tokens]
    BY <1>2, <1>3 DEF IInv, TypeOK, ApplyTokenRevoked
  <2>4. processed' \in SUBSET Rows
    BY <1>2, <1>3 DEF IInv, TypeOK
  <2> QED BY <1>2, <2>1, <2>2, <2>3, <2>4 DEF IInv, TypeOK, Rows
<1>5. EnforcedKept
  BY <1>2, <1>3, Basics, ExpiryAssumption
  DEF IInv, TypeOK, EnforcedKept, Enforced, ApplyTokenRevoked, Expired
<1>6. Enforced("related", t)'
  <2>1. CASE e \in processed
    BY <1>1, <1>2, <2>1 DEF IInv, ProcessedIsEnforced, RelatedEnforces, Enforced
  <2>2. CASE e \notin processed
    BY <1>2, <1>3, <2>2, Basics, ExpiryAssumption
    DEF IInv, TypeOK, Enforced, ApplyTokenRevoked, Expired
  <2> QED BY <2>1, <2>2
<1>7. Handled("related", k)' /\ RelatedEnforces(e)'
  BY <1>1, <1>2, <1>6 DEF Handled, RelatedEnforces, Enforced
<1> QED BY <1>1, <1>2, <1>3, <1>4, <1>5, <1>7, ReadKeeps

LEMMA RelatedDbErrorKeeps ==
    ASSUME IInv, RelatedDbError
    PROVE  IInv' /\ Grows
<1>1. PICK k, e : k = position["related"] + 1 /\ e = log[k]
  OBVIOUS
<1>2. /\ UNCHANGED <<now, outbox, published, log, ids, unwritten, denied, processed,
                    committed, pc, checked, refused>>
      /\ position["related"] < Len(log)
      /\ skipped' = skipped \cup {e}
      /\ position' = [position EXCEPT !["related"] = @ + 1]
      /\ faults' = faults + 1
  BY <1>1 DEF RelatedDbError, Fault, HasNext, NextRow, relayVars, requestVars
<1>3. "related" \in Services /\ k \in 1..Len(log) /\ e \in Rows
  BY <1>1, <1>2, Basics DEF IInv, Services
<1>4. TypeOK'
  <2>1. \A q \in Services : /\ position'[q] \in Nat
                           /\ committed[q] <= position'[q] /\ position'[q] <= Len(log)
    BY <1>2, <1>3, Basics DEF IInv, TypeOK
  <2>2. position' \in [Services -> Nat]
    BY <1>2, <1>3, <2>1 DEF IInv, TypeOK
  <2> QED BY <1>2, <1>3, <2>1, <2>2 DEF IInv, TypeOK, Rows
<1>5. EnforcedKept
  BY <1>2, SameTables
<1>6. Handled("related", k)'
  BY <1>1, <1>2 DEF Handled
<1> QED BY <1>1, <1>2, <1>3, <1>4, <1>5, <1>6, ReadKeeps

\* Requests change nothing the consumers or the relay look at.
LEMMA RequestKeeps ==
    ASSUME IInv, NEW s \in Services, NEW t \in Tokens, CheckExpiry(s, t) \/ LookUp(s, t)
    PROVE  IInv' /\ Grows
<1>1. UNCHANGED <<now, outbox, published, log, ids, unwritten, denied, processed, skipped,
                  position, committed, pc, faults>>
  BY DEF CheckExpiry, LookUp, relayVars, tableVars, groupVars
<1>2. checked' \in [Services -> SUBSET Tokens] /\ refused' \in [Services -> SUBSET Tokens]
  <2>1. checked \in [Services -> SUBSET Tokens] /\ refused \in [Services -> SUBSET Tokens]
    BY DEF IInv, TypeOK
  <2>2. CASE CheckExpiry(s, t)
    BY <2>1, <2>2 DEF CheckExpiry
  <2>3. ASSUME LookUp(s, t), NEW S \in SUBSET Tokens,
               S = IF t \in denied[s] THEN refused[s] \cup {t} ELSE refused[s] \ {t}
        PROVE  checked' = checked /\ refused' \in [Services -> SUBSET Tokens]
    <3>1. checked' = checked /\ refused' = [refused EXCEPT ![s] = S]
      BY <2>3 DEF LookUp
    <3> QED BY <2>1, <3>1
  <2>4. refused[s] \cup {t} \in SUBSET Tokens /\ refused[s] \ {t} \in SUBSET Tokens
    BY <2>1
  <2>5. CASE LookUp(s, t)
    BY <2>1, <2>3, <2>4, <2>5
  <2> QED BY <2>2, <2>5
<1>3. TypeOK'
  BY <1>1, <1>2 DEF IInv, TypeOK, Rows
<1>4. EnforcedKept
  BY <1>1, SameTables
<1>5. Grows
  BY <1>1, <1>4, Basics DEF IInv, Grows
<1>6. \A r \in Instances : \A e \in ids'[r] \ unwritten'[r] : e \in Rows /\ InLog(e)'
  BY <1>1 DEF IInv, TypeOK, WrittenIsInLog, InLog
<1>7. \A q \in Services : position'[q] <= position[q]
  BY <1>1, Basics DEF IInv
<1> QED BY <1>1, <1>3, <1>5, <1>6, <1>7, NoReadKeeps

-----------------------------------------------------------------------------

\* Every step grows the state and keeps the invariant.
LEMMA StepKeeps == IInv /\ [Next]_vars => IInv' /\ EnforcedKept
<1> SUFFICES ASSUME IInv, [Next]_vars PROVE IInv' /\ EnforcedKept
  OBVIOUS
<1>1. CASE Tick \/ \E t \in Tokens : RevokeAccessToken(t)
  BY <1>1, OutsideStep DEF Grows
<1>2. CASE \E r \in Instances : RelayStep(r)
  BY <1>2, RelayStepKeeps DEF Grows
<1>3. CASE ConsumerStep
  BY <1>3, PostsApplyKeeps, RelatedHandleKeeps, CommitKeeps DEF ConsumerStep, Grows
<1>4. CASE PostsPurge
  BY <1>4, PurgeKeeps DEF Grows
<1>5. CASE Disturb
  <2>1. ASSUME NEW s \in Services, ConsumerCrash(s) PROVE IInv' /\ Grows
    BY <2>1, RestartKeeps DEF ConsumerCrash, Fault
  <2>2. ASSUME PostsDbError PROVE IInv' /\ Grows
    <3>1. "posts" \in Services /\ Restart("posts") /\ faults' = faults + 1
      BY <2>2 DEF PostsDbError, Fault, Services
    <3> QED BY <3>1, RestartKeeps
  <2> QED BY <1>5, <2>1, <2>2, RelayFaultKeeps, RelatedDbErrorKeeps DEF Disturb, Grows
<1>6. CASE UNCHANGED vars
  <2>1. TypeOK' /\ ReadIsEnforced' /\ ProcessedIsEnforced' /\ WrittenIsInLog'
    BY <1>6 DEF vars, IInv, TypeOK, Rows, ReadIsEnforced, Handled, ProcessedIsEnforced,
                RelatedEnforces, Enforced, WrittenIsInLog, InLog
  <2> QED BY <1>6, <2>1, SameTables DEF vars, IInv
<1>7. CASE \E s \in Services, t \in Tokens : CheckExpiry(s, t) \/ LookUp(s, t)
  BY <1>7, RequestKeeps DEF Grows
<1> QED BY <1>1, <1>2, <1>3, <1>4, <1>5, <1>6, <1>7 DEF Next

\* The inductive invariant holds in every reachable state.
LEMMA IInvHolds == Spec => []IInv
<1>1. IInv /\ [Next]_vars => IInv'
  BY StepKeeps
<1> QED BY <1>1, InitIInv, PTL DEF Spec

\* What a request was refused for is enforced from then on.
RefusedIsEnforced == \A s \in Services : \A t \in refused[s] : Enforced(s, t)

\* A step that adds a token to the refused ones has found it in the table, and one
\* that takes it off has not.
LEMMA StepRefused ==
    ASSUME IInv, RefusedIsEnforced, [Next]_vars
    PROVE  /\ RefusedIsEnforced'
           /\ \A s \in Services : \A t \in refused[s] \ refused'[s] : now >= ExpiresAt(t)
<1>1. EnforcedKept
  BY StepKeeps
<1>2. refused \in [Services -> SUBSET Tokens]
  BY DEF IInv, TypeOK
<1>3. CASE refused' = refused
  BY <1>1, <1>2, <1>3 DEF RefusedIsEnforced, EnforcedKept
<1>4. ASSUME NEW s \in Services, NEW t \in Tokens, LookUp(s, t)
      PROVE  /\ RefusedIsEnforced'
             /\ \A q \in Services : \A x \in refused[q] \ refused'[q] : now >= ExpiresAt(x)
  <2>1. /\ UNCHANGED <<now, denied>>
        /\ refused' = [refused EXCEPT ![s] = IF t \in denied[s] THEN @ \cup {t}
                                                               ELSE @ \ {t}]
    BY <1>4 DEF LookUp, tableVars
  <2>2. CASE t \in denied[s]
    BY <1>2, <2>1, <2>2 DEF RefusedIsEnforced, Enforced
  <2>3. CASE t \notin denied[s]
    BY <1>2, <2>1, <2>3 DEF RefusedIsEnforced, Enforced
  <2> QED BY <2>2, <2>3
<1>5. refused' = refused \/ \E s \in Services, t \in Tokens : LookUp(s, t)
  BY DEF Next, vars, requestVars, Tick, RevokeAccessToken, RelayStep, ClaimOutbox,
         WriteMessage, MarkPublished, ConsumerStep, PostsApply, RelatedHandle, CommitOffset,
         PostsPurge, CheckExpiry, Disturb, AckLost, WriteFails, MarkFails, AuthdCrash,
         ConsumerCrash, PostsDbError, RelatedDbError, Restart
<1> QED BY <1>3, <1>4, <1>5

\* A token that a request was refused for as revoked is accepted again only once it
\* has expired, by a request that had passed the exp check before, whatever is
\* delivered late or again and whatever the purge drops.
THEOREM RefusalIsFinal == Spec => RefusedForGood
<1>1. Init => RefusedIsEnforced
  BY DEF Init, RefusedIsEnforced
<1>2. IInv /\ RefusedIsEnforced /\ [Next]_vars => RefusedIsEnforced'
  BY StepRefused
<1>3. IInv /\ RefusedIsEnforced /\ [Next]_vars =>
          [\A s \in Services : \A t \in refused[s] \ refused'[s] : now >= ExpiresAt(t)]_vars
  BY StepRefused
<1> QED BY <1>1, <1>2, <1>3, IInvHolds, PTL DEF Spec, RefusedForGood

\* No consumer commits its offset past a revocation its service does not
\* enforce, except one the related service has skipped.
THEOREM NoRevocationMissed == Spec => []CommittedIsRefused
<1>1. IInv => CommittedIsRefused
  <2> SUFFICES ASSUME IInv, NEW s \in Services, NEW i \in 1..committed[s]
               PROVE  (s = "related" /\ log[i] \in skipped) \/ Enforced(s, outbox[log[i]])
    BY DEF CommittedIsRefused
  <2>1. i \in 1..position[s]
    BY Basics DEF IInv
  <2> QED BY <2>1 DEF IInv, ReadIsEnforced, Handled
<1> QED BY <1>1, IInvHolds, PTL

\* The rows, records, denylists and offsets keep their types: no consumer's
\* committed offset gets ahead of its position.
THEOREM TypeCorrect == Spec => []TypeOK
<1>1. IInv => TypeOK
  BY DEF IInv
<1> QED BY <1>1, IInvHolds, PTL

\* Every step is a step of AtLeastOnce on the one partition, or a stutter.
LEMMA StepRefines ==
    ASSUME IInv, [Next]_vars
    PROVE  [Relayed!Next]_(Relayed!absVars)
<1>1. ASSUME UNCHANGED <<outbox, published, log>>
      PROVE  [Relayed!Next]_(Relayed!absVars)
  BY <1>1 DEF Relayed!absVars, Rows
<1>2. ASSUME NEW t \in Tokens, RevokeAccessToken(t) PROVE Relayed!Next
  <2>1. outbox' = Append(outbox, t) /\ UNCHANGED <<published, log>>
    BY <1>2 DEF RevokeAccessToken
  <2>2. Rows' = Rows \cup {Len(outbox) + 1}
    BY <2>1, Basics DEF IInv, TypeOK, Rows
  <2> QED BY <2>1, <2>2 DEF Relayed!Next, Relayed!RecordCommitted
<1>3. ASSUME NEW e \in Rows, log' = Append(log, e), UNCHANGED <<outbox, published>>
      PROVE  Relayed!Next
  <2>1. [p \in {"token_revoked"} |-> log'] =
            [[p \in {"token_revoked"} |-> log] EXCEPT ![TopicOf(outbox[e])] = Append(@, e)]
    BY <1>3 DEF TopicOf
  <2> QED BY <1>3, <2>1 DEF Relayed!Next, Relayed!Deliver, Rows
<1>4. ASSUME NEW r \in Instances, MarkPublished(r) PROVE Relayed!Next
  <2>1. ids[r] \subseteq Relayed!Delivered
    BY <1>4 DEF MarkPublished, Written, IInv, TypeOK, WrittenIsInLog, InLog,
                Relayed!Delivered, TopicOf
  <2> QED BY <1>4, <2>1 DEF MarkPublished, Relayed!Next, Relayed!Confirm, Rows
<1>5. CASE \E r \in Instances : RelayStep(r) \/ AckLost(r)
  <2>1. PICK r \in Instances : RelayStep(r) \/ AckLost(r)
    BY <1>5
  <2>2. CASE ClaimOutbox(r)
    BY <2>2, <1>1 DEF ClaimOutbox
  <2>3. CASE WriteMessage(r) \/ AckLost(r)
    <3>1. PICK e \in unwritten[r] : log' = Append(log, e)
      BY <2>3 DEF WriteMessage, AckLost
    <3>2. e \in Rows
      BY <3>1 DEF IInv, TypeOK
    <3> QED BY <2>3, <3>1, <3>2, <1>3 DEF WriteMessage, AckLost
  <2> QED BY <2>1, <2>2, <2>3, <1>4 DEF RelayStep
<1>6. CASE \E r \in Instances : WriteFails(r) \/ MarkFails(r) \/ AuthdCrash(r)
  BY <1>6, <1>1 DEF WriteFails, MarkFails, AuthdCrash
<1>7. CASE Tick \/ PostsPurge \/ ConsumerStep
  BY <1>7, <1>1 DEF Tick, PostsPurge, ConsumerStep, PostsApply, RelatedHandle, CommitOffset
<1>8. CASE PostsDbError \/ RelatedDbError \/ \E s \in Services : ConsumerCrash(s)
  BY <1>8, <1>1 DEF PostsDbError, RelatedDbError, ConsumerCrash, Restart
<1>9. CASE \/ UNCHANGED vars
           \/ \E s \in Services, t \in Tokens : CheckExpiry(s, t) \/ LookUp(s, t)
  BY <1>9, <1>1 DEF vars, CheckExpiry, LookUp
<1> QED BY <1>2, <1>5, <1>6, <1>7, <1>8, <1>9 DEF Next, Disturb

\* authd's relay implements AtLeastOnce, for any number of instances claiming
\* the same rows: what is marked published has been written.
THEOREM RelayDelivers == Spec => AtLeastOnceDelivery
<1>1. Init => Relayed!Init
  BY DEF Init, Relayed!Init, Rows
<1>2. IInv /\ [Next]_vars => [Relayed!Next]_(Relayed!absVars)
  BY StepRefines
<1> QED BY <1>1, <1>2, IInvHolds, PTL DEF Spec, AtLeastOnceDelivery, Relayed!Spec

=============================================================================
