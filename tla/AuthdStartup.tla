---------------------------- MODULE AuthdStartup ----------------------------
(***************************************************************************)
(* The start of authd, run() of services/auth/cmd/authd/main.go: the       *)
(* signing key, the database with retries, Store.Migrate, and serving.     *)
(* Any number of instances start on one database, which may be empty and   *)
(* may go away; a process that ends is started again.                      *)
(*                                                                         *)
(* A schema file is its position in the sorted list of names.  A signing   *)
(* key is a number; a generated key that was never served was seen by      *)
(* nobody, so its number may be used again.                                *)
(***************************************************************************)
EXTENDS Integers, FiniteSets

CONSTANTS
    Instances,   \* authd processes
    Files,       \* number of schema files
    MaxKeys,     \* bound: signing keys
    MaxCrashes,  \* bound: processes that end from outside
    MaxOutages   \* bound: times the database goes away

ASSUME StartupAssumption ==
    /\ Files \in Nat /\ MaxKeys \in Nat \ {0}
    /\ MaxCrashes \in Nat /\ MaxOutages \in Nat

VARIABLES
    keyFile,   \* whether AUTH_PRIVATE_KEY_FILE is set
    stage,     \* per instance, how far run() has come
    file,      \* per instance, the file Migrate's loop is at
    key,       \* per instance, the key in memory, 0 for none
    served,    \* the keys that tokens may have been signed with
    dbUp,      \* whether the database answers
    ledger,    \* whether the table schema_migrations exists
    applied,   \* the files whose tables exist
    recorded,  \* the versions in schema_migrations
    crashes, outages

dbVars == <<dbUp, ledger, applied, recorded, outages>>
procVars == <<stage, file, key>>
startupVars == <<keyFile, stage, file, key, served, dbUp, ledger, applied,
                 recorded, crashes, outages>>

AllFiles == 1..Files
Keys == 1..MaxKeys
Stages == {"down", "connect", "ledger", "check", "apply", "record", "serving"}

StartupTypeOK ==
    /\ keyFile \in BOOLEAN
    /\ stage \in [Instances -> Stages]
    /\ file \in [Instances -> 1..(Files + 1)]
    /\ key \in [Instances -> Keys \cup {0}]
    /\ served \in SUBSET Keys
    /\ dbUp \in BOOLEAN /\ ledger \in BOOLEAN
    /\ applied \in SUBSET AllFiles
    /\ recorded \in SUBSET AllFiles
    /\ crashes \in 0..MaxCrashes /\ outages \in 0..MaxOutages

StartupInit ==
    /\ keyFile \in BOOLEAN
    /\ stage = [i \in Instances |-> "down"]
    /\ file = [i \in Instances |-> 1]
    /\ key = [i \in Instances |-> 0]
    /\ served = {}
    /\ dbUp = TRUE /\ ledger = FALSE
    /\ applied = {} /\ recorded = {}
    /\ crashes = 0 /\ outages = 0

Serving == {i \in Instances : stage[i] = "serving"}

At(i, from, to) == stage[i] = from /\ stage' = [stage EXCEPT ![i] = to]

\* run() returns an error, or the process is killed: memory is lost and the
\* server rolls an open transaction back.
Ended(S) ==
    /\ stage' = [i \in Instances |-> IF i \in S THEN "down" ELSE stage[i]]
    /\ file' = [i \in Instances |-> IF i \in S THEN 1 ELSE file[i]]
    /\ key' = [i \in Instances |-> IF i \in S THEN 0 ELSE key[i]]

-----------------------------------------------------------------------------
(* run(), in order. *)

\* The key of the file, or a new one.  A file that cannot be read or parsed
\* ends the process before it has done anything.
LoadOrCreateKey ==
    IF keyFile THEN {1}
    ELSE LET free == Keys \ (served \cup {key[i] : i \in Instances})
         IN  {k \in free : \A other \in free : k <= other}

Start(i) ==
    /\ At(i, "down", "connect")
    /\ \E k \in LoadOrCreateKey : key' = [key EXCEPT ![i] = k]
    /\ UNCHANGED <<keyFile, file, served, dbVars, crashes>>

\* store.New and Ping succeed, at the first or at a later attempt.
Connect(i) ==
    /\ dbUp
    /\ At(i, "connect", "ledger")
    /\ UNCHANGED <<keyFile, file, key, served, dbVars, crashes>>

\* CREATE TABLE IF NOT EXISTS.  Of two that create it at the same time one may
\* fail on the catalogue's unique index.
CreateLedger(i) ==
    /\ dbUp
    /\ stage[i] = "ledger"
    /\ ledger' = TRUE
    /\ \E losers \in SUBSET {j \in Instances \ {i} : stage[j] = "ledger" /\ ~ledger} :
           /\ stage' = [j \in Instances |-> IF j = i THEN "check"
                                            ELSE IF j \in losers THEN "down" ELSE stage[j]]
           /\ key' = [j \in Instances |-> IF j \in losers THEN 0 ELSE key[j]]
    /\ UNCHANGED <<keyFile, file, served, dbUp, applied, recorded, outages, crashes>>

\* SELECT EXISTS, outside the transaction that applies the file.
CheckFile(i) ==
    /\ dbUp
    /\ stage[i] = "check" /\ file[i] \in AllFiles
    /\ IF file[i] \in recorded
         THEN file' = [file EXCEPT ![i] = @ + 1] /\ UNCHANGED stage
         ELSE stage' = [stage EXCEPT ![i] = "apply"] /\ UNCHANGED file
    /\ UNCHANGED <<keyFile, key, served, dbVars, crashes>>

\* Some transaction has created the file's tables and not ended: CREATE waits.
Blocked(i) == \E j \in Instances \ {i} : stage[j] = "record" /\ file[j] = file[i]

\* Mutant: the file is executed on the pool, not in the transaction.
ApplyFileAtOnce(i) ==
    /\ dbUp
    /\ file[i] \notin applied
    /\ At(i, "apply", "record")
    /\ applied' = applied \cup {file[i]}
    /\ UNCHANGED <<keyFile, file, key, served, dbUp, ledger, recorded, outages, crashes>>

\* BEGIN and the body of the file.
ApplyFile(i) ==
    /\ dbUp /\ ~Blocked(i)
    /\ file[i] \notin applied
    /\ At(i, "apply", "record")
    /\ UNCHANGED <<keyFile, file, key, served, dbVars, crashes>>

\* The tables exist by now: CREATE TABLE fails and Migrate returns its error.
ApplyFails(i) ==
    /\ dbUp /\ ~Blocked(i)
    /\ stage[i] = "apply" /\ file[i] \in applied
    /\ Ended({i})
    /\ UNCHANGED <<keyFile, served, dbVars, crashes>>

\* INSERT INTO schema_migrations and COMMIT.
RecordFile(i) ==
    /\ dbUp
    /\ At(i, "record", "check")
    /\ applied' = applied \cup {file[i]}
    /\ recorded' = recorded \cup {file[i]}
    /\ file' = [file EXCEPT ![i] = @ + 1]
    /\ UNCHANGED <<keyFile, key, served, dbUp, ledger, outages, crashes>>

\* Mutant: authd listens while Migrate is still at work.
MigratedAfterConnect(i) == stage[i] = "check"

\* The loop of Migrate is over.
Migrated(i) == stage[i] = "check" /\ file[i] = Files + 1

\* NewIssuer, the relay and ListenAndServe.
Serve(i) ==
    /\ Migrated(i)
    /\ stage' = [stage EXCEPT ![i] = "serving"]
    /\ served' = served \cup {key[i]}
    /\ UNCHANGED <<keyFile, file, key, dbVars, crashes>>

\* Without the database: connectWithRetry reaches its deadline, Migrate fails.
GiveUp(i) ==
    /\ ~dbUp
    /\ stage[i] \in {"connect", "ledger", "check", "apply"} /\ ~Migrated(i)
    /\ Ended({i})
    /\ UNCHANGED <<keyFile, served, dbVars, crashes>>

-----------------------------------------------------------------------------
(* What happens to the process and to the database. *)

\* A crash, a SIGTERM, or ListenAndServe returns an error.
Crash(i) ==
    /\ stage[i] # "down"
    /\ crashes < MaxCrashes /\ crashes' = crashes + 1
    /\ Ended({i})
    /\ UNCHANGED <<keyFile, served, dbVars>>

\* Open transactions end with an error; a pool that serves reconnects later.
DatabaseDown ==
    /\ dbUp /\ dbUp' = FALSE
    /\ outages < MaxOutages /\ outages' = outages + 1
    /\ Ended({i \in Instances : stage[i] = "record"})
    /\ UNCHANGED <<keyFile, served, ledger, applied, recorded, crashes>>

DatabaseUp ==
    /\ ~dbUp /\ dbUp' = TRUE
    /\ UNCHANGED <<keyFile, procVars, served, ledger, applied, recorded, outages, crashes>>

\* One step of run().
RunStep(i) ==
    \/ Start(i) \/ Connect(i) \/ CreateLedger(i) \/ CheckFile(i) \/ ApplyFile(i)
    \/ ApplyFails(i) \/ RecordFile(i) \/ Serve(i)

StartupNext ==
    \/ \E i \in Instances : RunStep(i) \/ GiveUp(i) \/ Crash(i)
    \/ DatabaseDown
    \/ DatabaseUp

StartupSpec == StartupInit /\ [][StartupNext]_startupVars

-----------------------------------------------------------------------------
(* Properties. *)

\* Two instances migrating one database, processes dying and the database going
\* away at any point of Migrate: a schema file is in force exactly when it is
\* recorded, files come in their order, and no instance serves before the last.
SchemaWhole ==
    /\ recorded = applied
    /\ \A f \in applied : 1..f \subseteq applied
    /\ Serving # {} => applied = AllFiles

=============================================================================
