---------------------------- MODULE SchemaTool ----------------------------
(***************************************************************************)
(* PGXSchemaTool (sqlhelper/pgxhelper) brings the tables of one component  *)
(* up to date: MigrateDBConn reads the version that the database records,  *)
(* decides whether it can get from there to its own, and records its own   *)
(* and runs the SQL in one transaction.  Several processes, of different   *)
(* releases of the program, do so at once on one database.                 *)
(*                                                                         *)
(* A release is what lies in its schema directory: the version of          *)
(* "current", which builds everything, the versions of its seeds, and the  *)
(* migrations, each of which gets from one version to the next.  What the  *)
(* SQL does is left out: a piece of it is its kind and its version.  The   *)
(* server runs transactions at READ COMMITTED.                             *)
(***************************************************************************)
EXTENDS Integers, Sequences, FiniteSets

CONSTANTS Clients,      \* calls of MigrateDBConn or CheckDBConn
          Releases,     \* the schema directories of the releases
          MaxRepeats,   \* races a call puts up with, 10 in the code
          MaxFaults,    \* bound on statements and connections that fail
          Nobody

ASSUME SchemaAssumption ==
    /\ MaxRepeats \in Nat /\ MaxFaults \in Nat
    /\ Nobody \notin Clients
    /\ \A t \in Releases :
          /\ t.current \in Nat \cup {-1}
          /\ t.seeds \subseteq Nat /\ IsFiniteSet(t.seeds)
          /\ t.migrations \subseteq Nat /\ IsFiniteSet(t.migrations)

VARIABLES
    release,  \* client -> the release it belongs to
    table,    \* public.components_versions exists
    ver,      \* the version it records of the component, -1 if none
    done,     \* the pieces of SQL that were committed, per transaction
    holder,   \* whose open transaction wrote the row of the component
    phase,       \* client -> where its call is
    nowVer,   \* client -> the version it read
    cRepeat,  \* client -> how often it started over
    ret,      \* client -> what its call returned
    sqlFaults \* statements and connections that failed

schemaDB == <<table, ver, done, holder>>
schemaVars == <<release, schemaDB, phase, nowVer, cRepeat, ret, sqlFaults>>

-----------------------------------------------------------------------------
(* What a release can do.                                                  *)

Largest(S) == CHOOSE v \in S : \A x \in S : x <= v

Versions(t) == {t.current} \cup t.seeds \cup t.migrations

MaxVer(t) == Largest(Versions(t))

\* The checks of NewSchemaTool that versions can fail.
Loads(t) ==
    /\ MaxVer(t) >= 0
    /\ t.current >= 0 => t.current = MaxVer(t)

Refused == -2

\* The loop of checkCanUpgrade over the migrations up to version v, which go
\* up: the version it reaches from v0.
Reach(t, v0) ==
    LET reach[v \in -1 .. MaxVer(t)] ==
            IF v = -1 THEN v0
            ELSE LET n == reach[v - 1] IN
                 IF n = Refused \/ v \notin t.migrations \/ n + 1 < v THEN n
                 ELSE IF n + 1 > v THEN Refused ELSE v
    IN reach[MaxVer(t)]

CanUpgrade(t, v0) == v0 <= MaxVer(t) /\ Reach(t, v0) = MaxVer(t)

CanSeed(t) ==
    \/ t.current >= 0
    \/ t.seeds # {} /\ CanUpgrade(t, Largest(t.seeds))

Piece(k, V) == [kind : {k}, v : V]

\* performUpgrade runs the migrations up to the version after v0.
Upgrade(t, v0) == Piece("step", {m \in t.migrations : m <= v0 + 1})

\* performSeed: "current", or the last seed and the migrations that lead on
\* from it, which CanSeed made sure follow one another.
Seed(t) ==
    IF t.current >= 0 THEN Piece("base", {t.current})
    ELSE LET s == Largest(t.seeds)
         IN Piece("base", {s}) \cup Piece("step", t.migrations)

Work(c) ==
    IF nowVer[c] >= 0 THEN Upgrade(release[c], nowVer[c]) ELSE Seed(release[c])

Top(c) == MaxVer(release[c])
-----------------------------------------------------------------------------
SchemaInit ==
    /\ release \in [Clients -> {t \in Releases : Loads(t)}]
    /\ table \in BOOLEAN
    /\ ver = -1 /\ done = <<>> /\ holder = Nobody
    /\ phase = [c \in Clients |-> "version"]
    /\ nowVer = [c \in Clients |-> -1]
    /\ cRepeat = [c \in Clients |-> 0]
    /\ ret = [c \in Clients |-> "none"]
    /\ sqlFaults = 0

GoTo(c, l) == phase' = [phase EXCEPT ![c] = l] /\ UNCHANGED ret

Return(c, r) ==
    /\ phase' = [phase EXCEPT ![c] = "done"]
    /\ ret' = [ret EXCEPT ![c] = r]

\* (Wrong variant: the version is not read again, and nobody counts.)
RaceNoReread(c) == GoTo(c, "set") /\ UNCHANGED cRepeat

\* errVersionRace: the call starts over, up to MaxRepeats times.
Race(c) ==
    IF cRepeat[c] >= MaxRepeats
    THEN Return(c, "race") /\ UNCHANGED cRepeat
    ELSE GoTo(c, "version") /\ cRepeat' = [cRepeat EXCEPT ![c] = @ + 1]

\* CheckDBConn: what a migration would do now.
CheckDBConn(c) ==
    /\ phase[c] = "version" /\ cRepeat[c] = 0
    /\ Return(c, IF ver = Top(c) THEN "nothing"
                 ELSE IF ver < 0 THEN "needsInitialization"
                 ELSE IF CanUpgrade(release[c], ver) THEN "needsMigration"
                 ELSE "refused")
    /\ UNCHANGED <<release, schemaDB, nowVer, cRepeat, sqlFaults>>

Able(c) == IF ver >= 0 THEN CanUpgrade(release[c], ver) ELSE CanSeed(release[c])

\* MigrateDBConn: GetVersion, which takes a missing table for no version, and
\* what there is to do.
GetVersion(c) ==
    /\ phase[c] = "version"
    /\ nowVer' = [nowVer EXCEPT ![c] = ver]
    /\ IF ver = Top(c) THEN Return(c, "nothing")
       ELSE IF Able(c) THEN GoTo(c, "set") ELSE Return(c, "refused")
    /\ UNCHANGED <<release, schemaDB, cRepeat, sqlFaults>>

Lock(c) == holder' = c /\ GoTo(c, "run") /\ UNCHANGED cRepeat

\* (Wrong variant: UPDATE without AND version = $3.)
UpdateAnyVersion(c) ==
    /\ phase[c] = "set" /\ nowVer[c] >= 0
    /\ holder = Nobody
    /\ Lock(c)
    /\ UNCHANGED <<release, table, ver, done, nowVer, sqlFaults>>

\* SetVersion of a version that was read: UPDATE ... WHERE version = $3 waits
\* for whoever wrote the row and looks at the row again.
UpdateVersion(c) ==
    /\ phase[c] = "set" /\ nowVer[c] >= 0
    /\ holder = Nobody
    /\ IF ver = nowVer[c] THEN Lock(c) ELSE Race(c) /\ UNCHANGED holder
    /\ UNCHANGED <<release, table, ver, done, nowVer, sqlFaults>>

\* SetVersion of a component without a version: INSERT ... ON CONFLICT DO
\* NOTHING finds the row of another, or waits for one that is not committed
\* yet.  Without a table the transaction is rolled back to create it.
InsertVersion(c) ==
    /\ phase[c] = "set" /\ nowVer[c] < 0
    /\ \/ /\ ~table
          /\ GoTo(c, "create")
          /\ UNCHANGED <<holder, cRepeat>>
       \/ table /\ ver >= 0 /\ Race(c) /\ UNCHANGED holder
       \/ table /\ ver < 0 /\ holder = Nobody /\ Lock(c)
    /\ UNCHANGED <<release, table, ver, done, nowVer, sqlFaults>>

\* initTableVersioner: CREATE TABLE IF NOT EXISTS, outside of a transaction.
\* IF NOT EXISTS sees no table that another is creating at the same time: then
\* the later of the two fails.
CreateTable(c) ==
    /\ phase[c] = "create"
    /\ IF table THEN Race(c) ELSE GoTo(c, "creating") /\ UNCHANGED cRepeat
    /\ UNCHANGED <<release, schemaDB, nowVer, sqlFaults>>

TableCreated(c) ==
    /\ phase[c] = "creating"
    /\ table' = TRUE
    /\ IF table THEN Return(c, "error") /\ UNCHANGED cRepeat ELSE Race(c)
    /\ UNCHANGED <<release, ver, done, holder, nowVer, sqlFaults>>

\* The SQL and the commit.
Commit(c) ==
    /\ phase[c] = "run"
    /\ ver' = Top(c)
    /\ done' = Append(done, Work(c))
    /\ holder' = Nobody

RunAndCommit(c) ==
    /\ Commit(c)
    /\ Return(c, "did")
    /\ UNCHANGED <<release, table, nowVer, cRepeat, sqlFaults>>

\* An open transaction is rolled back, by the deferred call or by the server.
Rollback(c) == holder' = IF holder = c THEN Nobody ELSE holder

\* A statement fails, or the connection or the process is lost.
Fail(c) ==
    /\ phase[c] # "done" /\ sqlFaults < MaxFaults
    /\ sqlFaults' = sqlFaults + 1
    /\ Rollback(c)
    /\ Return(c, "error")
    /\ UNCHANGED <<release, table, ver, done, nowVer, cRepeat>>

\* The connection is lost after the commit.
CommitUnheard(c) ==
    /\ sqlFaults < MaxFaults
    /\ sqlFaults' = sqlFaults + 1
    /\ Commit(c)
    /\ Return(c, "error")
    /\ UNCHANGED <<release, table, nowVer, cRepeat>>

AllReturned == \A c \in Clients : phase[c] = "done"

Call(c) ==
    \/ CheckDBConn(c) \/ GetVersion(c)
    \/ UpdateVersion(c) \/ InsertVersion(c)
    \/ CreateTable(c) \/ TableCreated(c)
    \/ RunAndCommit(c)

SchemaNext ==
    \/ \E c \in Clients : Call(c) \/ Fail(c) \/ CommitUnheard(c)
    \/ AllReturned /\ UNCHANGED schemaVars

\* A process that runs goes on, and the server answers it.
SchemaFairness == \A c \in Clients : WF_schemaVars(Call(c))

SchemaSpec == SchemaInit /\ [][SchemaNext]_schemaVars /\ SchemaFairness
-----------------------------------------------------------------------------
Committed == UNION {done[i] : i \in DOMAIN done}

\* What builds version v from nothing: the tables as of some version and every
\* migration after it.
Builds(v) ==
    {Piece("base", {b}) \cup Piece("step", b + 1 .. v) : b \in 0 .. v}

\* The version that the database records is the one that its tables have: they
\* were built once, and every migration up to the version was run, once.
\* (SetVersion goes first, performUpgrade and performSeed choose what follows.)
VersionTrue ==
    /\ ver >= 0 => Committed \in Builds(ver)
    /\ ver < 0 => done = <<>>
    /\ \A i, j \in DOMAIN done : i # j => done[i] \cap done[j] = {}

\* A piece of SQL is committed once at most, and never after one of a later
\* version, whichever releases are at work at once: the tables are built first
\* and by one call alone, and no call goes back behind the version recorded.
\* (SetVersion takes the row, or finds that another has moved it.)
RunInOrder ==
    /\ \A i, j \in DOMAIN done : i < j => \A x \in done[i], y \in done[j] : x.v < y.v
    /\ \A i \in DOMAIN done : (\E x \in done[i] : x.kind = "base") <=> i = 1
    /\ \A i \in DOMAIN done : \A x \in done[i] : x.v <= ver
    /\ ver < 0 <=> done = <<>>

\* Every call returns: the row is never left locked, and a call does not start
\* over for ever.
CallsReturn == <>AllReturned
=============================================================================
