----------------------------- MODULE Migration ------------------------------
(* Schema migration at start-up: Migrate of pkg/pgmodel/migrate.go, run by   *)
(* several connectors on one database.  Scripts run in one transaction; the  *)
(* version was read before it began.                                         *)
EXTENDS MigrationScripts

CONSTANTS Connectors,
          NoOne,           \* no transaction has touched the schema
          Releases,        \* the application versions that get started
          Timescale,       \* the statement that installs timescaledb
          Preinstall,      \* the listing of preinstall
          IdempotentToc,   \* the table of contents of idempotent
          VersionFiles,    \* the files in the directories of versions/dev
          Rerunnables,     \* which scripts may succeed when they were applied before
          MixedReleases,   \* connectors of different releases may run together
          MaxStarts,       \* bound: starts of connectors
          MaxFaults        \* bound: failed statements, lost answers and crashes

VARIABLES rerunnable,  \* the scripts that do; as they are shipped
          dbVersion,   \* prom_schema_migrations; ZeroVersion when empty
          applied,     \* every script the schema went through, oldest first
          origin,      \* the version that was installed first
          schemaLock,  \* whose open transaction has changed the schema
          conn,        \* what every connector is doing
          ext,         \* ExtensionIsInstalled of every connector
          starts, faults

dbVars == <<rerunnable, dbVersion, applied, origin>>
vars == <<rerunnable, dbVersion, applied, origin, schemaLock, conn, ext, starts, faults>>

PreFiles == {Preinstall[i] : i \in Named(Preinstall)}
TocFiles == {IdempotentToc[i] : i \in NotDirs(IdempotentToc)}
AllFiles == PreFiles \cup TocFiles \cup VersionFiles

(* What is shipped: numbered preinstall scripts, a table of contents without *)
(* repetition, version scripts that have a version, all of them different,   *)
(* with known placeholders; one preinstall script, as 003-tables.sql, cannot *)
(* be repeated; and timescaledb is created only IF NOT EXISTS.               *)
ASSUME MigrationAssumption ==
    /\ NoOne \notin Connectors
    /\ \A v \in Releases : v \in Versions /\ Less(ZeroVersion, v)
    /\ Preinstall \in Seq({Preinstall[i] : i \in DOMAIN Preinstall})
    /\ IdempotentToc \in Seq({IdempotentToc[i] : i \in DOMAIN IdempotentToc})
    /\ \A i \in Named(Preinstall) : Preinstall[i].prefix \in Nat
    /\ \A i, j \in Named(Preinstall) : Preinstall[i].prefix = Preinstall[j].prefix => i = j
    /\ \A i, j \in NotDirs(IdempotentToc) : IdempotentToc[i] = IdempotentToc[j] => i = j
    /\ IsFiniteSet(VersionFiles)
    /\ \A f \in VersionFiles : f.dir \in Versions /\ f.prefix \in Nat
    /\ PreFiles \cap TocFiles = {} /\ PreFiles \cap VersionFiles = {} /\ TocFiles \cap VersionFiles = {}
    /\ Timescale \notin AllFiles
    /\ \A f \in AllFiles : f.text \in Seq(Placeholders)
    /\ \A R \in Rerunnables : ~(PreFiles \subseteq R) /\ Timescale \in R
    /\ MaxStarts \in Nat
    /\ MaxFaults \in Nat

Idle(pc) == [pc |-> pc, app |-> ZeroVersion, read |-> ZeroVersion, todo |-> <<>>,
             log |-> <<>>, sets |-> FALSE, refused |-> NoOne]

Running(c) == conn[c].pc \notin {"off", "failed", "done"}

Init ==
    /\ rerunnable \in Rerunnables
    /\ dbVersion = ZeroVersion
    /\ applied = <<>>
    /\ origin = ZeroVersion
    /\ schemaLock = NoOne
    /\ conn = [c \in Connectors |-> Idle("off")]
    /\ ext = [c \in Connectors |-> FALSE]
    /\ starts = 0
    /\ faults = 0
-----------------------------------------------------------------------------
(* main calls Migrate; a connector that failed or finished is started again. *)
Start(c) ==
    /\ ~Running(c)
    /\ starts < MaxStarts
    /\ starts' = starts + 1
    /\ \E v \in Releases :
          /\ MixedReleases \/ \A d \in Connectors : Running(d) => conn[d].app = v
          /\ conn' = [conn EXCEPT ![c] = [Idle("ensure") EXCEPT !.app = v]]
    /\ ext' = [ext EXCEPT ![c] = FALSE]
    /\ UNCHANGED <<dbVars, schemaLock, faults>>

EnsureVersionTable(c) ==
    /\ conn[c].pc = "ensure"
    /\ conn' = [conn EXCEPT ![c].pc = "read"]
    /\ UNCHANGED <<dbVars, schemaLock, ext, starts, faults>>

idempotentScripts == execMigrationDir(<<>>, IdempotentToc)
preinstallScripts == execMigrationDir(Preinstall, <<>>)
versionScripts(from, to) == upgradeVersion(VersionFiles, from, to)

(* Scripts in which a placeholder is not replaced by its schema. *)
Unresolved == {f \in AllFiles : ~Resolved(f.text)}

(* The rest of the call is decided by the version that was read: nothing,    *)
(* the idempotent scripts alone, an error, or an installation or upgrade.    *)
Plan(C, v) ==
    LET read == [C EXCEPT !.read = v]
        upgrade(scripts) == [read EXCEPT !.pc = "tx", !.sets = TRUE,
                                         !.todo = <<Timescale>> \o scripts \o idempotentScripts] IN
    CASE v = C.app /\ IsDevRelease(C.app) -> [read EXCEPT !.pc = "tx", !.todo = idempotentScripts]
      [] v = C.app /\ ~IsDevRelease(C.app) -> [read EXCEPT !.pc = "extension"]
      [] Less(C.app, v) -> Idle("failed")
      [] v = ZeroVersion -> upgrade(preinstallScripts)
      [] v # ZeroVersion /\ (Malformed(VersionFiles) \/ AmbiguousVersions(VersionFiles)) -> Idle("failed")
      [] OTHER -> upgrade(versionScripts(v, C.app))

(* getDBVersion asks outside any transaction.  An error that shows only in   *)
(* the rows is dropped: the version counts as missing.                       *)
GetDBVersion(c) ==
    /\ conn[c].pc = "read"
    /\ \/ /\ conn' = [conn EXCEPT ![c] = Plan(@, dbVersion)]
          /\ UNCHANGED faults
       \/ /\ faults < MaxFaults
          /\ faults' = faults + 1
          /\ conn' = [conn EXCEPT ![c] = Plan(@, ZeroVersion)]
    /\ UNCHANGED <<dbVars, schemaLock, ext, starts>>

InSeq(f, s) == \E i \in 1..Len(s) : s[i] = f

(* A statement that cannot be repeated fails when it was done before. *)
Refuses(c, f) ==
    /\ f \notin rerunnable
    /\ InSeq(f, applied) \/ InSeq(f, conn[c].log)

(* defer tx.Rollback *)
KeepsLock(c) == schemaLock
Rollback(c) == IF schemaLock = c THEN NoOne ELSE schemaLock

(* One script.  The first one that changes the schema waits for the other    *)
(* transaction that has done so (locks of the database).                     *)
ExecMigrationFile(c) ==
    /\ conn[c].pc = "tx"
    /\ conn[c].todo # <<>>
    /\ schemaLock \in {NoOne, c}
    /\ LET f == Head(conn[c].todo) IN
       IF Refuses(c, f) \/ f \in Unresolved
       THEN /\ conn' = [conn EXCEPT ![c] = [Idle("failed") EXCEPT !.refused = f]]
            /\ schemaLock' = Rollback(c)
       ELSE /\ conn' = [conn EXCEPT ![c] = [conn[c] EXCEPT !.todo = Tail(@), !.log = Append(@, f)]]
            /\ schemaLock' = IF f = Timescale THEN schemaLock ELSE c
    /\ UNCHANGED <<dbVars, ext, starts, faults>>

(* setDBVersion and the end of the transaction. *)
SetsNothing(C) == dbVersion
SetDBVersion(C) == IF C.sets THEN C.app ELSE dbVersion

CommitEffect(c) ==
    /\ UNCHANGED rerunnable
    /\ applied' = applied \o conn[c].log
    /\ dbVersion' = SetDBVersion(conn[c])
    /\ origin' = IF conn[c].sets /\ conn[c].read = ZeroVersion THEN conn[c].app ELSE origin
    /\ schemaLock' = Rollback(c)

Commit(c) ==
    /\ conn[c].pc = "tx"
    /\ conn[c].todo = <<>>
    /\ CommitEffect(c)
    /\ conn' = [conn EXCEPT ![c].pc = "extension", ![c].log = <<>>]
    /\ UNCHANGED <<ext, starts, faults>>

(* The transaction is committed and the answer lost. *)
CommitLost(c) ==
    /\ conn[c].pc = "tx"
    /\ conn[c].todo = <<>>
    /\ faults < MaxFaults
    /\ faults' = faults + 1
    /\ CommitEffect(c)
    /\ conn' = [conn EXCEPT ![c] = Idle("failed")]
    /\ UNCHANGED <<ext, starts>>

(* Any outcome of the extension is accepted, and remembered for the query    *)
(* builder; the telemetry metadata is written and its errors are ignored.    *)
InstallExtension(c) ==
    /\ conn[c].pc = "extension"
    /\ \E installed \in BOOLEAN : ext' = [ext EXCEPT ![c] = installed]
    /\ conn' = [conn EXCEPT ![c].pc = "done"]
    /\ UNCHANGED <<dbVars, schemaLock, starts, faults>>

(* A failed statement ends the call, a crash the process; either rolls back. *)
Fail(c) ==
    /\ Running(c)
    /\ faults < MaxFaults
    /\ faults' = faults + 1
    /\ \/ conn' = [conn EXCEPT ![c] = Idle("off")]
       \/ /\ conn[c].pc \in {"ensure", "read", "tx"}
          /\ conn' = [conn EXCEPT ![c] = Idle("failed")]
    /\ schemaLock' = Rollback(c)
    /\ UNCHANGED <<dbVars, ext, starts>>

Step(c) ==
    \/ EnsureVersionTable(c) \/ GetDBVersion(c) \/ ExecMigrationFile(c) \/ Commit(c)
    \/ InstallExtension(c)

Next == \E c \in Connectors : Start(c) \/ Step(c) \/ CommitLost(c) \/ Fail(c)

(* A call that has begun goes on, and the database serves waiting            *)
(* transactions in turn.                                                     *)
Fairness == \A c \in Connectors : SF_vars(Step(c))

Spec == Init /\ [][Next]_vars /\ Fairness
-----------------------------------------------------------------------------
(* Properties.                                                               *)

(* The order in which the scripts of a version belong: the preinstall        *)
(* scripts by their numbers, then the version scripts by their versions.     *)
Before(f, g) ==
    \/ f \in PreFiles /\ g \in VersionFiles
    \/ f \in PreFiles /\ g \in PreFiles /\ f.prefix < g.prefix
    \/ /\ f \in VersionFiles /\ g \in VersionFiles
       /\ Less(getMigrationFileVersion(f), getMigrationFileVersion(g))

(* The schema is what its version says, whoever crashed, raced or lost an    *)
(* answer: an empty database has no version; else it went through the        *)
(* preinstall scripts by their numbers, then every version script above the  *)
(* version of the installation up to the present one, oldest first, each     *)
(* once unless it can be repeated, and the idempotent scripts came last, in  *)
(* the order of their contents (Migrate, upgradeVersion, setDBVersion).      *)
SchemaMatchesVersion ==
    LET once == {i \in DOMAIN applied : applied[i] # Timescale /\ applied[i] \notin TocFiles}
        first == {i \in once : \A k \in DOMAIN applied : k < i => applied[k] # applied[i]}
        last == (Len(applied) - Cardinality(TocFiles) + 1)..Len(applied) IN
    IF dbVersion = ZeroVersion
    THEN applied = <<>>
    ELSE /\ {applied[i] : i \in once} =
               PreFiles \cup {f \in VersionFiles : /\ Less(origin, getMigrationFileVersion(f))
                                                  /\ ~Less(dbVersion, getMigrationFileVersion(f))}
         /\ \A i, j \in first : i < j => Before(applied[i], applied[j])
         /\ \A i \in once : i \in first \/ applied[i] \in rerunnable
         /\ {applied[i] : i \in last} = TocFiles
         /\ \A i, j \in last : i < j =>
               \E k, l \in DOMAIN IdempotentToc :
                  k < l /\ applied[i] = IdempotentToc[k] /\ applied[j] = IdempotentToc[l]

(* A connector whose migration went through serves the schema of its own     *)
(* version (the comparisons of Migrate, with connectors of one release).     *)
ServesItsOwnSchema ==
    \A c \in Connectors : conn[c].pc = "extension" => dbVersion = conn[c].app

(* The step that refuses a script to a connector whose version is still the  *)
(* one it read refuses one of the idempotent directory, that is not what the *)
(* directory is called.                                                      *)
RefusesTheStale ==
    \A c \in Connectors : conn[c].refused = NoOne /\ conn'[c].refused # NoOne =>
        \/ conn[c].read # dbVersion
        \/ conn'[c].refused \in TocFiles \ rerunnable

(* But for idempotent scripts that cannot be repeated, a script fails only   *)
(* where the version was out of date: another connector was faster, or an    *)
(* error of the rows hid it (getDBVersion, outside the transaction).  So no  *)
(* script is due that the schema has (upgradeVersion), none is planned       *)
(* twice, and no placeholder is left in one (replaceSchemaNames, whose order *)
(* matters as SCHEMA_DATA is a prefix of SCHEMA_DATA_SERIES).                *)
OnlyStaleIsRefused == [][RefusesTheStale]_vars

(* Every migration ends, with success or with an error: no connector waits   *)
(* for ever for a transaction that another one left behind.                  *)
MigrationEnds ==
    \A c \in Connectors : Running(c) ~> ~Running(c)
=============================================================================
