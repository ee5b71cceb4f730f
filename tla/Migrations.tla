------------------------------ MODULE Migrations ------------------------------
(***************************************************************************)
(* Opening the database brings its schema to the newest version.  What is  *)
(* to be done is decided by a version read before any transaction; other   *)
(* processes may open the same file at the same time, and one that dies    *)
(* leaves the transactions it committed.                                   *)
(***************************************************************************)
EXTENDS Naturals, FiniteSets

CONSTANTS Openers,        \* processes that open the database
          MaxOpenDeaths   \* bound: how often one dies doing it

ASSUME MigrationsAssumption == MaxOpenDeaths \in Nat

SQLITE_SCHEMA_VERSION == 3
Versions == 1..SQLITE_SCHEMA_VERSION

VARIABLES
  schema,  \* what is committed: [version, tables of, row of each version]
  opener,  \* process -> [at, read: the version, does: the versions of its
           \* transaction, draft: the schema as the transaction sees it]
  openDeaths  \* those that died

migrationVars == <<schema, opener, openDeaths>>

SchemaAt(v) == [version |-> v, tables |-> 1..v, row |-> [n \in Versions |-> IF n <= v THEN "ours" ELSE "none"]]
Foreign(s) == [s EXCEPT !.row[1] = "other"]
IdleOpener == [at |-> "off", read |-> 0, does |-> {}, draft |-> SchemaAt(0)]

MigrationsInit ==
  /\ schema \in {SchemaAt(v) : v \in 0..3} \cup {Foreign(SchemaAt(v)) : v \in Versions}
                  \cup {[SchemaAt(3) EXCEPT !.version = 4]}
  /\ opener = [p \in Openers |-> IdleOpener]
  /\ openDeaths = {}

OpenerGoes(p, place) == opener' = [opener EXCEPT ![p].at = place]
OpenerWrites == {p \in Openers : opener[p].at \in {"in transaction", "written"}}

\* The version is read, and with it the migrations to do are chosen: an empty file gets
\* all tables in one transaction, an older one each version in its own.
ReadUserVersion(p) ==
  /\ opener[p].at = "off"
  /\ opener' = [opener EXCEPT ![p].read = schema.version,
                              ![p].at = IF schema.version > SQLITE_SCHEMA_VERSION
                                        THEN "MIGRATION_VERSION_UNSUPPORTED" ELSE "checking"]
  /\ UNCHANGED <<schema, openDeaths>>

\* assertMigrationChecksum of every version the file already has
AssertChecksums(p) ==
  /\ opener[p].at = "checking"
  /\ OpenerGoes(p, CASE \E n \in 1..opener[p].read : schema.row[n] # "ours"
                                                        -> "MIGRATION_FAILED"
                     [] OTHER -> IF opener[p].read = SQLITE_SCHEMA_VERSION THEN "open" ELSE "waiting")
  /\ UNCHANGED <<schema, openDeaths>>

\* BEGIN IMMEDIATE: one writer; who waits longer than busy_timeout fails.
NextOf(p) == IF opener[p].read = 0 THEN Versions ELSE {opener[p].read + 1}
BeginMigration(p) ==
  /\ opener[p].at = "waiting"
  /\ OpenerWrites = {}
  /\ opener' = [opener EXCEPT ![p].at = "in transaction", ![p].does = NextOf(p), ![p].draft = schema]
  /\ UNCHANGED <<schema, openDeaths>>
BeginTimesOut(p) == /\ opener[p].at = "waiting" /\ OpenerWrites # {}
                    /\ OpenerGoes(p, "MIGRATION_FAILED")
                    /\ UNCHANGED <<schema, openDeaths>>

\* Mutant: every migration states the newest version.
CreateTablesOfNewest(p) ==
  LET does == opener[p].does
  IN /\ opener[p].at = "in transaction"
     /\ IF does \cap opener[p].draft.tables # {}
        THEN OpenerGoes(p, "MIGRATION_FAILED")
        ELSE opener' = [opener EXCEPT
               ![p].at = "written",
               ![p].draft = [version |-> SQLITE_SCHEMA_VERSION,
                             tables  |-> @.tables \cup does,
                             row     |-> [n \in Versions |-> IF n \in does THEN "ours" ELSE @.row[n]]]]
     /\ UNCHANGED <<schema, openDeaths>>

\* CREATE TABLE and the row of each version, then the new user_version.  A table that
\* exists ends the transaction.
CreateTables(p) ==
  LET does == opener[p].does
  IN /\ opener[p].at = "in transaction"
     /\ IF does \cap opener[p].draft.tables # {}
        THEN OpenerGoes(p, "MIGRATION_FAILED")
        ELSE opener' = [opener EXCEPT
               ![p].at = "written",
               ![p].draft = [version |-> CHOOSE v \in does : \A n \in does : n <= v,
                             tables  |-> @.tables \cup does,
                             row     |-> [n \in Versions |-> IF n \in does THEN "ours" ELSE @.row[n]]]]
     /\ UNCHANGED <<schema, openDeaths>>

CommitMigration(p) ==
  /\ opener[p].at = "written"
  /\ schema' = opener[p].draft
  /\ opener' = [opener EXCEPT ![p].read = opener[p].draft.version,
                              ![p].at = IF opener[p].draft.version = SQLITE_SCHEMA_VERSION
                                        THEN "open" ELSE "waiting"]
  /\ UNCHANGED openDeaths

\* The process dies, or a statement fails: what is not committed is rolled back.
MigrationDies(p) ==
  /\ Cardinality(openDeaths) < MaxOpenDeaths
  /\ opener[p].at \in {"checking", "waiting", "in transaction", "written"}
  /\ opener' = [opener EXCEPT ![p] = IdleOpener]
  /\ openDeaths' = openDeaths \cup {p}
  /\ UNCHANGED schema

MigrationsNext == \E p \in Openers :
  \/ ReadUserVersion(p) \/ AssertChecksums(p) \/ BeginMigration(p) \/ BeginTimesOut(p)
  \/ CreateTables(p) \/ CommitMigration(p) \/ MigrationDies(p)

MigrationsSpec == MigrationsInit /\ [][MigrationsNext]_migrationVars
-----------------------------------------------------------------------------
MigrationsTypeOK ==
  /\ schema.version \in 0..4 /\ schema.tables \subseteq Versions
  /\ \A p \in Openers : opener[p].at \in {"off", "checking", "waiting", "in transaction", "written",
                          "open", "MIGRATION_FAILED", "MIGRATION_VERSION_UNSUPPORTED"}
  /\ openDeaths \subseteq Openers

\* A database is of one version: the tables and the rows in it are those of the version
\* it states, whoever died migrating it or migrated it at the same time.  Who opens it
\* finds all of them, and who fails to open a database that is ours had another process
\* migrating it beside him (migrations.ts migrateSqliteDatabase).
DatabasesOpenWhole ==
  /\ schema.version \in 0..SQLITE_SCHEMA_VERSION =>
       /\ schema.tables = 1..schema.version
       /\ \A n \in Versions : (schema.row[n] # "none") <=> n <= schema.version
  /\ \A p \in Openers : opener[p].at = "open" =>
       schema.version = SQLITE_SCHEMA_VERSION /\ \A n \in Versions : schema.row[n] = "ours"
  /\ \A p \in Openers :
       opener[p].at = "MIGRATION_FAILED" /\ (\A n \in Versions : schema.row[n] # "other") =>
         \E q \in Openers \ {p} : opener[q].at # "off" \/ q \in openDeaths
=============================================================================
