------------------------------- MODULE ScyllaInit ------------------------------
(***************************************************************************)
(* How a process opens ScyllaDB: it creates the keyspace, runs the            *)
(* migrations and opens a session.                                          *)
(*                                                                          *)
(* golang-migrate records the last migration in a table of the keyspace, one  *)
(* row per version with a dirty mark; it writes the record by emptying the    *)
(* table and inserting a row.  Its Lock is a flag in memory, so processes     *)
(* that start together migrate together.  Every migration is a               *)
(* CREATE TABLE IF NOT EXISTS.                                              *)
(*                                                                          *)
(* Source: src/manager/repository/scyllarepo, src/adapter/scylladb,           *)
(*         src/source/repository/scylladb/migrate, src/examples/scylladb      *)
(***************************************************************************)
EXTENDS Naturals, FiniteSets

CONSTANTS
  Opener,         \* the processes that open the database
  Hosts,          \* the number of hosts of the configuration
  LastMigration,  \* the number of the last migration
  MaxFailures     \* bound on the calls that fail and on crashes

ASSUME DatabaseAssumption ==
  /\ Hosts \in Nat \ {0} /\ LastMigration \in Nat \ {0} /\ MaxFailures \in Nat

Migration == 1 .. LastMigration

VARIABLES
  example,   \* the processes run examples/scylladb, not the manager (rigid)
  opening,   \* where each process is
  next,      \* the migration it is at
  host,      \* the host that it migrates through
  keyspace,  \* the keyspace exists
  tables,    \* the migrations whose table exists
  rows,      \* the table of the migrations: records of a version and its mark
  sessions,  \* sessions that were opened and not closed, by process
  failures,  \* failed calls and crashes so far
  cutOff     \* history: a process left a migration between its two records

databaseVars == <<example, opening, next, host, keyspace, tables, rows, sessions, failures, cutOff>>

database == <<keyspace, tables, rows>>
local == <<next, host>>
history == <<failures, cutOff>>

DatabaseInit ==
  /\ example \in BOOLEAN
  /\ opening = [p \in Opener |-> "keyspaceSession"]
  /\ next = [p \in Opener |-> 1]
  /\ host = [p \in Opener |-> 1]
  /\ keyspace = FALSE
  /\ tables = {}
  /\ rows = {}
  /\ sessions = [p \in Opener |-> 0]
  /\ failures = 0
  /\ cutOff = FALSE

GoTo(p, to) == opening' = [opening EXCEPT ![p] = to]

\* What follows a step that succeeded, in scyllarepo.New and in the example.
New == [keyspace |-> "version", migrations |-> "session", session |-> "serving"]
exampleMain == [keyspace |-> "session", session |-> "version", migrations |-> "dead"]

After(step) == IF example THEN exampleMain[step] ELSE New[step]

\* NewScyllaDBConnection: the manager migrates through its first host, the
\* example through all of them.
MigrationHosts == IF example THEN Hosts ELSE 1

\* createSession
OpenSession(p) == sessions' = [sessions EXCEPT ![p] = @ + 1]

\* log.Fatal, a panic or the end of main: the sessions end with the process.
EndProcess(p) == GoTo(p, "dead") /\ sessions' = [sessions EXCEPT ![p] = 0]

\* The mark was written, and not yet the record without it.
Marked == {"apply", "truncateClean"}

\* A call fails or the process dies at it: the manager gives up on every
\* error.  The example gives up at its session (the session it defers to close
\* is nil), logs the error of a migration, and then is over as well.
CallFails(p) ==
  /\ opening[p] # "dead"
  /\ failures < MaxFailures
  /\ failures' = failures + 1
  /\ cutOff' = (cutOff \/ opening[p] \in Marked)
  /\ EndProcess(p)
  /\ UNCHANGED <<example, local, database>>

-----------------------------------------------------------------------------
(* CreateKeySpace *)

\* createSession on the keyspace "system"
CreateKeySpace(p) ==
  /\ opening[p] = "keyspaceSession"
  /\ OpenSession(p)
  /\ GoTo(p, "keyspace")
  /\ UNCHANGED <<example, local, database, history>>

\* CREATE KEYSPACE IF NOT EXISTS; the session stays open.
createKeyspace(p) ==
  /\ opening[p] = "keyspace"
  /\ keyspace' = TRUE
  /\ GoTo(p, After("keyspace"))
  /\ UNCHANGED <<example, local, tables, rows, sessions, history>>

-----------------------------------------------------------------------------
(* RunMigrations: Manager.Run for every host *)

\* Run has returned nil: the next host, or the step after RunMigrations.
RunReturns(p) ==
  /\ host' = [host EXCEPT ![p] = IF @ < MigrationHosts THEN @ + 1 ELSE 1]
  /\ IF host[p] < MigrationHosts THEN GoTo(p, "version") /\ UNCHANGED sessions
     ELSE IF After("migrations") = "dead" THEN EndProcess(p)
     ELSE GoTo(p, After("migrations")) /\ UNCHANGED sessions

\* The versions that a read of the table (LIMIT 1) may find.
Found == IF rows = {} THEN {[version |-> 0, dirty |-> FALSE]} ELSE rows

\* Mutant: the mark is not looked at.
UpIgnoresDirty(p) ==
  /\ opening[p] = "version"
  /\ \E r \in Found :
       IF r.version = LastMigration THEN RunReturns(p) /\ UNCHANGED next
       ELSE /\ next' = [next EXCEPT ![p] = r.version + 1]
            /\ GoTo(p, "truncateDirty")
            /\ UNCHANGED <<host, sessions>>
  /\ UNCHANGED <<example, database, history>>

\* Up: ErrDirty ends the process, ErrNoChange is no error.
Up(p) ==
  /\ opening[p] = "version"
  /\ \E r \in Found :
       IF r.dirty THEN EndProcess(p) /\ UNCHANGED local
       ELSE IF r.version = LastMigration THEN RunReturns(p) /\ UNCHANGED next
       ELSE /\ next' = [next EXCEPT ![p] = r.version + 1]
            /\ GoTo(p, "truncateDirty")
            /\ UNCHANGED <<host, sessions>>
  /\ UNCHANGED <<example, database, history>>

\* SetVersion, first half.
Truncate(p) ==
  /\ opening[p] \in {"truncateDirty", "truncateClean"}
  /\ rows' = {}
  /\ GoTo(p, IF opening[p] = "truncateDirty" THEN "insertDirty" ELSE "insertClean")
  /\ UNCHANGED <<example, local, keyspace, tables, sessions, history>>

\* An INSERT replaces the row of the same key.
Insert(v, mark) ==
  rows' = {r \in rows : r.version # v} \cup {[version |-> v, dirty |-> mark]}

InsertDirty(p) ==
  /\ opening[p] = "insertDirty"
  /\ Insert(next[p], TRUE)
  /\ GoTo(p, "apply")
  /\ UNCHANGED <<example, local, keyspace, tables, sessions, history>>

\* The statement of the migration.
Apply(p) ==
  /\ opening[p] = "apply"
  /\ tables' = tables \cup {next[p]}
  /\ GoTo(p, "truncateClean")
  /\ UNCHANGED <<example, local, keyspace, rows, sessions, history>>

InsertClean(p) ==
  /\ opening[p] = "insertClean"
  /\ Insert(next[p], FALSE)
  /\ IF next[p] = LastMigration THEN RunReturns(p) /\ UNCHANGED next
     ELSE /\ next' = [next EXCEPT ![p] = @ + 1]
          /\ GoTo(p, "truncateDirty")
          /\ UNCHANGED <<host, sessions>>
  /\ UNCHANGED <<example, keyspace, tables, history>>

-----------------------------------------------------------------------------

\* GetConnection: the session that the process works with.
GetConnection(p) ==
  /\ opening[p] = "session"
  /\ OpenSession(p)
  /\ GoTo(p, After("session"))
  /\ UNCHANGED <<example, local, database, history>>

\* main is started again.
StartAgain(p) ==
  /\ opening[p] = "dead"
  /\ GoTo(p, "keyspaceSession")
  /\ next' = [next EXCEPT ![p] = 1]
  /\ host' = [host EXCEPT ![p] = 1]
  /\ UNCHANGED <<example, database, sessions, history>>

DatabaseNext ==
  \E p \in Opener :
    \/ CreateKeySpace(p) \/ createKeyspace(p) \/ Up(p) \/ Truncate(p) \/ InsertDirty(p)
    \/ Apply(p) \/ InsertClean(p) \/ GetConnection(p) \/ CallFails(p) \/ StartAgain(p)

DatabaseSpec == DatabaseInit /\ [][DatabaseNext]_databaseVars

-----------------------------------------------------------------------------
(* Properties *)

Stage == {"keyspaceSession", "keyspace", "version", "truncateDirty", "insertDirty", "apply",
          "truncateClean", "insertClean", "session", "serving", "dead"}

\* The type of every variable of the initialisation.
DatabaseTypeOK ==
  /\ example \in BOOLEAN
  /\ opening \in [Opener -> Stage]
  /\ next \in [Opener -> Migration]
  /\ host \in [Opener -> 1 .. Hosts]
  /\ keyspace \in BOOLEAN
  /\ tables \subseteq Migration
  /\ rows \subseteq [version : Migration, dirty : BOOLEAN]
  /\ sessions \in [Opener -> 0 .. 2]
  /\ failures \in 0 .. MaxFailures
  /\ cutOff \in BOOLEAN

\* A manager that serves has the keyspace and the table of every migration,
\* whichever processes migrated at the same time and whoever died over it.  A
\* recorded version is never ahead of the tables, but for a marked one; and a
\* mark that no process is going to remove was left by one that was cut off
\* (until it is removed by hand, every start then fails with ErrDirty).
SchemaIsSound ==
  /\ \A p \in Opener : opening[p] = "serving" => keyspace /\ tables = Migration
  /\ \A r \in rows : 1 .. (IF r.dirty THEN r.version - 1 ELSE r.version) \subseteq tables
  /\ (\E r \in rows : r.dirty) => cutOff \/ \E p \in Opener : opening[p] \in Marked
=============================================================================
