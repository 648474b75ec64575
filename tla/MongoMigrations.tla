--------------------------- MODULE MongoMigrations ---------------------------
(***************************************************************************)
(* The scripts under src/mongodb: migration-runner.ts, which applies the   *)
(* migrations or rolls the last one back, and seed-runner.ts.  Nothing     *)
(* keeps two of them from running at once, and one may stop anywhere.      *)
(*                                                                         *)
(* A migration creates its collection, its indexes, and then its record;   *)
(* createCollection() fails if the collection is there.  createIndex() and *)
(* insertOne() create a collection that is missing.  Abstracted: the       *)
(* fields, and records of the same millisecond.                            *)
(***************************************************************************)
EXTENDS Naturals, Sequences, FiniteSets

CONSTANTS
  Runners,    \* processes that run the scripts
  Indexes,    \* indexes of a collection, created one by one
  MaxStarts   \* bound: how often a script is started

ASSUME MigrationsAssumption == Indexes \in Nat /\ MaxStarts \in Nat

VARIABLES
  collections,  \* whether each is there, and its indexes
  accounts,     \* what the users collection has of the seeds
  records,      \* the migrations collection, in the order of appliedAt
  scripts,      \* what each process runs, and how far it is
  starts,       \* history: scripts started
  dropped       \* history: migrations that a rollback has undone

migrationVars == <<collections, accounts, records, scripts, starts, dropped>>

\* Each file under migrations/ has a collection: users and refresh_tokens.
MigrationFiles == <<"001", "002">>
Migrations == {"001", "002"}
Seeds == <<"admin@example.com", "user@example.com">>
NoCollection == [there |-> FALSE, indexes |-> {}]
NoScript == [at |-> "IDLE", seen |-> {}, i |-> 1, index |-> 1]

MigrationsInit ==
  /\ collections = [x \in Migrations |-> NoCollection]
  /\ accounts = {}
  /\ records = <<>>
  /\ scripts = [r \in Runners |-> NoScript]
  /\ starts = 0
  /\ dropped = {}

Recorded(x) == \E i \in DOMAIN records : records[i] = x
Of(r) == MigrationFiles[scripts[r].i]
Goes(r, at) == scripts' = [scripts EXCEPT ![r].at = at]

\* A script starts, connects and reads what is applied.
StartScript(r, first, seen, i) ==
  /\ scripts[r].at \in {"IDLE", "DONE", "FAILED"}
  /\ starts < MaxStarts /\ starts' = starts + 1
  /\ scripts' = [scripts EXCEPT ![r] =
       [at |-> first, seen |-> seen, i |-> i, index |-> 1]]
  /\ UNCHANGED <<collections, accounts, records, dropped>>

\* It stops, or the database fails it: main() exits.
Stops(r) ==
  /\ scripts[r].at \notin {"IDLE", "DONE", "FAILED"}
  /\ Goes(r, "FAILED")
  /\ UNCHANGED <<collections, accounts, records, starts, dropped>>

-----------------------------------------------------------------------------
(* migrate: runMigrations() and the migrations' up().                      *)

Migrate(r) == StartScript(r, "NEXT", {x \in Migrations : Recorded(x)}, 1)

\* What was applied when the script started is passed over.
NextFile(r) ==
  LET script == scripts[r] IN
  /\ script.at = "NEXT"
  /\ scripts' = [scripts EXCEPT ![r] =
       IF script.i > Len(MigrationFiles) THEN [script EXCEPT !.at = "DONE"]
       ELSE IF Of(r) \in script.seen THEN [script EXCEPT !.i = script.i + 1]
       ELSE [script EXCEPT !.at = "CREATE", !.index = 1]]
  /\ UNCHANGED <<collections, accounts, records, starts, dropped>>

\* Mutant of CreateCollection: a collection that is there does not matter.
CreateIfAbsent(r) ==
  /\ scripts[r].at = "CREATE"
  /\ Goes(r, "INDEX")
  /\ collections' = [collections EXCEPT ![Of(r)].there = TRUE]
  /\ UNCHANGED <<accounts, records, starts, dropped>>

CreateCollection(r) ==
  /\ scripts[r].at = "CREATE"
  /\ IF collections[Of(r)].there THEN Goes(r, "FAILED") /\ UNCHANGED collections
     ELSE /\ Goes(r, "INDEX")
          /\ collections' = [collections EXCEPT ![Of(r)].there = TRUE]
  /\ UNCHANGED <<accounts, records, starts, dropped>>

CreateIndex(r) ==
  /\ scripts[r].at = "INDEX"
  /\ IF scripts[r].index > Indexes THEN Goes(r, "MARK") /\ UNCHANGED collections
     ELSE /\ scripts' = [scripts EXCEPT ![r].index = @ + 1]
          /\ collections' = [collections EXCEPT ![Of(r)] =
               [there |-> TRUE, indexes |-> @.indexes \cup {scripts[r].index}]]
  /\ UNCHANGED <<accounts, records, starts, dropped>>

\* markMigrationAsApplied()
Mark(r) ==
  /\ scripts[r].at = "MARK"
  /\ records' = Append(records, Of(r))
  /\ scripts' = [scripts EXCEPT ![r].at = "NEXT", ![r].i = @ + 1]
  /\ UNCHANGED <<collections, accounts, starts, dropped>>

-----------------------------------------------------------------------------
(* rollback: rollbackLastMigration() and the migrations' down().           *)

Rollback(r) ==
  IF records = <<>> THEN StartScript(r, "DONE", {}, 1)
  ELSE \E i \in DOMAIN MigrationFiles :
         MigrationFiles[i] = records[Len(records)] /\ StartScript(r, "DROP", {}, i)

\* drop() of a collection that is missing is refused by servers before 7.0.
Down(r) ==
  /\ scripts[r].at = "DROP"
  /\ Goes(r, "UNMARK") \/ (~collections[Of(r)].there /\ Goes(r, "FAILED"))
  /\ collections' = [collections EXCEPT ![Of(r)] = NoCollection]
  /\ accounts' = IF Of(r) = "001" THEN {} ELSE accounts
  /\ dropped' = dropped \cup {Of(r)}
  /\ UNCHANGED <<records, starts>>

\* removeMigrationRecord(): deleteOne().
Unmark(r) ==
  /\ scripts[r].at = "UNMARK"
  /\ IF ~Recorded(Of(r)) THEN UNCHANGED records
     ELSE \E first \in DOMAIN records :
            /\ records[first] = Of(r) /\ \A j \in 1..first - 1 : records[j] # Of(r)
            /\ records' = SubSeq(records, 1, first - 1)
                             \o SubSeq(records, first + 1, Len(records))
  /\ Goes(r, "DONE")
  /\ UNCHANGED <<collections, accounts, starts, dropped>>

-----------------------------------------------------------------------------
(* seed: runSeeds() and users.seed.ts.                                     *)

SeedScript(r) == StartScript(r, "FIND", {}, 1)

FindAccount(r) ==
  LET script == scripts[r] IN
  /\ script.at = "FIND"
  /\ scripts' = [scripts EXCEPT ![r] =
       IF script.i > Len(Seeds) THEN [script EXCEPT !.at = "DONE"]
       ELSE IF Seeds[script.i] \in accounts THEN [script EXCEPT !.i = script.i + 1]
       ELSE [script EXCEPT !.at = "INSERT"]]
  /\ UNCHANGED <<collections, accounts, records, starts, dropped>>

\* insertOne(), after the hash: ids are unique.
InsertAccount(r) ==
  LET account == Seeds[scripts[r].i] IN
  /\ scripts[r].at = "INSERT"
  /\ IF account \in accounts THEN Goes(r, "FAILED") /\ UNCHANGED <<collections, accounts>>
     ELSE /\ accounts' = accounts \cup {account}
          /\ collections' = [collections EXCEPT !["001"].there = TRUE]
          /\ scripts' = [scripts EXCEPT ![r].at = "FIND", ![r].i = @ + 1]
  /\ UNCHANGED <<records, starts, dropped>>

MigrationsNext ==
  \E r \in Runners :
    \/ Migrate(r) \/ NextFile(r) \/ CreateCollection(r) \/ CreateIndex(r) \/ Mark(r)
    \/ Rollback(r) \/ Down(r) \/ Unmark(r)
    \/ SeedScript(r) \/ FindAccount(r) \/ InsertAccount(r)
    \/ Stops(r)

MigrationsSpec == MigrationsInit /\ [][MigrationsNext]_migrationVars

-----------------------------------------------------------------------------
(* Properties.                                                             *)

\* Every variable keeps its type.
MigrationsTypeOK ==
  /\ collections \in [Migrations -> [there : BOOLEAN, indexes : SUBSET (1..Indexes)]]
  /\ accounts \subseteq {Seeds[1], Seeds[2]}
  /\ records \in Seq(Migrations)
  /\ scripts \in [Runners ->
       [at : {"IDLE", "NEXT", "CREATE", "INDEX", "MARK", "DROP", "UNMARK", "FIND",
              "INSERT", "DONE", "FAILED"},
        seen : SUBSET Migrations, i : 1..3, index : 1..Indexes + 1]]
  /\ starts \in 0..MaxStarts
  /\ dropped \subseteq Migrations

\* A migration that is recorded was built completely and by one script, although
\* several may run it at once, stop in the middle of it, or find the collection
\* that a seed has created; except after a rollback, which may overlap the same
\* migration or stop before it removes the record.
AppliedMeansBuilt ==
  \A i \in DOMAIN records : records[i] \notin dropped =>
    /\ collections[records[i]] = [there |-> TRUE, indexes |-> 1..Indexes]
    /\ \A j \in DOMAIN records \ {i} : records[j] # records[i]
=============================================================================
