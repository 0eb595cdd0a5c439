------------------------------ MODULE SeedLoader ------------------------------
(***************************************************************************)
(* scripts/database/seed.py: the command that creates the tables, adds the *)
(* sample subject, class and resource, and loads the chunks of the         *)
(* textbook in batches, each in a transaction of its own.  It is run by    *)
(* hand, again after it has failed and again by mistake; what it has       *)
(* committed when it stops is what the next run finds, and what the tools  *)
(* of the running system search.                                           *)
(***************************************************************************)
EXTENDS Naturals

CONSTANTS
    Length,     \* chunks in the file
    BatchSize,  \* process_chunks(batch_size): 30 in the code
    MaxRuns     \* bound on the times the command is run

ASSUME LengthAssumption    == Length \in Nat
ASSUME BatchSizeAssumption == BatchSize \in Nat \ {0}
ASSUME MaxRunsAssumption   == MaxRuns \in Nat

VARIABLES
    flags,      \* options of the latest run
    pc,         \* what that run does next, "idle" when it is over
    outcome,    \* how the latest run ended, if it has
    pos,        \* start_idx of process_chunks
    tables,     \* whether the tables exist
    resources,  \* rows of resources: each has the name in data.yaml
    chunks,     \* chunks[i]: rows of the chunks table with chunk i of the file
    loads,      \* loads since the tables were dropped that came to their end
    broken,     \* loads since then that did not
    ran         \* times the command was run

database == <<tables, resources, chunks>>
vars == <<flags, pc, outcome, pos, database, loads, broken, ran>>

Options == {"create", "sample", "vector"}
Labels  == {"idle", "create", "migrate", "sample", "vector", "loading"}
Chunks  == 1 .. Length

\* What main does first, after --create, and after --sample-data.
AfterSample(f) == IF "vector" \in f THEN "vector" ELSE "idle"
AfterCreate(f) == IF "sample" \in f THEN "sample" ELSE AfterSample(f)
First(f)       == IF "create" \in f THEN "create" ELSE AfterCreate(f)

\* range(0, total_chunks, batch_size), and the items of the batch at s.
Starts == {k * BatchSize : k \in 0 .. Length}
BatchFullOnly(s) == IF s + BatchSize > Length THEN {} ELSE s + 1 .. s + BatchSize
Batch(s) == {i \in Chunks : s < i /\ i <= s + BatchSize}

\* On to the next stage; when there is none the setup is complete.
Proceed(stage) ==
    /\ pc' = stage
    /\ outcome' = IF stage = "idle" THEN "complete" ELSE "running"

Init ==
    /\ flags = {}
    /\ pc = "idle"
    /\ outcome = "none"
    /\ pos = 0
    /\ tables \in BOOLEAN
    /\ resources = 0
    /\ chunks = [i \in Chunks |-> 0]
    /\ loads = 0
    /\ broken = 0
    /\ ran = 0

\* main: the arguments are parsed.
Run ==
    /\ pc = "idle"
    /\ ran < MaxRuns
    /\ ran' = ran + 1
    /\ \E f \in SUBSET Options : flags' = f /\ Proceed(First(f))
    /\ UNCHANGED <<pos, database, loads, broken>>

\* reset_db: everything is dropped in one transaction.
ResetDb ==
    /\ pc = "create"
    /\ tables' = FALSE
    /\ resources' = 0
    /\ chunks' = [i \in Chunks |-> 0]
    /\ loads' = 0
    /\ broken' = 0
    /\ Proceed("migrate")
    /\ UNCHANGED <<flags, pos, ran>>

\* run_migrations: alembic upgrades to the head in one transaction.
RunMigrations ==
    /\ pc = "migrate"
    /\ tables' = TRUE
    /\ Proceed(AfterCreate(flags))
    /\ UNCHANGED <<flags, pos, resources, chunks, loads, broken, ran>>

\* inject_sample_data: no name is unique, so each run adds one more resource.
InjectSampleData ==
    /\ pc = "sample"
    /\ tables
    /\ resources' = resources + 1
    /\ Proceed(AfterSample(flags))
    /\ UNCHANGED <<flags, pos, tables, chunks, loads, broken, ran>>

\* inject_vector_data up to process_chunks.  scalar_one_or_none raises when
\* the name fits several resources.
FindResource ==
    /\ pc = "vector"
    /\ tables
    /\ resources = 1
    /\ pos' = 0
    /\ Proceed("loading")
    /\ UNCHANGED <<flags, database, loads, broken, ran>>

\* process_chunks, one batch and its commit.
CommitChunk ==
    /\ pc = "loading"
    /\ pos < Length
    /\ chunks' = [chunks EXCEPT ![pos + 1] = chunks[pos + 1] + 1]
    /\ pos' = pos + 1
    /\ UNCHANGED <<flags, pc, outcome, tables, resources, loads, broken, ran>>
CommitBatch ==
    /\ pc = "loading"
    /\ pos < Length
    /\ chunks' = [i \in Chunks |->
                    IF i \in Batch(pos) THEN chunks[i] + 1 ELSE chunks[i]]
    /\ pos' = pos + BatchSize
    /\ UNCHANGED <<flags, pc, outcome, tables, resources, loads, broken, ran>>

\* "Vector data injection complete".
FinishLoading ==
    /\ pc = "loading"
    /\ pos >= Length
    /\ loads' = loads + 1
    /\ Proceed("idle")
    /\ UNCHANGED <<flags, pos, database, broken, ran>>

\* "Setup failed": an error of the database or of an item, a missing file, a
\* missing or doubled resource; or the command is killed.  What was not
\* committed is rolled back, what was committed stays.
FailsUnreported ==
    /\ pc # "idle"
    /\ Proceed("idle")
    /\ broken' = broken + (IF pc = "loading" THEN 1 ELSE 0)
    /\ UNCHANGED <<flags, pos, database, loads, ran>>
Fails ==
    /\ pc # "idle"
    /\ pc' = "idle"
    /\ outcome' = "failed"
    /\ broken' = broken + (IF pc = "loading" THEN 1 ELSE 0)
    /\ UNCHANGED <<flags, pos, database, loads, ran>>

Next ==
    \/ Run \/ ResetDb \/ RunMigrations \/ InjectSampleData
    \/ FindResource \/ CommitBatch \/ FinishLoading \/ Fails

Spec == Init /\ [][Next]_vars

-----------------------------------------------------------------------------
(* What must hold.                                                         *)

TypeOK ==
    /\ flags \in SUBSET Options
    /\ pc \in Labels
    /\ outcome \in {"none", "running", "complete", "failed"}
    /\ pos \in Nat
    /\ tables \in BOOLEAN
    /\ resources \in Nat
    /\ chunks \in [Chunks -> Nat]
    /\ loads \in Nat
    /\ broken \in Nat
    /\ ran \in 0 .. MaxRuns

\* Wherever runs fail or are killed, the chunks of one batch are in the table
\* equally often, and none oftener than one that precedes it in the file.
BatchesAreWhole ==
    \A i, j \in Chunks :
        /\ (\A s \in Starts : s < i <=> s < j) => chunks[i] = chunks[j]
        /\ i <= j => chunks[j] <= chunks[i]

\* A load starts from the first chunk whatever is there already: each one that
\* came to its end has left every chunk once, and each that did not, the one
\* under way included, at most once.
LoadsAddUp ==
    \A i \in Chunks :
        LET current == IF pc = "loading" /\ i <= pos THEN 1 ELSE 0
        IN  /\ loads + current <= chunks[i]
            /\ chunks[i] <= loads + broken + current

\* The command of docs/en/MIGRATIONS.md, with all three options, leaves the
\* database "ready to accept new users", whatever was there before: one
\* resource, and every chunk of the file once.
FullSetupIsReady ==
    flags = Options /\ outcome = "complete" =>
        tables /\ resources = 1 /\ \A i \in Chunks : chunks[i] = 1

(***************************************************************************)
(* What the invariants above rest on.                                      *)
(***************************************************************************)
\* A load under way is at the start of a batch or past the file, and belongs
\* to the only resource.
LoadingInStep ==
    /\ pc = "loading" => resources = 1 /\ tables /\ pos \in Starts
    /\ outcome = "running" <=> pc # "idle"

\* What the load under way has added is on top of what was there.
LoadIsAhead ==
    pc = "loading" =>
        \A i, j \in Chunks : i <= pos /\ pos < j => chunks[j] < chunks[i]

\* No chunk without tables, and none before its resource.
NoOrphanChunks ==
    /\ ~tables => resources = 0
    /\ resources = 0 => loads = 0 /\ broken = 0 /\ pc # "loading"

\* How far a run with all three options has got.
FullSetupProgress ==
    flags = Options =>
        /\ pc = "migrate" => resources = 0
        /\ pc = "sample" => resources = 0 /\ tables
        /\ pc = "vector" => resources = 1 /\ tables /\ loads + broken = 0
        /\ pc = "loading" => loads + broken = 0
        /\ outcome = "complete" => resources = 1 /\ tables
                                   /\ loads = 1 /\ broken = 0

\* The inductive invariant.
SeedInv ==
    /\ TypeOK
    /\ BatchesAreWhole
    /\ LoadsAddUp
    /\ LoadingInStep
    /\ LoadIsAhead
    /\ NoOrphanChunks
    /\ FullSetupProgress
=============================================================================
