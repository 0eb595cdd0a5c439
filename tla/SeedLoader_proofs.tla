-------------------------- MODULE SeedLoader_proofs --------------------------
(***************************************************************************)
(* The invariant of SeedLoader, for a file and batches of any length.      *)
(***************************************************************************)
EXTENDS SeedLoader, TLAPS

USE LengthAssumption, BatchSizeAssumption, MaxRunsAssumption

\* The loop of process_chunks stays on the starts of batches.
LEMMA StartsStep ==
    /\ 0 \in Starts
    /\ \A s \in Starts : s \in Nat
    /\ \A s \in Starts : s < Length => s + BatchSize \in Starts
<1>1. 0 * BatchSize = 0 /\ 0 \in 0 .. Length
  OBVIOUS
<1>2. \A k \in 0 .. Length : k * BatchSize \in Nat
  OBVIOUS
<1>3. ASSUME NEW s \in Starts, s < Length
      PROVE  s + BatchSize \in Starts
  <2>1. PICK k \in 0 .. Length : s = k * BatchSize
    BY DEF Starts
  <2>2. k <= k * BatchSize
    <3>1. k \in Nat /\ BatchSize \in Nat /\ BatchSize >= 1
      OBVIOUS
    <3>2. BatchSize - 1 \in Nat
      BY <3>1
    <3>3. k * (BatchSize - 1) \in Nat
      BY <3>1, <3>2
    <3>4. k * BatchSize = k + k * (BatchSize - 1)
      BY <3>1
    <3> QED
      BY <3>1, <3>3, <3>4
  <2>3. k + 1 \in 0 .. Length
    BY <1>3, <2>1, <2>2
  <2>4. (k + 1) * BatchSize = s + BatchSize
    BY <2>1
  <2> QED
    BY <2>3, <2>4 DEF Starts
<1> QED
  BY <1>1, <1>2, <1>3 DEF Starts

\* An empty table, or none.
LEMMA InitInv == Init => SeedInv
<1> SUFFICES ASSUME Init PROVE SeedInv
  OBVIOUS
<1>1. TypeOK
  BY DEF Init, TypeOK, Options, Labels
<1>2. BatchesAreWhole /\ LoadsAddUp
  BY DEF Init, BatchesAreWhole, LoadsAddUp
<1>3. LoadingInStep /\ LoadIsAhead /\ NoOrphanChunks /\ FullSetupProgress
  BY DEF Init, LoadingInStep, LoadIsAhead, NoOrphanChunks, FullSetupProgress,
         Options
<1> QED
  BY <1>1, <1>2, <1>3 DEF SeedInv

\* The stages that may come first, and those of a run with all options.
LEMMA StageTypes ==
    ASSUME NEW f \in SUBSET Options
    PROVE  /\ AfterSample(f) \in {"vector", "idle"}
           /\ AfterCreate(f) \in {"sample", "vector", "idle"}
           /\ First(f) \in {"create", "sample", "vector", "idle"}
           /\ f = Options => /\ First(f) = "create"
                             /\ AfterCreate(f) = "sample"
                             /\ AfterSample(f) = "vector"
  BY DEF AfterSample, AfterCreate, First, Options

\* Every action keeps the types.
LEMMA TypesKept == SeedInv /\ [Next]_vars => TypeOK'
<1> SUFFICES ASSUME SeedInv, [Next]_vars PROVE TypeOK'
  OBVIOUS
<1>0. TypeOK
  BY DEF SeedInv
<1> USE <1>0 DEF TypeOK
<1>1. CASE Run
  <2>1. PICK f \in SUBSET Options : flags' = f /\ Proceed(First(f))
    BY <1>1 DEF Run
  <2>2. pc' \in Labels /\ outcome' \in {"complete", "running"}
    BY <2>1, StageTypes DEF Proceed, Labels
  <2> QED
    BY <1>1, <2>1, <2>2 DEF Run, database
<1>2. CASE ResetDb
  BY <1>2 DEF ResetDb, Proceed, Labels
<1>3. CASE RunMigrations
  BY <1>3, StageTypes DEF RunMigrations, Proceed, Labels
<1>4. CASE InjectSampleData
  BY <1>4, StageTypes DEF InjectSampleData, Proceed, Labels
<1>5. CASE FindResource
  BY <1>5 DEF FindResource, Proceed, Labels, database
<1>6. CASE CommitBatch
  BY <1>6 DEF CommitBatch
<1>7. CASE FinishLoading
  BY <1>7 DEF FinishLoading, Proceed, Labels, database
<1>8. CASE Fails
  BY <1>8 DEF Fails, Labels, database
<1>9. CASE UNCHANGED vars
  BY <1>9 DEF vars, database
<1> QED
  BY <1>1, <1>2, <1>3, <1>4, <1>5, <1>6, <1>7, <1>8, <1>9 DEF Next

\* The chunks change only when they are dropped and when a batch is committed.
LEMMA ChunkSteps ==
    ASSUME SeedInv, [Next]_vars
    PROVE  \/ UNCHANGED chunks
           \/ ResetDb
           \/ CommitBatch
  BY DEF Next, vars, Run, RunMigrations, InjectSampleData, FindResource,
         FinishLoading, Fails, database

\* What the commit of a batch does to one chunk.
LEMMA Counted ==
    ASSUME CommitBatch, NEW i \in Chunks
    PROVE  chunks'[i] = IF pos < i /\ i <= pos + BatchSize
                        THEN chunks[i] + 1 ELSE chunks[i]
  BY DEF CommitBatch, Batch

\* A batch ends where the next one starts, so its chunks go together; those
\* that precede it in the file have been counted by this load already.
LEMMA BatchesKept == SeedInv /\ [Next]_vars => BatchesAreWhole'
<1> SUFFICES ASSUME SeedInv, [Next]_vars PROVE BatchesAreWhole'
  OBVIOUS
<1>0. TypeOK /\ BatchesAreWhole /\ LoadIsAhead /\ LoadingInStep
  BY DEF SeedInv
<1>1. CASE UNCHANGED chunks
  BY <1>0, <1>1 DEF BatchesAreWhole
<1>2. CASE ResetDb
  BY <1>2 DEF ResetDb, BatchesAreWhole
<1>3. CASE CommitBatch
  <2>1. pos \in Starts /\ pos + BatchSize \in Starts /\ pos \in Nat
    BY <1>0, <1>3, StartsStep DEF CommitBatch, LoadingInStep
  <2>2. ASSUME NEW i \in Chunks, NEW j \in Chunks,
               \A s \in Starts : s < i <=> s < j
        PROVE  chunks'[i] = chunks'[j]
    <3>1. chunks[i] = chunks[j]
      BY <1>0, <2>2 DEF BatchesAreWhole
    <3>2. (pos < i <=> pos < j) /\ (pos + BatchSize < i <=> pos + BatchSize < j)
      BY <2>1, <2>2
    <3> QED
      BY <1>3, <2>1, <3>1, <3>2, Counted DEF Chunks
  <2>3. ASSUME NEW i \in Chunks, NEW j \in Chunks, i <= j
        PROVE  chunks'[j] <= chunks'[i]
    <3>1. chunks[j] <= chunks[i] /\ chunks[i] \in Nat /\ chunks[j] \in Nat
      BY <1>0, <2>3 DEF BatchesAreWhole, TypeOK
    <3>2. i <= pos /\ pos < j => chunks[j] < chunks[i]
      BY <1>0, <1>3 DEF LoadIsAhead, CommitBatch
    <3> QED
      BY <1>3, <2>1, <2>3, <3>1, <3>2, Counted DEF Chunks
  <2> QED
    BY <2>2, <2>3 DEF BatchesAreWhole
<1> QED
  BY <1>1, <1>2, <1>3, ChunkSteps

\* A batch that is committed puts its chunks ahead of those that follow.
LEMMA LoadStaysAhead == SeedInv /\ [Next]_vars => LoadIsAhead'
<1> SUFFICES ASSUME SeedInv, [Next]_vars PROVE LoadIsAhead'
  OBVIOUS
<1>0. TypeOK /\ BatchesAreWhole /\ LoadIsAhead
  BY DEF SeedInv
<1>1. CASE CommitBatch
  <2>1. SUFFICES ASSUME NEW i \in Chunks, NEW j \in Chunks,
                        i <= pos', pos' < j
                 PROVE  chunks'[j] < chunks'[i]
    BY DEF LoadIsAhead
  <2>2. pos \in Nat /\ pos' = pos + BatchSize /\ pc = "loading"
    BY <1>0, <1>1 DEF TypeOK, CommitBatch
  <2>3. i <= j
    BY <2>1, <2>2 DEF Chunks
  <2>4. chunks[j] <= chunks[i] /\ chunks[i] \in Nat /\ chunks[j] \in Nat
    BY <1>0, <2>3 DEF BatchesAreWhole, TypeOK
  <2>5. i <= pos /\ pos < j => chunks[j] < chunks[i]
    BY <1>0, <2>2 DEF LoadIsAhead
  <2> QED
    BY <1>1, <2>1, <2>2, <2>4, <2>5, Counted DEF Chunks
<1>2. CASE pc' # "loading"
  BY <1>2 DEF LoadIsAhead
<1>3. CASE FindResource
  BY <1>3 DEF FindResource, LoadIsAhead, Chunks
<1>4. CASE UNCHANGED vars
  BY <1>0, <1>4 DEF vars, database, LoadIsAhead
<1>5. Run \/ ResetDb \/ RunMigrations \/ InjectSampleData \/ FinishLoading
      \/ Fails => pc' # "loading"
  <2>1. flags \in SUBSET Options
    BY <1>0 DEF TypeOK
  <2> QED
    BY <2>1, StageTypes DEF Run, ResetDb, RunMigrations, InjectSampleData,
       FinishLoading, Fails, Proceed
<1> QED
  BY <1>1, <1>2, <1>3, <1>4, <1>5 DEF Next

\* Each load counts every chunk it has passed, and is counted once at its end.
LEMMA LoadsKept == SeedInv /\ [Next]_vars => LoadsAddUp'
<1> SUFFICES ASSUME SeedInv, [Next]_vars,
                    NEW i \in Chunks
             PROVE  LET current == IF pc' = "loading" /\ i <= pos' THEN 1 ELSE 0
                    IN  /\ loads' + current <= chunks'[i]
                        /\ chunks'[i] <= loads' + broken' + current
  BY DEF LoadsAddUp
<1>0. /\ LET current == IF pc = "loading" /\ i <= pos THEN 1 ELSE 0
         IN  /\ loads + current <= chunks[i]
             /\ chunks[i] <= loads + broken + current
      /\ chunks[i] \in Nat /\ loads \in Nat /\ broken \in Nat /\ pos \in Nat
      /\ i \in 1 .. Length /\ flags \in SUBSET Options
  BY DEF SeedInv, LoadsAddUp, TypeOK, Chunks
<1>1. CASE Run
  BY <1>0, <1>1, StageTypes DEF Run, Proceed, database
<1>2. CASE ResetDb
  BY <1>2 DEF ResetDb, Proceed
<1>3. CASE RunMigrations
  BY <1>0, <1>3, StageTypes DEF RunMigrations, Proceed
<1>4. CASE InjectSampleData
  BY <1>0, <1>4, StageTypes DEF InjectSampleData, Proceed
<1>5. CASE FindResource
  BY <1>0, <1>5 DEF FindResource, Proceed, database
<1>6. CASE CommitBatch
  <2>1. /\ pos' = pos + BatchSize /\ pc = "loading" /\ pc' = "loading"
        /\ UNCHANGED <<loads, broken>>
    BY <1>6 DEF CommitBatch
  <2> QED
    BY <1>0, <1>6, <2>1, Counted
<1>7. CASE FinishLoading
  BY <1>0, <1>7 DEF FinishLoading, Proceed, database
<1>8. CASE Fails
  BY <1>0, <1>8 DEF Fails, database
<1>9. CASE UNCHANGED vars
  BY <1>0, <1>9 DEF vars, database
<1> QED
  BY <1>1, <1>2, <1>3, <1>4, <1>5, <1>6, <1>7, <1>8, <1>9 DEF Next

\* The stages of a run follow each other, and only a single resource gets
\* chunks.
LEMMA StagesKept ==
    SeedInv /\ [Next]_vars
        => LoadingInStep' /\ NoOrphanChunks' /\ FullSetupProgress'
<1> SUFFICES ASSUME SeedInv, [Next]_vars
             PROVE  LoadingInStep' /\ NoOrphanChunks' /\ FullSetupProgress'
  OBVIOUS
<1>0. /\ TypeOK /\ LoadingInStep /\ NoOrphanChunks /\ FullSetupProgress
      /\ flags \in SUBSET Options
  BY DEF SeedInv, TypeOK
<1> USE <1>0 DEF TypeOK, LoadingInStep, NoOrphanChunks, FullSetupProgress
<1>1. CASE Run
  <2>1. PICK f \in SUBSET Options : flags' = f /\ Proceed(First(f))
    BY <1>1 DEF Run
  <2>2. /\ pc' \in {"create", "sample", "vector", "idle"}
        /\ f = Options => pc' = "create"
        /\ outcome' = IF pc' = "idle" THEN "complete" ELSE "running"
    BY <2>1, StageTypes DEF Proceed
  <2> QED
    BY <1>1, <2>1, <2>2 DEF Run, database
<1>2. CASE ResetDb
  BY <1>2 DEF ResetDb, Proceed
<1>3. CASE RunMigrations
  BY <1>3, StageTypes DEF RunMigrations, Proceed
<1>4. CASE InjectSampleData
  BY <1>4, StageTypes DEF InjectSampleData, Proceed
<1>5. CASE FindResource
  BY <1>5, StartsStep DEF FindResource, Proceed, database
<1>6. CASE CommitBatch
  BY <1>6, StartsStep DEF CommitBatch
<1>7. CASE FinishLoading
  BY <1>7 DEF FinishLoading, Proceed, database
<1>8. CASE Fails
  BY <1>8 DEF Fails, database
<1>9. CASE UNCHANGED vars
  BY <1>9 DEF vars, database
<1> QED
  BY <1>1, <1>2, <1>3, <1>4, <1>5, <1>6, <1>7, <1>8, <1>9 DEF Next

-----------------------------------------------------------------------------
\* The inductive invariant of seed.py holds for any file and batch size.
THEOREM SeedInvariant == Spec => []SeedInv
<1>1. SeedInv /\ [Next]_vars => SeedInv'
  BY TypesKept, BatchesKept, LoadsKept, StagesKept, LoadStaysAhead DEF SeedInv
<1> QED
  BY InitInv, <1>1, PTL DEF Spec

\* Every variable of seed.py keeps its type.
THEOREM SeedTypes == Spec => []TypeOK
<1>1. SeedInv => TypeOK
  BY DEF SeedInv
<1> QED
  BY SeedInvariant, <1>1, PTL

\* process_chunks commits whole batches, whatever fails.
THEOREM BatchesWhole == Spec => []BatchesAreWhole
<1>1. SeedInv => BatchesAreWhole
  BY DEF SeedInv
<1> QED
  BY SeedInvariant, <1>1, PTL

\* Every load that ends has left each chunk once, any other at most once.
THEOREM EveryLoadCounts == Spec => []LoadsAddUp
<1>1. SeedInv => LoadsAddUp
  BY DEF SeedInv
<1> QED
  BY SeedInvariant, <1>1, PTL

\* A run with all three options that completes leaves the database as the
\* documentation says.
THEOREM FullSetupWorks == Spec => []FullSetupIsReady
<1>1. SeedInv => FullSetupIsReady
  <2> SUFFICES ASSUME SeedInv, flags = Options, outcome = "complete"
               PROVE  tables /\ resources = 1 /\ \A i \in Chunks : chunks[i] = 1
    BY DEF FullSetupIsReady
  <2>1. tables /\ resources = 1 /\ loads = 1 /\ broken = 0 /\ pc = "idle"
    BY DEF SeedInv, TypeOK, FullSetupProgress, LoadingInStep
  <2>2. ASSUME NEW i \in Chunks
        PROVE  chunks[i] = 1
    BY <2>1 DEF SeedInv, LoadsAddUp, TypeOK
  <2> QED
    BY <2>1, <2>2
<1> QED
  BY SeedInvariant, <1>1, PTL
=============================================================================
