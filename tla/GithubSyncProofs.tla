-------------------------- MODULE GithubSyncProofs --------------------------
(***************************************************************************)
(* Safety of the sync queue and of the canonical records it writes, for    *)
(* any number of jobs, repositories, workers, attempts and clock values.   *)
(***************************************************************************)
EXTENDS GithubSync, FiniteSetTheorems, TLAPS

\* The attempt numbers, and the statuses that steps assign.
LEMMA RowValues ==
    /\ MaxAttempts \in Nat /\ 0 \in 0..MaxAttempts
    /\ {"queued", "running", "cancelled", "failed", "succeeded", "partial"} \subseteq JobStatus
    /\ "absent" \in JobStatus
BY SyncAssumption DEF JobStatus, Terminal, Finished

\* A job row whose status, lease and timer are replaced is a job row.
LEMMA RowUpdate ==
    ASSUME NEW old \in JobRows, NEW st \in JobStatus, NEW o \in 0..MaxAttempts,
           NEW e \in BOOLEAN
    PROVE  /\ [old EXCEPT !.status = st, !.owner = o, !.elapsed = e] \in JobRows
           /\ [old EXCEPT !.status = st, !.elapsed = e] \in JobRows
           /\ [old EXCEPT !.elapsed = e] \in JobRows
BY DEF JobRows

-----------------------------------------------------------------------------
(* Canonical records.                                                      *)

\* The times are natural numbers, and zero, the time of absent snapshots, is one.
LEMMA TimesNat == Times \subseteq Nat /\ 0 \in Times
BY ClockAssumption DEF Times

\* An upserted or tombstoned record is a record.
LEMMA WrittenType ==
    ASSUME NEW rec \in Records, NEW b \in Snapshots,
           NEW restore \in BOOLEAN, NEW authoritative \in BOOLEAN
    PROVE  Written(rec, b, restore, authoritative) \in Records
<1>1. Upsert(rec, b, restore) \in Records
  BY TimesNat DEF Upsert, Records, Snapshots
<1>2. Tombstone(rec, b) \in Records
  BY DEF Tombstone, Records, Snapshots
<1>3. QED
  BY <1>1, <1>2 DEF Written

\* What a write knows of one repository, and what it leaves there.
LEMMA WriteOne ==
    ASSUME SourceTypeOK,
           NEW R, NEW b, NEW restore \in BOOLEAN, NEW unseen, NEW authoritative \in BOOLEAN,
           R \subseteq Repos, \A q \in R : b[q] \in Snapshots,
           Write(R, b, restore, unseen, authoritative),
           NEW r \in Repos
    PROVE  /\ r \notin R => /\ UNCHANGED <<record[r], ledger[r], newest[r]>>
                            /\ r \in untold' <=> r \in untold
           /\ r \in R =>
                /\ record'[r] = Written(record[r], b[r], restore \/ r \in unseen, authoritative)
                /\ ledger'[r] = Lifecycle(ledger[r], record[r], record'[r], r \in unseen)
                /\ newest'[r] = IF /\ b[r].present => \/ restore \/ r \in unseen
                                                      \/ record[r].state # "deleted"
                                   /\ b[r].present \/ authoritative
                                   /\ b[r].stamp >= newest[r].stamp
                                THEN b[r] ELSE newest[r]
                /\ r \in untold' <=>
                      IF record[r].state = "deleted" /\ record'[r].state = "live"
                      THEN r \in unseen ELSE r \in untold /\ record'[r].state = "live"
BY DEF Write, SourceTypeOK

\* Writing snapshots keeps the types of the records.
LEMMA WriteType ==
    ASSUME SourceTypeOK,
           NEW R, NEW b, NEW restore \in BOOLEAN, NEW unseen, NEW authoritative \in BOOLEAN,
           R \subseteq Repos, \A q \in R : b[q] \in Snapshots,
           Write(R, b, restore, unseen, authoritative)
    PROVE  SourceTypeOK'
<1>1. \A r \in R : Written(record[r], b[r], restore \/ r \in unseen, authoritative) \in Records
  BY WrittenType DEF SourceTypeOK
<1>2. record' \in [Repos -> Records]
  BY <1>1 DEF Write, SourceTypeOK
<1>3. ledger' \in [Repos -> {"none", "disappeared", "restored"}]
  BY DEF Write, SourceTypeOK, Lifecycle
<1>4. newest' \in [Repos -> Snapshots]
  BY DEF Write, SourceTypeOK
<1>5. untold' \subseteq Repos
  BY DEF Write
<1>6. QED
  BY <1>2, <1>3, <1>4, <1>5 DEF Write, SourceTypeOK

\* The stored observation and tombstone are no newer than the newest snapshot,
\* and what that snapshot listed is what is stored.
RecordInv(r) ==
    /\ record[r].observed <= newest[r].stamp
    /\ record[r].tomb <= newest[r].stamp
    /\ newest[r].present => /\ record[r].state = "live"
                            /\ record[r].read = newest[r].read
                            /\ record[r].observed = newest[r].stamp
    /\ record[r].state = "deleted" <=> ledger[r] = "disappeared" /\ r \notin untold
    /\ r \in untold => record[r].state = "live"

\* Snapshots written in any order keep the record invariant.
LEMMA WriteInv ==
    ASSUME SourceTypeOK, \A r \in Repos : RecordInv(r),
           NEW R, NEW b, NEW restore \in BOOLEAN, NEW unseen, NEW authoritative \in BOOLEAN,
           R \subseteq Repos, \A q \in R : b[q] \in Snapshots,
           Write(R, b, restore, unseen, authoritative)
    PROVE  \A r \in Repos : RecordInv(r)'
<1> SUFFICES ASSUME NEW r \in Repos PROVE RecordInv(r)'
  OBVIOUS
<1>1. CASE r \notin R
  BY <1>1, WriteOne DEF RecordInv
<1>2. CASE r \in R
  <2> DEFINE rec == record[r]
             sn  == newest[r]
             new == record'[r]
             bb  == b[r]
             missing == r \in unseen
  <2>1. rec \in Records /\ sn \in Snapshots /\ bb \in Snapshots
    BY <1>2 DEF SourceTypeOK
  <2>2. /\ new = Written(rec, bb, restore \/ missing, authoritative)
        /\ ledger'[r] = Lifecycle(ledger[r], rec, new, missing)
        /\ newest'[r] = IF /\ bb.present => (restore \/ missing) \/ rec.state # "deleted"
                           /\ bb.present \/ authoritative
                           /\ bb.stamp >= sn.stamp
                        THEN bb ELSE sn
        /\ r \in untold' <=>
              IF rec.state = "deleted" /\ new.state = "live"
              THEN missing ELSE r \in untold /\ new.state = "live"
    BY <1>2, WriteOne
  <2>3. /\ rec.observed \in Nat /\ rec.tomb \in Nat /\ sn.stamp \in Nat /\ bb.stamp \in Nat
        /\ bb.present \in BOOLEAN /\ sn.present \in BOOLEAN
    BY <2>1, TimesNat DEF Records, Snapshots
  <2>4. RecordInv(r)
    OBVIOUS
  <2>5. CASE bb.present
    <3>1. new = Upsert(rec, bb, restore \/ missing)
      BY <2>2, <2>5 DEF Written
    <3>2. CASE new = rec
      BY <2>1, <2>2, <2>3, <2>4, <2>5, <3>1, <3>2 DEF RecordInv, Upsert, Lifecycle, Records
    <3>3. CASE new # rec
      <4>1. /\ new = [state |-> "live", read |-> bb.read, observed |-> bb.stamp,
                      tomb |-> 0, tombRead |-> 0]
            /\ rec.state = "deleted" => restore \/ missing
            /\ rec.observed <= bb.stamp
        BY <2>3, <3>1, <3>3 DEF Upsert
      <4>2. ledger'[r] # "disappeared" \/ r \in untold'
        BY <2>2, <2>4, <4>1 DEF Lifecycle, RecordInv
      <4>3. QED
        BY <2>2, <2>3, <2>4, <2>5, <4>1, <4>2 DEF RecordInv
    <3>4. QED
      BY <3>2, <3>3
  <2>6. CASE ~bb.present
    <3>1. new = IF authoritative THEN Tombstone(rec, bb) ELSE rec
      BY <2>2, <2>6 DEF Written
    <3>2. CASE new = rec
      <4>1. ledger'[r] = ledger[r] /\ (r \in untold' <=> r \in untold)
        BY <2>2, <2>4, <3>2 DEF Lifecycle, RecordInv
      <4>2. QED
        BY <2>2, <2>3, <2>4, <2>6, <3>2, <4>1 DEF RecordInv
    <3>3. CASE new # rec
      <4>1. authoritative /\ rec.state = "live" /\ rec.observed <= bb.stamp
        BY <3>1, <3>3 DEF Tombstone
      <4>2. /\ new.state = "deleted" /\ new.tomb = bb.stamp
            /\ new.observed = rec.observed
        BY <2>1, <3>1, <4>1 DEF Tombstone, Records
      <4>3. ledger'[r] = "disappeared" /\ r \notin untold'
        BY <2>2, <4>1, <4>2 DEF Lifecycle
      <4>4. CASE bb.stamp >= sn.stamp
        <5>1. newest'[r] = bb
          BY <2>2, <2>6, <4>1, <4>4
        <5>2. QED
          BY <2>3, <2>6, <4>1, <4>2, <4>3, <4>4, <5>1 DEF RecordInv
      <4>5. CASE ~(bb.stamp >= sn.stamp)
        <5>1. newest'[r] = sn
          BY <2>2, <4>5
        <5>2. ~sn.present
          BY <2>3, <2>4, <4>1, <4>5 DEF RecordInv
        <5>3. QED
          BY <2>3, <2>4, <4>1, <4>2, <4>3, <4>5, <5>1, <5>2 DEF RecordInv
      <4>6. QED
        BY <4>4, <4>5
    <3>4. QED
      BY <3>2, <3>3
  <2>7. QED
    BY <2>3, <2>5, <2>6
<1>3. QED
  BY <1>1, <1>2

-----------------------------------------------------------------------------
(* The queue.                                                              *)

\* FinishedIffComplete of one job, and that a job starts without progress.
JobInv(j) ==
    /\ job[j].status = "absent" => job[j].completed = {}
    /\ job[j].status # "absent" /\ ~job[j].local =>
         /\ job[j].completed \subseteq Requested[j]
         /\ job[j].status \in Finished <=> job[j].completed = Requested[j]

\* A worker only turns to repositories its job asks for.
WorkerInv(w) ==
    worker[w] # Idle =>
        /\ worker[w].todo \subseteq Requested[worker[w].job]
        /\ worker[w].pc \in {"reading", "read", "batch"} =>
             worker[w].repo \in Requested[worker[w].job]

Inv ==
    /\ TypeOK
    /\ \A r \in Repos : RecordInv(r)
    /\ \A j \in Jobs : JobInv(j)
    /\ \A w \in Workers : WorkerInv(w)

\* An absent job has no worker, request or record: the initial state satisfies Inv.
LEMMA InvInit == Init => Inv
<1> SUFFICES ASSUME Init PROVE Inv
  OBVIOUS
<1>1. SourceTypeOK
  <2>1. clock \in Times /\ NoSnapshot \in Snapshots /\ NoRecord \in Records
    BY TimesNat, ClockAssumption DEF Init, SourceInit, Times, Snapshots, Records, NoSnapshot, NoRecord
  <2>2. QED
    BY <2>1 DEF Init, SourceInit, SourceTypeOK
<1>2. TypeOK
  BY <1>1, TimesNat, RowValues DEF TypeOK, Init, NoJob, JobRows
<1>3. \A r \in Repos : RecordInv(r)
  <2> SUFFICES ASSUME NEW r \in Repos PROVE RecordInv(r)
    OBVIOUS
  <2>1. record[r] = NoRecord /\ ledger[r] = "none" /\ newest[r] = NoSnapshot
        /\ untold = {}
    BY DEF Init, SourceInit
  <2>2. QED
    BY <2>1 DEF RecordInv, NoRecord, NoSnapshot
<1>4. \A j \in Jobs : JobInv(j)
  BY DEF JobInv, Init, NoJob, Finished
<1>5. \A w \in Workers : WorkerInv(w)
  BY DEF WorkerInv, Init
<1>6. QED
  BY <1>2, <1>3, <1>4, <1>5 DEF Inv

\* Steps that leave the records alone keep what is said about them.
LEMMA RecordFrame ==
    ASSUME Inv, UNCHANGED sourceVars
    PROVE  SourceTypeOK' /\ \A r \in Repos : RecordInv(r)'
BY DEF Inv, TypeOK, SourceTypeOK, RecordInv, sourceVars

\* Requests of operators and the passing of time.
LEMMA OperatorInv ==
    ASSUME Inv, NEW j \in Jobs,
           JobStep(j)
    PROVE  Inv'
<1>0. TypeOK /\ job \in [Jobs -> JobRows] /\ \A i \in Jobs : JobInv(i)
  BY DEF Inv, TypeOK
<1>1. CASE Enqueue(j) \/ Cancel(j) \/ TimerElapses(j)
  <2>1. UNCHANGED <<sourceVars, worker, imports>>
    BY <1>1 DEF Enqueue, Cancel, TimerElapses
  <2>2. job' \in [Jobs -> JobRows]
    <3>1. /\ [job[j] EXCEPT !.status = "queued", !.elapsed = TRUE] \in JobRows
          /\ [job[j] EXCEPT !.status = "cancelled", !.owner = 0, !.elapsed = FALSE] \in JobRows
          /\ [job[j] EXCEPT !.elapsed = TRUE] \in JobRows
      BY <1>0, RowValues, RowUpdate
    <3>2. \/ job' = [job EXCEPT ![j] = [job[j] EXCEPT !.status = "queued", !.elapsed = TRUE]]
          \/ job' = [job EXCEPT ![j] =
                [job[j] EXCEPT !.status = "cancelled", !.owner = 0, !.elapsed = FALSE]]
          \/ job' = [job EXCEPT ![j] = [job[j] EXCEPT !.elapsed = TRUE]]
      BY <1>0, <1>1 DEF Enqueue, Cancel, TimerElapses
    <3>3. QED
      BY <1>0, <3>1, <3>2
  <2>3. \A i \in Jobs : JobInv(i)'
    <3> SUFFICES ASSUME NEW i \in Jobs PROVE JobInv(i)'
      OBVIOUS
    <3>1. job[i] \in JobRows /\ JobInv(i) /\ Requested[i] # {}
      BY <1>0, SyncAssumption
    <3>2. CASE i # j
      BY <1>0, <1>1, <3>1, <3>2 DEF Enqueue, Cancel, TimerElapses, JobInv
    <3>3. CASE i = j /\ Enqueue(j)
      BY <1>0, <3>1, <3>3 DEF Enqueue, JobRows, JobInv, Finished
    <3>4. CASE i = j /\ Cancel(j)
      BY <1>0, <3>1, <3>4 DEF Cancel, JobRows, JobInv, Finished, Active
    <3>5. CASE i = j /\ TimerElapses(j)
      BY <1>0, <3>1, <3>5 DEF TimerElapses, JobRows, JobInv
    <3>6. QED
      BY <1>1, <3>2, <3>3, <3>4, <3>5
  <2>4. QED
    BY <2>1, <2>2, <2>3, RecordFrame DEF Inv, TypeOK, WorkerInv, imports
<1>2. CASE NormalizeRead(j) \/ \E r \in Repos : NormalizeMiss(j, r)
  <2>1. UNCHANGED <<sourceVars, job, worker>>
    BY <1>2 DEF NormalizeRead, NormalizeMiss
  <2>2. normalizing' \in [Jobs -> Times] /\ missed' \in [Jobs -> SUBSET Repos]
    <3>1. CASE NormalizeRead(j)
      BY <1>0, <3>1 DEF NormalizeRead, TypeOK, SourceTypeOK
    <3>2. ASSUME NEW r \in Repos, NormalizeMiss(j, r)
          PROVE  normalizing' \in [Jobs -> Times] /\ missed' \in [Jobs -> SUBSET Repos]
      <4>1. missed' = [missed EXCEPT ![j] = missed[j] \cup {r}]
            /\ missed \in [Jobs -> SUBSET Repos] /\ normalizing' = normalizing
        BY <1>0, <3>2 DEF NormalizeMiss, TypeOK
      <4>2. missed[j] \cup {r} \in SUBSET Repos
        BY <4>1
      <4>3. QED
        BY <1>0, <4>1, <4>2 DEF TypeOK
    <3>3. QED
      BY <1>2, <3>1, <3>2
  <2>3. QED
    BY <2>1, <2>2, RecordFrame DEF Inv, TypeOK, JobInv, WorkerInv
<1>3. CASE NormalizeWrite(j)
  <2>1. job' \in [Jobs -> JobRows]
    <3>1. PICK outcome \in Finished :
             job' = [job EXCEPT ![j] = [job[j] EXCEPT !.status = outcome, !.completed = {},
                                                      !.partial = FALSE, !.local = TRUE]]
      BY <1>0, <1>3 DEF NormalizeWrite
    <3>2. QED
      BY <1>0, <3>1, RowValues DEF JobRows, Finished
  <2>2. \A i \in Jobs : JobInv(i)'
    <3> SUFFICES ASSUME NEW i \in Jobs PROVE JobInv(i)'
      OBVIOUS
    <3>1. CASE i # j
      BY <1>0, <1>3, <3>1 DEF NormalizeWrite, JobInv
    <3>2. CASE i = j
      BY <1>0, <1>3, <3>2 DEF NormalizeWrite, JobRows, JobInv, Finished
    <3>3. QED
      BY <3>1, <3>2
  <2> DEFINE imported == [present |-> TRUE, read |-> normalizing[j], stamp |-> normalizing[j]]
             R == Imported(j)
             restore == j \in ResultJobs
             unseen == missed[j]
             b == [r \in Repos |-> imported]
  <2>3. Write(R, b, restore, unseen, FALSE)
    BY <1>3 DEF NormalizeWrite
  <2>4. imported \in Snapshots
    BY <1>0 DEF TypeOK, Snapshots
  <2>5. R \subseteq Repos /\ \A q \in R : b[q] \in Snapshots
    BY <2>4, SyncAssumption DEF Imported
  <2>6. restore \in BOOLEAN
    OBVIOUS
  <2> HIDE DEF R, b, unseen, restore
  <2>7. SourceTypeOK' /\ \A r \in Repos : RecordInv(r)'
    BY <2>3, <2>5, <2>6, WriteType, WriteInv DEF Inv, TypeOK
  <2>8. worker' = worker /\ normalizing' \in [Jobs -> Times] /\ missed' \in [Jobs -> SUBSET Repos]
    BY <1>0, <1>3, TimesNat DEF NormalizeWrite, TypeOK
  <2>9. QED
    BY <2>1, <2>2, <2>7, <2>8 DEF Inv, TypeOK, WorkerInv
<1>4. QED
  BY <1>1, <1>2, <1>3 DEF JobStep, Import

\* A step that changes neither progress nor whether the job finished keeps JobInv.
LEMMA SameProgress ==
    ASSUME NEW i \in Jobs, JobInv(i),
           \/ job'[i] = job[i]
           \/ /\ job'[i].completed = job[i].completed
              /\ job'[i].local = job[i].local
              /\ job[i].status \in Active
              /\ job'[i].status \in JobStatus \ (Finished \cup {"absent"})
    PROVE  JobInv(i)'
<1>1. CASE job'[i] = job[i]
  BY <1>1 DEF JobInv
<1>2. CASE job'[i] # job[i]
  BY <1>2 DEF JobInv, Active, Finished
<1>3. QED
  BY <1>1, <1>2

BusyWorkers == [pc : WorkerSteps \ {"idle"}, job : LiveJobs, claim : 1..MaxAttempts,
                todo : SUBSET Repos, repo : Repos \cup {None}, batch : Snapshots]

\* A worker that is not idle holds a claim of a live job.
LEMMA BusyWorker ==
    ASSUME TypeOK, NEW w \in Workers, worker[w].pc # "idle"
    PROVE  worker[w] \in BusyWorkers /\ worker[w].job \in Jobs /\ worker[w] # Idle
BY SyncAssumption DEF TypeOK, Idle, BusyWorkers

\* Expiry fails running jobs and leaves the others alone.
LEMMA ExpireFacts ==
    ASSUME TypeOK, NEW i \in Jobs
    PROVE  /\ ExpireExhausted[i] \in JobRows
           /\ \/ ExpireExhausted[i] = job[i]
              \/ /\ ExpireExhausted[i].completed = job[i].completed
                 /\ ExpireExhausted[i].local = job[i].local
                 /\ job[i].status = "running"
                 /\ ExpireExhausted[i].status = "failed"
           /\ Claimable(i) => ExpireExhausted[i] = job[i]
<1>1. job[i] \in JobRows
  BY DEF TypeOK
<1>2. job[i].attempt \in Nat
  BY <1>1 DEF JobRows
<1>3. [job[i] EXCEPT !.status = "failed", !.owner = 0, !.elapsed = FALSE] \in JobRows
  BY <1>1, RowValues, RowUpdate
<1>4. CASE job[i].status = "running" /\ job[i].elapsed /\ job[i].attempt >= MaxAttempts
  <2>1. ExpireExhausted[i] = [job[i] EXCEPT !.status = "failed", !.owner = 0, !.elapsed = FALSE]
    BY <1>4 DEF ExpireExhausted
  <2>2. ~Claimable(i)
    BY <1>2, <1>4, RowValues DEF Claimable
  <2>3. QED
    BY <1>1, <1>3, <1>4, <2>1, <2>2 DEF JobRows
<1>5. CASE ~(job[i].status = "running" /\ job[i].elapsed /\ job[i].attempt >= MaxAttempts)
  BY <1>1, <1>5 DEF ExpireExhausted
<1>6. QED
  BY <1>4, <1>5

\* Polling: expiry, and the claim of a job that still has attempts.
LEMMA TakeJobInv ==
    ASSUME Inv, NEW w \in Workers, TakeJob(w)
    PROVE  Inv'
<1>0. TypeOK /\ (\A i \in Jobs : JobInv(i)) /\ worker[w] = Idle
      /\ UNCHANGED <<sourceVars, imports>>
  BY DEF Inv, TakeJob, Poll, Claim
<1>1. SourceTypeOK' /\ \A r \in Repos : RecordInv(r)'
  BY <1>0, RecordFrame
<1>2. CASE Poll(w)
  <2>1. job' \in [Jobs -> JobRows]
    <3>1. job' = ExpireExhausted
      BY <1>2 DEF Poll
    <3>2. ExpireExhausted = [i \in Jobs |-> ExpireExhausted[i]]
      BY DEF ExpireExhausted
    <3>3. QED
      BY <1>0, <3>1, <3>2, ExpireFacts
  <2>2. \A i \in Jobs : JobInv(i)'
    <3> SUFFICES ASSUME NEW i \in Jobs PROVE JobInv(i)'
      OBVIOUS
    <3>1. job'[i] = ExpireExhausted[i]
      BY <1>2 DEF Poll
    <3>2. QED
      BY <1>0, <3>1, ExpireFacts, SameProgress, RowValues DEF Active, Finished
  <2>3. worker' = worker
    BY <1>2 DEF Poll
  <2>4. QED
    BY <1>0, <1>1, <2>1, <2>2, <2>3 DEF Inv, TypeOK, WorkerInv, imports
<1>3. ASSUME NEW j \in Jobs, Claim(w, j)
      PROVE  Inv'
  <2> DEFINE n == job[j].attempt + 1
             row == [job[j] EXCEPT !.status = "running", !.elapsed = FALSE,
                                   !.attempt = n, !.owner = n]
             mine == [pc |-> "claimed", job |-> j, claim |-> n, todo |-> {},
                      repo |-> None, batch |-> NoSnapshot]
  <2>1. job[j] \in JobRows /\ Claimable(j)
    BY <1>0, <1>3 DEF TypeOK, Claim
  <2>2. n \in 1..MaxAttempts
    BY <2>1, RowValues DEF Claimable, JobRows
  <2>3. row \in JobRows /\ row.completed = job[j].completed /\ row.local = job[j].local
        /\ row.status = "running"
    <3>1. n \in 0..MaxAttempts
      BY <2>2, RowValues
    <3> HIDE DEF n
    <3>2. QED
      BY <2>1, <3>1, RowValues DEF JobRows
  <2>4. job' = [i \in Jobs |-> IF i = j THEN row ELSE ExpireExhausted[i]]
    BY <1>3 DEF Claim, ExpireExhausted
  <2>5. job' \in [Jobs -> JobRows]
    BY <1>0, <2>3, <2>4, ExpireFacts
  <2>6. \A i \in Jobs : JobInv(i)'
    <3> SUFFICES ASSUME NEW i \in Jobs PROVE JobInv(i)'
      OBVIOUS
    <3>1. CASE i = j
      <4>1. job[j].status \in Active
        BY <2>1 DEF Claimable
      <4>2. job'[i] = row
        BY <2>4, <3>1
      <4>3. QED
        BY <1>0, <2>3, <3>1, <4>1, <4>2, SameProgress, RowValues DEF Finished
    <3>2. CASE i # j
      <4>1. job'[i] = ExpireExhausted[i]
        BY <2>4, <3>2
      <4>2. QED
        BY <1>0, <4>1, ExpireFacts, SameProgress, RowValues DEF Active, Finished
    <3>3. QED
      BY <3>1, <3>2
  <2>7. worker' = [worker EXCEPT ![w] = mine]
    BY <1>3 DEF Claim
  <2>8. mine \in BusyWorkers
    <3>1. j \in LiveJobs /\ "claimed" \in WorkerSteps \ {"idle"} /\ NoSnapshot \in Snapshots
      BY <2>1, TimesNat DEF Claimable, WorkerSteps, NoSnapshot, Snapshots
    <3>2. QED
      BY <2>2, <3>1 DEF BusyWorkers
  <2>9. worker' \in [Workers -> {Idle} \cup BusyWorkers]
    BY <1>0, <2>7, <2>8 DEF TypeOK, BusyWorkers
  <2>10. \A v \in Workers : WorkerInv(v)'
    <3> SUFFICES ASSUME NEW v \in Workers PROVE WorkerInv(v)'
      OBVIOUS
    <3>1. CASE v = w
      <4>1. worker'[v] = mine
        BY <1>0, <2>7, <3>1 DEF TypeOK
      <4>2. QED
        BY <4>1 DEF WorkerInv
    <3>2. CASE v # w
      BY <1>0, <2>7, <3>2 DEF WorkerInv, Inv, TypeOK
    <3>3. QED
      BY <3>1, <3>2
  <2>11. QED
    BY <1>0, <1>1, <2>5, <2>6, <2>9, <2>10 DEF Inv, TypeOK, BusyWorkers, imports
<1>4. QED
  BY <1>2, <1>3 DEF TakeJob

WorkerTypeOK == worker \in [Workers -> {Idle} \cup BusyWorkers]

\* A worker that becomes idle, or turns to repositories its job asks for.
LEMMA WorkerFrame ==
    ASSUME Inv, NEW w \in Workers, NEW x,
           worker' = [worker EXCEPT ![w] = x],
           \/ x = Idle
           \/ /\ x \in BusyWorkers
              /\ x.todo \subseteq Requested[x.job]
              /\ x.pc \in {"reading", "read", "batch"} => x.repo \in Requested[x.job]
    PROVE  WorkerTypeOK' /\ \A v \in Workers : WorkerInv(v)'
<1>1. WorkerTypeOK
  BY DEF Inv, TypeOK, WorkerTypeOK, BusyWorkers
<1>2. WorkerTypeOK'
  BY <1>1 DEF WorkerTypeOK
<1>3. ASSUME NEW v \in Workers PROVE WorkerInv(v)'
  <2>1. CASE v = w
    BY <1>1, <2>1 DEF WorkerInv, WorkerTypeOK
  <2>2. CASE v # w
    BY <1>1, <2>2 DEF WorkerInv, WorkerTypeOK, Inv
  <2>3. QED
    BY <2>1, <2>2
<1>4. QED
  BY <1>2, <1>3

\* A claim that is held is renewed, requeued or failed: its progress stays.
LEMMA HeldRow ==
    ASSUME Inv, NEW j \in Jobs, NEW st \in {"queued", "running", "failed"},
           NEW o \in 0..MaxAttempts, NEW e \in BOOLEAN,
           job[j].status = "running",
           job' = [job EXCEPT ![j] = [job[j] EXCEPT !.status = st, !.owner = o, !.elapsed = e]]
    PROVE  job' \in [Jobs -> JobRows] /\ \A i \in Jobs : JobInv(i)'
<1> DEFINE row == [job[j] EXCEPT !.status = st, !.owner = o, !.elapsed = e]
<1>1. job \in [Jobs -> JobRows] /\ st \in JobStatus
  BY RowValues DEF Inv, TypeOK
<1>2. row \in JobRows
  BY <1>1, RowUpdate
<1>3. row.completed = job[j].completed /\ row.local = job[j].local /\ row.status = st
  BY <1>1 DEF JobRows
<1>4. job' = [job EXCEPT ![j] = row]
  OBVIOUS
<1> HIDE DEF row
<1>5. job' \in [Jobs -> JobRows]
  BY <1>1, <1>2, <1>4
<1>6. ASSUME NEW i \in Jobs PROVE JobInv(i)'
  <2>1. JobInv(i)
    BY DEF Inv
  <2>2. CASE i # j
    BY <1>1, <1>4, <2>1, <2>2, SameProgress
  <2>3. CASE i = j
    <3>1. job'[i] = row
      BY <1>1, <1>4, <2>3
    <3>2. row.status \in JobStatus \ (Finished \cup {"absent"})
      BY <1>1, <1>3 DEF Finished
    <3>3. QED
      BY <1>3, <2>1, <2>3, <3>1, <3>2, SameProgress DEF Active
  <2>4. QED
    BY <2>2, <2>3
<1>7. QED
  BY <1>5, <1>6

\* Putting the parts of the invariant together when the records are unchanged.
LEMMA Assemble ==
    ASSUME Inv, UNCHANGED <<sourceVars, imports>>,
           WorkerTypeOK', \A v \in Workers : WorkerInv(v)',
           job' \in [Jobs -> JobRows], \A i \in Jobs : JobInv(i)'
    PROVE  Inv'
BY RecordFrame DEF Inv, TypeOK, WorkerTypeOK, BusyWorkers, imports

\* Steps that touch neither the rows nor the records.
LEMMA JobFrame ==
    ASSUME Inv, job' = job
    PROVE  job' \in [Jobs -> JobRows] /\ \A i \in Jobs : JobInv(i)'
BY DEF Inv, TypeOK, JobInv

\* A step by which a worker lets go of its job.
LEMMA ReleaseInv ==
    ASSUME Inv, NEW w \in Workers, Release(w),
           UNCHANGED <<sourceVars, imports>>,
           job' \in [Jobs -> JobRows], \A i \in Jobs : JobInv(i)'
    PROVE  Inv'
BY WorkerFrame, Assemble DEF Release

\* Renewals, provider reads and the choice of the next repository.
LEMMA ReadInv ==
    ASSUME Inv, NEW w \in Workers,
           \/ Renew(w) \/ LoadProgress(w) \/ (\E r \in Repos : StartRepository(w, r))
           \/ ReadItems(w) \/ StampBatch(w)
    PROVE  Inv'
<1> DEFINE W == worker[w]
           j == W.job
<1>1. W.pc # "idle" /\ UNCHANGED <<sourceVars, imports>>
  BY DEF Renew, LoadProgress, StartRepository, ReadItems, StampBatch
<1>2. W \in BusyWorkers /\ j \in Jobs /\ W # Idle
  BY <1>1, BusyWorker DEF Inv
<1>3. /\ W.todo \subseteq Requested[j]
      /\ W.pc \in {"reading", "read", "batch"} => W.repo \in Requested[j]
  BY <1>2 DEF Inv, WorkerInv
<1>4. worker \in [Workers -> {Idle} \cup BusyWorkers] /\ job[j] \in JobRows
      /\ Requested[j] \subseteq Repos /\ clock \in Times
      /\ listed \in [Repos -> BOOLEAN]
  BY <1>2, SyncAssumption DEF Inv, TypeOK, BusyWorkers, SourceTypeOK
<1>5. ASSUME Holds(w), job' = [job EXCEPT ![j].elapsed = FALSE]
      PROVE  job' \in [Jobs -> JobRows] /\ \A i \in Jobs : JobInv(i)'
  <2>1. job[j].status = "running" /\ job[j].owner \in 0..MaxAttempts
    BY <1>4, <1>5 DEF Holds, JobRows
  <2>2. job' = [job EXCEPT ![j] =
           [job[j] EXCEPT !.status = "running", !.owner = job[j].owner, !.elapsed = FALSE]]
    <3>1. [job[j] EXCEPT !.elapsed = FALSE]
           = [job[j] EXCEPT !.status = "running", !.owner = job[j].owner, !.elapsed = FALSE]
      BY <1>4, <2>1 DEF JobRows
    <3>2. QED
      BY <1>5, <3>1
  <2>3. QED
    BY <1>2, <2>1, <2>2, HeldRow
<1>6. CASE Renew(w)
  <2>1. worker' = [worker EXCEPT ![w] = [W EXCEPT !.pc = "opening"]]
    BY <1>6 DEF Renew, Step
  <2>2. /\ [W EXCEPT !.pc = "opening"] \in BusyWorkers
        /\ [W EXCEPT !.pc = "opening"].todo = W.todo
        /\ [W EXCEPT !.pc = "opening"].job = j
        /\ [W EXCEPT !.pc = "opening"].pc = "opening"
    BY <1>2 DEF BusyWorkers, WorkerSteps
  <2>3. QED
    BY <1>1, <1>3, <1>5, <1>6, <2>1, <2>2, WorkerFrame, Assemble DEF Renew
<1>7. CASE LoadProgress(w)
  <2> DEFINE X == [W EXCEPT !.pc = "next", !.todo = Requested[j] \ job[j].completed]
  <2>1. worker' = [worker EXCEPT ![w] = X]
    BY <1>7 DEF LoadProgress
  <2>2. /\ X \in BusyWorkers /\ X.job = j /\ X.pc = "next"
        /\ X.todo = Requested[j] \ job[j].completed
    BY <1>2, <1>4 DEF BusyWorkers, WorkerSteps
  <2> HIDE DEF X
  <2>3. WorkerTypeOK' /\ \A v \in Workers : WorkerInv(v)'
    BY <2>1, <2>2, WorkerFrame
  <2>4. QED
    BY <1>1, <1>7, <2>3, JobFrame, Assemble DEF LoadProgress
<1>8. ASSUME NEW r \in Repos, StartRepository(w, r)
      PROVE  Inv'
  <2> DEFINE X == [W EXCEPT !.pc = "reading", !.repo = r, !.todo = W.todo \ {r}]
  <2>1. worker' = [worker EXCEPT ![w] = X]
    BY <1>2, <1>8 DEF StartRepository, BusyWorkers
  <2>2. /\ X \in BusyWorkers /\ X.job = j /\ X.repo = r
        /\ X.todo = W.todo \ {r}
    BY <1>2 DEF BusyWorkers, WorkerSteps
  <2>3. r \in Requested[j]
    BY <1>3, <1>8 DEF StartRepository
  <2> HIDE DEF X
  <2>4. WorkerTypeOK' /\ \A v \in Workers : WorkerInv(v)'
    BY <1>3, <2>1, <2>2, <2>3, WorkerFrame
  <2>5. QED
    BY <1>1, <1>5, <1>8, <2>4, Assemble DEF StartRepository
<1>9. CASE ReadItems(w)
  <2> DEFINE B == [present |-> listed[W.repo], read |-> clock, stamp |-> 0]
             X == [W EXCEPT !.pc = "read", !.batch = B]
  <2>0. W.repo \in Requested[j]
    BY <1>3, <1>9 DEF ReadItems
  <2>1. worker' = [worker EXCEPT ![w] = X]
    BY <1>9 DEF ReadItems
  <2>2. B \in Snapshots
    BY <1>4, <2>0, TimesNat DEF Snapshots
  <2> HIDE DEF B
  <2>3. X \in BusyWorkers /\ X.job = j /\ X.repo = W.repo /\ X.todo = W.todo
    BY <1>2, <2>2 DEF BusyWorkers, WorkerSteps
  <2> HIDE DEF X
  <2>4. WorkerTypeOK' /\ \A v \in Workers : WorkerInv(v)'
    BY <1>3, <2>0, <2>1, <2>3, WorkerFrame
  <2>5. QED
    BY <1>1, <1>9, <2>4, JobFrame, Assemble DEF ReadItems
<1>10. CASE StampBatch(w)
  <2> DEFINE B == [W.batch EXCEPT !.stamp = clock]
             X == [W EXCEPT !.pc = "batch", !.batch = B]
  <2>0. W.repo \in Requested[j]
    BY <1>3, <1>10 DEF StampBatch
  <2>1. worker' = [worker EXCEPT ![w] = X]
    BY <1>2, <1>10 DEF StampBatch, BusyWorkers
  <2>2. B \in Snapshots
    BY <1>2, <1>4 DEF BusyWorkers, Snapshots
  <2> HIDE DEF B
  <2>3. X \in BusyWorkers /\ X.job = j /\ X.repo = W.repo /\ X.todo = W.todo
    BY <1>2, <2>2 DEF BusyWorkers, WorkerSteps
  <2> HIDE DEF X
  <2>4. WorkerTypeOK' /\ \A v \in Workers : WorkerInv(v)'
    BY <1>3, <2>0, <2>1, <2>3, WorkerFrame
  <2>5. QED
    BY <1>1, <1>10, <2>4, JobFrame, Assemble DEF StampBatch
<1>11. QED
  BY <1>6, <1>7, <1>8, <1>9, <1>10

\* The count of repositories tells when all of them are written.
LEMMA LastRepository ==
    ASSUME NEW j \in Jobs, NEW done, done \subseteq Requested[j]
    PROVE  Cardinality(done) >= Cardinality(Requested[j]) <=> done = Requested[j]
<1>1. IsFiniteSet(Requested[j])
  BY SyncAssumption
<1>2. /\ IsFiniteSet(done)
      /\ Cardinality(done) <= Cardinality(Requested[j])
      /\ Cardinality(done) = Cardinality(Requested[j]) => done = Requested[j]
  BY <1>1, FS_Subset
<1>3. Cardinality(done) \in Nat /\ Cardinality(Requested[j]) \in Nat
  BY <1>1, <1>2, FS_CardinalityType
<1>4. QED
  BY <1>2, <1>3

\* The row of a running job once a repository it asks for is written.
LEMMA RowAfterInv ==
    ASSUME Inv, NEW j \in Jobs, NEW r \in Requested[j], NEW lacking \in BOOLEAN,
           job[j].status = "running",
           job' = [job EXCEPT ![j] = RowAfter(job[j], j, r, lacking)]
    PROVE  job' \in [Jobs -> JobRows] /\ \A i \in Jobs : JobInv(i)'
<1> DEFINE row == RowAfter(job[j], j, r, lacking)
           done == job[j].completed \cup {r}
           last == Cardinality(done) >= Cardinality(Requested[j])
<1>1. job \in [Jobs -> JobRows] /\ job[j] \in JobRows
  BY DEF Inv, TypeOK
<1>2. done \in SUBSET Repos
  BY <1>1, SyncAssumption DEF JobRows
<1>3. /\ row.completed = done
      /\ row.local = job[j].local
      /\ row.status = IF ~last THEN "running"
                      ELSE IF job[j].partial \/ lacking THEN "partial" ELSE "succeeded"
  BY <1>1 DEF RowAfter, JobRows
<1>4. row \in JobRows
  BY <1>1, <1>2, RowValues DEF RowAfter, JobRows
<1>5. job' = [job EXCEPT ![j] = row]
  OBVIOUS
<1> HIDE DEF row, done
<1>6. job' \in [Jobs -> JobRows]
  BY <1>1, <1>4, <1>5
<1>7. ASSUME NEW i \in Jobs PROVE JobInv(i)'
  <2>1. JobInv(i)
    BY DEF Inv
  <2>2. CASE i # j
    BY <1>1, <1>5, <2>1, <2>2, SameProgress
  <2>3. CASE i = j
    <3>1. job'[i] = row
      BY <1>1, <1>5, <2>3
    <3>2. row.status # "absent"
      BY <1>3
    <3>3. ASSUME ~row.local
          PROVE  done \subseteq Requested[j] /\ (row.status \in Finished <=> done = Requested[j])
      <4>1. job[j].completed \subseteq Requested[j]
        BY <1>3, <2>1, <2>3, <3>3 DEF JobInv
      <4>2. done \subseteq Requested[j]
        BY <4>1 DEF done
      <4>3. last <=> done = Requested[j]
        BY <4>2, LastRepository
      <4>4. row.status \in Finished <=> last
        BY <1>3 DEF Finished
      <4>5. QED
        BY <4>2, <4>3, <4>4
    <3>4. QED
      BY <1>3, <2>3, <3>1, <3>2, <3>3 DEF JobInv
  <2>4. QED
    BY <2>2, <2>3
<1>8. QED
  BY <1>6, <1>7

\* Persisting a batch under the lease.
LEMMA PersistInv ==
    ASSUME Inv, NEW w \in Workers, Persist(w)
    PROVE  Inv'
<1> DEFINE W == worker[w]
           j == W.job
           r == W.repo
           complete == j \in CompleteScope
           lacking == ~complete /\ ~W.batch.present
           X == [W EXCEPT !.pc = "next", !.repo = None, !.batch = NoSnapshot]
<1>1. W.pc = "batch" /\ Holds(w) /\ UNCHANGED imports
  BY DEF Persist
<1>2. W \in BusyWorkers /\ j \in Jobs /\ W # Idle
  BY <1>1, BusyWorker DEF Inv
<1>3. W.todo \subseteq Requested[j] /\ r \in Requested[j] /\ r \in Repos /\ W.batch \in Snapshots
  BY <1>1, <1>2, SyncAssumption DEF Inv, WorkerInv, BusyWorkers
<1>4. WorkerTypeOK' /\ \A v \in Workers : WorkerInv(v)'
  <2>1. worker' = [worker EXCEPT ![w] = IF W.todo = {} THEN Idle ELSE X]
    BY DEF Persist
  <2>2. X \in BusyWorkers /\ X.job = j /\ X.todo = W.todo /\ X.pc = "next"
    BY <1>2, TimesNat DEF BusyWorkers, WorkerSteps, NoSnapshot, Snapshots
  <2> HIDE DEF X
  <2>3. CASE W.todo = {}
    BY <2>1, <2>3, WorkerFrame
  <2>4. CASE W.todo # {}
    BY <1>3, <2>1, <2>2, <2>4, WorkerFrame
  <2>5. QED
    BY <2>3, <2>4
<1>5. CASE r \in job[j].completed
  BY <1>1, <1>4, <1>5, JobFrame, Assemble DEF Persist
<1>6. CASE r \notin job[j].completed
  <2>1. /\ job' = [job EXCEPT ![j] = RowAfter(job[j], j, r, lacking)]
        /\ Write({r}, [q \in {r} |-> W.batch], TRUE, {}, complete)
    BY <1>6 DEF Persist
  <2>2. job' \in [Jobs -> JobRows] /\ \A i \in Jobs : JobInv(i)'
    BY <1>1, <1>2, <1>3, <2>1, RowAfterInv DEF Holds
  <2> DEFINE b == [q \in {r} |-> W.batch]
  <2>3. {r} \subseteq Repos /\ \A q \in {r} : b[q] \in Snapshots
    BY <1>3
  <2>4. PICK c \in BOOLEAN : Write({r}, b, TRUE, {}, c)
    <3>1. CASE complete
      BY <2>1, <3>1 DEF Write, Written
    <3>2. CASE ~complete
      BY <2>1, <3>2 DEF Write, Written
    <3>3. QED
      BY <3>1, <3>2
  <2>5. SourceTypeOK' /\ \A q \in Repos : RecordInv(q)'
    <3>1. SourceTypeOK /\ \A q \in Repos : RecordInv(q)
      BY DEF Inv, TypeOK
    <3>2. PICK R0, b0 : R0 = {r} /\ b0 = b
      OBVIOUS
    <3>3. R0 \subseteq Repos /\ (\A q \in R0 : b0[q] \in Snapshots) /\ Write(R0, b0, TRUE, {}, c)
      BY <2>3, <2>4, <3>2
    <3>4. QED
      BY <3>1, <3>3, WriteType, WriteInv
  <2>6. QED
    BY <1>1, <1>4, <2>2, <2>5 DEF Inv, TypeOK, WorkerTypeOK, BusyWorkers, imports
<1>7. QED
  BY <1>5, <1>6

\* A worker that loses its lease, fails or dies.
LEMMA EndInv ==
    ASSUME Inv, NEW w \in Workers,
           LostLease(w) \/ Crash(w) \/ \E retryable \in BOOLEAN : Fail(w, retryable)
    PROVE  Inv'
<1>1. CASE LostLease(w) \/ Crash(w)
  BY <1>1, JobFrame, ReleaseInv DEF LostLease, Crash
<1>2. ASSUME NEW retryable \in BOOLEAN, Fail(w, retryable)
      PROVE  Inv'
  <2> DEFINE j == worker[w].job
             st == IF retryable /\ job[j].attempt < MaxAttempts THEN "queued" ELSE "failed"
  <2>1. worker[w].pc # "idle"
    BY <1>2 DEF Fail
  <2>2. j \in Jobs
    BY <2>1, BusyWorker DEF Inv
  <2>3. CASE Holds(w)
    <3>1. job' = [job EXCEPT ![j] = [job[j] EXCEPT !.status = st, !.owner = 0, !.elapsed = FALSE]]
      BY <1>2, <2>3 DEF Fail
    <3>2. job' \in [Jobs -> JobRows] /\ \A i \in Jobs : JobInv(i)'
      BY <2>2, <2>3, <3>1, RowValues, HeldRow DEF Holds
    <3>3. QED
      BY <1>2, <3>2, ReleaseInv DEF Fail
  <2>4. CASE ~Holds(w)
    BY <1>2, <2>4, JobFrame, ReleaseInv DEF Fail
  <2>5. QED
    BY <2>3, <2>4
<1>3. QED
  BY <1>1, <1>2

\* No step of Next breaks the invariant.
LEMMA InvStep == Inv /\ [Next]_vars => Inv'
<1> SUFFICES ASSUME Inv, [Next]_vars PROVE Inv'
  OBVIOUS
<1>1. CASE Tick /\ UNCHANGED <<job, worker, imports>>
  <2>1. SourceTypeOK' /\ \A r \in Repos : RecordInv(r)'
    <3>1. clock' \in Times
      BY <1>1, ClockAssumption DEF Tick, Inv, TypeOK, SourceTypeOK, Times
    <3>2. QED
      BY <1>1, <3>1 DEF Tick, Inv, TypeOK, SourceTypeOK, RecordInv
  <2>2. QED
    BY <1>1, <2>1 DEF Inv, TypeOK, JobInv, WorkerInv, imports
<1>2. ASSUME NEW j \in Jobs,
             JobStep(j)
      PROVE  Inv'
  BY <1>2, OperatorInv
<1>3. ASSUME NEW w \in Workers, TakeJob(w) PROVE Inv'
  BY <1>3, TakeJobInv
<1>4. ASSUME NEW w \in Workers, WorkerStep(w) PROVE Inv'
  BY <1>4, ReadInv, PersistInv, EndInv DEF WorkerStep
<1>5. ASSUME NEW w \in Workers,
             Crash(w) \/ \E retryable \in BOOLEAN : Fail(w, retryable)
      PROVE  Inv'
  BY <1>5, EndInv
<1>6. CASE UNCHANGED vars
  <2>1. SourceTypeOK' /\ \A r \in Repos : RecordInv(r)'
    BY <1>6, RecordFrame DEF vars
  <2>2. QED
    BY <1>6, <2>1 DEF vars, Inv, TypeOK, JobInv, WorkerInv, imports
<1>7. QED
  BY <1>1, <1>2, <1>3, <1>4, <1>5, <1>6 DEF Next

\* The invariant holds in every reachable state, however requests, workers,
\* crashes and expiring leases interleave.
THEOREM Invariance == Spec => []Inv
BY InvInit, InvStep, PTL DEF Spec

\* Rows, workers, snapshots and records keep their types; in particular a job is
\* never claimed more often than max_attempts allows.
THEOREM SyncTypeCorrect == Spec => []TypeOK
BY Invariance, PTL DEF Inv

\* A job that workers read reports success, or partial success, exactly when
\* every requested repository has been written.
THEOREM FinishedIffCompleteTheorem == Spec => []FinishedIffComplete
<1>1. Inv => FinishedIffComplete
  BY DEF Inv, JobInv, FinishedIffComplete
<1>2. QED
  BY <1>1, Invariance, PTL

\* What the newest snapshot listed is live with the content it read, in whatever
\* order snapshots are written.
THEOREM NewestIsKeptTheorem == Spec => []NewestIsKept
<1>1. Inv => NewestIsKept
  BY DEF Inv, RecordInv, NewestIsKept
<1>2. QED
  BY <1>1, Invariance, PTL

\* Company memory explains every record: no event is lost, except that of a
\* record brought back by a write that had looked for it before it existed.
THEOREM LedgerTheorem == Spec => []LedgerExplains
<1>1. Inv => LedgerExplains
  BY DEF Inv, RecordInv, LedgerExplains
<1>2. QED
  BY <1>1, Invariance, PTL

-----------------------------------------------------------------------------
(* What a step may never do.                                               *)

\* How a step changes the rows: requests and normalization change one, polls
\* fail or claim running and queued ones, a worker changes the one it holds.
LEMMA RowSteps ==
    ASSUME Inv, Next, NEW i \in Jobs, job'[i] # job[i]
    PROVE  \/ NormalizeWrite(i)
           \/ /\ job[i].status \in Active \cup {"absent"}
              /\ job'[i].completed = job[i].completed
           \/ \E w \in Workers : Persist(w) /\ worker[w].job = i /\ Holds(w)
<1>0. TypeOK /\ job \in [Jobs -> JobRows] /\ job[i] \in JobRows
  BY DEF Inv, TypeOK
<1>1. job' # job
  OBVIOUS
<1>2. ASSUME NEW j \in Jobs,
             JobStep(j)
      PROVE  \/ NormalizeWrite(i)
             \/ /\ job[i].status \in Active \cup {"absent"}
                /\ job'[i].completed = job[i].completed
  <2>1. CASE NormalizeRead(j) \/ \E r \in Repos : NormalizeMiss(j, r)
    BY <1>1, <2>1 DEF NormalizeRead, NormalizeMiss
  <2>2. CASE NormalizeWrite(j)
    BY <1>0, <2>2 DEF NormalizeWrite
  <2>3. CASE Enqueue(j)
    BY <1>0, <2>3 DEF Enqueue, JobRows
  <2>4. CASE Cancel(j)
    BY <1>0, <2>4 DEF Cancel, JobRows
  <2>5. CASE TimerElapses(j)
    BY <1>0, <2>5 DEF TimerElapses, JobRows
  <2>6. QED
    BY <1>2, <2>1, <2>2, <2>3, <2>4, <2>5 DEF JobStep, Import
<1>3. ASSUME NEW w \in Workers, TakeJob(w)
      PROVE  job[i].status \in Active /\ job'[i].completed = job[i].completed
  <2>1. CASE Poll(w)
    <3>1. job'[i] = ExpireExhausted[i]
      BY <2>1 DEF Poll
    <3>2. QED
      BY <1>0, <3>1, ExpireFacts DEF Active
  <2>2. ASSUME NEW j \in Jobs, Claim(w, j)
        PROVE  job[i].status \in Active /\ job'[i].completed = job[i].completed
    <3>1. CASE i = j
      <4>1. job[i].status \in Active
        BY <2>2, <3>1 DEF Claim, Claimable
      <4>2. job'[i] = [job[i] EXCEPT !.status = "running", !.elapsed = FALSE,
                          !.attempt = job[i].attempt + 1, !.owner = job[i].attempt + 1]
        BY <2>2, <3>1 DEF Claim, ExpireExhausted
      <4>3. QED
        BY <1>0, <4>1, <4>2 DEF JobRows
    <3>2. CASE i # j
      <4>1. job'[i] = ExpireExhausted[i]
        BY <2>2, <3>2 DEF Claim, ExpireExhausted
      <4>2. QED
        BY <1>0, <4>1, ExpireFacts DEF Active
    <3>3. QED
      BY <3>1, <3>2
  <2>3. QED
    BY <1>3, <2>1, <2>2 DEF TakeJob
<1>4. ASSUME NEW w \in Workers,
             WorkerStep(w) \/ Crash(w) \/ \E retryable \in BOOLEAN : Fail(w, retryable)
      PROVE  /\ worker[w].job = i /\ Holds(w)
             /\ Persist(w) \/ job'[i].completed = job[i].completed
  <2>1. CASE Persist(w)
    BY <1>0, <2>1 DEF Persist
  <2>2. CASE Renew(w)
    BY <1>0, <2>2 DEF Renew, JobRows
  <2>3. CASE \E r \in Repos : StartRepository(w, r)
    BY <1>0, <2>3 DEF StartRepository, JobRows
  <2>4. ASSUME NEW retryable \in BOOLEAN, Fail(w, retryable)
        PROVE  worker[w].job = i /\ Holds(w) /\ job'[i].completed = job[i].completed
    <3>1. Holds(w)
      BY <1>1, <2>4 DEF Fail
    <3>2. QED
      BY <1>0, <2>4, <3>1 DEF Fail, JobRows
  <2>5. CASE LoadProgress(w) \/ ReadItems(w) \/ StampBatch(w) \/ LostLease(w) \/ Crash(w)
    BY <1>1, <2>5 DEF LoadProgress, ReadItems, StampBatch, LostLease, Crash
  <2>6. QED
    BY <1>4, <2>1, <2>2, <2>3, <2>4, <2>5 DEF WorkerStep
<1>5. \A w \in Workers : worker[w].job = i /\ Holds(w) => job[i].status \in Active
  BY DEF Holds, Active
<1>6. QED
  BY <1>1, <1>2, <1>3, <1>4, <1>5 DEF Next

\* A job that has ended stays as it ended, unless normalize-local read it while
\* it was queued.
THEOREM EndedStaysEndedTheorem == Spec => EndedStaysEnded
<1>1. Inv /\ [Next]_vars =>
        [\A j \in Jobs : job[j].status \in Terminal =>
            job'[j].status = job[j].status \/ normalizing[j] # 0]_vars
  <2> SUFFICES ASSUME Inv, Next, NEW j \in Jobs, job[j].status \in Terminal,
                      job'[j] # job[j]
               PROVE  normalizing[j] # 0
    BY DEF vars
  <2>1. job[j].status \notin Active \cup {"absent"}
    BY DEF Terminal, Finished, Active
  <2>2. ASSUME NEW w \in Workers, worker[w].job = j, Holds(w) PROVE FALSE
    BY <2>1, <2>2 DEF Holds, Active
  <2>3. NormalizeWrite(j)
    BY <2>1, <2>2, RowSteps
  <2>4. QED
    BY <2>3 DEF NormalizeWrite
<1>2. QED
  BY <1>1, Invariance, PTL DEF Spec, EndedStaysEnded

\* Canonical records change with the progress of the job they are written for,
\* or by a local import.
LEMMA RecordSteps ==
    ASSUME Inv, Next, NEW r \in Repos, record'[r] # record[r]
    PROVE  \E i \in Jobs : Advances(i, r) \/ normalizing[i] # 0
<1>0. TypeOK /\ job \in [Jobs -> JobRows]
  BY DEF Inv, TypeOK
<1>1. ASSUME NEW j \in Jobs, NormalizeWrite(j) PROVE normalizing[j] # 0
  BY <1>1 DEF NormalizeWrite
<1>2. ASSUME NEW w \in Workers, Persist(w)
      PROVE  worker[w].job \in Jobs /\ Advances(worker[w].job, r)
  <2> DEFINE j == worker[w].job
             q == worker[w].repo
             lacking == ~(j \in CompleteScope) /\ ~worker[w].batch.present
  <2>1. j \in Jobs
    BY <1>0, <1>2, BusyWorker DEF Persist
  <2>2. q \notin job[j].completed
    BY <1>2 DEF Persist, sourceVars
  <2>3. /\ job' = [job EXCEPT ![j] = RowAfter(job[j], j, q, lacking)]
        /\ Write({q}, [x \in {q} |-> worker[w].batch], TRUE, {}, j \in CompleteScope)
    BY <1>2, <2>2 DEF Persist
  <2>4. q = r
    BY <2>3 DEF Write, Inv, TypeOK, SourceTypeOK
  <2>5. job'[j].completed = job[j].completed \cup {q}
    BY <1>0, <2>1, <2>3 DEF RowAfter, JobRows
  <2>6. QED
    BY <2>1, <2>2, <2>4, <2>5 DEF Advances
<1>3. QED
  BY <1>1, <1>2 DEF Next, JobStep, Import, Tick, Enqueue, Cancel, TimerElapses, NormalizeRead,
     NormalizeMiss, TakeJob, Poll,
     Claim, WorkerStep, Renew, LoadProgress, StartRepository, ReadItems, StampBatch, LostLease,
     Crash, Fail, sourceVars

\* Only the worker whose claim owns the running job advances it, and records
\* change only together with that progress or by a local import.
THEOREM WritesUnderLeaseTheorem == Spec => WritesUnderLease
<1> DEFINE A == \A j \in Jobs, r \in Repos :
         /\ Advances(j, r) =>
              /\ job[j].status = "running"
              /\ \E w \in Workers : /\ worker'[w] # worker[w]
                                    /\ worker[w].job = j
                                    /\ worker[w].claim = job[j].owner
         /\ record'[r] # record[r] =>
              \E i \in Jobs : Advances(i, r) \/ normalizing[i] # 0
<1>1. ASSUME Inv, Next PROVE A
  <2> SUFFICES ASSUME NEW j \in Jobs, NEW r \in Repos, Advances(j, r)
               PROVE  /\ job[j].status = "running"
                      /\ \E w \in Workers : /\ worker'[w] # worker[w]
                                            /\ worker[w].job = j
                                            /\ worker[w].claim = job[j].owner
    BY <1>1, RecordSteps
  <2>1. job'[j] # job[j] /\ job'[j].completed # job[j].completed
    BY DEF Advances
  <2>2. ASSUME NormalizeWrite(j) PROVE FALSE
    <3>1. job \in [Jobs -> JobRows] /\ job[j] \in JobRows
      BY <1>1 DEF Inv, TypeOK
    <3>2. PICK outcome \in Finished :
             job' = [job EXCEPT ![j].status = outcome, ![j].completed = {},
                                ![j].partial = FALSE, ![j].local = TRUE]
      BY <2>2 DEF NormalizeWrite
    <3>3. job'[j].completed = {}
      BY <3>1, <3>2 DEF JobRows
    <3>4. QED
      BY <3>3 DEF Advances
  <2>3. PICK w \in Workers : Persist(w) /\ worker[w].job = j /\ Holds(w)
    BY <1>1, <2>1, <2>2, RowSteps
  <2>4. worker'[w] # worker[w]
    <3>1. worker[w].pc = "batch"
      BY <2>3 DEF Persist
    <3>2. worker[w] \in BusyWorkers
      BY <1>1, <3>1, BusyWorker DEF Inv
    <3>3. worker'[w].pc \in {"idle", "next"}
      BY <1>1, <2>3, <3>2 DEF Persist, Inv, TypeOK, BusyWorkers, Idle
    <3>4. QED
      BY <3>1, <3>3
  <2>5. QED
    BY <2>3, <2>4 DEF Holds
<1>2. Inv /\ [Next]_vars => [A]_vars
  BY <1>1
<1>3. QED
  BY <1>2, Invariance, PTL DEF Spec, WritesUnderLease
=============================================================================
