-------------------------- MODULE RepositoryProofs --------------------------
(****************************************************************************)
(* Repository intelligence for any number of jobs, workers, scopes, rows    *)
(* and requests: what publishing a result retires, what a reader is shown   *)
(* while results are published, and what a checkout holds; and for any      *)
(* portfolio and any signals, the cycles that an analysis reports.          *)
(****************************************************************************)
EXTENDS RepositoryViews, RepositoryCheckout, RepositoryRelationships,
        SequenceTheorems, FiniteSetTheorems, StepwiseRecursion, TLAPS

-----------------------------------------------------------------------------
(* Publication.                                                            *)

JobRows ==
    [status : {"queued", "running", "succeeded", "partial", "failed", "cancelled"},
     scope : Scopes, attempts : Nat, owner : Workers \cup {None},
     leased : BOOLEAN, due : BOOLEAN, cancel : BOOLEAN]

RunRows == [status : {"succeeded", "partial"}, report : Reports]

ItemRows ==
    [status : {"current", "stale", "open", "regressed", "resolved", "decided"}, last : Jobs]

Writes ==
    [pc : {"writing"}, job : Jobs, report : Reports, complete : BOOLEAN,
     absent : SUBSET Items, new : SUBSET Items, locks : SUBSET Items]

RunsTypeOK ==
    /\ job \in [Jobs -> JobRows \cup {NoJob}]
    /\ run \in [Jobs -> RunRows \cup {NoRun}]
    /\ row \in [Items -> ItemRows \cup {NoRow}]
    /\ writer \in [Workers -> Writes \cup {NotWriting}]

\* A run has its job, which was not cancelled, and reports its repository's own;
\* a row belongs to the report of the run that saw it last, and what a run
\* reported has a row.
OwnedInv ==
    /\ \A j \in Committed : job[j] # NoJob /\ ~job[j].cancel /\ OwnReport(j, run[j].report)
    /\ \A i \in Items : row[i] # NoRow =>
          row[i].last \in Committed /\ i \in run[row[i].last].report
    /\ \A j \in Committed : \A i \in run[j].report : row[i] # NoRow

\* A transaction that writes a result holds the job it claimed and the rows it
\* is about to change; no other one holds them.
WriteInv(w) ==
    writer[w] # NotWriting =>
        /\ job[writer[w].job].status = "running" /\ ~job[writer[w].job].cancel
        /\ run[writer[w].job] = NoRun
        /\ OwnReport(writer[w].job, writer[w].report)
        /\ writer[w].report \subseteq writer[w].locks \cup writer[w].new
        /\ writer[w].absent \subseteq writer[w].locks \ writer[w].report
        /\ writer[w].absent # {} => writer[w].complete
        /\ \A i \in writer[w].absent :
              /\ row[i] # NoRow
              /\ job[row[i].last].scope = job[writer[w].job].scope
        /\ \A v \in Workers \ {w} : writer[v] # NotWriting =>
              /\ writer[v].job # writer[w].job
              /\ writer[v].locks \cap writer[w].locks = {}

RunsInv ==
    /\ RunsTypeOK /\ OwnedInv
    /\ \A w \in Workers : WriteInv(w)
    /\ RetiredWasMissed
    /\ JobTellsRun

LEMMA RunsInitHolds == RunsInit => RunsInv
<1> SUFFICES ASSUME RunsInit PROVE RunsInv
  OBVIOUS
<1>1. RunsTypeOK
  BY DEF RunsInit, RunsTypeOK
<1>2. Committed = {} /\ \A i \in Items : row[i] = NoRow
  BY DEF RunsInit, Committed
<1>3. OwnedInv
  BY <1>2 DEF OwnedInv
<1>4. ASSUME NEW i \in Items PROVE row[i].status = "absent"
  BY <1>2 DEF NoRow
<1>5. RetiredWasMissed
  BY <1>4 DEF RetiredWasMissed
<1>6. \A w \in Workers : WriteInv(w)
  BY DEF RunsInit, WriteInv
<1>7. JobTellsRun
  BY DEF RunsInit, JobTellsRun, NoJob
<1>8. QED
  BY <1>1, <1>3, <1>5, <1>6, <1>7 DEF RunsInv

\* A job that may still run has published nothing.
LEMMA NothingYet ==
    ASSUME RunsInv, NEW j \in Jobs,
           job[j] = NoJob \/ job[j].status \in {"queued", "running", "failed", "cancelled"} \/ job[j].cancel
    PROVE  run[j] = NoRun
<1> SUFFICES ASSUME run[j] # NoRun PROVE FALSE
  OBVIOUS
<1>1. job[j] # NoJob /\ ~job[j].cancel
  BY DEF RunsInv, OwnedInv, Committed
<1>2. run[j] \in RunRows /\ job[j].status = run[j].status
  BY DEF RunsInv, RunsTypeOK, JobTellsRun
<1>3. QED
  BY <1>1, <1>2 DEF RunRows

\* A job whose row is locked is being written.
LEMMA LockedIsRunning ==
    ASSUME RunsInv, NEW j \in Jobs, JobLocked(j)
    PROVE  job[j].status = "running" /\ ~job[j].cancel /\ run[j] = NoRun
<1>1. PICK w \in Workers : writer[w].pc # "idle" /\ writer[w].job = j
  BY DEF JobLocked
<1>2. writer[w] # NotWriting
  BY <1>1 DEF NotWriting
<1>3. QED
  BY <1>1, <1>2 DEF RunsInv, WriteInv

\* What a step of one job must respect: its scope, its run, and the transaction
\* that holds its row.
LEMMA JobStepKeeps ==
    ASSUME RunsInv, NEW j \in Jobs, NEW v \in JobRows,
           job' = [job EXCEPT ![j] = v], UNCHANGED <<run, row, writer>>,
           job[j] # NoJob => v.scope = job[j].scope,
           JobLocked(j) => v.status = "running" /\ ~v.cancel,
           run[j] # NoRun => ~v.cancel,
           run[j] # NoRun \/ v.status \in {"succeeded", "partial"} => v.status = run[j].status
    PROVE  RunsInv'
<1>1. job \in [Jobs -> JobRows \cup {NoJob}]
  BY DEF RunsInv, RunsTypeOK
<1>2. RunsTypeOK'
  BY <1>1 DEF RunsInv, RunsTypeOK
<1>3. /\ job'[j] = v /\ job'[j] # NoJob
      /\ \A k \in Jobs \ {j} : job'[k] = job[k]
  BY <1>1 DEF NoJob, JobRows
<1>4. \A k \in Jobs : job[k] # NoJob => job'[k].scope = job[k].scope
  BY <1>3
<1>5. Committed' = Committed
  BY DEF Committed
<1>6. OwnedInv'
  BY <1>3, <1>4, <1>5 DEF RunsInv, OwnedInv, OwnReport, Committed
<1>7. ASSUME NEW i \in Items, row[i] # NoRow
      PROVE  row[i].last \in Jobs /\ job[row[i].last] # NoJob
  BY <1>7 DEF RunsInv, OwnedInv, Committed
<1>8. ASSUME NEW w \in Workers PROVE WriteInv(w)'
  <2> SUFFICES ASSUME writer[w] # NotWriting PROVE WriteInv(w)'
    BY DEF WriteInv
  <2>1. WriteInv(w) /\ writer[w] \in Writes
    BY DEF RunsInv, RunsTypeOK
  <2>2. writer[w].job \in Jobs /\ writer[w].pc = "writing" /\ writer[w].absent \subseteq Items
    BY <2>1 DEF Writes
  <2>3. job[writer[w].job] # NoJob
    BY <2>1 DEF WriteInv, NoJob
  <2>4. writer[w].job = j => JobLocked(j)
    BY <2>2 DEF JobLocked
  <2>5. job'[writer[w].job].status = "running" /\ ~job'[writer[w].job].cancel
    BY <1>3, <2>1, <2>2, <2>4 DEF WriteInv
  <2>6. \A i \in writer[w].absent : job'[row[i].last].scope = job'[writer[w].job].scope
    BY <1>4, <1>7, <2>1, <2>2, <2>3 DEF WriteInv
  <2>7. job'[writer[w].job].scope = job[writer[w].job].scope
    BY <1>4, <2>2, <2>3
  <2>8. QED
    BY <2>1, <2>5, <2>6, <2>7 DEF WriteInv, OwnReport
<1>9. RetiredWasMissed'
  <2> SUFFICES ASSUME NEW i \in Items, row[i].status \in {"stale", "resolved"}
               PROVE  \E k \in Committed \ {row[i].last} :
                         /\ run[k].status = "succeeded"
                         /\ job'[k].scope = job'[row[i].last].scope
                         /\ i \notin run[k].report
    BY <1>5 DEF RetiredWasMissed
  <2>1. PICK k \in Committed \ {row[i].last} :
                         /\ run[k].status = "succeeded"
                         /\ job[k].scope = job[row[i].last].scope
                         /\ i \notin run[k].report
    BY DEF RunsInv, RetiredWasMissed
  <2>2. row[i] # NoRow
    BY DEF NoRow
  <2>3. k \in Jobs /\ job[k] # NoJob
    BY DEF RunsInv, OwnedInv, Committed
  <2>4. QED
    BY <1>4, <1>7, <2>1, <2>2, <2>3
<1>10. JobTellsRun'
  BY <1>3 DEF RunsInv, JobTellsRun
<1>11. QED
  BY <1>2, <1>6, <1>8, <1>9, <1>10 DEF RunsInv

\* The end of a job, and what any of its fields may be set to.
LEMMA EndedRow ==
    ASSUME NEW j \in Jobs, job[j] \in JobRows, NEW s \in {"queued", "succeeded", "partial", "failed", "cancelled"}
    PROVE  /\ Ended(j, s) \in JobRows /\ Ended(j, s).scope = job[j].scope
           /\ Ended(j, s).status = s /\ Ended(j, s).cancel = job[j].cancel
BY DEF Ended, JobRows

LEMMA JobsKeep ==
    ASSUME RunsInv, NEW j \in Jobs,
           \/ \E scope \in Scopes : Enqueue(j, scope)
           \/ Cancel(j) \/ LeaseExpires(j) \/ RetryDue(j)
           \/ PersistCancelled(j) \/ PersistReplay(j)
           \/ \E w \in Workers :
                 Claim(w, j) \/ \E retryable \in BOOLEAN : Fail(w, j, retryable)
    PROVE  RunsInv'
<1>1. job \in [Jobs -> JobRows \cup {NoJob}] /\ MaxAttempts \in Nat
  BY RunsAssumption DEF RunsInv, RunsTypeOK
<1>2. UNCHANGED <<run, row, writer>>
  BY Zenon DEF Enqueue, Cancel, LeaseExpires, RetryDue, Claim, PersistCancelled, PersistReplay, Fail
<1> DEFINE Ends == {"succeeded", "partial"}
<1>3. ASSUME NEW scope \in Scopes, Enqueue(j, scope) PROVE RunsInv'
  <2> DEFINE v == [status |-> "queued", scope |-> scope, attempts |-> 0, owner |-> None,
                   leased |-> FALSE, due |-> TRUE, cancel |-> FALSE]
  <2>1. job' = [job EXCEPT ![j] = v] /\ job[j] = NoJob
    BY <1>3 DEF Enqueue
  <2>2. v \in JobRows /\ v.status \notin Ends
    BY DEF JobRows
  <2>3. ~JobLocked(j)
    BY <2>1, LockedIsRunning DEF NoJob
  <2>4. run[j] = NoRun
    BY <2>1, NothingYet
  <2> HIDE DEF v
  <2>5. QED
    BY <1>2, <2>1, <2>2, <2>3, <2>4, JobStepKeeps
<1>4. ASSUME job[j].status \in {"queued", "running"} PROVE job[j] \in JobRows /\ run[j] = NoRun
  BY <1>1, <1>4, NothingYet DEF NoJob
<1>5. CASE Cancel(j)
  <2> DEFINE u == IF job[j].status = "queued" THEN Ended(j, "cancelled") ELSE job[j]
             v == [u EXCEPT !.cancel = TRUE]
  <2>1. /\ job' = [job EXCEPT ![j] = v] /\ ~JobLocked(j)
        /\ job[j].status \in {"queued", "running"}
    BY <1>5 DEF Cancel
  <2>2. u \in JobRows /\ u.scope = job[j].scope /\ u.status \notin Ends
    BY <1>4, <2>1, EndedRow
  <2> HIDE DEF u
  <2>3. v \in JobRows /\ v.scope = job[j].scope /\ v.status \notin Ends
    BY <2>2 DEF JobRows
  <2> HIDE DEF v
  <2>4. QED
    BY <1>2, <1>4, <2>1, <2>3, JobStepKeeps
<1>6. CASE LeaseExpires(j)
  <2> DEFINE v == [job[j] EXCEPT !.leased = FALSE]
  <2>1. job' = [job EXCEPT ![j] = v] /\ job[j].status = "running"
    BY <1>6 DEF LeaseExpires
  <2>2. job[j] \in JobRows /\ run[j] = NoRun
    BY <1>4, <2>1
  <2>3. v \in JobRows /\ v.scope = job[j].scope /\ v.status = "running" /\ v.cancel = job[j].cancel
    BY <2>1, <2>2 DEF JobRows
  <2> HIDE DEF v
  <2>4. JobLocked(j) => v.status = "running" /\ ~v.cancel
    BY <2>3, LockedIsRunning
  <2>5. QED
    BY <1>2, <2>1, <2>2, <2>3, <2>4, JobStepKeeps
<1>7. CASE RetryDue(j)
  <2> DEFINE v == [job[j] EXCEPT !.due = TRUE]
  <2>1. job' = [job EXCEPT ![j] = v] /\ job[j].status = "queued"
    BY <1>7 DEF RetryDue
  <2>2. job[j] \in JobRows /\ run[j] = NoRun
    BY <1>4, <2>1
  <2>3. v \in JobRows /\ v.scope = job[j].scope /\ v.status = "queued"
    BY <2>1, <2>2 DEF JobRows
  <2> HIDE DEF v
  <2>4. ~JobLocked(j)
    BY <2>1, LockedIsRunning
  <2>5. QED
    BY <1>2, <2>1, <2>2, <2>3, <2>4, JobStepKeeps
<1>8. ASSUME NEW w \in Workers, Claim(w, j) PROVE RunsInv'
  <2> DEFINE u == [job[j] EXCEPT !.status = "running", !.attempts = job[j].attempts + 1,
                                 !.owner = w, !.leased = TRUE]
  <2>1. job[j].status \in {"queued", "running"} /\ ~JobLocked(j)
    BY <1>8, Zenon DEF Claim
  <2>2. job[j] \in JobRows /\ run[j] = NoRun
    BY <1>4, <2>1
  <2>3. job[j].attempts + 1 \in Nat
    BY <2>2 DEF JobRows
  <2>4. u \in JobRows /\ u.scope = job[j].scope /\ u.status = "running"
    BY <2>2, <2>3 DEF JobRows
  <2>5. PICK v : /\ job' = [job EXCEPT ![j] = v]
                 /\ v \in {Ended(j, "cancelled"), job[j], Ended(j, "failed"), u}
    BY <1>8, Zenon DEF Claim
  <2> HIDE DEF u
  <2>6. v \in JobRows /\ v.scope = job[j].scope /\ v.status \notin Ends
    BY <2>1, <2>2, <2>4, <2>5, EndedRow
  <2>7. QED
    BY <1>2, <2>1, <2>2, <2>5, <2>6, JobStepKeeps
<1>9. CASE PersistCancelled(j)
  <2>1. /\ job' = [job EXCEPT ![j] = Ended(j, "cancelled")] /\ ~JobLocked(j)
        /\ job[j] # NoJob /\ job[j].cancel
    BY <1>9 DEF PersistCancelled
  <2>2. job[j] \in JobRows /\ run[j] = NoRun
    BY <1>1, <2>1, NothingYet
  <2>3. /\ Ended(j, "cancelled") \in JobRows /\ Ended(j, "cancelled").scope = job[j].scope
        /\ Ended(j, "cancelled").status = "cancelled"
    BY <2>2, EndedRow
  <2>4. QED
    BY <1>2, <2>1, <2>2, <2>3, JobStepKeeps
<1>10. CASE PersistReplay(j)
  <2> DEFINE s == run[j].status
  <2>1. /\ job' = [job EXCEPT ![j] = Ended(j, s)] /\ ~JobLocked(j)
        /\ run[j] # NoRun /\ ~job[j].cancel
    BY <1>10 DEF PersistReplay
  <2>2. job[j] \in JobRows /\ s \in Ends
    BY <1>1, <2>1 DEF RunsInv, OwnedInv, Committed, RunsTypeOK, RunRows
  <2>3. /\ Ended(j, s) \in JobRows /\ Ended(j, s).scope = job[j].scope
        /\ Ended(j, s).status = s /\ Ended(j, s).cancel = job[j].cancel
    BY <2>2, EndedRow
  <2>4. QED
    BY <1>2, <2>1, <2>3, JobStepKeeps
<1>11. ASSUME NEW w \in Workers, NEW retryable \in BOOLEAN, Fail(w, j, retryable) PROVE RunsInv'
  <2> DEFINE e == Ended(j, "queued")
             u == [e EXCEPT !.due = FALSE]
  <2>1. job[j].status = "running" /\ ~JobLocked(j)
    BY <1>11 DEF Fail
  <2>2. job[j] \in JobRows /\ run[j] = NoRun
    BY <1>4, <2>1
  <2>3. e \in JobRows /\ e.scope = job[j].scope /\ e.status = "queued"
    BY <2>2, EndedRow
  <2>4. PICK v : /\ job' = [job EXCEPT ![j] = v]
                 /\ v \in {u, Ended(j, "failed")}
    BY <1>11 DEF Fail
  <2> HIDE DEF e
  <2>5. u \in JobRows /\ u.scope = job[j].scope /\ u.status = "queued"
    BY <2>3 DEF JobRows
  <2> HIDE DEF u
  <2>6. v \in JobRows /\ v.scope = job[j].scope /\ v.status \notin Ends
    BY <2>2, <2>4, <2>5, EndedRow
  <2>7. QED
    BY <1>2, <2>1, <2>2, <2>4, <2>6, JobStepKeeps
<1>12. QED
  BY <1>3, <1>5, <1>6, <1>7, <1>8, <1>9, <1>10, <1>11

\* The transaction begins: what it locks nobody else holds, and what it will
\* retire was seen last by runs of its scope.
LEMMA BeginKeeps ==
    ASSUME RunsInv, NEW w \in Workers, NEW j \in Jobs, NEW report \in Reports,
           NEW complete \in BOOLEAN, PersistBegin(w, j, report, complete)
    PROVE  RunsInv'
<1> DEFINE absent == IF complete THEN Absentees(j, report) ELSE {}
           existing == {i \in report : row[i] # NoRow}
           t == [pc |-> "writing", job |-> j, report |-> report, complete |-> complete,
                 absent |-> absent, new |-> report \ existing, locks |-> existing \cup absent]
<1>1. /\ job[j].status = "running" /\ ~job[j].cancel /\ ~JobLocked(j) /\ run[j] = NoRun
      /\ OwnReport(j, report)
      /\ \A i \in existing \cup absent : ~RowLocked(i)
      /\ writer' = [writer EXCEPT ![w] = t] /\ UNCHANGED <<job, run, row>>
  BY DEF PersistBegin
<1>2. report \subseteq Items
  BY RunsAssumption DEF Reports
<1>4. absent # {} => complete
  OBVIOUS
<1>5. ASSUME NEW i \in absent PROVE row[i] # NoRow /\ job[row[i].last].scope = job[j].scope
  BY DEF Absentees, PriorRuns, NoRow
<1>6. absent \subseteq Items \ report
  BY DEF Absentees
<1>7. existing \subseteq report
  OBVIOUS
<1> HIDE DEF absent, existing
<1>8. t \in Writes
  BY <1>2, <1>6, <1>7 DEF Writes
<1>9. /\ t.job = j /\ t.report = report /\ t.absent = absent /\ t.complete = complete
      /\ t.new = report \ existing /\ t.locks = existing \cup absent
  OBVIOUS
<1> HIDE DEF t
<1>10. writer \in [Workers -> Writes \cup {NotWriting}]
  BY DEF RunsInv, RunsTypeOK
<1>11. writer'[w] = t /\ \A v \in Workers \ {w} : writer'[v] = writer[v]
  BY <1>1, <1>10
<1>12. RunsTypeOK'
  BY <1>1, <1>8 DEF RunsInv, RunsTypeOK
<1>13. OwnedInv' /\ RetiredWasMissed' /\ JobTellsRun'
  BY <1>1 DEF RunsInv, OwnedInv, OwnReport, RetiredWasMissed, JobTellsRun, Committed
<1>14. ASSUME NEW v \in Workers \ {w}, writer[v] # NotWriting
       PROVE  writer[v].job # j /\ writer[v].locks \cap (existing \cup absent) = {}
  <2>1. writer[v] \in Writes
    BY <1>10, <1>14
  <2>2. writer[v].pc # "idle"
    BY <2>1 DEF Writes
  <2>3. QED
    BY <1>1, <2>2 DEF JobLocked, RowLocked
<1>15. WriteInv(w)'
  BY <1>1, <1>4, <1>5, <1>6, <1>7, <1>9, <1>11, <1>14 DEF WriteInv, OwnReport
<1>16. ASSUME NEW v \in Workers \ {w} PROVE WriteInv(v)'
  <2>1. WriteInv(v)
    BY DEF RunsInv
  <2>2. ASSUME NEW u \in Workers \ {v}, writer[v] # NotWriting, writer'[u] # NotWriting
        PROVE  writer'[u].job # writer[v].job /\ writer'[u].locks \cap writer[v].locks = {}
    BY <1>9, <1>11, <1>14, <2>1, <2>2 DEF WriteInv
  <2>3. QED
    BY <1>1, <1>11, <2>1, <2>2 DEF WriteInv, OwnReport
<1>17. QED
  BY <1>12, <1>13, <1>15, <1>16 DEF RunsInv

\* A writer that ends, and the others that go on while rows they hold stay.
LEMMA EndOfWrite ==
    ASSUME RunsInv, NEW w \in Workers, writer' = [writer EXCEPT ![w] = NotWriting],
           NEW v \in Workers, v # w => WriteInv(v) /\ UNCHANGED writer[v],
           v # w /\ writer[v] # NotWriting =>
              /\ job'[writer[v].job] = job[writer[v].job] /\ run'[writer[v].job] = run[writer[v].job]
              /\ \A i \in writer[v].absent :
                    row'[i] = row[i] /\ job'[row[i].last].scope = job[row[i].last].scope
    PROVE  WriteInv(v)'
<1>1. writer \in [Workers -> Writes \cup {NotWriting}]
  BY DEF RunsInv, RunsTypeOK
<1>2. writer'[w] = NotWriting /\ \A u \in Workers \ {w} : writer'[u] = writer[u]
  BY <1>1
<1>3. CASE v = w
  BY <1>2, <1>3 DEF WriteInv
<1>4. CASE v # w
  BY <1>2, <1>4 DEF WriteInv, OwnReport
<1>5. QED
  BY <1>3, <1>4

LEMMA AbortKeeps ==
    ASSUME RunsInv, NEW w \in Workers, writer' = [writer EXCEPT ![w] = NotWriting],
           UNCHANGED <<job, run, row>>
    PROVE  RunsInv'
<1>1. writer \in [Workers -> Writes \cup {NotWriting}] /\ \A v \in Workers : WriteInv(v)
  BY DEF RunsInv, RunsTypeOK
<1>2. \A v \in Workers : v # w => UNCHANGED writer[v]
  BY <1>1
<1>3. \A v \in Workers : WriteInv(v)'
  BY <1>1, <1>2, EndOfWrite
<1>4. RunsTypeOK'
  BY <1>1 DEF RunsInv, RunsTypeOK
<1>5. OwnedInv' /\ RetiredWasMissed' /\ JobTellsRun'
  BY DEF RunsInv, OwnedInv, OwnReport, RetiredWasMissed, JobTellsRun, Committed
<1>6. QED
  BY <1>3, <1>4, <1>5 DEF RunsInv

\* What an upsert leaves: a row of the run, never a retired one.
LEMMA SeenRow ==
    ASSUME NEW i \in Items, NEW j \in Jobs
    PROVE  /\ Seen(i, j) \in ItemRows /\ Seen(i, j).last = j
           /\ Seen(i, j).status \notin {"stale", "resolved"}
<1>1. SeenFact(j) = [status |-> "current", last |-> j] /\ SeenRelationship(j) = [status |-> "current", last |-> j]
      /\ SeenContradiction(j) = [status |-> "current", last |-> j]
  BY DEF SeenFact, SeenRelationship, SeenContradiction
<1>2. PICK s \in {"open", "regressed", "decided"} : SeenFinding(i, j) = [status |-> s, last |-> j]
  BY DEF SeenFinding, HumanDecided
<1>3. PICK s2 \in {"current", "open", "regressed", "decided"} : Seen(i, j) = [status |-> s2, last |-> j]
  BY <1>1, <1>2 DEF Seen, Items
<1>4. QED
  BY <1>3 DEF ItemRows

LEMMA CommitKeeps ==
    ASSUME RunsInv, NEW w \in Workers, PersistCommit(w)
    PROVE  RunsInv'
<1> DEFINE t == writer[w]
           s == IF t.complete THEN "succeeded" ELSE "partial"
           r == [status |-> s, report |-> t.report]
<1>1. t.pc = "writing" /\ writer' = [writer EXCEPT ![w] = NotWriting]
  BY DEF PersistCommit
<1>2. CASE \E i \in t.new : row[i] # NoRow
  BY <1>1, <1>2, AbortKeeps DEF PersistCommit
<1>3. CASE \A i \in t.new : row[i] = NoRow
  <2>1. /\ run' = [run EXCEPT ![t.job] = r]
        /\ row' = [i \in Items |-> IF i \in t.report THEN Seen(i, t.job)
                                   ELSE IF i \in t.absent THEN Retired(i) ELSE row[i]]
        /\ job' = [job EXCEPT ![t.job] = Ended(t.job, s)]
    BY <1>3 DEF PersistCommit
  <2>2. /\ job \in [Jobs -> JobRows \cup {NoJob}] /\ run \in [Jobs -> RunRows \cup {NoRun}]
        /\ row \in [Items -> ItemRows \cup {NoRow}]
        /\ writer \in [Workers -> Writes \cup {NotWriting}]
    BY DEF RunsInv, RunsTypeOK
  <2>3. t \in Writes /\ t # NotWriting
    BY <1>1, <2>2 DEF NotWriting
  <2>4. t.job \in Jobs /\ t.report \in Reports /\ t.report \subseteq Items /\ t.absent \subseteq Items
    BY <2>3, RunsAssumption DEF Writes, Reports
  <2>5. WriteInv(w) /\ \A v \in Workers : WriteInv(v)
    BY DEF RunsInv
  <2>6. /\ job[t.job].status = "running" /\ ~job[t.job].cancel /\ run[t.job] = NoRun
        /\ OwnReport(t.job, t.report)
        /\ t.absent \subseteq t.locks \ t.report /\ t.report \subseteq t.locks \cup t.new
        /\ t.absent # {} => t.complete
        /\ \A i \in t.absent : row[i] # NoRow /\ job[row[i].last].scope = job[t.job].scope
    BY <2>3, <2>5 DEF WriteInv
  <2>7. job[t.job] \in JobRows
    BY <2>2, <2>4, <2>6 DEF NoJob
  <2>8. /\ Ended(t.job, s) \in JobRows /\ Ended(t.job, s).scope = job[t.job].scope
        /\ Ended(t.job, s).status = s /\ Ended(t.job, s).cancel = job[t.job].cancel
    BY <2>4, <2>7, EndedRow
  <2>9. r \in RunRows /\ r.report = t.report /\ r.status = s /\ (t.complete => s = "succeeded")
    BY <2>4 DEF RunRows
  <2>10. r # NoRun
    BY <2>9 DEF RunRows, NoRun
  <2> HIDE DEF s, r
  <2>11. /\ run'[t.job] = r /\ \A k \in Jobs \ {t.job} : run'[k] = run[k]
         /\ \A k \in Jobs \ {t.job} : job'[k] = job[k]
         /\ job'[t.job] = Ended(t.job, s)
    BY <2>1, <2>2, <2>4
  <2>12. \A k \in Jobs : job'[k].scope = job[k].scope
    BY <2>8, <2>11
  <2>13. Committed' = Committed \cup {t.job} /\ t.job \notin Committed
    BY <2>4, <2>6, <2>10, <2>11 DEF Committed
  <2>14. \A k \in Committed : run'[k] = run[k] /\ k \in Jobs
    BY <2>11, <2>13 DEF Committed
  <2>15. ASSUME NEW i \in t.absent
         PROVE  /\ Retired(i) \in ItemRows /\ Retired(i).last = row[i].last
    <3>1. row[i] \in ItemRows
      BY <2>2, <2>4, <2>6
    <3>2. QED
      BY <3>1 DEF Retired, ItemRows
  <2>16. ASSUME NEW i \in Items
         PROVE  \/ i \in t.report /\ row'[i] = Seen(i, t.job)
                \/ i \in t.absent /\ i \notin t.report /\ row'[i] = Retired(i)
                \/ i \notin t.report \cup t.absent /\ row'[i] = row[i]
    BY <2>1
  <2>17. \A i \in Items : row'[i] \in ItemRows \cup {NoRow}
    BY <2>2, <2>4, <2>15, <2>16, SeenRow
  <2>18. \A i \in Items : row[i] # NoRow => row'[i] # NoRow
    <3>1. NoRow \notin ItemRows
      BY DEF NoRow, ItemRows
    <3>2. QED
      BY <2>4, <2>15, <2>16, <3>1, SeenRow
  <2>19. RunsTypeOK'
    <3>1. row' \in [Items -> ItemRows \cup {NoRow}]
      BY <2>1, <2>17
    <3>2. QED
      BY <1>1, <2>1, <2>2, <2>8, <2>9, <3>1 DEF RunsTypeOK
  <2>20. ASSUME NEW i \in Items, row[i] # NoRow
         PROVE  row[i].last \in Committed /\ i \in run[row[i].last].report
    BY <2>20 DEF RunsInv, OwnedInv
  <2>21. OwnedInv'
    <3>1. ASSUME NEW j \in Committed' PROVE job'[j] # NoJob /\ ~job'[j].cancel /\ OwnReport(j, run[j].report)'
      <4>1. CASE j = t.job
        BY <2>6, <2>8, <2>9, <2>11, <4>1 DEF NoJob, JobRows, OwnReport
      <4>2. CASE j \in Committed
        <5>1. j # t.job /\ j \in Jobs /\ run'[j] = run[j] /\ job'[j] = job[j]
          BY <2>11, <2>13, <2>14, <4>2
        <5>2. job[j] # NoJob /\ ~job[j].cancel /\ OwnReport(j, run[j].report)
          BY <4>2 DEF RunsInv, OwnedInv
        <5>3. QED
          BY <5>1, <5>2 DEF OwnReport
      <4>3. QED
        BY <2>13, <4>1, <4>2
    <3>2. ASSUME NEW i \in Items, row'[i] # NoRow
          PROVE  row'[i].last \in Committed' /\ i \in run'[row'[i].last].report
      <4>1. CASE i \in t.report /\ row'[i] = Seen(i, t.job)
        BY <2>4, <2>9, <2>11, <2>13, <4>1, SeenRow
      <4>2. CASE i \in t.absent /\ row'[i] = Retired(i)
        BY <2>6, <2>13, <2>14, <2>15, <2>20, <4>2
      <4>3. CASE row'[i] = row[i]
        BY <2>13, <2>14, <2>20, <3>2, <4>3
      <4>4. QED
        BY <2>16, <4>1, <4>2, <4>3
    <3>3. ASSUME NEW j \in Committed', NEW i \in run'[j].report PROVE row'[i] # NoRow
      <4>1. CASE j = t.job
        <5>1. i \in t.report /\ i \in Items
          BY <2>4, <2>9, <2>11, <4>1
        <5>2. row'[i] = Seen(i, t.job)
          BY <2>16, <5>1
        <5>3. QED
          BY <2>4, <5>1, <5>2, SeenRow DEF NoRow, ItemRows
      <4>2. CASE j \in Committed
        <5>1. i \in run[j].report /\ row[i] # NoRow
          BY <2>14, <4>2 DEF RunsInv, OwnedInv
        <5>2. run[j] \in RunRows
          BY <2>2, <4>2 DEF Committed
        <5>3. i \in Items
          BY <5>1, <5>2, RunsAssumption DEF RunRows, Reports
        <5>4. QED
          BY <2>18, <5>1, <5>3
      <4>3. QED
        BY <2>13, <4>1, <4>2
    <3>4. QED
      BY <3>1, <3>2, <3>3 DEF OwnedInv
  <2>22. RetiredWasMissed'
    <3> SUFFICES ASSUME NEW i \in Items, row'[i].status \in {"stale", "resolved"}
                 PROVE  \E j \in Committed' \ {row'[i].last} :
                           /\ run'[j].status = "succeeded"
                           /\ job'[j].scope = job'[row'[i].last].scope
                           /\ i \notin run'[j].report
      BY DEF RetiredWasMissed
    <3>1. CASE i \in t.report /\ row'[i] = Seen(i, t.job)
      BY <2>4, <3>1, SeenRow
    <3>2. CASE i \in t.absent /\ i \notin t.report /\ row'[i] = Retired(i)
      <4>1. row'[i].last = row[i].last /\ row[i].last \in Committed
        BY <2>6, <2>15, <2>20, <3>2
      <4>2. t.job # row'[i].last /\ t.job \in Committed'
        BY <2>13, <4>1
      <4>3. job'[t.job].scope = job'[row'[i].last].scope
        BY <2>4, <2>6, <2>12, <2>14, <3>2, <4>1
      <4>4. run'[t.job].status = "succeeded" /\ i \notin run'[t.job].report
        BY <2>6, <2>9, <2>11, <3>2
      <4>5. QED
        BY <4>2, <4>3, <4>4
    <3>3. CASE row'[i] = row[i]
      <4>1. PICK j \in Committed \ {row[i].last} :
                           /\ run[j].status = "succeeded"
                           /\ job[j].scope = job[row[i].last].scope
                           /\ i \notin run[j].report
        BY <3>3 DEF RunsInv, RetiredWasMissed
      <4>2. row[i].last \in Committed
        BY <2>20, <3>3 DEF NoRow
      <4>3. QED
        BY <2>12, <2>13, <2>14, <3>3, <4>1, <4>2
    <3>4. QED
      BY <2>16, <3>1, <3>2, <3>3
  <2>23. ASSUME NEW v \in Workers PROVE WriteInv(v)'
    <3>1. v # w => WriteInv(v) /\ UNCHANGED writer[v]
      BY <1>1, <2>2, <2>5
    <3>2. ASSUME v # w, writer[v] # NotWriting
          PROVE  /\ job'[writer[v].job] = job[writer[v].job] /\ run'[writer[v].job] = run[writer[v].job]
                 /\ \A i \in writer[v].absent :
                       row'[i] = row[i] /\ job'[row[i].last].scope = job[row[i].last].scope
      <4>1. writer[v] \in Writes
        BY <2>2, <3>2
      <4>2. writer[v].job \in Jobs /\ writer[v].absent \subseteq Items
        BY <4>1 DEF Writes
      <4>3. writer[v].job # t.job /\ writer[v].locks \cap t.locks = {}
        BY <2>3, <2>5, <3>2 DEF WriteInv
      <4>4. ASSUME NEW i \in writer[v].absent PROVE row'[i] = row[i] /\ row[i] # NoRow
        <5>1. i \in writer[v].locks /\ row[i] # NoRow
          BY <2>5, <3>2 DEF WriteInv
        <5>2. i \notin t.locks
          BY <4>3, <5>1
        <5>3. i \notin t.report \cup t.absent
          BY <1>3, <2>6, <5>1, <5>2
        <5>4. QED
          BY <2>16, <4>2, <5>1, <5>3
      <4>5. \A i \in writer[v].absent : job'[row[i].last].scope = job[row[i].last].scope
        BY <2>12, <2>14, <2>20, <4>2, <4>4
      <4>6. QED
        BY <2>11, <4>2, <4>3, <4>4, <4>5
    <3>3. QED
      BY <1>1, <3>1, <3>2, EndOfWrite
  <2>24. JobTellsRun'
    BY <2>8, <2>9, <2>11 DEF RunsInv, JobTellsRun
  <2>25. QED
    BY <2>19, <2>21, <2>22, <2>23, <2>24 DEF RunsInv
<1>4. QED
  BY <1>2, <1>3

\* Triage changes the status of a row that no transaction holds.
LEMMA TriageKeeps ==
    ASSUME RunsInv, NEW i \in Findings, Triage(i)
    PROVE  RunsInv'
<1> DEFINE r == [row[i] EXCEPT !.status = "decided"]
<1>1. /\ row' = [row EXCEPT ![i] = r] /\ row[i].status \in {"open", "regressed"} /\ ~RowLocked(i)
      /\ UNCHANGED <<job, run, writer>>
  BY DEF Triage
<1>2. /\ row \in [Items -> ItemRows \cup {NoRow}] /\ i \in Items
      /\ writer \in [Workers -> Writes \cup {NotWriting}]
  BY DEF RunsInv, RunsTypeOK, Items
<1>3. row[i] \in ItemRows /\ row[i] # NoRow
  BY <1>1, <1>2 DEF NoRow
<1>4. r \in ItemRows /\ r.last = row[i].last /\ r.status = "decided"
  BY <1>3 DEF ItemRows
<1> HIDE DEF r
<1>5. row'[i] = r /\ \A k \in Items \ {i} : row'[k] = row[k]
  BY <1>1, <1>2
<1>6. r # NoRow
  BY <1>4 DEF NoRow
<1>7. RunsTypeOK'
  BY <1>1, <1>4 DEF RunsInv, RunsTypeOK
<1>8. Committed' = Committed
  BY <1>1 DEF Committed
<1>9. OwnedInv'
  <2>1. \A k \in Items : row'[k] # NoRow => row[k] # NoRow /\ row'[k].last = row[k].last
    BY <1>3, <1>4, <1>5
  <2>2. \A k : row[k] # NoRow /\ k \in Items => row'[k] # NoRow
    BY <1>5, <1>6
  <2>3. ASSUME NEW j \in Committed, NEW k \in run[j].report PROVE row'[k] # NoRow
    <3>1. row[k] # NoRow /\ run[j] \in RunRows
      BY DEF RunsInv, RunsTypeOK, OwnedInv, Committed
    <3>2. k \in Items
      BY <3>1, RunsAssumption DEF RunRows, Reports
    <3>3. QED
      BY <2>2, <3>1, <3>2
  <2>4. QED
    BY <1>1, <1>8, <2>1, <2>3 DEF RunsInv, OwnedInv, OwnReport
<1>10. RetiredWasMissed'
  BY <1>1, <1>4, <1>5, <1>8 DEF RunsInv, RetiredWasMissed
<1>11. ASSUME NEW w \in Workers PROVE WriteInv(w)'
  <2> SUFFICES ASSUME writer[w] # NotWriting PROVE WriteInv(w)'
    BY <1>1 DEF WriteInv
  <2>1. writer[w] \in Writes /\ WriteInv(w)
    BY <1>2 DEF RunsInv
  <2>2. writer[w].pc # "idle" /\ writer[w].absent \subseteq Items
    BY <2>1 DEF Writes
  <2>3. i \notin writer[w].absent
    BY <1>1, <2>1, <2>2 DEF RowLocked, WriteInv
  <2>4. \A k \in writer[w].absent : row'[k] = row[k]
    BY <1>5, <2>2, <2>3
  <2>5. QED
    BY <1>1, <2>1, <2>4 DEF WriteInv, OwnReport
<1>12. JobTellsRun'
  BY <1>1 DEF RunsInv, JobTellsRun
<1>13. QED
  BY <1>7, <1>9, <1>10, <1>11, <1>12 DEF RunsInv

\* What is deleted is of one repository: the runs that other rows rest on, and
\* the transactions of other repositories, are not among it.
LEMMA DeleteKeeps ==
    ASSUME RunsInv, NEW p, DeleteRecords(p)
    PROVE  RunsInv'
<1> DEFINE gone == {j \in Jobs : job[j] # NoJob /\ RepositoryOf[job[j].scope] = p}
<1>1. /\ \A w \in Workers : writer[w] # NotWriting => writer[w].job \notin gone
      /\ job' = [j \in Jobs |-> IF j \in gone THEN NoJob ELSE job[j]]
      /\ run' = [j \in Jobs |-> IF j \in gone THEN NoRun ELSE run[j]]
      /\ row' = [i \in Items |-> IF RepositoryOf[i] = p THEN NoRow ELSE row[i]]
      /\ UNCHANGED writer
  BY DEF DeleteRecords
<1>2. /\ job \in [Jobs -> JobRows \cup {NoJob}] /\ run \in [Jobs -> RunRows \cup {NoRun}]
      /\ row \in [Items -> ItemRows \cup {NoRow}]
      /\ writer \in [Workers -> Writes \cup {NotWriting}]
  BY DEF RunsInv, RunsTypeOK
<1>3. ASSUME NEW j \in Jobs, job[j] # NoJob
      PROVE  j \in gone <=> RepositoryOf[job[j].scope] = p
  BY <1>3
<1> HIDE DEF gone
<1>4. /\ \A j \in Jobs : j \in gone => job'[j] = NoJob /\ run'[j] = NoRun
      /\ \A j \in Jobs : j \notin gone => job'[j] = job[j] /\ run'[j] = run[j]
      /\ \A i \in Items : RepositoryOf[i] = p => row'[i] = NoRow
      /\ \A i \in Items : RepositoryOf[i] # p => row'[i] = row[i]
  BY <1>1
<1>5. RunsTypeOK'
  <2>1. \A j \in Jobs : job'[j] \in JobRows \cup {NoJob} /\ run'[j] \in RunRows \cup {NoRun}
    BY <1>2, <1>4
  <2>2. \A i \in Items : row'[i] \in ItemRows \cup {NoRow}
    BY <1>2, <1>4
  <2>3. QED
    BY <1>1, <1>2, <2>1, <2>2 DEF RunsTypeOK
<1>6. Committed' = Committed \ gone /\ Committed \subseteq Jobs
  BY <1>4 DEF Committed
<1>7. ASSUME NEW i \in Items, row[i] # NoRow
      PROVE  /\ row[i].last \in Committed /\ i \in run[row[i].last].report
             /\ job[row[i].last] # NoJob
             /\ RepositoryOf[i] = RepositoryOf[job[row[i].last].scope]
  BY <1>7 DEF RunsInv, OwnedInv, OwnReport
<1>8. ASSUME NEW i \in Items, row'[i] # NoRow
      PROVE  /\ row'[i] = row[i] /\ RepositoryOf[i] # p /\ row[i].last \in Committed'
             /\ job'[row[i].last] = job[row[i].last] /\ run'[row[i].last] = run[row[i].last]
  <2>1. row'[i] = row[i] /\ RepositoryOf[i] # p
    BY <1>4, <1>8
  <2>2. row[i].last \in Committed /\ row[i].last \notin gone
    BY <1>3, <1>6, <1>7, <1>8, <2>1
  <2>3. QED
    BY <1>4, <1>6, <2>1, <2>2
<1>9. ASSUME NEW j \in Committed'
      PROVE  /\ j \in Committed /\ job'[j] = job[j] /\ run'[j] = run[j]
             /\ job[j] # NoJob /\ RepositoryOf[job[j].scope] # p
  BY <1>3, <1>4, <1>6 DEF RunsInv, OwnedInv
<1>10. OwnedInv'
  <2>1. \A j \in Committed' : job'[j] # NoJob /\ ~job'[j].cancel /\ OwnReport(j, run[j].report)'
    BY <1>9 DEF RunsInv, OwnedInv, OwnReport
  <2>2. \A i \in Items : row'[i] # NoRow => row'[i].last \in Committed' /\ i \in run'[row'[i].last].report
    BY <1>7, <1>8
  <2>3. ASSUME NEW j \in Committed', NEW i \in run'[j].report PROVE row'[i] # NoRow
    <3>1. i \in run[j].report /\ run[j] \in RunRows
      BY <1>2, <1>6, <1>9 DEF Committed
    <3>2. i \in Items
      BY <3>1, RunsAssumption DEF RunRows, Reports
    <3>3. RepositoryOf[i] = RepositoryOf[job[j].scope] /\ row[i] # NoRow
      BY <1>9, <3>1 DEF RunsInv, OwnedInv, OwnReport
    <3>4. QED
      BY <1>4, <1>9, <3>2, <3>3
  <2>4. QED
    BY <2>1, <2>2, <2>3 DEF OwnedInv
<1>11. RetiredWasMissed'
  <2> SUFFICES ASSUME NEW i \in Items, row'[i].status \in {"stale", "resolved"}
               PROVE  \E j \in Committed' \ {row'[i].last} :
                         /\ run'[j].status = "succeeded"
                         /\ job'[j].scope = job'[row'[i].last].scope
                         /\ i \notin run'[j].report
    BY DEF RetiredWasMissed
  <2>1. row'[i] # NoRow
    BY DEF NoRow
  <2>2. PICK j \in Committed \ {row[i].last} :
                         /\ run[j].status = "succeeded"
                         /\ job[j].scope = job[row[i].last].scope
                         /\ i \notin run[j].report
    BY <1>8, <2>1 DEF RunsInv, RetiredWasMissed
  <2>3. j \in Jobs /\ job[j] # NoJob
    BY <1>6 DEF RunsInv, OwnedInv
  <2>4. j \notin gone
    BY <1>3, <1>7, <1>8, <2>1, <2>2, <2>3
  <2>5. QED
    BY <1>4, <1>6, <1>8, <2>1, <2>2, <2>3, <2>4
<1>12. ASSUME NEW w \in Workers PROVE WriteInv(w)'
  <2> SUFFICES ASSUME writer[w] # NotWriting PROVE WriteInv(w)'
    BY <1>1 DEF WriteInv
  <2>1. WriteInv(w) /\ writer[w] \in Writes
    BY <1>2 DEF RunsInv
  <2>2. writer[w].job \in Jobs /\ writer[w].absent \subseteq Items /\ writer[w].job \notin gone
    BY <1>1, <2>1 DEF Writes
  <2>3. job[writer[w].job] # NoJob
    BY <2>1 DEF WriteInv, NoJob
  <2>4. ASSUME NEW i \in writer[w].absent
        PROVE  row'[i] # NoRow /\ job'[row'[i].last].scope = job'[writer[w].job].scope
    <3>1. i \in Items /\ row[i] # NoRow /\ job[row[i].last].scope = job[writer[w].job].scope
      BY <2>1, <2>2 DEF WriteInv
    <3>2. RepositoryOf[i] # p
      BY <1>3, <1>7, <2>2, <2>3, <3>1
    <3>3. row'[i] = row[i]
      BY <1>4, <3>1, <3>2
    <3>4. QED
      BY <1>4, <1>8, <2>2, <3>1, <3>3
  <2>5. job'[writer[w].job] = job[writer[w].job] /\ run'[writer[w].job] = run[writer[w].job]
    BY <1>4, <2>2
  <2>6. QED
    BY <1>1, <2>1, <2>4, <2>5 DEF WriteInv, OwnReport
<1>13. JobTellsRun'
  <2>1. ASSUME NEW j \in Jobs, run'[j] # NoRun \/ job'[j].status \in {"succeeded", "partial"}
        PROVE  job'[j].status = run'[j].status
    <3>1. j \notin gone
      BY <1>4, <2>1 DEF NoJob
    <3>2. QED
      BY <1>4, <2>1, <3>1 DEF RunsInv, JobTellsRun
  <2>2. QED
    BY <2>1 DEF JobTellsRun
<1>14. QED
  BY <1>5, <1>10, <1>11, <1>12, <1>13 DEF RunsInv

LEMMA RunsNextKeeps == RunsInv /\ RunsNext => RunsInv'
<1> SUFFICES ASSUME RunsInv, RunsNext PROVE RunsInv'
  OBVIOUS
<1>1. ASSUME NEW w \in Workers, PersistAbort(w) PROVE RunsInv'
  BY <1>1, AbortKeeps DEF PersistAbort
<1>2. QED
  BY <1>1, JobsKeep, BeginKeeps, CommitKeeps, TriageKeeps, DeleteKeeps DEF RunsNext

LEMMA RunsStep == RunsInv /\ [RunsNext]_runVars => RunsInv'
<1>1. ASSUME RunsInv, UNCHANGED runVars PROVE RunsInv'
  <2>1. UNCHANGED <<job, run, row, writer>>
    BY <1>1 DEF runVars
  <2>2. RunsTypeOK'
    BY <1>1, <2>1 DEF RunsInv, RunsTypeOK
  <2>3. OwnedInv' /\ RetiredWasMissed' /\ JobTellsRun'
    BY <1>1, <2>1 DEF RunsInv, OwnedInv, OwnReport, RetiredWasMissed, JobTellsRun, Committed
  <2>4. ASSUME NEW w \in Workers PROVE WriteInv(w)'
    <3>1. WriteInv(w)
      BY <1>1 DEF RunsInv
    <3>2. QED
      BY <2>1, <3>1 DEF WriteInv, OwnReport
  <2>5. QED
    BY <2>2, <2>3, <2>4 DEF RunsInv
<1>2. QED
  BY <1>1, RunsNextKeeps

\* Whatever workers publish at once, whatever they lose their leases, are
\* cancelled or deleted under, a row is retired only because a complete run of
\* the scope that saw it last missed it.
THEOREM RetiredWasMissedTheorem == RunsSpec => []RetiredWasMissed
<1>1. RunsInv => RetiredWasMissed
  BY DEF RunsInv
<1>2. QED
  BY <1>1, RunsInitHolds, RunsStep, PTL DEF RunsSpec

\* Whatever a worker that lost its lease reports late, and whatever is cancelled,
\* replayed or deleted, a job has ended as its run says, and no job has succeeded
\* without a run.
THEOREM JobTellsRunTheorem == RunsSpec => []JobTellsRun
<1>1. RunsInv => JobTellsRun
  BY DEF RunsInv
<1>2. QED
  BY <1>1, RunsInitHolds, RunsStep, PTL DEF RunsSpec

\* A result of a job that was cancelled before its transaction began is never
\* published: the transaction that would publish it holds the job's row, and
\* the cancellation waits for it.
THEOREM CancelledPublishesNothingTheorem == RunsSpec => CancelledPublishesNothing
<1> DEFINE P == \A j \in Jobs : job[j] # NoJob /\ run[j] = NoRun /\ job[j].cancel =>
                    run'[j] = NoRun
<1>1. ASSUME RunsInv, RunsNext PROVE P
  <2>1. ASSUME NEW w \in Workers, PersistCommit(w) PROVE P
    <3>1. writer[w] # NotWriting /\ WriteInv(w)
      BY <1>1, <2>1 DEF PersistCommit, NotWriting, RunsInv
    <3>2. ~job[writer[w].job].cancel
      BY <3>1 DEF WriteInv
    <3>3. \A j \in Jobs : run'[j] = run[j] \/ j = writer[w].job
      BY <1>1, <2>1 DEF PersistCommit, RunsInv, RunsTypeOK
    <3>4. QED
      BY <3>2, <3>3
  <2>2. ASSUME NEW p, DeleteRecords(p) PROVE P
    BY <2>2 DEF DeleteRecords
  <2>3. CASE UNCHANGED run
    BY <2>3
  <2>4. ASSUME NEW j \in Jobs,
               \/ (\E scope \in Scopes : Enqueue(j, scope)) \/ Cancel(j) \/ LeaseExpires(j) \/ RetryDue(j)
               \/ PersistCancelled(j) \/ PersistReplay(j)
        PROVE  UNCHANGED run
    BY <2>4 DEF Enqueue, Cancel, LeaseExpires, RetryDue, PersistCancelled, PersistReplay
  <2>5. ASSUME NEW w \in Workers, NEW j \in Jobs,
               \/ Claim(w, j) \/ \E retryable \in BOOLEAN : Fail(w, j, retryable)
               \/ \E report \in Reports, complete \in BOOLEAN : PersistBegin(w, j, report, complete)
        PROVE  UNCHANGED run
    BY <2>5 DEF Claim, Fail, PersistBegin
  <2>6. ASSUME NEW w \in Workers, PersistAbort(w) PROVE UNCHANGED run
    BY <2>6 DEF PersistAbort
  <2>7. ASSUME NEW i \in Findings, Triage(i) PROVE UNCHANGED run
    BY <2>7 DEF Triage
  <2> HIDE DEF P
  <2>8. QED
    BY <1>1, <2>1, <2>2, <2>3, <2>4, <2>5, <2>6, <2>7 DEF RunsNext
<1>2. RunsInv /\ [RunsNext]_runVars => [P]_runVars
  BY <1>1
<1>3. QED
  BY <1>2, RunsInitHolds, RunsStep, PTL DEF RunsSpec, CancelledPublishesNothing

-----------------------------------------------------------------------------
(* Views.                                                                  *)

AfterFacts == {"facts", "relationships", "findings", "contradictions", "times", "done"}

\* A request, whatever the claims it compared.
ViewRecords(C) ==
    [pc : AfterFacts \cup {"begun"}, whole : SUBSET Jobs, facts : SUBSET Own(Facts),
     relationships : SUBSET Relationships, findings : SUBSET Own(Findings),
     contradictions : SUBSET Own(Contradictions), runs : SUBSET Jobs,
     compared : SUBSET C, cut : BOOLEAN]

\* What a detail has read of the runs that were there when it began.
WholeInv ==
    /\ view.whole \subseteq Committed
    /\ view.pc \in AfterFacts /\ ~view.cut =>
          \A j \in view.whole : run[j].report \cap Own(Facts) \subseteq view.facts
    /\ view.pc \in {"times", "done"} => view.whole \subseteq view.runs
    /\ \A c \in view.compared : c.status # "insufficient_evidence" => c.fact \in Own(Facts)

ViewInv == view = NoView \/ ((\E C : view \in ViewRecords(C)) /\ WholeInv)

ViewsInv == RunsInv /\ ViewInv

\* A run that stays keeps its report.
LEMMA ReportsStay ==
    ASSUME RunsInv, RunsNext, NEW j \in Jobs, run[j] # NoRun, run'[j] # NoRun
    PROVE  run'[j] = run[j]
<1>1. ASSUME NEW w \in Workers, PersistCommit(w) PROVE run'[j] = run[j]
  <2>1. writer[w] # NotWriting /\ WriteInv(w)
    BY <1>1 DEF PersistCommit, NotWriting, RunsInv
  <2>2. run[writer[w].job] = NoRun
    BY <2>1 DEF WriteInv
  <2>3. QED
    BY <1>1, <2>2 DEF PersistCommit, RunsInv, RunsTypeOK
<1>2. ASSUME NEW p, DeleteRecords(p) PROVE run'[j] = run[j]
  BY <1>2 DEF DeleteRecords
<1>3. ASSUME NEW k \in Jobs,
             \/ (\E scope \in Scopes : Enqueue(k, scope)) \/ Cancel(k) \/ LeaseExpires(k) \/ RetryDue(k)
             \/ PersistCancelled(k) \/ PersistReplay(k)
      PROVE  UNCHANGED run
  BY <1>3 DEF Enqueue, Cancel, LeaseExpires, RetryDue, PersistCancelled, PersistReplay
<1>4. ASSUME NEW w \in Workers, NEW k \in Jobs,
             \/ Claim(w, k) \/ \E retryable \in BOOLEAN : Fail(w, k, retryable)
             \/ \E report \in Reports, complete \in BOOLEAN : PersistBegin(w, k, report, complete)
      PROVE  UNCHANGED run
  BY <1>4 DEF Claim, Fail, PersistBegin
<1>5. ASSUME NEW w \in Workers, PersistAbort(w) PROVE UNCHANGED run
  BY <1>5 DEF PersistAbort
<1>6. ASSUME NEW i \in Findings, Triage(i) PROVE UNCHANGED run
  BY <1>6 DEF Triage
<1>7. QED
  BY <1>1, <1>2, <1>3, <1>4, <1>5, <1>6 DEF RunsNext

\* Writers go on under a request.
LEMMA NoticedKeeps ==
    ASSUME ViewsInv, RunsNext, Noticed
    PROVE  ViewInv'
<1>1. CASE view = NoView
  BY <1>1 DEF Noticed, ViewInv
<1>2. CASE view # NoView
  <2>1. PICK C : view \in ViewRecords(C)
    BY <1>2 DEF ViewsInv, ViewInv
  <2>2. WholeInv /\ RunsInv
    BY <1>2 DEF ViewsInv, ViewInv
  <2> DEFINE whole == view.whole \cap {j \in Jobs : run'[j] # NoRun}
  <2>3. view' = [view EXCEPT !.whole = whole]
    BY <1>2 DEF Noticed
  <2>4. whole \in SUBSET Jobs /\ whole \subseteq view.whole /\ whole = view.whole \cap Committed'
    BY <2>1 DEF ViewRecords, Committed
  <2> HIDE DEF whole
  <2>5. view' \in ViewRecords(C)
    BY <2>1, <2>3, <2>4 DEF ViewRecords
  <2>6. /\ view'.whole = whole
        /\ UNCHANGED <<view.pc, view.facts, view.runs, view.compared, view.cut>>
    BY <2>1, <2>3 DEF ViewRecords
  <2>7. \A j \in whole : run'[j] = run[j]
    BY <2>2, <2>4, ReportsStay DEF WholeInv, Committed
  <2>8. WholeInv'
    BY <2>2, <2>4, <2>6, <2>7 DEF WholeInv
  <2>9. ViewRecords(C)' = ViewRecords(C)
    BY DEF ViewRecords, Own
  <2>10. QED
    BY <2>5, <2>8, <2>9 DEF ViewInv
<1>3. QED
  BY <1>1, <1>2

\* What only depends on the rows and runs does not change with the request.
LEMMA SameRows ==
    ASSUME UNCHANGED runVars
    PROVE  UNCHANGED <<run, row, Committed>>
BY DEF runVars, Committed

LEMMA BeginViewKeeps ==
    ASSUME ViewsInv, DetailBegin
    PROVE  ViewInv'
<1>1. view' = EmptyView /\ UNCHANGED runVars
  BY DEF DetailBegin
<1>2. Committed \subseteq Jobs
  BY DEF Committed
<1>3. /\ view' \in ViewRecords({}) /\ view'.pc = "begun" /\ view'.whole = Committed
      /\ view'.compared = {}
  BY <1>1, <1>2 DEF EmptyView, ViewRecords, AfterFacts
<1>4. Committed' = Committed
  BY <1>1, SameRows
<1>5. WholeInv'
  BY <1>3, <1>4 DEF WholeInv, AfterFacts
<1>6. QED
  BY <1>3, <1>5 DEF ViewInv

\* The facts of every run that was there are among the facts that are read,
\* unless the list is cut.
LEMMA DetailFactsKeeps ==
    ASSUME ViewsInv, DetailFacts
    PROVE  ViewInv'
<1>1. view.pc = "begun" /\ UNCHANGED runVars
  BY DEF DetailFacts
<1>2. PICK S \in CurrentFirst(Own(Facts)) :
          view' = [view EXCEPT !.pc = "facts", !.facts = S, !.cut = S # Rows(Own(Facts))]
  BY Zenon DEF DetailFacts
<1>3. view # NoView
  BY <1>1 DEF NoView
<1>4. PICK C : view \in ViewRecords(C)
  BY <1>3 DEF ViewsInv, ViewInv
<1>5. WholeInv /\ RunsInv
  BY <1>3 DEF ViewsInv, ViewInv
<1> DEFINE cut == S # Rows(Own(Facts))
<1>6. S \subseteq Own(Facts) /\ cut \in BOOLEAN
  BY DEF CurrentFirst, Rows
<1>7. ~cut => S = Rows(Own(Facts))
  OBVIOUS
<1>8. view' = [view EXCEPT !.pc = "facts", !.facts = S, !.cut = cut]
  BY <1>2
<1> HIDE DEF cut
<1>9. view' \in ViewRecords(C)
  BY <1>4, <1>6, <1>8 DEF ViewRecords, AfterFacts
<1>10. /\ view'.pc = "facts" /\ view'.facts = S /\ view'.cut = cut
       /\ UNCHANGED <<view.whole, view.compared>>
  BY <1>4, <1>8 DEF ViewRecords
<1>11. ASSUME ~cut, NEW j \in view.whole PROVE run[j].report \cap Own(Facts) \subseteq S
  <2>1. j \in Committed
    BY <1>5 DEF WholeInv
  <2>2. \A i \in run[j].report : row[i] # NoRow
    BY <1>5, <2>1 DEF RunsInv, OwnedInv
  <2>3. QED
    BY <1>7, <1>11, <2>2 DEF Rows
<1>12. WholeInv'
  BY <1>5, <1>10, <1>11, <1>1, SameRows DEF WholeInv
<1>13. QED
  BY <1>9, <1>12 DEF ViewInv

\* The later statements of a detail.
LEMMA DetailMoves ==
    ASSUME ViewsInv, view.pc \in AfterFacts, UNCHANGED runVars,
           NEW C, view' \in ViewRecords(C), view'.pc \in AfterFacts,
           UNCHANGED <<view.whole, view.facts, view.cut>>,
           view'.pc \in {"times", "done"} => view.whole \subseteq view'.runs,
           \A c \in view'.compared : c.status # "insufficient_evidence" => c.fact \in Own(Facts)
    PROVE  ViewInv'
<1>1. view # NoView
  BY DEF NoView, AfterFacts
<1>2. WholeInv
  BY <1>1 DEF ViewsInv, ViewInv
<1>3. WholeInv'
  BY <1>2, SameRows DEF WholeInv
<1>4. QED
  BY <1>3 DEF ViewInv

LEMMA DetailReadKeeps ==
    ASSUME ViewsInv,
           DetailRelationships \/ DetailFindings \/ DetailContradictions \/ DetailRunTimes
    PROVE  ViewInv'
<1>1. view.pc \in {"facts", "relationships", "findings", "contradictions"} /\ UNCHANGED runVars
  BY Zenon DEF DetailRelationships, DetailFindings, DetailContradictions, DetailRunTimes
<1>2. view # NoView
  BY <1>1 DEF NoView
<1>3. PICK C : view \in ViewRecords(C)
  BY <1>2 DEF ViewsInv, ViewInv
<1>4. WholeInv
  BY <1>2 DEF ViewsInv, ViewInv
<1>5. CASE DetailRelationships
  <2>1. PICK S \in CurrentFirst(Own(Relationships) \cup Inbound) :
            view' = [view EXCEPT !.pc = "relationships", !.relationships = S]
    BY <1>5, Zenon DEF DetailRelationships
  <2>2. S \subseteq Relationships
    BY ViewsAssumption DEF CurrentFirst, Rows, Own
  <2>3. view' \in ViewRecords(C)
    BY <1>3, <2>1, <2>2 DEF ViewRecords, AfterFacts
  <2>4. /\ view'.pc = "relationships"
        /\ UNCHANGED <<view.whole, view.facts, view.cut, view.compared>>
    BY <1>3, <2>1 DEF ViewRecords
  <2>5. \A c \in view'.compared : c.status # "insufficient_evidence" => c.fact \in Own(Facts)
    BY <1>4, <2>4 DEF WholeInv
  <2>6. /\ view.pc \in AfterFacts /\ view'.pc \in AfterFacts
        /\ view'.pc \in {"times", "done"} => view.whole \subseteq view'.runs
    BY <1>1, <1>4, <2>4 DEF AfterFacts, WholeInv
  <2>7. QED
    BY <1>1, <2>3, <2>4, <2>5, <2>6, DetailMoves
<1>6. CASE DetailFindings
  <2>1. PICK S \in SeverityFirst : view' = [view EXCEPT !.pc = "findings", !.findings = S]
    BY <1>6, Zenon DEF DetailFindings
  <2>2. S \subseteq Own(Findings)
    BY DEF SeverityFirst, Rows
  <2>3. view' \in ViewRecords(C)
    BY <1>3, <2>1, <2>2 DEF ViewRecords, AfterFacts
  <2>4. /\ view'.pc = "findings"
        /\ UNCHANGED <<view.whole, view.facts, view.cut, view.compared>>
    BY <1>3, <2>1 DEF ViewRecords
  <2>5. \A c \in view'.compared : c.status # "insufficient_evidence" => c.fact \in Own(Facts)
    BY <1>4, <2>4 DEF WholeInv
  <2>6. /\ view.pc \in AfterFacts /\ view'.pc \in AfterFacts
        /\ view'.pc \in {"times", "done"} => view.whole \subseteq view'.runs
    BY <1>1, <1>4, <2>4 DEF AfterFacts, WholeInv
  <2>7. QED
    BY <1>1, <2>3, <2>4, <2>5, <2>6, DetailMoves
<1>7. CASE DetailContradictions
  <2>1. PICK S \in CurrentFirst(Own(Contradictions)) :
            view' = [view EXCEPT !.pc = "contradictions", !.contradictions = S]
    BY <1>7, Zenon DEF DetailContradictions
  <2>2. S \subseteq Own(Contradictions)
    BY DEF CurrentFirst, Rows
  <2>3. view' \in ViewRecords(C)
    BY <1>3, <2>1, <2>2 DEF ViewRecords, AfterFacts
  <2>4. /\ view'.pc = "contradictions"
        /\ UNCHANGED <<view.whole, view.facts, view.cut, view.compared>>
    BY <1>3, <2>1 DEF ViewRecords
  <2>5. \A c \in view'.compared : c.status # "insufficient_evidence" => c.fact \in Own(Facts)
    BY <1>4, <2>4 DEF WholeInv
  <2>6. /\ view.pc \in AfterFacts /\ view'.pc \in AfterFacts
        /\ view'.pc \in {"times", "done"} => view.whole \subseteq view'.runs
    BY <1>1, <1>4, <2>4 DEF AfterFacts, WholeInv
  <2>7. QED
    BY <1>1, <2>3, <2>4, <2>5, <2>6, DetailMoves
<1>8. CASE DetailRunTimes
  <2>1. view' = [view EXCEPT !.pc = "times", !.runs = Committed]
    BY <1>8 DEF DetailRunTimes
  <2>2. Committed \subseteq Jobs
    BY DEF Committed
  <2>3. view' \in ViewRecords(C)
    BY <1>3, <2>1, <2>2 DEF ViewRecords, AfterFacts
  <2>4. /\ view'.pc = "times" /\ view'.runs = Committed
        /\ UNCHANGED <<view.whole, view.facts, view.cut, view.compared>>
    BY <1>3, <2>1 DEF ViewRecords
  <2>5. \A c \in view'.compared : c.status # "insufficient_evidence" => c.fact \in Own(Facts)
    BY <1>4, <2>4 DEF WholeInv
  <2>6. /\ view.pc \in AfterFacts /\ view'.pc \in AfterFacts
        /\ view'.pc \in {"times", "done"} => view.whole \subseteq view'.runs
    BY <1>1, <1>4, <2>4 DEF AfterFacts, WholeInv
  <2>7. QED
    BY <1>1, <2>3, <2>4, <2>5, <2>6, DetailMoves
<1>9. QED
  BY <1>5, <1>6, <1>7, <1>8

\* A claim is compared with a fact that is current then.
LEMMA CrossSourceKeeps ==
    ASSUME ViewsInv, DetailCrossSource
    PROVE  ViewInv'
<1>1. view.pc = "times" /\ UNCHANGED runVars
  BY DEF DetailCrossSource
<1>2. view # NoView
  BY <1>1 DEF NoView
<1>3. PICK C : view \in ViewRecords(C)
  BY <1>2 DEF ViewsInv, ViewInv
<1>4. WholeInv
  BY <1>2 DEF ViewsInv, ViewInv
<1> DEFINE claims(sources) == UNION {s.claims : s \in {u \in sources : ClaimSetAccepted(u)}}
           compared(sources) == {Comparison(c) : c \in claims(sources)}
<1>5. PICK sources \in CrossSourceRecords :
          view' = [view EXCEPT !.pc = "done", !.compared = compared(sources)]
  BY Zenon DEF DetailCrossSource
<1> DEFINE D == compared(sources)
<1>6. ASSUME NEW c \in D, c.status # "insufficient_evidence" PROVE c.fact \in Own(Facts)
  <2>1. PICK k : c = Comparison(k)
    BY <1>6
  <2>2. c.fact = k.fact /\ (k.fact \notin Current(Own(Facts)) \ Unknowns => c.status = "insufficient_evidence")
    BY <2>1 DEF Comparison
  <2>3. QED
    BY <1>6, <2>2 DEF Current
<1>7. view' = [view EXCEPT !.pc = "done", !.compared = D]
  BY <1>5
<1> HIDE DEF D, claims, compared
<1>8. view' \in ViewRecords(D)
  BY <1>3, <1>7 DEF ViewRecords, AfterFacts
<1>9. /\ view'.pc = "done" /\ view'.compared = D
      /\ UNCHANGED <<view.whole, view.facts, view.cut, view.runs>>
  BY <1>3, <1>7 DEF ViewRecords
<1>10. view.pc \in AfterFacts /\ view'.pc \in AfterFacts /\ view.whole \subseteq view'.runs
  BY <1>1, <1>4, <1>9 DEF AfterFacts, WholeInv
<1>11. QED
  BY <1>1, <1>6, <1>8, <1>9, <1>10, DetailMoves

LEMMA ViewsInitHolds == ViewsInit => ViewsInv
BY RunsInitHolds DEF ViewsInit, ViewsInv, ViewInv

LEMMA ViewStepKeeps ==
    ASSUME ViewsInv, ViewNext
    PROVE  ViewsInv'
<1>1. UNCHANGED runVars
  BY Zenon DEF ViewNext, DetailBegin, DetailFacts, DetailRelationships, DetailFindings,
         DetailContradictions, DetailRunTimes, DetailCrossSource
<1>2. RunsInv'
  BY <1>1, RunsStep DEF ViewsInv
<1>3. ViewInv'
  BY BeginViewKeeps, DetailFactsKeeps, DetailReadKeeps, CrossSourceKeeps DEF ViewNext
<1>4. QED
  BY <1>2, <1>3 DEF ViewsInv

LEMMA ViewsStep == ViewsInv /\ [ViewsNext]_viewVars => ViewsInv'
<1>1. ASSUME ViewsInv, RunsNext, Noticed PROVE ViewsInv'
  <2>1. RunsInv'
    BY <1>1, RunsStep DEF ViewsInv
  <2>2. QED
    BY <1>1, <2>1, NoticedKeeps DEF ViewsInv
<1>2. ASSUME ViewsInv, UNCHANGED viewVars PROVE ViewsInv'
  <2>1. UNCHANGED runVars /\ UNCHANGED view
    BY <1>2 DEF viewVars
  <2>2. RunsInv'
    BY <1>2, <2>1, RunsStep DEF ViewsInv
  <2>3. ASSUME WholeInv PROVE WholeInv'
    BY <2>1, <2>3, SameRows DEF WholeInv
  <2>4. QED
    BY <1>2, <2>1, <2>2, <2>3 DEF ViewsInv, ViewInv, ViewRecords, Own
<1>3. QED
  BY <1>1, <1>2, ViewStepKeeps DEF ViewsNext

\* A detail that is read while results are published, retired and deleted fits
\* together in what it shows of the runs that were complete when it began.
THEOREM DetailIsWholeTheorem == ViewsSpec => []DetailIsWhole
<1>1. ViewsInv => DetailIsWhole
  <2> SUFFICES ASSUME ViewsInv, view.pc = "done",
                      NEW i \in ShownRows, row[i] # NoRow, row[i].last \in view.whole
               PROVE  /\ SeenAt(i) # None
                      /\ ~view.cut =>
                            /\ i \in view.contradictions =>
                                  ContradictionPayload(i) = [left |-> Left[i], right |-> Right[i]]
                            /\ \A c \in view.compared :
                                  c.status # "insufficient_evidence" /\ c.fact \in run[row[i].last].report =>
                                      c.fact \in view.facts
    BY DEF DetailIsWhole
  <2>1. view # NoView
    BY DEF NoView
  <2>2. PICK C : view \in ViewRecords(C)
    BY <2>1 DEF ViewsInv, ViewInv
  <2>3. WholeInv /\ RunsInv
    BY <2>1 DEF ViewsInv, ViewInv
  <2>4. i \in Items
    BY <2>2 DEF ViewRecords, ShownRows, Items, Own
  <2>5. row[i].last \in Committed /\ row[i].last \in Jobs /\ i \in run[row[i].last].report
    BY <2>3, <2>4 DEF RunsInv, OwnedInv, Committed
  <2>6. SeenAt(i) # None
    BY <2>3, <2>5, RunsAssumption DEF SeenAt, WholeInv
  <2>7. ASSUME ~view.cut PROVE run[row[i].last].report \cap Own(Facts) \subseteq view.facts
    BY <2>3, <2>7 DEF WholeInv, AfterFacts
  <2>8. ASSUME ~view.cut, i \in view.contradictions
        PROVE  ContradictionPayload(i) = [left |-> Left[i], right |-> Right[i]]
    <3>1. run[row[i].last] \in RunRows /\ i \in Own(Contradictions)
      BY <2>2, <2>3, <2>5, <2>8 DEF RunsInv, RunsTypeOK, Committed, ViewRecords
    <3>2. {Left[i], Right[i]} \subseteq run[row[i].last].report
      BY <2>5, <3>1 DEF RunRows, Reports, Own
    <3>3. {Left[i], Right[i]} \subseteq Own(Facts)
      BY <3>1, RunsAssumption DEF Own
    <3>4. {Left[i], Right[i]} \subseteq view.facts
      BY <2>7, <2>8, <3>2, <3>3
    <3>5. QED
      BY <3>4 DEF ContradictionPayload
  <2>9. ASSUME ~view.cut, NEW c \in view.compared, c.status # "insufficient_evidence",
               c.fact \in run[row[i].last].report
        PROVE  c.fact \in view.facts
    BY <2>3, <2>7, <2>9 DEF WholeInv
  <2>10. QED
    BY <2>6, <2>8, <2>9
<1>2. QED
  BY <1>1, ViewsInitHolds, ViewsStep, PTL DEF ViewsSpec

-----------------------------------------------------------------------------
(* Checkouts.                                                              *)

Entries == [path : Seq(STRING), size : Nat, actual : Nat, blob : BOOLEAN]

CheckoutSteps == {"mkdir", "boundary", "commit", "list", "write", "read", "use", "cleanup",
                  "refused", "done", "left", "killed"}

\* A request that was given its input, whatever is wrong with it.
Calls(F) == [step : CheckoutSteps, run : RunIds, flaw : F, tree : Seq(Entries), entry : Nat]

CheckoutFiles == [path : Seq(STRING), bytes : Nat]
WorkDirs == [by : Requests, files : Seq(CheckoutFiles), frozen : BOOLEAN]

\* The steps in which a request has a directory of its own.
Holding == {"boundary", "commit", "list", "write", "read", "use", "cleanup"}

\* The files of directory d are the first entries of the tree of request c, each
\* complete but the one that is being read.
Written(c, d) ==
    /\ ParseTreeEntries(c.tree)
    /\ Len(d.files) = c.entry /\ c.entry <= Len(c.tree)
    /\ \A i \in 1..c.entry : d.files[i].path = c.tree[i].path
    /\ \A i \in 1..c.entry : c.step # "read" \/ i < c.entry => d.files[i].bytes = c.tree[i].size
    /\ c.step = "read" => c.entry > 0
    /\ c.step = "use" => c.entry = Len(c.tree) /\ d.frozen

Holds(c, d, q) ==
    /\ c.step \in Holding => d \in WorkDirs /\ d.by = q
    /\ c.step \in {"mkdir", "boundary", "commit", "list"} => c.entry = 0
    /\ c.step \in {"boundary", "commit", "list"} => d.files = <<>>
    /\ c.step \in {"write", "read", "use"} => Written(c, d)

CallInv(q) ==
    \/ call[q].step = "start"
    \/ (\E F : call[q] \in Calls(F)) /\ Holds(call[q], worktree[call[q].run], q)

CheckoutInv ==
    /\ call = [q \in Requests |-> call[q]]
    /\ worktree \in [RunIds -> WorkDirs \cup {NoTree}]
    /\ \A q \in Requests : CallInv(q)

LEMMA CheckoutInitHolds == CheckoutInit => CheckoutInv
<1> SUFFICES ASSUME CheckoutInit PROVE CheckoutInv
  OBVIOUS
<1>1. ASSUME NEW q \in Requests PROVE call[q].step = "start"
  BY DEF CheckoutInit
<1>2. QED
  BY <1>1 DEF CheckoutInit, CheckoutInv, CallInv

LEMMA NoTreeIsNone == NoTree \notin WorkDirs
<1>1. DOMAIN NoTree = {"by"}
  BY DEF NoTree
<1>2. \A d \in WorkDirs : DOMAIN d = {"by", "files", "frozen"}
  BY DEF WorkDirs
<1>3. QED
  BY <1>1, <1>2

\* A listing that is accepted names no two entries alike.
LEMMA AcceptedIsDistinct ==
    ASSUME NEW tree \in Seq(Entries), ParseTreeEntries(tree)
    PROVE  PortablyDistinct(tree)
<1> SUFFICES ASSUME NEW i \in DOMAIN tree, NEW j \in DOMAIN tree, i < j,
                    NEW n \in 1..Len(tree[i].path), NEW m \in 1..Len(tree[j].path),
                    Key(SubSeq(tree[i].path, 1, n)) = Key(SubSeq(tree[j].path, 1, m))
             PROVE  /\ SubSeq(tree[i].path, 1, n) = SubSeq(tree[j].path, 1, m)
                    /\ n < Len(tree[i].path) /\ m < Len(tree[j].path)
  BY DEF PortablyDistinct
<1> DEFINE a == tree[i].path
           b == tree[j].path
           p == SubSeq(a, 1, n)
           q == SubSeq(b, 1, m)
<1>1. DOMAIN tree = 1..Len(tree) /\ Len(tree) \in Nat
  OBVIOUS
<1>2. a \in Seq(STRING) /\ b \in Seq(STRING)
  <2>1. tree[i] \in Entries /\ tree[j] \in Entries
    BY <1>1
  <2>2. QED
    BY <2>1, Zenon DEF Entries
<1>3. Len(a) \in Nat /\ Len(b) \in Nat /\ n \in Nat /\ m \in Nat /\ n <= Len(a) /\ m <= Len(b)
  BY <1>2
<1>4. i \in 1..j - 1
  BY <1>1
<1>5. Key(a) \in FilesBefore(tree, j)
  BY <1>4 DEF FilesBefore
<1>6. ~Collides(tree, j)
  BY DEF ParseTreeEntries, EntryAccepted
<1>7. /\ Key(b) \notin FilesBefore(tree, j)
      /\ \A d \in DirectoriesBefore(tree, j) : Key(d) # Key(b)
      /\ \A x \in Directories(b) : /\ Key(x) \notin FilesBefore(tree, j)
                                   /\ \A d \in DirectoriesBefore(tree, j) : Key(d) = Key(x) => d = x
  BY <1>6 DEF Collides
<1>8. SubSeq(a, 1, Len(a)) = a /\ SubSeq(b, 1, Len(b)) = b
  BY <1>2, SubSeqFull
<1>9. n < Len(a) => p \in Directories(a) /\ p \in DirectoriesBefore(tree, j)
  <2>1. n < Len(a) => n \in 1..Len(a) - 1
    BY <1>3
  <2>2. n < Len(a) => p \in Directories(a)
    BY <2>1 DEF Directories
  <2>3. QED
    BY <1>4, <2>2 DEF DirectoriesBefore
<1>10. m < Len(b) => q \in Directories(b)
  <2>1. m < Len(b) => m \in 1..Len(b) - 1
    BY <1>3
  <2>2. QED
    BY <2>1 DEF Directories
<1>11. Key(p) = Key(q)
  OBVIOUS
<1>12. n = Len(a) => p = a
  BY <1>8
<1>13. m = Len(b) => q = b
  BY <1>8
<1>14. (n < Len(a) \/ n = Len(a)) /\ (m < Len(b) \/ m = Len(b))
  BY <1>3
<1> HIDE DEF a, b, p, q
<1>15. m < Len(b)
  BY <1>5, <1>7, <1>9, <1>11, <1>12, <1>13, <1>14
<1>16. n < Len(a)
  BY <1>5, <1>7, <1>10, <1>11, <1>12, <1>14, <1>15
<1>17. p = q
  BY <1>7, <1>9, <1>10, <1>11, <1>15, <1>16
<1>18. QED
  BY <1>15, <1>16, <1>17 DEF a, b, p, q

\* What a step of request q must establish: it touches no directory but its own
\* or one that nobody has.
LEMMA OneCall ==
    ASSUME CheckoutInv, NEW q \in Requests, NEW v, call' = [call EXCEPT ![q] = v],
           NEW r \in RunIds, NEW d \in WorkDirs \cup {NoTree},
           worktree' = [worktree EXCEPT ![r] = d],
           d = worktree[r] \/ worktree[r] = NoTree \/ worktree[r].by = q,
           \E F : v \in Calls(F), Holds(v, worktree'[v.run], q)
    PROVE  CheckoutInv'
<1>1. call' = [p \in Requests |-> call'[p]]
  BY DEF CheckoutInv
<1>2. worktree' \in [RunIds -> WorkDirs \cup {NoTree}]
  BY DEF CheckoutInv
<1>3. call'[q] = v /\ \A p \in Requests \ {q} : call'[p] = call[p]
  BY DEF CheckoutInv
<1>4. CallInv(q)'
  BY <1>3 DEF CallInv
<1>5. ASSUME NEW p \in Requests \ {q} PROVE CallInv(p)'
  <2>1. CallInv(p)
    BY DEF CheckoutInv
  <2>2. CASE call[p].step = "start"
    BY <1>3, <2>2 DEF CallInv
  <2>3. CASE call[p].step # "start"
    <3>1. PICK F : call[p] \in Calls(F)
      BY <2>1, <2>3 DEF CallInv
    <3>2. Holds(call[p], worktree[call[p].run], p)
      BY <2>1, <2>3 DEF CallInv
    <3>3. call[p].run \in RunIds
      BY <3>1 DEF Calls
    <3>4. CASE call[p].step \in Holding
      <4>1. worktree[call[p].run] \in WorkDirs /\ worktree[call[p].run].by = p
        BY <3>2, <3>4 DEF Holds
      <4>2. worktree'[call[p].run] = worktree[call[p].run]
        BY <3>3, <4>1, NoTreeIsNone DEF CheckoutInv
      <4>3. QED
        BY <1>3, <3>1, <3>2, <4>2 DEF CallInv
    <3>5. CASE call[p].step \notin Holding
      <4>1. Holds(call[p], worktree'[call[p].run], p)
        BY <3>2, <3>5 DEF Holds, Holding
      <4>2. QED
        BY <1>3, <3>1, <4>1 DEF CallInv
    <3>6. QED
      BY <3>4, <3>5
  <2>4. QED
    BY <2>2, <2>3
<1>6. QED
  BY <1>1, <1>2, <1>4, <1>5 DEF CheckoutInv

\* A step that only moves a request on.
LEMMA Going ==
    ASSUME CheckoutInv, NEW q \in Requests, NEW F, call[q] \in Calls(F),
           NEW s \in CheckoutSteps, Goto(q, s)
    PROVE  \E v \in Calls(F) :
              /\ call' = [call EXCEPT ![q] = v] /\ v.step = s /\ v.run = call[q].run
              /\ v.tree = call[q].tree /\ v.entry = call[q].entry
<1> DEFINE v == [call[q] EXCEPT !.step = s]
<1>1. call' = [call EXCEPT ![q] = v]
  BY DEF Goto
<1>2. /\ v \in Calls(F) /\ v.step = s /\ v.run = call[q].run
      /\ v.tree = call[q].tree /\ v.entry = call[q].entry
  BY DEF Calls
<1> HIDE DEF v
<1>3. QED
  BY <1>1, <1>2

\* The request of a step past its start.
LEMMA Begun ==
    ASSUME CheckoutInv, NEW q \in Requests, call[q].step # "start"
    PROVE  /\ \E F : call[q] \in Calls(F)
           /\ Holds(call[q], worktree[call[q].run], q)
           /\ call[q].run \in RunIds /\ call[q].entry \in Nat /\ call[q].tree \in Seq(Entries)
           /\ worktree[call[q].run] \in WorkDirs \cup {NoTree}
           /\ worktree = [worktree EXCEPT ![call[q].run] = worktree[call[q].run]]
<1>1. CallInv(q)
  BY DEF CheckoutInv
<1>2. PICK F : call[q] \in Calls(F)
  BY <1>1 DEF CallInv
<1>3. call[q].run \in RunIds /\ call[q].entry \in Nat /\ call[q].tree \in Seq(Entries)
  BY <1>2 DEF Calls
<1>4. QED
  BY <1>1, <1>2, <1>3 DEF CallInv, CheckoutInv

\* A step that leaves every directory alone keeps the invariant when what the
\* next step needs of the directory holds already.
LEMMA MovesOn ==
    ASSUME CheckoutInv, NEW q \in Requests, call[q].step # "start", UNCHANGED worktree,
           NEW s \in CheckoutSteps, Goto(q, s),
           \A v : /\ v.step = s /\ v.run = call[q].run
                  /\ v.tree = call[q].tree /\ v.entry = call[q].entry
                  => Holds(v, worktree[call[q].run], q)
    PROVE  CheckoutInv'
<1>1. PICK F : call[q] \in Calls(F)
  BY Begun
<1>2. PICK v \in Calls(F) :
              /\ call' = [call EXCEPT ![q] = v] /\ v.step = s /\ v.run = call[q].run
              /\ v.tree = call[q].tree /\ v.entry = call[q].entry
  BY <1>1, Going
<1>3. Holds(v, worktree[call[q].run], q)
  BY <1>2
<1>4. Holds(v, worktree'[v.run], q)
  BY <1>2, <1>3
<1>5. /\ call[q].run \in RunIds /\ worktree[call[q].run] \in WorkDirs \cup {NoTree}
      /\ worktree' = [worktree EXCEPT ![call[q].run] = worktree[call[q].run]]
  BY Begun
<1>6. \E G : v \in Calls(G)
  BY <1>2
<1>7. QED
  BY <1>2, <1>4, <1>5, <1>6, OneCall

LEMMA RaiseKeeps ==
    ASSUME CheckoutInv, NEW q \in Requests, call[q].step \in Holding, Raise(q)
    PROVE  CheckoutInv'
<1>1. call[q].step # "start" /\ "cleanup" \in CheckoutSteps
  BY DEF Holding, CheckoutSteps
<1>2. worktree[call[q].run] \in WorkDirs /\ worktree[call[q].run].by = q
  BY <1>1, Begun DEF Holds
<1>3. Goto(q, "cleanup") /\ UNCHANGED worktree
  BY DEF Raise
<1>4. ASSUME NEW v, v.step = "cleanup" PROVE Holds(v, worktree[call[q].run], q)
  BY <1>2, <1>4 DEF Holds
<1>5. QED
  BY <1>1, <1>3, <1>4, MovesOn

LEMMA PrepareKeeps ==
    ASSUME CheckoutInv, NEW q \in Requests, Prepare(q)
    PROVE  CheckoutInv'
<1>1. PICK x \in Inputs[q], s \in {"mkdir", "refused"} :
          call' = [call EXCEPT ![q] =
                     [step |-> s, run |-> x.run, flaw |-> x.flaw, tree |-> x.tree, entry |-> 0]]
  BY DEF Prepare
<1> DEFINE v == [step |-> s, run |-> x.run, flaw |-> x.flaw, tree |-> x.tree, entry |-> 0]
<1>2. x.run \in RunIds /\ x.tree \in Seq(Entries)
  BY CheckoutAssumption DEF Entries
<1>3. /\ v \in Calls({x.flaw}) /\ v.step \in {"mkdir", "refused"} /\ v.entry = 0 /\ v.run = x.run
  BY <1>2 DEF Calls, CheckoutSteps
<1>4. call' = [call EXCEPT ![q] = v] /\ UNCHANGED worktree
  BY <1>1 DEF Prepare
<1> HIDE DEF v
<1>5. Holds(v, worktree'[v.run], q)
  BY <1>3 DEF Holds, Holding
<1>6. /\ worktree[x.run] \in WorkDirs \cup {NoTree}
      /\ worktree' = [worktree EXCEPT ![x.run] = worktree[x.run]]
  BY <1>2, <1>4 DEF CheckoutInv
<1>7. \E F : v \in Calls(F)
  BY <1>3
<1>8. QED
  BY <1>2, <1>4, <1>5, <1>6, <1>7, OneCall

LEMMA MakeKeeps ==
    ASSUME CheckoutInv, NEW q \in Requests, MakeRunDirectory(q)
    PROVE  CheckoutInv'
<1> DEFINE r == call[q].run
<1>1. call[q].step = "mkdir"
  BY DEF MakeRunDirectory
<1>2. CASE worktree[r] = NoTree
  <2>1. Goto(q, "boundary") /\ worktree' = [worktree EXCEPT ![r] = NewDirectory(q)]
    BY <1>2 DEF MakeRunDirectory
  <2>2. /\ NewDirectory(q) \in WorkDirs /\ NewDirectory(q).by = q /\ NewDirectory(q).files = <<>>
    BY DEF NewDirectory, WorkDirs
  <2>3. PICK F : call[q] \in Calls(F)
    BY <1>1, Begun
  <2>4. "boundary" \in CheckoutSteps
    BY DEF CheckoutSteps
  <2>5. PICK v \in Calls(F) :
              /\ call' = [call EXCEPT ![q] = v] /\ v.step = "boundary" /\ v.run = r
              /\ v.tree = call[q].tree /\ v.entry = call[q].entry
    BY <2>1, <2>3, <2>4, Going
  <2>6. r \in RunIds /\ call[q].entry = 0
    BY <1>1, Begun DEF Holds
  <2>7. worktree'[v.run] = NewDirectory(q)
    BY <2>1, <2>5, <2>6 DEF CheckoutInv
  <2>8. Holds(v, worktree'[v.run], q)
    BY <2>2, <2>5, <2>6, <2>7 DEF Holds
  <2>9. \E G : v \in Calls(G)
    BY <2>5
  <2> HIDE DEF r
  <2>10. QED
    BY <1>2, <2>1, <2>2, <2>5, <2>6, <2>8, <2>9, OneCall
<1>3. CASE worktree[r] # NoTree
  <2>1. Goto(q, "refused") /\ UNCHANGED worktree
    BY <1>3 DEF MakeRunDirectory
  <2>2. "refused" \in CheckoutSteps
    BY DEF CheckoutSteps
  <2>3. ASSUME NEW v, v.step = "refused" PROVE Holds(v, worktree[r], q)
    BY <2>3 DEF Holds, Holding
  <2>4. QED
    BY <1>1, <2>1, <2>2, <2>3, MovesOn
<1>4. QED
  BY <1>2, <1>3

\* The git commands before the first file.
LEMMA GitKeeps ==
    ASSUME CheckoutInv, NEW q \in Requests, CheckBoundary(q) \/ CheckCommit(q) \/ ListTree(q)
    PROVE  CheckoutInv'
<1> DEFINE c == call[q]
           d == worktree[call[q].run]
<1>1. c.step \in {"boundary", "commit", "list"}
  BY DEF CheckBoundary, CheckCommit, ListTree, GitSays
<1>2. c.step \in Holding /\ c.step # "start"
  BY <1>1 DEF Holding
<1>3. c.entry = 0 /\ d.files = <<>> /\ d \in WorkDirs /\ d.by = q /\ c.tree \in Seq(Entries)
  BY <1>1, <1>2, Begun DEF Holds
<1>4. CASE Raise(q)
  BY <1>2, <1>4, RaiseKeeps
<1>5. CASE ~Raise(q)
  <2>1. PICK s \in {"commit", "list", "write"} :
            Goto(q, s) /\ UNCHANGED worktree /\ (s = "write" => ParseTreeEntries(c.tree))
    BY <1>5 DEF CheckBoundary, CheckCommit, ListTree, GitSays
  <2>2. s \in CheckoutSteps
    BY DEF CheckoutSteps
  <2>3. ASSUME NEW v, v.step = s, v.tree = c.tree, v.entry = c.entry PROVE Holds(v, d, q)
    <3>1. Len(d.files) = 0 /\ Len(c.tree) \in Nat
      BY <1>3
    <3>2. s = "write" => Written(v, d)
      BY <1>3, <2>1, <2>3, <3>1 DEF Written
    <3>3. QED
      BY <1>3, <2>3, <3>2 DEF Holds
  <2>4. QED
    BY <1>2, <2>1, <2>2, <2>3, MovesOn
<1>6. QED
  BY <1>4, <1>5

LEMMA OpenKeeps ==
    ASSUME CheckoutInv, NEW q \in Requests, OpenEntry(q)
    PROVE  CheckoutInv'
<1> DEFINE c == call[q]
           r == call[q].run
           d == worktree[r]
           i == c.entry + 1
           f == [path |-> c.tree[i].path, bytes |-> 0]
           files == Append(d.files, f)
           v == [c EXCEPT !.step = "read", !.entry = i]
           e == [d EXCEPT !.files = files]
<1>1. c.step = "write" /\ i <= Len(c.tree)
  BY DEF OpenEntry
<1>2. c.step \in Holding
  BY <1>1 DEF Holding
<1>3. CASE Raise(q)
  BY <1>2, <1>3, RaiseKeeps
<1>4. CASE ~Raise(q)
  <2>1. call' = [call EXCEPT ![q] = v] /\ worktree' = [worktree EXCEPT ![r] = e]
    BY <1>4 DEF OpenEntry
  <2>2. /\ r \in RunIds /\ c.entry \in Nat /\ c.tree \in Seq(Entries) /\ Holds(c, d, q)
    BY <1>1, Begun
  <2>3. PICK F : c \in Calls(F)
    BY <1>1, Begun
  <2>4. d \in WorkDirs /\ d.by = q /\ Written(c, d)
    BY <1>1, <1>2, <2>2 DEF Holds
  <2>5. i \in Nat /\ i > 0 /\ i \in 1..Len(c.tree) /\ i - 1 = c.entry
    BY <1>1, <2>2
  <2>6. f \in CheckoutFiles /\ f.path = c.tree[i].path
    <3>1. c.tree[i] \in Entries
      BY <2>2, <2>5
    <3>2. c.tree[i].path \in Seq(STRING)
      BY <3>1, Zenon DEF Entries
    <3>3. QED
      BY <3>2 DEF CheckoutFiles
  <2>7. d.files \in Seq(CheckoutFiles) /\ Len(d.files) = c.entry
    BY <2>4 DEF WorkDirs, Written
  <2> HIDE DEF f
  <2>8. /\ files \in Seq(CheckoutFiles) /\ Len(files) = i /\ files[i] = f
        /\ \A k \in 1..c.entry : files[k] = d.files[k]
    BY <2>2, <2>6, <2>7
  <2>9. v \in Calls(F) /\ v.step = "read" /\ v.entry = i /\ v.tree = c.tree /\ v.run = r
    BY <2>3, <2>5 DEF Calls, CheckoutSteps
  <2> HIDE DEF files
  <2>10. e \in WorkDirs /\ e.by = q /\ e.files = files
    BY <2>4, <2>8 DEF WorkDirs
  <2> HIDE DEF v, e
  <2>11. Written(v, e)
    <3>1. ASSUME NEW k \in 1..i PROVE e.files[k].path = c.tree[k].path
      <4>1. k = i \/ k \in 1..c.entry
        BY <2>2, <3>1
      <4>2. CASE k = i
        BY <2>6, <2>8, <2>10, <4>2
      <4>3. CASE k \in 1..c.entry
        BY <2>4, <2>8, <2>10, <4>3 DEF Written
      <4>4. QED
        BY <4>1, <4>2, <4>3
    <3>2. ASSUME NEW k \in 1..i, k < i PROVE e.files[k].bytes = c.tree[k].size
      <4>1. k \in 1..c.entry
        BY <2>2, <3>2
      <4>2. QED
        BY <1>1, <2>4, <2>8, <2>10, <4>1 DEF Written
    <3>3. QED
      BY <1>1, <2>4, <2>5, <2>8, <2>9, <2>10, <3>1, <3>2 DEF Written
  <2>12. Holds(v, e, q)
    BY <2>9, <2>10, <2>11 DEF Holds
  <2>13. worktree'[v.run] = e
    BY <2>1, <2>2, <2>9 DEF CheckoutInv
  <2>14. \E G : v \in Calls(G)
    BY <2>9
  <2>15. Holds(v, worktree'[v.run], q)
    BY <2>12, <2>13
  <2>16. d.by = q /\ r \in RunIds /\ e \in WorkDirs \cup {NoTree}
    BY <2>2, <2>4, <2>10
  <2> HIDE DEF r, d
  <2>17. worktree[r].by = q
    BY <2>16 DEF d
  <2>18. QED
    BY <2>1, <2>14, <2>15, <2>16, <2>17, OneCall
<1>5. QED
  BY <1>3, <1>4

LEMMA ReadKeeps ==
    ASSUME CheckoutInv, NEW q \in Requests, ReadChunk(q)
    PROVE  CheckoutInv'
<1> DEFINE c == call[q]
           r == call[q].run
           d == worktree[r]
           i == c.entry
           got == d.files[i].bytes
           f == [d.files[i] EXCEPT !.bytes = got + 1]
           files == [d.files EXCEPT ![i] = f]
           e == [d EXCEPT !.files = files]
<1>1. c.step = "read"
  BY DEF ReadChunk
<1>2. c.step \in Holding
  BY <1>1 DEF Holding
<1>3. /\ r \in RunIds /\ i \in Nat /\ c.tree \in Seq(Entries) /\ Holds(c, d, q)
  BY <1>1, Begun
<1>4. d \in WorkDirs /\ d.by = q /\ Written(c, d)
  BY <1>1, <1>2, <1>3 DEF Holds
<1>5. d.files \in Seq(CheckoutFiles) /\ Len(d.files) = i /\ i > 0 /\ i \in 1..i /\ i \in 1..Len(c.tree)
  BY <1>1, <1>3, <1>4 DEF WorkDirs, Written
<1>6. d.files[i] \in CheckoutFiles
  BY <1>5
<1>7. CASE Raise(q)
  BY <1>2, <1>7, RaiseKeeps
<1>8. CASE worktree' = [worktree EXCEPT ![r] = e] /\ UNCHANGED call
  <2>1. f \in CheckoutFiles /\ f.path = d.files[i].path
    <3>1. got \in Nat
      BY <1>6 DEF CheckoutFiles
    <3>2. got + 1 \in Nat
      BY <3>1
    <3>3. QED
      BY <1>6, <3>2 DEF CheckoutFiles
  <2> HIDE DEF f
  <2>2. /\ files \in Seq(CheckoutFiles) /\ Len(files) = i /\ files[i] = f
        /\ \A k \in 1..i : k # i => files[k] = d.files[k]
    BY <1>5, <2>1
  <2> HIDE DEF files
  <2>3. e \in WorkDirs /\ e.by = q /\ e.files = files
    BY <1>4, <2>2 DEF WorkDirs
  <2> HIDE DEF e
  <2>4. Written(c, e)
    <3>1. \A k \in 1..i : e.files[k].path = c.tree[k].path
      BY SMTT(60), <1>4, <1>5, <2>1, <2>2, <2>3 DEF Written
    <3>2. \A k \in 1..i : k < i => e.files[k].bytes = c.tree[k].size
      BY <1>3, <1>4, <1>5, <2>2, <2>3 DEF Written
    <3>3. QED
      BY <1>1, <1>4, <1>5, <2>2, <2>3, <3>1, <3>2 DEF Written
  <2>5. Holds(c, e, q)
    BY <1>1, <2>3, <2>4 DEF Holds
  <2>6. worktree'[c.run] = e
    BY <1>3, <1>8 DEF CheckoutInv
  <2>7. \E F : c \in Calls(F)
    BY <1>1, Begun
  <2>8. Holds(c, worktree'[c.run], q)
    BY <2>5, <2>6
  <2>9. call' = [call EXCEPT ![q] = c]
    BY <1>8 DEF CheckoutInv
  <2>10. r \in RunIds /\ e \in WorkDirs \cup {NoTree} /\ worktree' = [worktree EXCEPT ![r] = e] /\ worktree[r].by = q
    BY <1>3, <1>4, <1>8, <2>3
  <2> HIDE DEF r, c
  <2>11. QED
    BY <2>7, <2>8, <2>9, <2>10, OneCall
<1>9. CASE Goto(q, "write") /\ UNCHANGED worktree /\ got = c.tree[i].size
  <2>1. ASSUME NEW v, v.step = "write", v.tree = c.tree, v.entry = c.entry PROVE Holds(v, d, q)
    <3>1. \A k \in 1..i : d.files[k].bytes = c.tree[k].size
      <4>1. ASSUME NEW k \in 1..i PROVE k = i \/ k < i
        BY <1>3
      <4>2. QED
        BY <1>4, <1>9, <4>1 DEF Written
    <3>2. Written(v, d)
      BY <1>4, <2>1, <3>1 DEF Written
    <3>3. QED
      BY <1>4, <2>1, <3>2 DEF Holds
  <2>2. "write" \in CheckoutSteps /\ c.step # "start"
    BY <1>1 DEF CheckoutSteps
  <2>3. QED
    BY <1>9, <2>1, <2>2, MovesOn
<1>10. QED
  BY <1>7, <1>8, <1>9 DEF ReadChunk

LEMMA FreezeKeeps ==
    ASSUME CheckoutInv, NEW q \in Requests, Freeze(q)
    PROVE  CheckoutInv'
<1> DEFINE c == call[q]
           r == call[q].run
           d == worktree[r]
           e == [d EXCEPT !.frozen = TRUE]
<1>1. /\ c.step = "write" /\ c.entry = Len(c.tree) /\ Goto(q, "use")
      /\ worktree' = [worktree EXCEPT ![r] = e]
  BY DEF Freeze
<1>2. r \in RunIds /\ Holds(c, d, q)
  BY <1>1, Begun
<1>3. d \in WorkDirs /\ d.by = q /\ Written(c, d)
  BY <1>1, <1>2 DEF Holds, Holding
<1>4. e \in WorkDirs /\ e.by = q /\ e.files = d.files /\ e.frozen
  BY <1>3 DEF WorkDirs
<1> HIDE DEF e
<1>5. PICK F : c \in Calls(F)
  BY <1>1, Begun
<1>6. "use" \in CheckoutSteps
  BY DEF CheckoutSteps
<1>7. PICK v \in Calls(F) :
            /\ call' = [call EXCEPT ![q] = v] /\ v.step = "use" /\ v.run = r
            /\ v.tree = c.tree /\ v.entry = c.entry
  BY <1>1, <1>5, <1>6, Going
<1>8. Written(v, e)
  BY <1>1, <1>3, <1>4, <1>7 DEF Written
<1>9. Holds(v, e, q)
  BY <1>4, <1>7, <1>8 DEF Holds
<1>10. worktree'[v.run] = e
  BY <1>1, <1>2, <1>7 DEF CheckoutInv
<1>11. Holds(v, worktree'[v.run], q)
  BY <1>9, <1>10
<1>12. \E G : v \in Calls(G)
  BY <1>7
<1>13. worktree[r].by = q /\ e \in WorkDirs \cup {NoTree} /\ worktree' = [worktree EXCEPT ![r] = e]
  BY <1>1, <1>3, <1>4
<1> HIDE DEF r
<1>14. QED
  BY <1>2, <1>7, <1>11, <1>12, <1>13, OneCall

LEMMA LeaveKeeps ==
    ASSUME CheckoutInv, NEW q \in Requests, Leave(q) \/ Killed(q)
    PROVE  CheckoutInv'
<1> DEFINE d == worktree[call[q].run]
<1>1. call[q].step \in Holding /\ call[q].step # "start" /\ UNCHANGED worktree
  BY DEF Leave, Killed, Running, Holding
<1>2. d \in WorkDirs /\ d.by = q
  BY <1>1, Begun DEF Holds
<1>3. PICK s \in {"cleanup", "killed"} : Goto(q, s)
  BY DEF Leave, Killed
<1>4. ASSUME NEW v, v.step = s PROVE Holds(v, d, q)
  BY <1>2, <1>4 DEF Holds, Holding
<1>5. s \in CheckoutSteps
  BY DEF CheckoutSteps
<1>6. QED
  BY <1>1, <1>3, <1>4, <1>5, MovesOn

LEMMA RemoveKeeps ==
    ASSUME CheckoutInv, NEW q \in Requests, RemoveRunDirectory(q)
    PROVE  CheckoutInv'
<1> DEFINE r == call[q].run
<1>1. call[q].step = "cleanup"
  BY DEF RemoveRunDirectory
<1>2. CASE Goto(q, "left") /\ UNCHANGED worktree
  <2>1. ASSUME NEW v, v.step = "left" PROVE Holds(v, worktree[r], q)
    BY <2>1 DEF Holds, Holding
  <2>2. "left" \in CheckoutSteps
    BY DEF CheckoutSteps
  <2>3. QED
    BY <1>1, <1>2, <2>1, <2>2, MovesOn
<1>3. CASE Goto(q, "done") /\ worktree' = [worktree EXCEPT ![r] = NoTree]
  <2>1. r \in RunIds /\ worktree[r].by = q
    BY <1>1, Begun DEF Holds, Holding
  <2>2. PICK F : call[q] \in Calls(F)
    BY <1>1, Begun
  <2>3. "done" \in CheckoutSteps
    BY DEF CheckoutSteps
  <2>4. PICK v \in Calls(F) :
            /\ call' = [call EXCEPT ![q] = v] /\ v.step = "done" /\ v.run = r
            /\ v.tree = call[q].tree /\ v.entry = call[q].entry
    BY <1>3, <2>2, <2>3, Going
  <2>5. Holds(v, worktree'[v.run], q)
    BY <2>4 DEF Holds, Holding
  <2>6. \E G : v \in Calls(G)
    BY <2>4
  <2>7. NoTree \in WorkDirs \cup {NoTree} /\ worktree' = [worktree EXCEPT ![r] = NoTree]
    BY <1>3
  <2> HIDE DEF r
  <2>8. QED
    BY <2>1, <2>4, <2>5, <2>6, <2>7, OneCall
<1>4. QED
  BY <1>2, <1>3 DEF RemoveRunDirectory

LEMMA CheckoutStep == CheckoutInv /\ [CheckoutNext]_checkoutVars => CheckoutInv'
<1> SUFFICES ASSUME CheckoutInv, [CheckoutNext]_checkoutVars PROVE CheckoutInv'
  OBVIOUS
<1>1. ASSUME UNCHANGED <<call, worktree>> PROVE CheckoutInv'
  BY <1>1 DEF CheckoutInv, CallInv
<1>2. CASE UNCHANGED checkoutVars
  BY <1>1, <1>2 DEF checkoutVars
<1>3. ASSUME NEW q \in Requests, Expire(q) PROVE CheckoutInv'
  BY <1>1, <1>3 DEF Expire
<1>4. QED
  BY <1>2, <1>3, PrepareKeeps, MakeKeeps, GitKeeps, OpenKeeps, ReadKeeps, FreezeKeeps,
     LeaveKeeps, RemoveKeeps DEF CheckoutNext

\* Whatever the listings, however many requests name one run, and wherever
\* deadlines and kills strike, a caller that is handed a checkout has a
\* directory of its own with exactly the entries of the commit.
THEOREM UsedCheckoutTheorem == CheckoutSpec => []UsedCheckoutIsWhole
<1>1. CheckoutInv => UsedCheckoutIsWhole
  <2> SUFFICES ASSUME CheckoutInv, NEW q \in Requests, call[q].step = "use"
               PROVE  LET d == worktree[call[q].run]
                          t == call[q].tree
                      IN  /\ d # NoTree /\ d.by = q /\ d.frozen
                          /\ [i \in DOMAIN d.files |-> <<d.files[i].path, d.files[i].bytes>>]
                                 = [i \in DOMAIN t |-> <<t[i].path, t[i].size>>]
                          /\ PortablyDistinct(t)
    BY DEF UsedCheckoutIsWhole
  <2> DEFINE d == worktree[call[q].run]
             t == call[q].tree
  <2>1. Holds(call[q], d, q) /\ t \in Seq(Entries)
    BY Begun
  <2>2. d \in WorkDirs /\ d.by = q /\ Written(call[q], d)
    BY <2>1 DEF Holds, Holding
  <2>3. /\ d.frozen /\ ParseTreeEntries(t) /\ Len(d.files) = Len(t)
        /\ \A i \in 1..Len(t) : d.files[i].path = t[i].path /\ d.files[i].bytes = t[i].size
    BY <2>2 DEF Written
  <2>4. DOMAIN d.files = 1..Len(t) /\ DOMAIN t = 1..Len(t)
    BY <2>1, <2>2, <2>3 DEF WorkDirs
  <2>5. PortablyDistinct(t)
    BY <2>1, <2>3, AcceptedIsDistinct
  <2>6. d # NoTree
    BY <2>2, NoTreeIsNone
  <2> HIDE DEF d, t
  <2>7. [i \in DOMAIN d.files |-> <<d.files[i].path, d.files[i].bytes>>]
                                 = [i \in DOMAIN t |-> <<t[i].path, t[i].size>>]
    BY <2>3, <2>4
  <2>8. QED
    BY <2>2, <2>3, <2>5, <2>6, <2>7 DEF d, t
<1>2. QED
  BY <1>1, CheckoutInitHolds, CheckoutStep, PTL DEF CheckoutSpec

-----------------------------------------------------------------------------
(***************************************************************************)
(* The cycles of the portfolio.  A repository reaches another one when no   *)
(* set that dependencies never leave separates them.                        *)
(***************************************************************************)
NoneLeave(adj, C) == \A x \in C : adj[x] \subseteq C

Reaches(adj, x, y) == \A C \in SUBSET Repositories : x \in C /\ NoneLeave(adj, C) => y \in C

MutualWith(adj, x) == {y \in Repositories : Reaches(adj, x, y) /\ Reaches(adj, y, x)}

Graphs == [Repositories -> SUBSET Repositories]

Searches ==
    [next : Nat, index : [Repositories -> Nat \cup {NotVisited}],
     low : [Repositories -> Nat \cup {NotVisited}], stack : Seq(Repositories),
     found : SUBSET SUBSET Repositories, calls : Seq(Repositories),
     left : [Repositories -> SUBSET Repositories], roots : SUBSET Repositories]

Visited(st) == {x \in Repositories : st.index[x] # NotVisited}
OnStack(st) == Range(st.stack)
Calling(st) == Range(st.calls)
Finished(st) == Visited(st) \ OnStack(st)

Ascending(st, s) == \A i, j \in DOMAIN s : i < j => st.index[s[i]] < st.index[s[j]]

\* Stack and calls are in the order in which their nodes were visited.
OrderInv(st) ==
    /\ \A x \in Visited(st) : st.index[x] < st.next
    /\ \A x, y \in Visited(st) : st.index[x] = st.index[y] => x = y
    /\ Ascending(st, st.stack) /\ Ascending(st, st.calls)
    /\ Calling(st) \subseteq OnStack(st) /\ OnStack(st) \subseteq Visited(st)

\* What is left to follow, and to try.
LeftInv(adj, st) ==
    /\ \A x \in Repositories \ Visited(st) : st.left[x] = adj[x]
    /\ \A x \in Visited(st) : adj[x] \ st.left[x] \subseteq Visited(st)
    /\ \A x \in Visited(st) \ Calling(st) : st.left[x] = {}
    /\ \A x \in Repositories : st.left[x] \subseteq adj[x]
    /\ Repositories \ st.roots \subseteq Visited(st)

\* The components found are those of the nodes that are finished.
FoundInv(adj, st) ==
    /\ NoneLeave(adj, Finished(st))
    /\ UNION st.found = Finished(st)
    /\ \A c \in st.found : \E x \in Repositories : c = MutualWith(adj, x)

\* A node reaches what was pushed after it while its call lasts, and what is on
\* the stack reaches a node whose call lasts.
StackInv(adj, st) ==
    /\ \A g \in Calling(st), x \in OnStack(st) :
          st.index[g] <= st.index[x] => Reaches(adj, g, x)
    /\ \A x \in OnStack(st) : \E g \in Calling(st) :
          st.index[g] <= st.index[x] /\ Reaches(adj, x, g)

\* The low link of a node is the index of a node on the stack that it reaches.
LowInv(adj, st) ==
    \A x \in OnStack(st) : \E y \in OnStack(st) :
        st.low[x] = st.index[y] /\ st.index[y] <= st.index[x] /\ Reaches(adj, x, y)

\* g is the latest node whose call lasts that was visited no later than x.
Under(st, g, x) ==
    /\ g \in Calling(st) /\ st.index[g] <= st.index[x]
    /\ \A h \in Calling(st) : st.index[h] <= st.index[x] => st.index[h] <= st.index[g]

\* The low link of a node whose call lasts is below every index on the stack
\* that it, or what returned to it, has followed.
LinkInv(adj, st) ==
    \A g \in Calling(st), x \in OnStack(st) : Under(st, g, x) =>
        \A y \in OnStack(st) \cap (adj[x] \ st.left[x]) : st.low[g] <= st.index[y]

\* The nodes whose calls have not returned.
Pending(st) == (Repositories \ Visited(st)) \cup Calling(st)

\* A step takes something away of what is left to do.
Shrinks(st, a) ==
    /\ a.roots \subseteq st.roots /\ Pending(a) \subseteq Pending(st)
    /\ \A x \in Repositories : a.left[x] \subseteq st.left[x]
    /\ \/ \E x \in st.roots : x \notin a.roots
       \/ \E x \in Pending(st) : x \notin Pending(a)
       \/ \E x \in Repositories : \E y \in st.left[x] : y \notin a.left[x]

SearchInv(adj, st) ==
    /\ st \in Searches /\ OrderInv(st) /\ LeftInv(adj, st) /\ FoundInv(adj, st)
    /\ StackInv(adj, st) /\ LowInv(adj, st) /\ LinkInv(adj, st)

-----------------------------------------------------------------------------
\* Reaching is reflexive, follows dependencies and is transitive.
LEMMA ReachesSelf == \A adj, x : Reaches(adj, x, x)
BY DEF Reaches

LEMMA ReachesNext ==
    \A adj \in Graphs : \A x \in Repositories : \A y \in adj[x] : Reaches(adj, x, y)
BY DEF Reaches, NoneLeave

LEMMA ReachesOn ==
    \A adj, x, y, z : Reaches(adj, x, y) /\ Reaches(adj, y, z) => Reaches(adj, x, z)
BY DEF Reaches

\* A set that dependencies never leave holds whatever its members reach.
LEMMA ReachesWithin ==
    \A adj : \A C \in SUBSET Repositories : \A x \in C : \A y :
        NoneLeave(adj, C) /\ Reaches(adj, x, y) => y \in C
BY DEF Reaches

LEMMA MutualIsShared ==
    ASSUME NEW adj, NEW x \in Repositories, NEW y \in MutualWith(adj, x)
    PROVE  MutualWith(adj, y) = MutualWith(adj, x)
<1>1. \A z \in Repositories : Reaches(adj, y, z) <=> Reaches(adj, x, z)
  BY ReachesOn DEF MutualWith
<1>2. \A z \in Repositories : Reaches(adj, z, y) <=> Reaches(adj, z, x)
  BY ReachesOn DEF MutualWith
<1> QED
  BY <1>1, <1>2 DEF MutualWith

-----------------------------------------------------------------------------
\* A set of numbers that is not empty has a least member.
LEMMA LeastIsIn ==
    ASSUME NEW S \in SUBSET Nat, S # {}
    PROVE  Least(S) \in S
<1>1. IsWellFoundedOn(OpToRel(<, Nat), Nat)
  BY NatLessThanWellFounded
<1>2. PICK m \in S : \A n \in S : ~(<<n, m>> \in OpToRel(<, Nat))
  BY <1>1, WFMin
<1>3. \A n \in S : ~(n < m)
  BY <1>2 DEF OpToRel
<1>4. \A n \in S : n \in Nat
  OBVIOUS
<1>5. \A n \in S : m <= n
  BY <1>3, <1>4
<1> QED
  BY <1>5 DEF Least

LEMMA LeastRepository ==
    ASSUME NEW S \in SUBSET Repositories, S # {}
    PROVE  Least(S) \in S
BY LeastIsIn, RelationshipsAssumption

-----------------------------------------------------------------------------
\* Sequences of repositories: what is appended, cut off or last.
LEMMA AppendedIs ==
    ASSUME NEW S, NEW s \in Seq(S), NEW t \in S
    PROVE  /\ Append(s, t) \in Seq(S) /\ Append(s, t) # <<>>
           /\ Range(Append(s, t)) = Range(s) \cup {t}
           /\ DOMAIN Append(s, t) = 1..(Len(s) + 1) /\ DOMAIN s = 1..Len(s) /\ Len(s) \in Nat
           /\ \A i \in DOMAIN s : Append(s, t)[i] = s[i]
           /\ Append(s, t)[Len(s) + 1] = t
<1>1. /\ Append(s, t) \in Seq(S) /\ Append(s, t) # <<>>
      /\ DOMAIN Append(s, t) = 1..(Len(s) + 1) /\ DOMAIN s = 1..Len(s) /\ Len(s) \in Nat
      /\ \A i \in DOMAIN s : Append(s, t)[i] = s[i]
      /\ Append(s, t)[Len(s) + 1] = t
  OBVIOUS
<1>2. Range(Append(s, t)) = Range(s) \cup {t}
  BY <1>1 DEF Range
<1> QED
  BY <1>1, <1>2

\* A node that is entered.
Entered(st, a, t) ==
    /\ a.next = st.next + 1
    /\ a.index = [st.index EXCEPT ![t] = st.next] /\ a.low = [st.low EXCEPT ![t] = st.next]
    /\ a.stack = Append(st.stack, t) /\ a.calls = Append(st.calls, t) /\ a.found = st.found

LEMMA EnterIs ==
    ASSUME NEW st \in Searches, NEW t \in Repositories
    PROVE  /\ Enter(st, t) \in Searches /\ Entered(st, Enter(st, t), t)
           /\ Enter(st, t).left = st.left /\ Enter(st, t).roots = st.roots
<1>1. /\ st.next \in Nat /\ st.index \in [Repositories -> Nat \cup {NotVisited}]
      /\ st.low \in [Repositories -> Nat \cup {NotVisited}] /\ st.stack \in Seq(Repositories)
      /\ st.calls \in Seq(Repositories)
  BY DEF Searches
<1> DEFINE index == [st.index EXCEPT ![t] = st.next]
           low == [st.low EXCEPT ![t] = st.next]
           next == st.next + 1
           stack == Append(st.stack, t)
           calls == Append(st.calls, t)
<1>2. /\ stack \in Seq(Repositories) /\ calls \in Seq(Repositories) /\ next \in Nat
      /\ index \in [Repositories -> Nat \cup {NotVisited}]
      /\ low \in [Repositories -> Nat \cup {NotVisited}]
  BY <1>1
<1>3. Enter(st, t) = [st EXCEPT !.index = index, !.low = low, !.next = next,
                                !.stack = stack, !.calls = calls]
  BY DEF Enter, Searches
<1> HIDE DEF index, low, next, stack, calls
<1> DEFINE a == Enter(st, t)
<1>4. /\ a \in Searches /\ a.index = index /\ a.low = low /\ a.next = next
      /\ a.stack = stack /\ a.calls = calls /\ a.found = st.found
      /\ a.left = st.left /\ a.roots = st.roots
  BY <1>2, <1>3 DEF Searches
<1> HIDE DEF a
<1>5. Entered(st, a, t)
  BY <1>4 DEF Entered, index, low, next, stack, calls
<1> QED
  BY <1>4, <1>5 DEF a

-----------------------------------------------------------------------------
\* Entering a node that every lasting call reaches keeps what the search knows.
LEMMA EnteringKeeps ==
    ASSUME NEW adj \in Graphs, NEW st, SearchInv(adj, st), NEW a \in Searches,
           NEW t \in Repositories \ Visited(st), Entered(st, a, t),
           \A g \in Calling(st) : Reaches(adj, g, t),
           \A x \in Repositories : a.left[x] \subseteq st.left[x] /\ st.left[x] \ a.left[x] \subseteq {t},
           \A x \in Repositories \ Visited(st) : a.left[x] = st.left[x],
           Repositories \ a.roots \subseteq Visited(st) \cup {t}
    PROVE  SearchInv(adj, a) /\ Pending(a) = Pending(st)
<1>1. /\ st \in Searches /\ OrderInv(st) /\ LeftInv(adj, st) /\ FoundInv(adj, st)
      /\ StackInv(adj, st) /\ LowInv(adj, st) /\ LinkInv(adj, st)
  BY DEF SearchInv
<1>2. /\ st.next \in Nat /\ st.index \in [Repositories -> Nat \cup {NotVisited}]
      /\ st.low \in [Repositories -> Nat \cup {NotVisited}] /\ st.stack \in Seq(Repositories)
      /\ st.calls \in Seq(Repositories)
  BY <1>1 DEF Searches
<1>3. /\ a.index[t] = st.next /\ a.low[t] = st.next
      /\ \A x \in Repositories \ {t} : a.index[x] = st.index[x] /\ a.low[x] = st.low[x]
  BY <1>2 DEF Entered
<1>4. OnStack(a) = OnStack(st) \cup {t} /\ Calling(a) = Calling(st) \cup {t}
  BY <1>2, AppendedIs DEF Entered, OnStack, Calling
<1>5. Visited(a) = Visited(st) \cup {t}
  BY <1>2, <1>3 DEF Visited, NotVisited
<1>6. /\ Calling(st) \subseteq OnStack(st) /\ OnStack(st) \subseteq Visited(st)
      /\ Visited(st) \subseteq Repositories \ {t}
      /\ \A x \in Visited(st) : st.index[x] < st.next /\ st.index[x] \in Nat
  BY <1>1, <1>2 DEF OrderInv, Visited
<1>7. Finished(a) = Finished(st)
  BY <1>4, <1>5, <1>6 DEF Finished
<1>8. OrderInv(a)
  <2>1. \A x \in Visited(a) : a.index[x] < a.next
    BY <1>2, <1>3, <1>5, <1>6 DEF Entered
  <2>2. \A x, y \in Visited(a) : a.index[x] = a.index[y] => x = y
    BY <1>1, <1>2, <1>3, <1>5, <1>6 DEF OrderInv
  <2>3. ASSUME NEW s \in Seq(Repositories), Ascending(st, s), Range(s) \subseteq Visited(st)
        PROVE  Ascending(a, Append(s, t))
    <3>1. /\ DOMAIN Append(s, t) = 1..(Len(s) + 1) /\ DOMAIN s = 1..Len(s) /\ Len(s) \in Nat
          /\ \A i \in DOMAIN s : Append(s, t)[i] = s[i]
          /\ Append(s, t)[Len(s) + 1] = t
      BY AppendedIs
    <3>2. \A i \in DOMAIN s : s[i] \in Visited(st)
      BY <2>3 DEF Range
    <3>3. ASSUME NEW i \in DOMAIN Append(s, t), NEW j \in DOMAIN Append(s, t), i < j
          PROVE  a.index[Append(s, t)[i]] < a.index[Append(s, t)[j]]
      <4>1. i \in DOMAIN s /\ Append(s, t)[i] = s[i] /\ a.index[s[i]] = st.index[s[i]]
        BY <1>3, <1>6, <3>1, <3>2, <3>3
      <4>2. CASE j \in DOMAIN s
        <5>1. Append(s, t)[j] = s[j] /\ a.index[s[j]] = st.index[s[j]]
          BY <1>3, <1>6, <3>1, <3>2, <4>2
        <5> QED
          BY <2>3, <3>3, <4>1, <4>2, <5>1 DEF Ascending
      <4>3. CASE j \notin DOMAIN s
        <5>1. j = Len(s) + 1
          BY <3>1, <4>3
        <5> QED
          BY <1>3, <1>6, <3>1, <3>2, <4>1, <5>1
      <4> QED
        BY <4>2, <4>3
    <3> QED
      BY <3>3 DEF Ascending
  <2>4. Ascending(a, a.stack) /\ Ascending(a, a.calls)
    <3>1. Range(st.stack) \subseteq Visited(st) /\ Range(st.calls) \subseteq Visited(st)
      BY <1>6 DEF OnStack, Calling
    <3>2. Ascending(st, st.stack) /\ Ascending(st, st.calls)
      BY <1>1 DEF OrderInv
    <3> QED
      BY <1>2, <2>3, <3>1, <3>2 DEF Entered
  <2> QED
    BY <1>4, <1>5, <1>6, <2>1, <2>2, <2>4 DEF OrderInv
<1>9. LeftInv(adj, a)
  <2>1. /\ \A x \in Repositories \ Visited(st) : st.left[x] = adj[x]
        /\ \A x \in Visited(st) : adj[x] \ st.left[x] \subseteq Visited(st)
        /\ \A x \in Visited(st) \ Calling(st) : st.left[x] = {}
        /\ \A x \in Repositories : st.left[x] \subseteq adj[x]
    BY <1>1 DEF LeftInv
  <2> QED
    BY <1>4, <1>5, <1>6, <2>1, Zenon DEF LeftInv
<1>10. FoundInv(adj, a)
  BY <1>1, <1>7 DEF FoundInv, Entered
<1>11. StackInv(adj, a)
  <2>1. ASSUME NEW g \in Calling(a), NEW x \in OnStack(a), a.index[g] <= a.index[x]
        PROVE  Reaches(adj, g, x)
    <3>1. CASE x = t
      BY <1>4, <3>1, ReachesSelf
    <3>2. CASE x # t
      <4>1. x \in OnStack(st) /\ a.index[x] = st.index[x] /\ a.index[x] < st.next
        BY <1>3, <1>4, <1>6, <3>2
      <4>2. g # t
        BY <1>2, <1>3, <1>6, <2>1, <4>1
      <4>3. g \in Calling(st) /\ a.index[g] = st.index[g]
        BY <1>3, <1>4, <1>6, <4>2
      <4> QED
        BY <1>1, <2>1, <4>1, <4>3 DEF StackInv
    <3> QED
      BY <3>1, <3>2
  <2>2. ASSUME NEW x \in OnStack(a)
        PROVE  \E g \in Calling(a) : a.index[g] <= a.index[x] /\ Reaches(adj, x, g)
    <3>1. CASE x = t
      BY <1>2, <1>3, <1>4, <3>1, ReachesSelf
    <3>2. CASE x # t
      <4>1. x \in OnStack(st) /\ a.index[x] = st.index[x]
        BY <1>3, <1>4, <1>6, <3>2
      <4>2. PICK g \in Calling(st) : st.index[g] <= st.index[x] /\ Reaches(adj, x, g)
        BY <1>1, <4>1 DEF StackInv
      <4>3. g \in Calling(a) /\ a.index[g] = st.index[g]
        BY <1>3, <1>4, <1>6
      <4> QED
        BY <4>1, <4>2, <4>3
    <3> QED
      BY <3>1, <3>2
  <2> QED
    BY <2>1, <2>2 DEF StackInv
<1>12. LowInv(adj, a)
  <2> SUFFICES ASSUME NEW x \in OnStack(a)
               PROVE  \E y \in OnStack(a) : a.low[x] = a.index[y] /\ a.index[y] <= a.index[x]
                                            /\ Reaches(adj, x, y)
    BY DEF LowInv
  <2>1. CASE x = t
    BY <1>2, <1>3, <1>4, <2>1, ReachesSelf
  <2>2. CASE x # t
    <3>1. x \in OnStack(st) /\ a.index[x] = st.index[x] /\ a.low[x] = st.low[x]
      BY <1>3, <1>4, <1>6, <2>2
    <3>2. PICK y \in OnStack(st) : st.low[x] = st.index[y] /\ st.index[y] <= st.index[x]
                                   /\ Reaches(adj, x, y)
      BY <1>1, <3>1 DEF LowInv
    <3>3. y \in OnStack(a) /\ a.index[y] = st.index[y]
      BY <1>3, <1>4, <1>6
    <3> QED
      BY <3>1, <3>2, <3>3
  <2> QED
    BY <2>1, <2>2
<1>13. LinkInv(adj, a)
  <2> SUFFICES ASSUME NEW g \in Calling(a), NEW x \in OnStack(a), Under(a, g, x),
                      NEW y \in OnStack(a), y \in adj[x] \ a.left[x]
               PROVE  a.low[g] <= a.index[y]
    BY DEF LinkInv
  <2>1. x # t
    BY <1>1, <1>6 DEF LeftInv
  <2>2. x \in OnStack(st) /\ a.index[x] = st.index[x] /\ a.index[x] < st.next
    BY <1>3, <1>4, <1>6, <2>1
  <2>3. g # t
    BY <1>2, <1>3, <1>6, <2>2 DEF Under
  <2>4. g \in Calling(st) /\ a.index[g] = st.index[g] /\ a.low[g] = st.low[g]
    BY <1>3, <1>4, <1>6, <2>3
  <2>5. Under(st, g, x)
    BY <1>3, <1>4, <1>6, <2>2, <2>4 DEF Under
  <2>6. CASE y = t
    <3>1. \E z \in OnStack(st) : st.low[g] = st.index[z] /\ st.index[z] <= st.index[g]
      BY <1>1, <1>6, <2>4 DEF LowInv
    <3> QED
      BY <1>2, <1>3, <1>6, <2>4, <2>6, <3>1
  <2>7. CASE y # t
    <3>1. y \in OnStack(st) /\ a.index[y] = st.index[y]
      BY <1>3, <1>4, <1>6, <2>7
    <3>2. y \in adj[x] \ st.left[x]
      BY <1>6, <2>2, <2>7
    <3> QED
      BY <1>1, <2>2, <2>4, <2>5, <3>1, <3>2 DEF LinkInv
  <2> QED
    BY <2>6, <2>7
<1>14. Pending(a) = Pending(st)
  BY <1>4, <1>5, <1>6 DEF Pending
<1> QED
  BY <1>8, <1>9, <1>10, <1>11, <1>12, <1>13, <1>14 DEF SearchInv

-----------------------------------------------------------------------------
\* What a sequence is cut down to.
FirstOf(s, k) == {s[i] : i \in 1..k}

LEMMA CutIs ==
    ASSUME NEW S, NEW s \in Seq(S), NEW k \in 0..Len(s)
    PROVE  /\ SubSeq(s, 1, k) \in Seq(S) /\ Len(SubSeq(s, 1, k)) = k
           /\ DOMAIN SubSeq(s, 1, k) = 1..k
           /\ \A i \in 1..k : SubSeq(s, 1, k)[i] = s[i]
           /\ Range(SubSeq(s, 1, k)) = FirstOf(s, k)
<1> DEFINE t == SubSeq(s, 1, k)
<1>1. k \in Int /\ 1 \in Int /\ \A i \in 1..k : s[i] \in S
  OBVIOUS
<1>2. /\ t \in Seq(S) /\ Len(t) = IF 1 <= k THEN k - 1 + 1 ELSE 0
      /\ \A i \in 1..(k - 1 + 1) : t[i] = s[1 + i - 1]
  BY <1>1, SubSeqProperties
<1>3. /\ k - 1 + 1 = k /\ (IF 1 <= k THEN k - 1 + 1 ELSE 0) = k
      /\ \A i \in 1..k : 1 + i - 1 = i
  BY <1>1
<1> HIDE DEF t
<1>4. t \in Seq(S) /\ Len(t) = k /\ \A i \in 1..k : t[i] = s[1 + i - 1]
  BY <1>2, <1>3
<1>5. \A i \in 1..k : t[i] = s[i]
  BY <1>3, <1>4
<1>6. DOMAIN t = 1..k
  BY <1>4
<1>7. Range(t) = FirstOf(s, k)
  BY <1>5, <1>6 DEF Range, FirstOf
<1> QED
  BY <1>4, <1>5, <1>6, <1>7 DEF t

LEMMA CutAscends ==
    ASSUME NEW st, NEW s \in Seq(Repositories), Ascending(st, s), NEW k \in 0..Len(s)
    PROVE  Ascending(st, SubSeq(s, 1, k))
<1>1. /\ DOMAIN SubSeq(s, 1, k) = 1..k /\ 1..k \subseteq DOMAIN s
      /\ \A i \in 1..k : SubSeq(s, 1, k)[i] = s[i]
  BY CutIs
<1> QED
  BY <1>1 DEF Ascending

\* The last call is a call, and the latest of them.
LEMMA LastIs ==
    ASSUME NEW S, NEW s \in Seq(S), s # <<>>
    PROVE  /\ Len(s) \in Nat \ {0} /\ Last(s) = s[Len(s)] /\ Last(s) \in S /\ Last(s) \in Range(s)
           /\ Front(s) \in Seq(S) /\ DOMAIN Front(s) = 1..(Len(s) - 1)
           /\ \A i \in 1..(Len(s) - 1) : Front(s)[i] = s[i]
           /\ Range(Front(s)) = FirstOf(s, Len(s) - 1)
<1>1. Len(s) \in Nat \ {0} /\ Last(s) = s[Len(s)] /\ Len(s) \in DOMAIN s /\ s[Len(s)] \in S
  BY DEF Last
<1>2. Last(s) \in Range(s)
  BY <1>1 DEF Range
<1>3. Len(s) - 1 \in 0..Len(s)
  BY <1>1
<1> QED
  BY <1>1, <1>2, <1>3, CutIs DEF Front

LEMMA LastCallIs ==
    ASSUME NEW st \in Searches, OrderInv(st), st.calls # <<>>
    PROVE  /\ Last(st.calls) \in Calling(st)
           /\ \A g \in Calling(st) : st.index[g] <= st.index[Last(st.calls)]
<1>1. st.calls \in Seq(Repositories)
  BY DEF Searches
<1>2. Last(st.calls) \in Calling(st) /\ Last(st.calls) = st.calls[Len(st.calls)]
  BY <1>1, LastIs DEF Calling
<1>3. \A x \in Visited(st) : st.index[x] \in Nat
  BY DEF Visited, Searches
<1>4. Calling(st) \subseteq Visited(st)
  BY DEF OrderInv
<1>5. ASSUME NEW g \in Calling(st) PROVE st.index[g] <= st.index[Last(st.calls)]
  <2>1. PICK i \in DOMAIN st.calls : g = st.calls[i]
    BY DEF Calling, Range
  <2>2. Len(st.calls) \in DOMAIN st.calls /\ i <= Len(st.calls)
    BY <1>1, <2>1
  <2>3. i < Len(st.calls) => st.index[g] < st.index[Last(st.calls)]
    BY <1>2, <2>1, <2>2 DEF OrderInv, Ascending
  <2>4. i = Len(st.calls) => g = Last(st.calls)
    BY <1>2, <2>1
  <2>5. i \in Nat /\ Len(st.calls) \in Nat
    BY <1>1
  <2>6. st.index[g] \in Nat /\ st.index[Last(st.calls)] \in Nat
    BY <1>2, <1>3, <1>4
  <2> QED
    BY <2>2, <2>3, <2>4, <2>5, <2>6
<1> QED
  BY <1>2, <1>5

\* Following a target that is visited already keeps what the search knows.
LEMMA FollowingKeeps ==
    ASSUME NEW adj \in Graphs, NEW st, SearchInv(adj, st), NEW a \in Searches,
           NEW p \in Calling(st), NEW y \in Visited(st), y \in adj[p],
           \A g \in Calling(st) : st.index[g] <= st.index[p],
           a.next = st.next, a.index = st.index, a.stack = st.stack, a.calls = st.calls,
           a.found = st.found, a.roots = st.roots,
           a.left = [st.left EXCEPT ![p] = @ \ {y}],
           a.low = [st.low EXCEPT ![p] = IF y \in OnStack(st) THEN Smaller(@, st.index[y]) ELSE @]
    PROVE  SearchInv(adj, a) /\ Pending(a) = Pending(st)
<1>1. /\ st \in Searches /\ OrderInv(st) /\ LeftInv(adj, st) /\ FoundInv(adj, st)
      /\ StackInv(adj, st) /\ LowInv(adj, st) /\ LinkInv(adj, st)
  BY DEF SearchInv
<1>2. /\ st.index \in [Repositories -> Nat \cup {NotVisited}]
      /\ st.low \in [Repositories -> Nat \cup {NotVisited}]
      /\ st.left \in [Repositories -> SUBSET Repositories]
  BY <1>1 DEF Searches
<1>3. /\ OnStack(a) = OnStack(st) /\ Calling(a) = Calling(st) /\ Visited(a) = Visited(st)
      /\ Finished(a) = Finished(st)
  BY DEF OnStack, Calling, Visited, Finished
<1>4. /\ Calling(st) \subseteq OnStack(st) /\ OnStack(st) \subseteq Visited(st)
      /\ Visited(st) \subseteq Repositories /\ \A x \in Visited(st) : st.index[x] \in Nat
  BY <1>1, <1>2 DEF OrderInv, Visited
<1>5. /\ a.left[p] = st.left[p] \ {y}
      /\ \A x \in Repositories \ {p} : a.left[x] = st.left[x] /\ a.low[x] = st.low[x]
      /\ a.low[p] = IF y \in OnStack(st) THEN Smaller(st.low[p], st.index[y]) ELSE st.low[p]
  BY <1>2, <1>4
<1>6. \A x \in OnStack(st) : st.low[x] \in Nat /\ st.low[x] <= st.index[x]
  BY <1>1, <1>4 DEF LowInv
<1>7. /\ a.low[p] <= st.low[p] /\ a.low[p] \in Nat
      /\ y \in OnStack(st) => a.low[p] <= st.index[y]
      /\ a.low[p] = st.low[p] \/ (y \in OnStack(st) /\ a.low[p] = st.index[y])
  BY <1>4, <1>5, <1>6 DEF Smaller
<1>8. OrderInv(a)
  BY <1>1, <1>3 DEF OrderInv, Ascending
<1>9. LeftInv(adj, a)
  BY <1>1, <1>3, <1>4, <1>5 DEF LeftInv
<1>10. FoundInv(adj, a) /\ StackInv(adj, a)
  BY <1>1, <1>3 DEF FoundInv, StackInv
<1>11. LowInv(adj, a)
  <2> SUFFICES ASSUME NEW x \in OnStack(st)
               PROVE  \E z \in OnStack(st) : a.low[x] = st.index[z] /\ st.index[z] <= st.index[x]
                                            /\ Reaches(adj, x, z)
    BY <1>3 DEF LowInv
  <2>1. PICK z \in OnStack(st) : st.low[x] = st.index[z] /\ st.index[z] <= st.index[x]
                                 /\ Reaches(adj, x, z)
    BY <1>1 DEF LowInv
  <2>2. CASE a.low[x] = st.low[x]
    BY <2>1, <2>2
  <2>3. CASE a.low[x] # st.low[x]
    <3>1. x = p /\ y \in OnStack(st) /\ a.low[p] = st.index[y]
      BY <1>4, <1>5, <1>7, <2>3
    <3>2. st.index[y] <= st.index[x]
      BY <1>4, <1>6, <1>7, <3>1
    <3>3. Reaches(adj, x, y)
      BY <1>4, <3>1, ReachesNext
    <3> QED
      BY <3>1, <3>2, <3>3
  <2> QED
    BY <2>2, <2>3
<1>12. LinkInv(adj, a)
  <2> SUFFICES ASSUME NEW g \in Calling(st), NEW x \in OnStack(st), Under(st, g, x),
                      NEW z \in OnStack(st), z \in adj[x] \ a.left[x]
               PROVE  a.low[g] <= st.index[z]
    BY <1>3 DEF LinkInv, Under
  <2>1. a.low[g] <= st.low[g] /\ a.low[g] \in Nat /\ st.low[g] \in Nat /\ st.index[z] \in Nat
    BY <1>4, <1>5, <1>6, <1>7
  <2>2. CASE z \in adj[x] \ st.left[x]
    <3>1. st.low[g] <= st.index[z]
      BY <1>1, <2>2 DEF LinkInv
    <3> QED
      BY <2>1, <3>1
  <2>3. CASE z \notin adj[x] \ st.left[x]
    <3>1. x = p /\ z = y
      BY <1>4, <1>5, <2>3
    <3>2. st.index[g] = st.index[p]
      BY <1>4, <3>1 DEF Under
    <3>3. g = p
      BY <1>1, <1>4, <3>2 DEF OrderInv
    <3> QED
      BY <1>7, <3>1, <3>3
  <2> QED
    BY <2>2, <2>3
<1> QED
  BY <1>3, <1>8, <1>9, <1>10, <1>11, <1>12 DEF SearchInv, Pending

\* What visit(node) does with its next target keeps what the search knows.
LEMMA FollowKeeps ==
    ASSUME NEW adj \in Graphs, NEW st, SearchInv(adj, st), st.calls # <<>>,
           st.left[Last(st.calls)] # {}
    PROVE  /\ SearchInv(adj, Follow(st, Last(st.calls)))
           /\ Shrinks(st, Follow(st, Last(st.calls)))
<1> DEFINE p == Last(st.calls)
           y == Least(st.left[p])
           left == [st.left EXCEPT ![p] = @ \ {y}]
           taken == [st EXCEPT !.left[p] = @ \ {y}]
           low == [st.low EXCEPT ![p] = IF y \in OnStack(st) THEN Smaller(@, st.index[y]) ELSE @]
<1>1. /\ st \in Searches /\ OrderInv(st) /\ LeftInv(adj, st)
      /\ StackInv(adj, st)
  BY DEF SearchInv
<1>2. /\ st.index \in [Repositories -> Nat \cup {NotVisited}]
      /\ st.low \in [Repositories -> Nat \cup {NotVisited}]
      /\ st.left \in [Repositories -> SUBSET Repositories] /\ st.roots \in SUBSET Repositories
  BY <1>1 DEF Searches
<1>3. /\ p \in Calling(st) /\ p \in Repositories /\ p \in OnStack(st) /\ p \in Visited(st)
      /\ \A g \in Calling(st) : st.index[g] <= st.index[p]
  BY <1>1, LastCallIs DEF OrderInv, Visited
<1>4. y \in st.left[p] /\ y \in Repositories /\ y \in adj[p]
  BY <1>1, <1>2, <1>3, LeastRepository DEF LeftInv
<1>5. left \in [Repositories -> SUBSET Repositories]
  BY <1>2
<1>6. taken = [st EXCEPT !.left = left, !.low = st.low, !.roots = st.roots]
  BY <1>1, <1>3 DEF Searches
<1>7. /\ left[p] = st.left[p] \ {y}
      /\ \A x \in Repositories \ {p} : left[x] = st.left[x]
  BY <1>2, <1>3
<1>8. CASE y \notin Visited(st)
  <2> DEFINE a == Enter(taken, y)
  <2>1. /\ taken \in Searches /\ taken.left = left /\ taken.low = st.low /\ taken.roots = st.roots
        /\ taken.next = st.next /\ taken.index = st.index
        /\ taken.stack = st.stack /\ taken.calls = st.calls /\ taken.found = st.found
    <3> HIDE DEF p, y, left, taken, low, a
    <3> QED
      BY <1>1, <1>2, <1>3, <1>5, <1>6 DEF Searches
  <2>2. Follow(st, p) = a
    BY <1>4, <1>8 DEF Follow, Visited
  <2> HIDE DEF p, y, left, taken
  <2>3. a \in Searches /\ Entered(taken, a, y) /\ a.left = left /\ a.roots = st.roots
    BY <1>4, <2>1, EnterIs
  <2> HIDE DEF a
  <2>4. Entered(st, a, y)
    BY <2>1, <2>3 DEF Entered
  <2>5. \A g \in Calling(st) : Reaches(adj, g, y)
    BY <1>1, <1>3, <1>4, ReachesOn, ReachesNext DEF StackInv
  <2>6. \A x \in Repositories : a.left[x] \subseteq st.left[x] /\ st.left[x] \ a.left[x] \subseteq {y}
    BY <1>7, <2>3
  <2>7. \A x \in Repositories \ Visited(st) : a.left[x] = st.left[x]
    BY <1>3, <1>7, <2>3
  <2>8. Repositories \ a.roots \subseteq Visited(st) \cup {y}
    BY <1>1, <2>3 DEF LeftInv
  <2>9. y \in Repositories \ Visited(st)
    BY <1>4, <1>8
  <2>10. SearchInv(adj, a) /\ Pending(a) = Pending(st)
    BY <2>3, <2>4, <2>5, <2>6, <2>7, <2>8, <2>9, EnteringKeeps
  <2>11. Shrinks(st, a)
    BY <1>3, <1>4, <1>7, <2>3, <2>6, <2>10 DEF Shrinks
  <2> QED
    BY <2>2, <2>10, <2>11 DEF p
<1>9. CASE y \in Visited(st)
  <2> DEFINE a == Follow(st, p)
  <2>1. st.index[y] \in Nat
    BY <1>2, <1>9 DEF Visited
  <2>2. \A x \in OnStack(st) : st.low[x] \in Nat
    BY <2>1, <1>2 DEF SearchInv, LowInv, OrderInv, Visited
  <2>3. low \in [Repositories -> Nat \cup {NotVisited}]
    BY <1>2, <1>3, <2>1, <2>2 DEF Smaller
  <2>4. a = [st EXCEPT !.left = left, !.low = low, !.roots = st.roots]
    <3>1. CASE y \in OnStack(st)
      BY <1>1, <1>9, <3>1 DEF Follow, Visited, OnStack, Searches
    <3>2. CASE y \notin OnStack(st)
      <4>1. low = st.low
        BY <1>2, <3>2
      <4> QED
        BY <1>1, <1>9, <3>2, <4>1 DEF Follow, Visited, OnStack, Searches
    <3> QED
      BY <3>1, <3>2
  <2> HIDE DEF p, y, left, taken, low, a
  <2>5. /\ a \in Searches /\ a.left = left /\ a.low = low /\ a.roots = st.roots
        /\ a.next = st.next /\ a.index = st.index
        /\ a.stack = st.stack /\ a.calls = st.calls /\ a.found = st.found
    BY <1>1, <1>2, <1>3, <1>5, <2>3, <2>4 DEF Searches
  <2>6. /\ a.left = [st.left EXCEPT ![p] = @ \ {y}]
        /\ a.low = [st.low EXCEPT ![p] = IF y \in OnStack(st) THEN Smaller(@, st.index[y]) ELSE @]
    BY <2>5 DEF left, low
  <2>7. SearchInv(adj, a) /\ Pending(a) = Pending(st)
    BY <1>3, <1>4, <1>9, <2>5, <2>6, FollowingKeeps
  <2>8. Shrinks(st, a)
    BY <1>3, <1>4, <1>7, <2>5, <2>7 DEF Shrinks
  <2> QED
    BY <2>7, <2>8 DEF p, a
<1> QED
  BY <1>8, <1>9

-----------------------------------------------------------------------------
\* What a return changes: the last call ends, and its caller takes over the low
\* link when it is smaller.
Latest(st, h) == h \in Calling(st) /\ \A k \in Calling(st) : st.index[k] <= st.index[h]

Returned(st, a, g) ==
    /\ a.next = st.next /\ a.index = st.index /\ a.left = st.left /\ a.roots = st.roots
    /\ Calling(a) = Calling(st) \ {g}
    /\ \A x \in Repositories :
          a.low[x] # st.low[x] => Latest(a, x) /\ a.low[x] = st.low[g] /\ st.low[g] < st.low[x]
    /\ \A x \in Calling(a) : Latest(a, x) => a.low[x] <= st.low[g]

\* What holds of a node that returns.
Returning(adj, st, g) ==
    /\ adj \in Graphs /\ SearchInv(adj, st) /\ Latest(st, g) /\ st.left[g] = {}

\* What both ways to return rest on.
LEMMA ReturningIs ==
    ASSUME NEW adj, NEW st, NEW g, Returning(adj, st, g)
    PROVE  /\ g \in OnStack(st) /\ OnStack(st) \subseteq Visited(st) /\ Visited(st) \subseteq Repositories
           /\ \A x \in Visited(st) : st.index[x] \in Nat
           /\ \A x \in OnStack(st) : st.low[x] \in Nat /\ st.low[x] <= st.index[x]
           /\ Calling(st) \subseteq OnStack(st)
           /\ \A x \in OnStack(st) : st.index[g] <= st.index[x] => Under(st, g, x) /\ st.left[x] = {}
           /\ \A x \in Calling(st) \ {g} : st.index[x] < st.index[g]
<1>1. /\ st \in Searches /\ OrderInv(st) /\ LeftInv(adj, st) /\ LowInv(adj, st)
      /\ Latest(st, g) /\ st.left[g] = {}
  BY DEF Returning, SearchInv
<1>2. /\ g \in OnStack(st) /\ OnStack(st) \subseteq Visited(st) /\ Visited(st) \subseteq Repositories
      /\ \A x \in Visited(st) : st.index[x] \in Nat
      /\ Calling(st) \subseteq OnStack(st) /\ g \in Calling(st)
  BY <1>1 DEF Latest, OrderInv, Visited, Searches
<1>3. \A x \in OnStack(st) : st.low[x] \in Nat /\ st.low[x] <= st.index[x]
  BY <1>1, <1>2 DEF LowInv
<1>4. \A x \in Calling(st) \ {g} : st.index[x] < st.index[g]
  BY <1>1, <1>2 DEF Latest, OrderInv
<1>5. ASSUME NEW x \in OnStack(st), st.index[g] <= st.index[x]
      PROVE  Under(st, g, x) /\ st.left[x] = {}
  <2>1. Under(st, g, x)
    BY <1>1, <1>5 DEF Under, Latest
  <2>2. x # g => x \notin Calling(st)
    BY <1>2, <1>4, <1>5
  <2> QED
    BY <1>1, <1>2, <2>1, <2>2 DEF LeftInv
<1> QED
  BY <1>2, <1>3, <1>4, <1>5

\* A node whose low link is smaller returns and stays on the stack.
LEMMA StayingKeeps ==
    ASSUME NEW adj, NEW st, NEW g, Returning(adj, st, g), NEW a \in Searches, Returned(st, a, g),
           OrderInv(a), a.stack = st.stack, a.found = st.found, st.low[g] # st.index[g]
    PROVE  SearchInv(adj, a)
<1>1. /\ st \in Searches /\ OrderInv(st) /\ LeftInv(adj, st) /\ FoundInv(adj, st)
      /\ StackInv(adj, st) /\ LowInv(adj, st) /\ LinkInv(adj, st) /\ adj \in Graphs
      /\ st.left[g] = {} /\ Latest(st, g)
  BY DEF SearchInv, Returning
<1>2. /\ g \in OnStack(st) /\ OnStack(st) \subseteq Visited(st) /\ Visited(st) \subseteq Repositories
      /\ \A x \in Visited(st) : st.index[x] \in Nat
      /\ \A x \in OnStack(st) : st.low[x] \in Nat /\ st.low[x] <= st.index[x]
      /\ Calling(st) \subseteq OnStack(st)
      /\ \A x \in OnStack(st) : st.index[g] <= st.index[x] => Under(st, g, x) /\ st.left[x] = {}
      /\ \A x \in Calling(st) \ {g} : st.index[x] < st.index[g]
  BY ReturningIs
<1>3. /\ OnStack(a) = OnStack(st) /\ Visited(a) = Visited(st) /\ Finished(a) = Finished(st)
      /\ Calling(a) = Calling(st) \ {g} /\ a.index = st.index /\ a.left = st.left
  BY DEF Returned, OnStack, Visited, Finished
<1>4. PICK y \in OnStack(st) : st.low[g] = st.index[y] /\ st.index[y] < st.index[g] /\ Reaches(adj, g, y)
  BY <1>1, <1>2 DEF LowInv
<1>5. LeftInv(adj, a)
  BY <1>1, <1>2, <1>3 DEF LeftInv, Returned
<1>6. FoundInv(adj, a)
  BY <1>1, <1>3 DEF FoundInv
<1>7. StackInv(adj, a)
  <2>1. ASSUME NEW x \in OnStack(st)
        PROVE  \E h \in Calling(a) : st.index[h] <= st.index[x] /\ Reaches(adj, x, h)
    <3>1. PICK h \in Calling(st) : st.index[h] <= st.index[x] /\ Reaches(adj, x, h)
      BY <1>1 DEF StackInv
    <3>2. CASE h # g
      BY <1>3, <3>1, <3>2
    <3>3. CASE h = g
      <4>1. PICK k \in Calling(st) : st.index[k] <= st.index[y] /\ Reaches(adj, y, k)
        BY <1>1 DEF StackInv
      <4>2. Reaches(adj, x, k)
        BY <1>4, <3>1, <3>3, <4>1, ReachesOn
      <4>3. st.index[k] < st.index[g] /\ st.index[k] <= st.index[x]
        BY <1>2, <1>4, <3>1, <3>3, <4>1
      <4> QED
        BY <1>2, <1>3, <4>2, <4>3
    <3> QED
      BY <3>2, <3>3
  <2> QED
    BY <1>1, <1>3, <2>1 DEF StackInv
<1>8. LowInv(adj, a)
  <2> SUFFICES ASSUME NEW x \in OnStack(st)
               PROVE  \E z \in OnStack(st) : a.low[x] = st.index[z] /\ st.index[z] <= st.index[x]
                                            /\ Reaches(adj, x, z)
    BY <1>3 DEF LowInv
  <2>1. PICK z \in OnStack(st) : st.low[x] = st.index[z] /\ st.index[z] <= st.index[x]
                                 /\ Reaches(adj, x, z)
    BY <1>1 DEF LowInv
  <2>2. CASE a.low[x] = st.low[x]
    BY <2>1, <2>2
  <2>3. CASE a.low[x] # st.low[x]
    <3>1. x \in Calling(st) \ {g} /\ a.low[x] = st.low[g] /\ st.low[g] < st.low[x]
      BY <1>2, <1>3, <2>3 DEF Returned, Latest
    <3>2. Reaches(adj, x, g)
      BY <1>1, <1>2, <3>1 DEF StackInv
    <3>3. Reaches(adj, x, y)
      BY <1>4, <3>2, ReachesOn
    <3>4. st.index[y] <= st.index[x]
      BY <1>2, <1>4, <3>1
    <3> QED
      BY <1>4, <3>1, <3>3, <3>4
  <2> QED
    BY <2>2, <2>3
<1>9. LinkInv(adj, a)
  <2> SUFFICES ASSUME NEW h \in Calling(st) \ {g}, NEW x \in OnStack(st), Under(a, h, x),
                      NEW z \in OnStack(st), z \in adj[x] \ st.left[x]
               PROVE  a.low[h] <= st.index[z]
    BY <1>3 DEF LinkInv
  <2>1. a.low[h] \in Nat /\ a.low[h] <= st.low[h] /\ st.low[h] \in Nat /\ st.low[g] \in Nat
        /\ st.index[z] \in Nat
    <3>1. h \in Repositories /\ h \in OnStack(st)
      BY <1>2
    <3> QED
      BY <1>2, <3>1 DEF Returned
  <2>2. CASE st.index[g] <= st.index[x]
    <3>1. Under(st, g, x)
      BY <1>2, <2>2
    <3>2. st.low[g] <= st.index[z]
      BY <1>1, <1>2, <3>1 DEF LinkInv, Latest
    <3>3. Latest(a, h)
      <4>1. \A k \in Calling(a) : st.index[k] <= st.index[x]
        BY <1>2, <1>3, <2>2
      <4> QED
        BY <1>3, <4>1 DEF Latest, Under
    <3>4. a.low[h] <= st.low[g]
      BY <1>3, <3>3 DEF Returned
    <3> QED
      BY <2>1, <3>2, <3>4
  <2>3. CASE ~(st.index[g] <= st.index[x])
    <3>1. Under(st, h, x)
      BY <1>3, <2>3 DEF Under
    <3>2. st.low[h] <= st.index[z]
      BY <1>1, <3>1 DEF LinkInv
    <3> QED
      BY <2>1, <3>2
  <2> QED
    BY <2>2, <2>3
<1> QED
  BY <1>5, <1>6, <1>7, <1>8, <1>9 DEF SearchInv

\* A node whose low link is its own index returns, and what was pushed since is
\* the set of nodes that it depends on and that depend on it.
LEMMA PoppingKeeps ==
    ASSUME NEW adj, NEW st, NEW g, Returning(adj, st, g), NEW a \in Searches, Returned(st, a, g),
           OrderInv(a), st.low[g] = st.index[g],
           OnStack(a) = {x \in OnStack(st) : st.index[x] < st.index[g]},
           a.found = st.found \cup {OnStack(st) \ OnStack(a)}
    PROVE  SearchInv(adj, a)
<1> DEFINE C == OnStack(st) \ OnStack(a)
<1>1. /\ st \in Searches /\ OrderInv(st) /\ LeftInv(adj, st) /\ FoundInv(adj, st)
      /\ StackInv(adj, st) /\ LowInv(adj, st) /\ LinkInv(adj, st) /\ adj \in Graphs
      /\ st.left[g] = {} /\ Latest(st, g)
  BY DEF SearchInv, Returning
<1>2. /\ g \in OnStack(st) /\ OnStack(st) \subseteq Visited(st) /\ Visited(st) \subseteq Repositories
      /\ \A x \in Visited(st) : st.index[x] \in Nat
      /\ \A x \in OnStack(st) : st.low[x] \in Nat /\ st.low[x] <= st.index[x]
      /\ Calling(st) \subseteq OnStack(st)
      /\ \A x \in OnStack(st) : st.index[g] <= st.index[x] => Under(st, g, x) /\ st.left[x] = {}
      /\ \A x \in Calling(st) \ {g} : st.index[x] < st.index[g]
  BY ReturningIs
<1>3. /\ Visited(a) = Visited(st)
      /\ Calling(a) = Calling(st) \ {g} /\ a.index = st.index /\ a.left = st.left
  BY DEF Returned, Visited
<1>4. /\ C = {x \in OnStack(st) : st.index[g] <= st.index[x]} /\ g \in C
      /\ OnStack(a) = OnStack(st) \ C
  BY <1>2
<1> HIDE DEF C
<1>5. Finished(a) = Finished(st) \cup C
  BY <1>2, <1>3, <1>4 DEF Finished
<1>6. NoneLeave(adj, Finished(a))
  <2> SUFFICES ASSUME NEW x \in C, NEW y \in adj[x] PROVE y \in Finished(st) \cup C
    BY <1>1, <1>5 DEF NoneLeave, FoundInv
  <2>1. x \in OnStack(st) /\ Under(st, g, x) /\ st.left[x] = {}
    BY <1>2, <1>4
  <2>2. y \in Visited(st)
    BY <1>1, <1>2, <2>1 DEF LeftInv
  <2>3. y \in OnStack(st) => st.index[g] <= st.index[y]
    BY <1>1, <2>1 DEF LinkInv, Latest
  <2> QED
    BY <1>4, <2>2, <2>3 DEF Finished
<1>7. C = MutualWith(adj, g)
  <2>1. ASSUME NEW x \in C PROVE x \in MutualWith(adj, g)
    <3>1. Reaches(adj, g, x)
      BY <1>1, <1>4 DEF StackInv, Latest
    <3>2. PICK h \in Calling(st) : Reaches(adj, x, h)
      BY <1>1, <1>4 DEF StackInv
    <3>3. Reaches(adj, h, g)
      BY <1>1, <1>2 DEF StackInv, Latest
    <3>4. Reaches(adj, x, g)
      BY <3>2, <3>3, ReachesOn
    <3> QED
      BY <1>2, <1>4, <3>1, <3>4 DEF MutualWith
  <2>2. ASSUME NEW x \in MutualWith(adj, g) PROVE x \in C
    <3>1. x \in Repositories /\ Reaches(adj, g, x) /\ Reaches(adj, x, g)
      BY DEF MutualWith
    <3>2. Finished(a) \in SUBSET Repositories /\ Finished(st) \in SUBSET Repositories
      BY <1>2, <1>3 DEF Finished
    <3>3. x \in Finished(a)
      BY <1>4, <1>5, <1>6, <3>1, <3>2, ReachesWithin
    <3>4. x \notin Finished(st)
      BY <1>1, <1>2, <3>1, <3>2, ReachesWithin DEF FoundInv, Finished
    <3> QED
      BY <1>5, <3>3, <3>4
  <2> QED
    BY <2>1, <2>2
<1>8. FoundInv(adj, a)
  <2>1. a.found = st.found \cup {C}
    BY DEF C
  <2> QED
    BY <1>1, <1>2, <1>5, <1>6, <1>7, <2>1 DEF FoundInv
<1>9. LeftInv(adj, a)
  BY <1>1, <1>2, <1>3 DEF LeftInv, Returned
<1>10. StackInv(adj, a)
  <2>1. ASSUME NEW x \in OnStack(a)
        PROVE  \E h \in Calling(a) : st.index[h] <= st.index[x] /\ Reaches(adj, x, h)
    <3>1. PICK h \in Calling(st) : st.index[h] <= st.index[x] /\ Reaches(adj, x, h)
      BY <1>1, <1>4 DEF StackInv
    <3>2. h # g
      BY <1>2, <1>4, <3>1
    <3> QED
      BY <1>3, <3>1, <3>2
  <2> QED
    BY <1>1, <1>3, <1>4, <2>1 DEF StackInv
<1>11. \A x \in OnStack(a) : a.low[x] = st.low[x]
  <2> SUFFICES ASSUME NEW x \in OnStack(a), a.low[x] # st.low[x] PROVE FALSE
    OBVIOUS
  <2>1. x \in OnStack(st) /\ st.low[g] < st.low[x] /\ st.index[x] < st.index[g]
    BY <1>2 DEF Returned
  <2> QED
    BY <1>2, <2>1
<1>12. LowInv(adj, a)
  <2> SUFFICES ASSUME NEW x \in OnStack(a)
               PROVE  \E z \in OnStack(a) : st.low[x] = st.index[z] /\ st.index[z] <= st.index[x]
                                            /\ Reaches(adj, x, z)
    BY <1>3, <1>11 DEF LowInv
  <2>1. PICK z \in OnStack(st) : st.low[x] = st.index[z] /\ st.index[z] <= st.index[x]
                                 /\ Reaches(adj, x, z)
    BY <1>1, <1>4 DEF LowInv
  <2>2. z \in OnStack(a)
    BY <1>2, <2>1
  <2> QED
    BY <2>1, <2>2
<1>13. LinkInv(adj, a)
  <2> SUFFICES ASSUME NEW h \in Calling(st) \ {g}, NEW x \in OnStack(a), Under(a, h, x),
                      NEW z \in OnStack(a), z \in adj[x] \ st.left[x]
               PROVE  st.low[h] <= st.index[z]
    <3>1. \A h \in Calling(a) : h \in OnStack(a)
      BY DEF OrderInv
    <3> QED
      BY <1>3, <1>11, <3>1 DEF LinkInv
  <2>1. Under(st, h, x)
    BY <1>2, <1>3 DEF Under
  <2> QED
    BY <1>1, <1>4, <2>1 DEF LinkInv
<1> QED
  BY <1>8, <1>9, <1>10, <1>12, <1>13 DEF SearchInv

-----------------------------------------------------------------------------
\* What the last call leaves when it ends.
LEMMA CallEnds ==
    ASSUME NEW st \in Searches, OrderInv(st), st.calls # <<>>
    PROVE  /\ Front(st.calls) \in Seq(Repositories)
           /\ Range(Front(st.calls)) = Calling(st) \ {Last(st.calls)}
           /\ Ascending(st, Front(st.calls))
<1> DEFINE s == st.calls
           n == Len(s)
<1>1. /\ s \in Seq(Repositories) /\ n \in Nat \ {0} /\ Last(s) = s[n] /\ DOMAIN s = 1..n
      /\ Front(s) \in Seq(Repositories) /\ Range(Front(s)) = FirstOf(s, n - 1)
  <2>1. s \in Seq(Repositories) /\ s # <<>>
    BY DEF Searches
  <2>2. DOMAIN s = 1..n
    BY <2>1
  <2> HIDE DEF s
  <2> QED
    BY <2>1, <2>2, LastIs
<1>2. 1..(n - 1) \subseteq 1..n
  BY <1>1
<1>3. Ascending(st, s)
  BY DEF OrderInv
<1>4. Ascending(st, Front(s))
  <2>1. n - 1 \in 0..n
    BY <1>1
  <2> HIDE DEF s
  <2> QED
    BY <1>1, <1>3, <2>1, CutAscends DEF Front
<1>5. \A x \in Calling(st) : st.index[x] \in Nat
  BY DEF OrderInv, Visited, Searches
<1>6. \A i \in 1..(n - 1) : s[i] # Last(s)
  <2> SUFFICES ASSUME NEW i \in 1..(n - 1), s[i] = s[n] PROVE FALSE
    BY <1>1
  <2>1. i \in DOMAIN s /\ n \in DOMAIN s /\ i < n
    BY <1>1
  <2>2. st.index[s[i]] < st.index[s[n]]
    BY <1>3, <2>1 DEF Ascending
  <2>3. s[n] \in Calling(st)
    BY <2>1 DEF Calling, Range
  <2> QED
    BY <1>5, <2>2, <2>3
<1>7. Calling(st) = FirstOf(s, n - 1) \cup {s[n]}
  <2>1. 1..n = (1..(n - 1)) \cup {n}
    BY <1>1
  <2> QED
    BY <1>1, <2>1 DEF Calling, Range, FirstOf
<1>8. Last(s) \notin FirstOf(s, n - 1)
  BY <1>6 DEF FirstOf
<1> QED
  BY <1>1, <1>4, <1>7, <1>8

\* What pop leaves on the stack, and what it finds.
LEMMA PopIs ==
    ASSUME NEW st \in Searches, OrderInv(st), NEW g \in OnStack(st)
    PROVE  \E stack \in Seq(Repositories) :
              /\ Range(stack) = {x \in OnStack(st) : st.index[x] < st.index[g]}
              /\ Ascending(st, stack)
              /\ Pop(st, g) = [st EXCEPT !.stack = stack,
                                         !.found = st.found \cup {OnStack(st) \ Range(stack)}]
<1> DEFINE s == st.stack
           n == Len(s)
<1>1. s \in Seq(Repositories) /\ n \in Nat /\ DOMAIN s = 1..n /\ OnStack(st) = {s[i] : i \in 1..n}
  BY DEF Searches, OnStack, Range
<1>2. Ascending(st, s) /\ \A x \in OnStack(st) : st.index[x] \in Nat
  BY DEF OrderInv, Visited, Searches
<1>3. \E i \in DOMAIN s : s[i] = g
  BY <1>1
<1>4. PICK at \in 1..n : s[at] = g /\ at = CHOOSE i \in DOMAIN s : s[i] = g
  BY <1>1, <1>3
<1> DEFINE stack == SubSeq(s, 1, at - 1)
           component == {s[i] : i \in at..n}
<1>5. Pop(st, g) = [st EXCEPT !.stack = stack, !.found = st.found \cup {component}]
  BY <1>1, <1>4 DEF Pop, Searches
<1>6. at - 1 \in 0..n
  BY <1>1
<1>7. stack \in Seq(Repositories) /\ Range(stack) = FirstOf(s, at - 1) /\ Ascending(st, stack)
  <2> HIDE DEF s
  <2> QED
    BY <1>1, <1>2, <1>6, CutIs, CutAscends
<1> HIDE DEF stack
<1>8. Range(stack) = {s[i] : i \in 1..(at - 1)}
  BY <1>7 DEF FirstOf
<1>9. /\ \A i \in 1..(at - 1) : st.index[s[i]] < st.index[g]
      /\ \A i \in at..n : st.index[g] <= st.index[s[i]]
  <2>1. ASSUME NEW i \in 1..(at - 1) PROVE st.index[s[i]] < st.index[g]
    <3>1. i \in DOMAIN s /\ at \in DOMAIN s /\ i < at
      BY <1>1
    <3> QED
      BY <1>2, <1>4, <3>1 DEF Ascending
  <2>2. ASSUME NEW i \in at..n PROVE st.index[g] <= st.index[s[i]]
    <3>1. i \in DOMAIN s /\ at \in DOMAIN s /\ (at < i \/ at = i) /\ s[i] \in OnStack(st)
      <4>1. i \in 1..n /\ at \in 1..n /\ (at < i \/ at = i)
        BY <1>1
      <4> QED
        BY <1>1, <4>1
    <3>2. st.index[s[i]] \in Nat /\ st.index[g] \in Nat
      BY <1>2, <3>1
    <3>3. CASE at < i
      <4>1. st.index[g] < st.index[s[i]]
        BY <1>2, <1>4, <3>1, <3>3 DEF Ascending
      <4> QED
        BY <3>2, <4>1
    <3>4. CASE at = i
      <4> HIDE DEF s
      <4>1. s[i] = g
        BY <1>4, <3>4
      <4> QED
        BY <3>2, <4>1
    <3> QED
      BY <3>1, <3>3, <3>4
  <2> QED
    BY <2>1, <2>2
<1>10. 1..n = (1..(at - 1)) \cup (at..n)
  BY <1>1
<1>11. \A x \in OnStack(st) :
          /\ x \in Range(stack) => st.index[x] < st.index[g]
          /\ x \in component => ~(st.index[x] < st.index[g])
          /\ x \in Range(stack) \/ x \in component
  <2>1. \A x \in OnStack(st) : x \in Range(stack) \/ x \in component
    BY <1>1, <1>8, <1>10
  <2>2. \A x \in Range(stack) : st.index[x] < st.index[g]
    BY <1>8, <1>9
  <2>3. \A x \in component : st.index[g] <= st.index[x]
    BY <1>9
  <2> QED
    BY <1>2, <2>1, <2>2, <2>3
<1>12. Range(stack) \subseteq OnStack(st) /\ component \subseteq OnStack(st)
  BY <1>1, <1>8, <1>10
<1> HIDE DEF component
<1>13. /\ Range(stack) = {x \in OnStack(st) : st.index[x] < st.index[g]}
       /\ component = OnStack(st) \ Range(stack)
  BY <1>11, <1>12
<1> QED
  BY <1>5, <1>7, <1>13

\* The end of a call keeps what the search knows.
LEMMA ReturnKeeps ==
    ASSUME NEW adj \in Graphs, NEW st, SearchInv(adj, st), st.calls # <<>>,
           st.left[Last(st.calls)] = {}
    PROVE  /\ SearchInv(adj, Return(st, Last(st.calls)))
           /\ Shrinks(st, Return(st, Last(st.calls)))
<1> DEFINE g == Last(st.calls)
           calls == Front(st.calls)
           low == IF calls = <<>> THEN st.low
                  ELSE [st.low EXCEPT ![Last(calls)] = Smaller(@, st.low[g])]
           popped == IF st.low[g] = st.index[g] THEN Pop(st, g) ELSE st
           a == Return(st, g)
<1>1. st \in Searches /\ OrderInv(st)
  BY DEF SearchInv
<1>2. Latest(st, g)
  BY <1>1, LastCallIs DEF Latest
<1>3. Returning(adj, st, g)
  BY <1>2 DEF Returning
<1>4. /\ g \in OnStack(st) /\ OnStack(st) \subseteq Visited(st) /\ Visited(st) \subseteq Repositories
      /\ \A x \in OnStack(st) : st.low[x] \in Nat /\ st.low[x] <= st.index[x]
      /\ Calling(st) \subseteq OnStack(st)
      /\ \A x \in Calling(st) \ {g} : st.index[x] < st.index[g]
      /\ \A x \in Visited(st) : st.index[x] \in Nat
  <2> HIDE DEF g
  <2> QED
    BY <1>3, ReturningIs
<1>5. /\ calls \in Seq(Repositories) /\ Range(calls) = Calling(st) \ {g} /\ Ascending(st, calls)
  BY <1>1, CallEnds
<1>6. PICK stack \in Seq(Repositories), found \in SUBSET SUBSET Repositories :
         /\ popped = [st EXCEPT !.stack = stack, !.found = found]
         /\ Ascending(st, stack)
         /\ \/ /\ st.low[g] # st.index[g] /\ stack = st.stack /\ found = st.found
            \/ /\ st.low[g] = st.index[g]
               /\ Range(stack) = {x \in OnStack(st) : st.index[x] < st.index[g]}
               /\ found = st.found \cup {OnStack(st) \ Range(stack)}
  <2>1. CASE st.low[g] # st.index[g]
    <3>1. /\ st.stack \in Seq(Repositories) /\ st.found \in SUBSET SUBSET Repositories
          /\ popped = [st EXCEPT !.stack = st.stack, !.found = st.found]
      BY <1>1, <2>1 DEF Searches
    <3>2. Ascending(st, st.stack)
      BY <1>1 DEF OrderInv
    <3> QED
      BY <2>1, <3>1, <3>2
  <2>2. CASE st.low[g] = st.index[g]
    <3>1. PICK stack \in Seq(Repositories) :
              /\ Range(stack) = {x \in OnStack(st) : st.index[x] < st.index[g]}
              /\ Ascending(st, stack)
              /\ Pop(st, g) = [st EXCEPT !.stack = stack,
                                         !.found = st.found \cup {OnStack(st) \ Range(stack)}]
      <4> HIDE DEF g
      <4> QED
        BY <1>1, <1>4, PopIs
    <3>2. st.found \cup {OnStack(st) \ Range(stack)} \in SUBSET SUBSET Repositories
      BY <1>1, <1>4 DEF Searches
    <3>3. popped = [st EXCEPT !.stack = stack, !.found = st.found \cup {OnStack(st) \ Range(stack)}]
      BY <2>2, <3>1
    <3> HIDE DEF popped
    <3> QED
      BY <2>2, <3>1, <3>2, <3>3
  <2> QED
    BY <2>1, <2>2
<1>7. calls # <<>> => Last(calls) \in Calling(st) \ {g}
  BY <1>5, LastIs
<1>8. low \in [Repositories -> Nat \cup {NotVisited}]
  <2>1. st.low \in [Repositories -> Nat \cup {NotVisited}]
    BY <1>1 DEF Searches
  <2> HIDE DEF g, calls
  <2>2. CASE calls # <<>>
    <3>1. Smaller(st.low[Last(calls)], st.low[g]) \in Nat
      BY <1>4, <1>7, <2>2 DEF Smaller
    <3> QED
      BY <2>1, <2>2, <3>1
  <2> QED
    BY <2>1, <2>2
<1>9. a = [st EXCEPT !.stack = stack, !.found = found, !.calls = calls, !.low = low]
  <2>1. popped.low = st.low
    BY <1>1, <1>6 DEF Searches
  <2>2. CASE calls = <<>>
    <3>1. a = [popped EXCEPT !.calls = calls]
      BY <2>2 DEF Return
    <3>2. low = st.low
      BY <2>2
    <3> HIDE DEF popped, a, low, calls, g
    <3> QED
      BY <1>1, <1>6, <3>1, <3>2 DEF Searches
  <2>3. CASE calls # <<>>
    <3>1. a = [popped EXCEPT !.calls = calls,
                             !.low[Last(calls)] = Smaller(popped.low[Last(calls)], st.low[g])]
      BY <2>3 DEF Return
    <3>2. low = [st.low EXCEPT ![Last(calls)] = Smaller(st.low[Last(calls)], st.low[g])]
      BY <2>3
    <3> HIDE DEF popped, a, low, calls, g
    <3>3. a = [popped EXCEPT !.calls = calls, !.low = low]
      BY <1>1, <1>6, <2>1, <3>1, <3>2 DEF Searches
    <3> QED
      BY <1>1, <1>6, <3>3 DEF Searches
  <2> QED
    BY <2>2, <2>3
<1>10. /\ a \in Searches /\ a.stack = stack /\ a.found = found /\ a.calls = calls /\ a.low = low
       /\ a.next = st.next /\ a.index = st.index /\ a.left = st.left /\ a.roots = st.roots
  <2> HIDE DEF popped, a, low, calls, g
  <2> QED
    BY <1>1, <1>5, <1>6, <1>8, <1>9 DEF Searches
<1> HIDE DEF a
<1>11. Calling(a) = Calling(st) \ {g} /\ OnStack(a) = Range(stack) /\ Visited(a) = Visited(st)
  BY <1>5, <1>10 DEF Calling, OnStack, Visited
<1>12. OrderInv(a)
  <2>1. Calling(a) \subseteq OnStack(a) /\ OnStack(a) \subseteq Visited(a)
    BY <1>4, <1>6, <1>11 DEF OnStack
  <2>2. Ascending(a, a.stack) /\ Ascending(a, a.calls)
    BY <1>5, <1>6, <1>10 DEF Ascending
  <2> QED
    BY <1>1, <1>10, <1>11, <2>1, <2>2 DEF OrderInv
<1>13. calls # <<>> => Latest(a, Last(calls))
  BY <1>10, <1>12, LastCallIs DEF Latest
<1>14. Returned(st, a, g)
  <2> HIDE DEF g, calls, popped
  <2>1. ASSUME NEW x \in Repositories, a.low[x] # st.low[x]
        PROVE  Latest(a, x) /\ a.low[x] = st.low[g] /\ st.low[g] < st.low[x]
    <3>1. st.low \in [Repositories -> Nat \cup {NotVisited}]
      BY <1>1 DEF Searches
    <3>2. calls # <<>> /\ a.low = [st.low EXCEPT ![Last(calls)] = Smaller(@, st.low[g])]
      BY <1>10, <2>1
    <3>3. x = Last(calls) /\ a.low[x] = Smaller(st.low[x], st.low[g])
      BY <2>1, <3>1, <3>2
    <3>4. x \in OnStack(st) /\ st.low[x] \in Nat /\ st.low[g] \in Nat
      BY <1>4, <1>7, <3>2, <3>3
    <3> QED
      BY <1>13, <2>1, <3>2, <3>3, <3>4 DEF Smaller
  <2>2. ASSUME NEW x \in Calling(a), Latest(a, x) PROVE a.low[x] <= st.low[g]
    <3>1. calls # <<>>
      BY <1>10, <1>11 DEF Calling, Range
    <3>2. x \in Visited(st) /\ Last(calls) \in Visited(st) /\ x \in Repositories
      BY <1>4, <1>7, <1>11, <3>1
    <3>3. st.index[x] = st.index[Last(calls)]
      BY <1>4, <1>10, <1>13, <2>2, <3>1, <3>2 DEF Latest
    <3>4. x = Last(calls)
      BY <1>1, <3>2, <3>3 DEF OrderInv
    <3>5. a.low = [st.low EXCEPT ![Last(calls)] = Smaller(@, st.low[g])]
      BY <1>10, <3>1
    <3>6. a.low[x] = Smaller(st.low[x], st.low[g])
      BY <1>1, <3>2, <3>4, <3>5 DEF Searches
    <3>7. st.low[x] \in Nat /\ st.low[g] \in Nat
      BY <1>4, <1>11
    <3> QED
      BY <3>6, <3>7 DEF Smaller
  <2> QED
    BY <1>10, <1>11, <2>1, <2>2 DEF Returned
<1>15. ASSUME st.low[g] # st.index[g] PROVE SearchInv(adj, a)
  <2>1. a.stack = st.stack /\ a.found = st.found
    BY <1>6, <1>10, <1>15
  <2> HIDE DEF g
  <2> QED
    BY <1>3, <1>10, <1>12, <1>14, <1>15, <2>1, StayingKeeps
<1>16. ASSUME st.low[g] = st.index[g] PROVE SearchInv(adj, a)
  <2>1. /\ OnStack(a) = {x \in OnStack(st) : st.index[x] < st.index[g]}
        /\ a.found = st.found \cup {OnStack(st) \ OnStack(a)}
    BY <1>6, <1>10, <1>11, <1>16
  <2> HIDE DEF g
  <2> QED
    BY <1>3, <1>10, <1>12, <1>14, <1>16, <2>1, PoppingKeeps
<1>17. Shrinks(st, a)
  <2>1. Latest(st, g) /\ g \in Visited(st)
    BY <1>2, <1>4
  <2> HIDE DEF g
  <2>2. g \in Pending(st) /\ g \notin Pending(a) /\ Pending(a) \subseteq Pending(st)
    BY <1>11, <2>1 DEF Pending, Latest
  <2> QED
    BY <1>10, <2>2 DEF Shrinks
<1> QED
  BY <1>15, <1>16, <1>17 DEF a

\* A root that is tried keeps what the search knows.
LEMMA NextRootKeeps ==
    ASSUME NEW adj \in Graphs, NEW st, SearchInv(adj, st), st.calls = <<>>, st.roots # {}
    PROVE  SearchInv(adj, NextRoot(st)) /\ Shrinks(st, NextRoot(st))
<1> DEFINE root == Least(st.roots)
           roots == st.roots \ {root}
           taken == [st EXCEPT !.roots = @ \ {root}]
           a == NextRoot(st)
<1>1. /\ st \in Searches /\ OrderInv(st) /\ LeftInv(adj, st) /\ FoundInv(adj, st)
      /\ StackInv(adj, st) /\ LowInv(adj, st) /\ LinkInv(adj, st)
  BY DEF SearchInv
<1>2. root \in st.roots /\ root \in Repositories /\ roots \in SUBSET Repositories
  BY <1>1, LeastRepository DEF Searches
<1>3. taken = [st EXCEPT !.roots = roots]
  BY <1>1 DEF Searches
<1>4. Calling(st) = {}
  BY DEF Calling, Range
<1>5. Repositories \ roots \subseteq Visited(st) \cup {root}
  BY <1>1 DEF LeftInv
<1>6. a = IF root \in Visited(st) THEN taken ELSE Enter(taken, root)
  BY <1>2 DEF NextRoot, Visited
<1>7. roots \subseteq st.roots /\ root \notin roots
  OBVIOUS
<1> HIDE DEF root, roots, taken, a
<1>8. /\ taken \in Searches /\ taken.roots = roots /\ taken.left = st.left /\ taken.low = st.low
      /\ taken.next = st.next /\ taken.index = st.index
      /\ taken.stack = st.stack /\ taken.calls = st.calls /\ taken.found = st.found
  BY <1>1, <1>2, <1>3 DEF Searches
<1>9. ASSUME root \in Visited(st) PROVE SearchInv(adj, a) /\ Shrinks(st, a)
  <2>1. a = taken
    BY <1>6, <1>9
  <2>2. /\ OnStack(a) = OnStack(st) /\ Calling(a) = Calling(st) /\ Visited(a) = Visited(st)
        /\ Finished(a) = Finished(st)
    BY <1>8, <2>1 DEF OnStack, Calling, Visited, Finished
  <2>3. OrderInv(a)
    BY <1>1, <1>8, <2>1, <2>2 DEF OrderInv, Ascending
  <2>4. LeftInv(adj, a)
    BY <1>1, <1>5, <1>8, <1>9, <2>1, <2>2 DEF LeftInv
  <2>5. FoundInv(adj, a) /\ StackInv(adj, a) /\ LowInv(adj, a)
    BY <1>1, <1>8, <2>1, <2>2 DEF FoundInv, StackInv, LowInv
  <2>6. LinkInv(adj, a)
    BY <1>4, <2>2 DEF LinkInv
  <2>7. SearchInv(adj, a)
    BY <1>8, <2>1, <2>3, <2>4, <2>5, <2>6 DEF SearchInv
  <2>8. Shrinks(st, a)
    BY <1>2, <1>7, <1>8, <2>1, <2>2 DEF Shrinks, Pending
  <2> QED
    BY <2>7, <2>8
<1>10. ASSUME root \notin Visited(st)
       PROVE  SearchInv(adj, a) /\ Shrinks(st, a)
  <2>1. a = Enter(taken, root)
    BY <1>6, <1>10
  <2>2. a \in Searches /\ Entered(taken, a, root) /\ a.left = st.left /\ a.roots = roots
    BY <1>2, <1>8, <2>1, EnterIs
  <2>3. Entered(st, a, root)
    BY <1>8, <2>2 DEF Entered
  <2>4. /\ \A x \in Repositories : a.left[x] \subseteq st.left[x] /\ st.left[x] \ a.left[x] \subseteq {root}
        /\ \A x \in Repositories \ Visited(st) : a.left[x] = st.left[x]
        /\ \A g \in Calling(st) : Reaches(adj, g, root)
        /\ Repositories \ a.roots \subseteq Visited(st) \cup {root}
        /\ root \in Repositories \ Visited(st)
    BY <1>2, <1>4, <1>5, <1>10, <2>2
  <2>5. SearchInv(adj, a) /\ Pending(a) = Pending(st)
    BY <2>2, <2>3, <2>4, EnteringKeeps
  <2>6. Shrinks(st, a)
    BY <1>2, <1>7, <2>2, <2>5 DEF Shrinks
  <2> QED
    BY <2>5, <2>6
<1> QED
  BY <1>9, <1>10 DEF a

LEMMA StartHolds ==
    ASSUME NEW adj \in Graphs
    PROVE  SearchInv(adj, TarjanStart(adj))
<1> DEFINE a == TarjanStart(adj)
           blank == [r \in Repositories |-> NotVisited]
<1>1. blank \in [Repositories -> Nat \cup {NotVisited}] /\ <<>> \in Seq(Repositories)
      /\ {} \in SUBSET SUBSET Repositories /\ adj \in [Repositories -> SUBSET Repositories]
  BY DEF Graphs
<1>2. /\ a \in Searches /\ a.next = 0 /\ a.index = blank /\ a.stack = <<>> /\ a.calls = <<>>
      /\ a.found = {} /\ a.left = adj /\ a.roots = Repositories
  <2>1. a = [next |-> 0, index |-> blank, low |-> blank, stack |-> <<>>, found |-> {},
             calls |-> <<>>, left |-> adj, roots |-> Repositories]
    BY DEF TarjanStart
  <2> HIDE DEF blank, a
  <2> QED
    BY <1>1, <2>1 DEF Searches
<1>3. \A x \in Repositories : a.index[x] = NotVisited
  BY <1>2
<1> HIDE DEF a, blank
<1>4. Visited(a) = {} /\ OnStack(a) = {} /\ Calling(a) = {} /\ Finished(a) = {}
  BY <1>2, <1>3 DEF Visited, OnStack, Calling, Finished, Range
<1>5. Ascending(a, a.stack) /\ Ascending(a, a.calls)
  BY <1>2 DEF Ascending
<1>6. OrderInv(a) /\ LeftInv(adj, a) /\ FoundInv(adj, a)
  BY <1>2, <1>4, <1>5 DEF OrderInv, LeftInv, FoundInv, NoneLeave
<1>7. StackInv(adj, a) /\ LowInv(adj, a) /\ LinkInv(adj, a)
  BY <1>4 DEF StackInv, LowInv, LinkInv
<1> QED
  BY <1>2, <1>6, <1>7 DEF SearchInv, a

\* Nothing is left to do.
SearchEnds(st) == st.calls = <<>> /\ st.roots = {}

LEMMA StepKeeps ==
    ASSUME NEW adj \in Graphs, NEW st, SearchInv(adj, st)
    PROVE  /\ SearchInv(adj, TarjanStep(st))
           /\ IF SearchEnds(st) THEN TarjanStep(st) = st ELSE Shrinks(st, TarjanStep(st))
BY FollowKeeps, ReturnKeeps, NextRootKeeps DEF TarjanStep, SearchEnds

-----------------------------------------------------------------------------
\* What is left to do: roots to try, targets to follow and calls to return.
ToDo(st) ==
    {d \in (Repositories \cup {0}) \X (Repositories \cup {0}) :
        \/ d[1] = 0 /\ d[2] \in st.roots
        \/ d[1] \in Repositories /\ d[2] \in st.left[d[1]]
        \/ d[2] = 0 /\ d[1] \in Pending(st)}

LEMMA ToDoIsFinite == \A st : IsFiniteSet(ToDo(st))
<1> DEFINE V == Repositories \cup {0}
<1>1. IsFiniteSet(V)
  BY FS_AddElement, RelationshipsAssumption
<1>2. IsFiniteSet(V \X V)
  BY <1>1, FS_Product
<1>3. \A st : ToDo(st) \in SUBSET (V \X V)
  BY DEF ToDo
<1> HIDE DEF V
<1> QED
  BY <1>2, <1>3, FS_Subset

LEMMA ShrinkingIs ==
    ASSUME NEW st \in Searches, NEW a \in Searches, Shrinks(st, a)
    PROVE  /\ Cardinality(ToDo(a)) \in Nat /\ Cardinality(ToDo(st)) \in Nat
           /\ Cardinality(ToDo(a)) < Cardinality(ToDo(st))
<1>1. /\ st.roots \in SUBSET Repositories /\ st.left \in [Repositories -> SUBSET Repositories]
      /\ Pending(st) \subseteq Repositories /\ 0 \notin Repositories
  BY RelationshipsAssumption DEF Searches, Pending, Calling, Visited, Range
<1>2. ToDo(a) \in SUBSET ToDo(st)
  BY <1>1 DEF ToDo, Shrinks
<1>3. ToDo(a) # ToDo(st)
  <2>1. ASSUME NEW x \in st.roots, x \notin a.roots
        PROVE  <<0, x>> \in ToDo(st) /\ <<0, x>> \notin ToDo(a)
    BY <1>1, <2>1 DEF ToDo
  <2>2. ASSUME NEW x \in Pending(st), x \notin Pending(a)
        PROVE  <<x, 0>> \in ToDo(st) /\ <<x, 0>> \notin ToDo(a)
    <3>1. \A y \in Repositories : 0 \notin a.left[y]
      BY <1>1 DEF Searches
    <3> QED
      BY <1>1, <2>2, <3>1 DEF ToDo
  <2>3. ASSUME NEW x \in Repositories, NEW y \in st.left[x], y \notin a.left[x]
        PROVE  <<x, y>> \in ToDo(st) /\ <<x, y>> \notin ToDo(a)
    <3>1. y \in Repositories /\ x # 0 /\ y # 0
      BY <1>1
    <3> QED
      BY <2>3, <3>1 DEF ToDo
  <2> QED
    BY <2>1, <2>2, <2>3 DEF Shrinks
<1>4. IsFiniteSet(ToDo(st)) /\ IsFiniteSet(ToDo(a))
  BY ToDoIsFinite
<1>5. Cardinality(ToDo(a)) <= Cardinality(ToDo(st)) /\ Cardinality(ToDo(a)) # Cardinality(ToDo(st))
  BY <1>2, <1>3, <1>4, FS_Subset
<1>6. Cardinality(ToDo(a)) \in Nat /\ Cardinality(ToDo(st)) \in Nat
  BY <1>4, FS_CardinalityType
<1> QED
  BY <1>5, <1>6

LEMMA UnionBound ==
    ASSUME NEW S, NEW T, IsFiniteSet(S), IsFiniteSet(T)
    PROVE  /\ IsFiniteSet(S \cup T)
           /\ Cardinality(S \cup T) \in Nat /\ Cardinality(S) \in Nat /\ Cardinality(T) \in Nat
           /\ Cardinality(S \cup T) <= Cardinality(S) + Cardinality(T)
<1>1. IsFiniteSet(S \cup T) /\ IsFiniteSet(S \cap T)
  BY FS_Union, FS_Intersection
<1>2. Cardinality(S \cup T) = Cardinality(S) + Cardinality(T) - Cardinality(S \cap T)
  BY FS_Union
<1>3. /\ Cardinality(S \cup T) \in Nat /\ Cardinality(S) \in Nat /\ Cardinality(T) \in Nat
      /\ Cardinality(S \cap T) \in Nat
  BY <1>1, FS_CardinalityType
<1> QED
  BY <1>1, <1>2, <1>3

LEMMA WorkIsEnough ==
    ASSUME NEW adj \in Graphs
    PROVE  Work(adj) \in Nat /\ Cardinality(ToDo(TarjanStart(adj))) <= Work(adj)
<1> DEFINE V == Repositories
           A == {0} \X V
           B == Edges(adj)
           C == V \X {0}
           T == ToDo(TarjanStart(adj))
<1>1. IsFiniteSet(V) /\ IsFiniteSet({0}) /\ Cardinality({0}) = 1 /\ Cardinality(V) \in Nat
  BY RelationshipsAssumption, FS_Singleton, FS_CardinalityType
<1>2. IsFiniteSet(A) /\ Cardinality(A) = 1 * Cardinality(V)
  BY <1>1, FS_Product
<1>3. IsFiniteSet(C) /\ Cardinality(C) = Cardinality(V) * 1
  BY <1>1, FS_Product
<1>4. IsFiniteSet(B)
  <2>1. IsFiniteSet(V \X V) /\ B \in SUBSET (V \X V)
    BY <1>1, FS_Product DEF Edges
  <2> QED
    BY <2>1, FS_Subset
<1>5. T \in SUBSET ((A \cup B) \cup C)
  <2>1. Pending(TarjanStart(adj)) \subseteq V
    <3>1. TarjanStart(adj) \in Searches
      BY StartHolds DEF SearchInv
    <3> QED
      BY <3>1 DEF Pending, Calling, Visited, Range, Searches
  <2>2. TarjanStart(adj).roots = V /\ TarjanStart(adj).left = adj
    BY DEF TarjanStart
  <2>3. \A x \in V : adj[x] \subseteq V
    BY DEF Graphs
  <2> QED
    BY <2>1, <2>2, <2>3 DEF ToDo, Edges
<1> HIDE DEF A, B, C, T, V
<1>6. IsFiniteSet(A \cup B) /\ Cardinality(A \cup B) <= Cardinality(A) + Cardinality(B)
      /\ Cardinality(A \cup B) \in Nat /\ Cardinality(A) \in Nat /\ Cardinality(B) \in Nat
  BY <1>2, <1>4, UnionBound
<1>7. IsFiniteSet((A \cup B) \cup C) /\ Cardinality((A \cup B) \cup C) \in Nat
      /\ Cardinality((A \cup B) \cup C) <= Cardinality(A \cup B) + Cardinality(C)
      /\ Cardinality(C) \in Nat
  BY <1>3, <1>6, UnionBound
<1>8. Cardinality(T) <= Cardinality((A \cup B) \cup C) /\ Cardinality(T) \in Nat
  BY <1>5, <1>7, FS_Subset, FS_CardinalityType
<1>9. Work(adj) = 2 * Cardinality(V) + Cardinality(B)
  BY DEF Work, V, B
<1>10. Work(adj) \in Nat /\ Cardinality(T) <= Work(adj)
  BY <1>1, <1>2, <1>3, <1>6, <1>7, <1>8, <1>9
<1> QED
  BY <1>10 DEF T

\* When nothing is left to do, every repository is in the component of those it
\* depends on and that depend on it.
LEMMA EndIs ==
    ASSUME NEW adj \in Graphs, NEW st, SearchInv(adj, st), SearchEnds(st)
    PROVE  st.found = {MutualWith(adj, x) : x \in Repositories}
<1>1. /\ st \in Searches /\ OrderInv(st) /\ LeftInv(adj, st) /\ FoundInv(adj, st)
      /\ StackInv(adj, st)
  BY DEF SearchInv
<1>2. Calling(st) = {}
  BY DEF SearchEnds, Calling, Range
<1>3. OnStack(st) = {} /\ Visited(st) = Repositories
  BY <1>1, <1>2 DEF StackInv, LeftInv, SearchEnds, Visited
<1>4. UNION st.found = Repositories
  BY <1>1, <1>3 DEF FoundInv, Finished
<1>5. ASSUME NEW x \in Repositories PROVE MutualWith(adj, x) \in st.found
  <2>1. PICK c \in st.found : x \in c
    BY <1>4
  <2>2. PICK y \in Repositories : c = MutualWith(adj, y)
    BY <1>1 DEF FoundInv
  <2>3. MutualWith(adj, x) = MutualWith(adj, y)
    BY <2>1, <2>2, MutualIsShared
  <2> QED
    BY <2>2, <2>3
<1> QED
  BY <1>1, <1>5 DEF FoundInv

\* Tarjan's search finds the sets of nodes that depend on each other, on every graph.
LEMMA ComponentsAre ==
    ASSUME NEW adj \in Graphs
    PROVE  Components(adj) = {MutualWith(adj, x) : x \in Repositories}
<1> DEFINE w == Work(adj)
           a == TarjanStart(adj)
           S == {st \in Searches : SearchInv(adj, st)}
           Body(f) == [n \in 0..w |-> IF n = 0 THEN a ELSE TarjanStep(f[n - 1])]
           F == CHOOSE f : f = Body(f)
<1>1. Components(adj) = F[w].found
  BY DEF Components
<1>2. w \in Nat /\ Cardinality(ToDo(a)) <= w
  BY WorkIsEnough
<1>3. a \in S
  BY StartHolds DEF SearchInv
<1>4. \A st \in S : TarjanStep(st) \in S
  BY StepKeeps DEF SearchInv
<1>5. \A st \in S : IF SearchEnds(st) THEN TarjanStep(st) = st
                    ELSE Shrinks(st, TarjanStep(st))
  BY StepKeeps
<1>6. S \subseteq Searches /\ \A st \in S : SearchInv(adj, st)
  OBVIOUS
<1> HIDE DEF w, a, S
<1>7. PICK f \in [0..w -> S] : f[0] = a /\ \A i \in 1..w : f[i] = TarjanStep(f[i - 1])
  <2> DEFINE step == [i \in 1..w |-> [st \in S |-> TarjanStep(st)]]
  <2>1. step \in [1..w -> [S -> S]]
    BY <1>4
  <2>2. PICK f : Computes(f, w, S, a, step)
    <3> HIDE DEF step
    <3> QED
      BY <1>2, <1>3, <2>1, RecursionUpTo, Zenon
  <2>3. f \in [0..w -> S] /\ \A i \in 1..w : f[i - 1] \in S
    <3> HIDE DEF step
    <3>1. f \in [0..w -> S]
      BY <2>2 DEF Computes
    <3>2. \A i \in 1..w : i - 1 \in 0..w
      BY <1>2
    <3> QED
      BY <3>1, <3>2
  <2> QED
    BY <2>2, <2>3 DEF Computes
<1>8. f = Body(f)
  BY <1>2, <1>7
<1>9. F = Body(F)
  BY <1>8
<1> HIDE DEF F
<1>10. F[0] = a /\ \A i \in 1..w : F[i] = TarjanStep(F[i - 1])
  <2>1. \A i \in 0..w : F[i] = IF i = 0 THEN a ELSE TarjanStep(F[i - 1])
    BY <1>9, Zenon
  <2> QED
    BY <1>2, <2>1
<1> DEFINE G == {i \in 0..w : F[i] \in S /\ (SearchEnds(F[i]) \/ Cardinality(ToDo(F[i])) <= w - i)}
<1>11. 0 \in G
  BY <1>2, <1>3, <1>10
<1>12. ASSUME NEW i \in 1..w, i - 1 \in G PROVE i \in G
  <2> DEFINE st == F[i - 1]
             b == F[i]
  <2>1. /\ b = TarjanStep(st) /\ st \in S
        /\ SearchEnds(st) \/ Cardinality(ToDo(st)) <= w - (i - 1)
        /\ i \in 0..w /\ w \in Nat /\ i \in Nat
    BY <1>2, <1>10, <1>12
  <2> HIDE DEF st, b
  <2>2. b \in S
    BY <1>4, <2>1
  <2>3. SearchEnds(b) \/ Cardinality(ToDo(b)) <= w - i
    <3>1. CASE SearchEnds(st)
      BY <1>5, <2>1, <3>1
    <3>2. CASE ~SearchEnds(st)
      <4>1. Shrinks(st, b) /\ st \in Searches /\ b \in Searches
        BY <1>5, <1>6, <2>1, <2>2, <3>2
      <4>2. /\ Cardinality(ToDo(b)) \in Nat /\ Cardinality(ToDo(st)) \in Nat
            /\ Cardinality(ToDo(b)) < Cardinality(ToDo(st))
        BY <4>1, ShrinkingIs
      <4> QED
        BY <2>1, <3>2, <4>2
    <3> QED
      BY <3>1, <3>2
  <2> QED
    BY <2>1, <2>2, <2>3 DEF b
<1>13. w \in G
  <2> HIDE DEF G
  <2>1. 0..w \subseteq G
    BY <1>2, <1>11, <1>12, InductionUpTo
  <2> QED
    BY <1>2, <2>1
<1>14. F[w] \in S /\ (SearchEnds(F[w]) \/ Cardinality(ToDo(F[w])) <= 0)
  BY <1>2, <1>13
<1> HIDE DEF G
<1>15. SearchEnds(F[w])
  <2> SUFFICES ASSUME ~SearchEnds(F[w]) PROVE FALSE
    OBVIOUS
  <2>1. Shrinks(F[w], TarjanStep(F[w])) /\ F[w] \in Searches /\ TarjanStep(F[w]) \in Searches
    BY <1>4, <1>5, <1>6, <1>14
  <2>2. /\ Cardinality(ToDo(TarjanStep(F[w]))) \in Nat /\ Cardinality(ToDo(F[w])) \in Nat
        /\ Cardinality(ToDo(TarjanStep(F[w]))) < Cardinality(ToDo(F[w]))
    BY <2>1, ShrinkingIs
  <2> QED
    BY <1>14, <2>2
<1> QED
  BY <1>1, <1>6, <1>14, <1>15, EndIs

-----------------------------------------------------------------------------
\* What relationships that signals merge into are between.
LEMMA EdgesAre ==
    ASSUME NEW S \in SUBSET ReportableSignals, NEW e \in MergedRelationships(S)
    PROVE  /\ e.id.from \in Repositories /\ e.id.to.repo \in Repositories \cup {Unknown}
           /\ e.id.type \in Directional \cup Symmetric
<1>1. PICK s \in S : e = Relationship(S, Resolved(GroupKey(s)))
  BY DEF MergedRelationships, Keys
<1>2. e.id = Normalized(s.type, s.from, Target(s.type, s.selector))
  BY <1>1 DEF Relationship, Resolved, GroupKey
<1>3. s.from \in Repositories /\ s.type \in Directional \cup Symmetric
  BY RelationshipsAssumption
<1> DEFINE to == Target(s.type, s.selector)
<1>4. to.repo \in Repositories \cup {Unknown} /\ to = [repo |-> to.repo, slug |-> to.slug]
  BY RelationshipsAssumption DEF Target
<1> HIDE DEF to
<1>5. CASE s.type \in Symmetric /\ to.repo # Unknown /\ to.repo < s.from
  <2>1. e.id = [type |-> s.type, from |-> to.repo, to |-> [to EXCEPT !.repo = s.from]]
    BY <1>2, <1>5 DEF Normalized, to
  <2>2. [to EXCEPT !.repo = s.from].repo = s.from
    BY <1>4
  <2> QED
    BY <1>3, <1>4, <1>5, <2>1, <2>2
<1>6. CASE ~(s.type \in Symmetric /\ to.repo # Unknown /\ to.repo < s.from)
  <2>1. e.id = [type |-> s.type, from |-> s.from, to |-> to]
    BY <1>2, <1>6 DEF Normalized, to
  <2> QED
    BY <1>3, <1>4, <2>1
<1> QED
  BY <1>5, <1>6

\* What an analysis keeps of the signals that it was built from.
AnalysisInv ==
    /\ signals \subseteq ReportableSignals
    /\ Built => /\ analysis.signals \subseteq ReportableSignals
                /\ analysis.edges = MergedRelationships(analysis.signals)
                /\ analysis.cycles = Cycles(analysis.edges)

LEMMA AnalysisInitHolds == RelationshipsInit => AnalysisInv
<1>1. RelationshipsInit => analysis.error = "notBuilt" /\ signals = {}
  BY DEF RelationshipsInit
<1>2. "notBuilt" # ""
  OBVIOUS
<1> QED
  BY <1>1, <1>2 DEF AnalysisInv, Built

LEMMA AnalysisStep == AnalysisInv /\ [RelationshipsNext]_relationshipVars => AnalysisInv'
<1> SUFFICES ASSUME AnalysisInv, [RelationshipsNext]_relationshipVars PROVE AnalysisInv'
  OBVIOUS
<1>1. CASE Build
  <2>1. analysis' = Analysis(signals) /\ signals' = signals
    BY <1>1 DEF Build
  <2> DEFINE E == MergedRelationships(signals)
             F == GraphFindings(E)
             C == Cycles(E)
             none == ""
             Refusals == {"selfEdge", "evidenceBound", "edgeBound", "opposingDirections",
                          "cycleBound", "findingBound"}
             built == [error |-> none, signals |-> signals, edges |-> E, cycles |-> C, findings |-> F]
  <2>2. \/ Analysis(signals).error \in Refusals
        \/ Analysis(signals) = built
    BY DEF Analysis
  <2>3. CASE Analysis(signals).error \in Refusals
    BY <2>1, <2>3 DEF AnalysisInv, Built
  <2>4. CASE Analysis(signals) = built
    <3>1. analysis'.signals = signals /\ analysis'.edges = E /\ analysis'.cycles = C
      <4> HIDE DEF E, F, C, none
      <4> QED
        BY <2>1, <2>4
    <3> QED
      BY <2>1, <3>1 DEF AnalysisInv
  <2> QED
    BY <2>2, <2>3, <2>4
<1>2. ASSUME NEW s \in ReportableSignals, Report(s) PROVE AnalysisInv'
  BY <1>2 DEF Report, AnalysisInv, Built
<1>3. CASE UNCHANGED relationshipVars
  BY <1>3 DEF relationshipVars, AnalysisInv, Built
<1> QED
  BY <1>1, <1>2, <1>3 DEF RelationshipsNext

LEMMA AnalysisImplies == AnalysisInv => CyclesAreMutualDependence
<1> SUFFICES ASSUME AnalysisInv, Built
             PROVE  analysis.cycles =
                      {c \in {Inseparable(r, Closed) : r \in Repositories} : Cardinality(c) > 1}
  BY DEF CyclesAreMutualDependence
<1> DEFINE E == analysis.edges
           adj == Adjacency(E)
<1>1. \A e \in E : /\ e.id.from \in Repositories /\ e.id.to.repo \in Repositories \cup {Unknown}
                   /\ e.id.type \in Directional \cup Symmetric
  BY EdgesAre DEF AnalysisInv
<1>2. Directional \cap Symmetric = {}
  BY RelationshipsAssumption
<1>3. \A x \in Repositories : \A y : y \in adj[x] <=> <<x, y>> \in Dependencies
  <2> TAKE x \in Repositories
  <2>1. adj[x] = {e.id.to.repo : e \in {f \in E : /\ f.id.from = x /\ f.id.type \notin Symmetric
                                                  /\ f.id.to.repo # Unknown}}
    BY DEF Adjacency
  <2>2. \A f \in E : f.id.type \notin Symmetric <=> f.id.type \in Directional
    BY <1>1, <1>2
  <2>3. \A y : <<x, y>> \in Dependencies <=>
              \E e \in E : /\ e.id.type \in Directional /\ e.id.to.repo # Unknown
                         /\ e.id.from = x /\ e.id.to.repo = y
    BY DEF Dependencies
  <2> HIDE DEF adj
  <2> QED
    BY <2>1, <2>2, <2>3
<1>4. adj \in Graphs
  <2>1. adj = [r \in Repositories |-> adj[r]]
    BY DEF Adjacency
  <2>2. \A x \in Repositories : adj[x] \in SUBSET Repositories
    BY <1>1 DEF Adjacency
  <2> HIDE DEF adj
  <2> QED
    BY <2>1, <2>2 DEF Graphs
<1>5. \A d \in Dependencies : d = <<d[1], d[2]>> /\ d[1] \in Repositories
  BY <1>1 DEF Dependencies
<1> HIDE DEF adj
<1>6. \A C \in SUBSET Repositories : C \in Closed <=> NoneLeave(adj, C)
  <2> TAKE C \in SUBSET Repositories
  <2>1. ASSUME C \in Closed, NEW x \in C, NEW y \in adj[x] PROVE y \in C
    <3>1. <<x, y>> \in Dependencies
      BY <1>3, <2>1
    <3>2. <<x, y>>[1] \in C => <<x, y>>[2] \in C
      BY <2>1, <3>1 DEF Closed
    <3> QED
      BY <3>2
  <2>2. ASSUME NoneLeave(adj, C), NEW d \in Dependencies, d[1] \in C PROVE d[2] \in C
    <3>1. d[1] \in Repositories /\ <<d[1], d[2]>> \in Dependencies
      BY <1>5
    <3>2. d[2] \in adj[d[1]]
      BY <1>3, <3>1
    <3> QED
      BY <2>2, <3>2 DEF NoneLeave
  <2>3. C \in Closed <=> \A d \in Dependencies : d[1] \in C => d[2] \in C
    BY DEF Closed
  <2> QED
    BY <2>1, <2>2, <2>3 DEF NoneLeave
<1>7. ASSUME NEW r \in Repositories PROVE Inseparable(r, Closed) = MutualWith(adj, r)
  <2>1. Closed \subseteq SUBSET Repositories
    BY DEF Closed
  <2>2. ASSUME NEW q \in Repositories
        PROVE  (\A C \in Closed : q \in C <=> r \in C) <=> Reaches(adj, r, q) /\ Reaches(adj, q, r)
    BY <1>6, <2>1 DEF Reaches
  <2> QED
    BY <2>2 DEF Inseparable, MutualWith
<1>8. analysis.cycles = {c \in Components(adj) : Cardinality(c) > 1}
  BY DEF AnalysisInv, Cycles, adj
<1>9. Components(adj) = {MutualWith(adj, r) : r \in Repositories}
  BY <1>4, ComponentsAre
<1>10. {Inseparable(r, Closed) : r \in Repositories} = {MutualWith(adj, r) : r \in Repositories}
  BY <1>7
<1> QED
  BY <1>8, <1>9, <1>10

\* The cycles that an analysis reports are exactly the sets of more than one
\* repository that depend on each other, for any portfolio and any signals
\* (relationships.py, _find_cycles, _strongly_connected_components).
THEOREM CyclesAreMutualDependenceTheorem == RelationshipsSpec => []CyclesAreMutualDependence
<1>1. RelationshipsSpec => []AnalysisInv
  BY AnalysisInitHolds, AnalysisStep, PTL DEF RelationshipsSpec
<1> QED
  BY <1>1, AnalysisImplies, PTL
=============================================================================
