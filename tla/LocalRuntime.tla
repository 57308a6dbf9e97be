---------------------------- MODULE LocalRuntime ----------------------------
(***************************************************************************)
(* The operator commands of one checkout (scripts/local_runtime.py): make   *)
(* local (a supervisor of the backend and the web process), make            *)
(* local-backend, make local-stop and make local-backup.  They share the    *)
(* process table, two ports, the runtime record in .local/, the database,   *)
(* the raw storage and the backup directory, and nothing serialises them.   *)
(*                                                                         *)
(* A pid identifies a process only together with its start signature: when  *)
(* a process is gone its pid may come back for a process the checkout never *)
(* started, and such a stranger may have the same command line and working  *)
(* directory.  Reading a process and signalling it is one step: a pid is    *)
(* not reused in between.                                                  *)
(***************************************************************************)
EXTENDS Integers, FiniteSets, TLC

CONSTANTS
    Commands,     \* command invocations; each runs once
    Pids,         \* process ids
    NoPid,        \* frontend_pid = 0
    MaxWrites,    \* bound: writes of the running application
    MaxStrangers  \* bound: processes started by somebody else

ASSUME RuntimeAssumption ==
    /\ NoPid \notin Pids
    /\ {MaxWrites, MaxStrangers} \subseteq Nat

VARIABLES
    proc,       \* what runs at each pid
    sig,        \* sig[p]: the start signature of the process at p
    port,       \* the process group that listens on each port
    record,     \* .local/runtime state: absent, invalid or a RuntimeState
    cmd,        \* what each command is doing
    db,         \* the database: [rev, rows, ver]
    raw,        \* content of the raw storage
    cluster,    \* the temporary restore cluster of each backup
    bundles,    \* verified bundles under their final name
    strangers,  \* bounding counter
    moments,    \* history: every content the database and the raw storage had together
    strayHit    \* history: a process of somebody else was signalled

store == <<db, raw, moments>>
table == <<proc, sig, port>>
vars == <<proc, sig, port, record, cmd, db, raw, cluster, bundles, strangers,
          moments, strayHit>>

Ports == {"backend", "web"}
NoRecord == [sup |-> "absent"]
Invalid == [sup |-> "invalid"]
IsState(r) == r \notin {NoRecord, Invalid}
RuntimeState(s, b, f) ==
    [sup |-> s, supSig |-> sig[s], back |-> b, backSig |-> sig[b],
     front |-> f, frontSig |-> IF f = NoPid THEN 0 ELSE sig[f]]

Content == [rev |-> db.rev, rows |-> db.rows, ver |-> db.ver, raw |-> raw]
NoDump == [rev |-> "none", rows |-> 0, ver |-> 0]
Fresh == [op |-> "none", pc |-> "new", pid |-> NoPid, back |-> NoPid, front |-> NoPid,
          seen |-> NoRecord, scan |-> 0, dump |-> NoDump, snap |-> <<"none", 0>>]
Ended == {"new", "done"}
Active == {c \in Commands : cmd[c].pc \notin Ended}

Go(c, pc) == cmd' = [cmd EXCEPT ![c].pc = pc]
Finish(c) == cmd' = [cmd EXCEPT ![c] = [Fresh EXCEPT !.pc = "done"]]

Init ==
    /\ proc = [p \in Pids |-> "none"]
    /\ sig = [p \in Pids |-> 0]
    /\ port = [q \in Ports |-> NoPid]
    /\ record \in {NoRecord, Invalid}
    /\ cmd = [c \in Commands |-> Fresh]
    /\ \E rev \in {"empty", "old", "head"} :
          db = [rev |-> rev, rows |-> 0, ver |-> 0]
    /\ raw = 0
    /\ cluster = [c \in Commands |-> "none"]
    /\ bundles = {}
    /\ strangers = 0
    /\ moments = {Content}
    /\ strayHit = FALSE

----------------------------------------------------------------------------
(***************************************************************************)
(* The process table and the ports.                                        *)
(***************************************************************************)
\* A pid can be taken when its group is gone and no parent has still to reap it.
Reaped == Ended \cup {"release"}
FreePids ==
    {p \in Pids :
        /\ proc[p] = "none"
        /\ \A q \in Ports : port[q] # p
        /\ \A c \in Active : cmd[c].pid # p
        /\ \A c \in Commands : p \in {cmd[c].back, cmd[c].front} => cmd[c].pc \in Reaped}

\* The process at a pid; a supervisor's lasts as long as its command.
Kind(p) == IF \E c \in Active : cmd[c].pid = p THEN "supervisor" ELSE proc[p]

\* A new process has a new signature; it is counted where somebody remembers the pid.
Pidsof(r) == IF IsState(r) THEN {r.sup, r.back, r.front} ELSE {}
Remembered == Pidsof(record) \cup UNION {Pidsof(cmd[c].seen) : c \in Commands}
NewSignature(p) == sig' = [sig EXCEPT ![p] = IF p \in Remembered THEN @ + 1 ELSE @]

Spawned(p, kind) ==
    /\ p \in FreePids
    /\ proc' = [proc EXCEPT ![p] = kind]
    /\ NewSignature(p)

\* process_command: something runs at the pid.
Alive(p) == p # NoPid /\ Kind(p) # "none"

\* A process starts listening; a second one exits because the address is in use.
Listen(q, p) ==
    /\ proc[p] = (IF q = "backend" THEN "backend" ELSE "frontend")
    /\ port[q] # p
    /\ \/ /\ port[q] = NoPid
          /\ port' = [port EXCEPT ![q] = p]
          /\ UNCHANGED proc
       \/ /\ port[q] # NoPid
          /\ proc' = [proc EXCEPT ![p] = "none"]
          /\ UNCHANGED port
    /\ UNCHANGED <<sig, record, cmd, store, cluster, bundles, strangers, strayHit>>

\* A child exits by itself; a member of its group may go on listening for a while.
Exit(p) ==
    /\ proc[p] \in {"backend", "frontend", "stranger"}
    /\ proc' = [proc EXCEPT ![p] = "none"]
    /\ port' \in {port, [q \in Ports |-> IF port[q] = p THEN NoPid ELSE port[q]]}
    /\ UNCHANGED <<sig, record, cmd, store, cluster, bundles, strangers, strayHit>>

GroupGone(q) ==
    /\ port[q] # NoPid
    /\ proc[port[q]] = "none"
    /\ port' = [port EXCEPT ![q] = NoPid]
    /\ UNCHANGED <<proc, sig, record, cmd, store, cluster, bundles, strangers, strayHit>>

\* Somebody else's process takes a pid; it may listen on one of the ports.
Stranger(p) ==
    /\ strangers < MaxStrangers
    /\ strangers' = strangers + 1
    /\ Spawned(p, "stranger")
    /\ \/ UNCHANGED port
       \/ \E q \in Ports : port[q] = NoPid /\ port' = [port EXCEPT ![q] = p]
    /\ UNCHANGED <<record, cmd, store, cluster, bundles, strayHit>>

\* The running application: new rows, changed rows, or rows with a raw object.
AppWrites ==
    /\ \E p \in Pids : port["backend"] = p /\ proc[p] = "backend"
    /\ db.rev = "head" /\ db.ver < MaxWrites
    /\ \E inserts, stores \in {0, 1} :
          /\ stores <= inserts
          /\ db' = [db EXCEPT !.ver = @ + 1, !.rows = @ + inserts]
          /\ raw' = raw + stores
    /\ moments' = moments \cup {[rev |-> db'.rev, rows |-> db'.rows, ver |-> db'.ver, raw |-> raw']}
    /\ UNCHANGED <<table, record, cmd, cluster, bundles, strangers, strayHit>>

----------------------------------------------------------------------------
(***************************************************************************)
(* Identity.  A recorded process is the recorded one when something with    *)
(* the expected command and directory runs at its pid (a stranger may look  *)
(* the same) and its start signature is the recorded one.                   *)
(***************************************************************************)
RuntimeProcessMatches(r) ==
    /\ Kind(r.sup) \in {"supervisor", "stranger"}
    /\ sig[r.sup] = r.supSig

Children(r) == {r.back, r.front} \ {NoPid}
ChildSig(r, p) == IF p = r.back THEN r.backSig ELSE r.frontSig

\* Mutant: a child is recognised by its command line and directory alone.
ChildMatchesByName(r, p) ==
    proc[p] \in {"backend", "frontend", "stranger"}

RuntimeChildMatches(r, p) ==
    /\ proc[p] \in {IF p = r.back THEN "backend" ELSE "frontend", "stranger"}
    /\ sig[p] = ChildSig(r, p)

RecordedChildrenAlive(r) == {p \in Children(r) : Alive(p)}
RuntimePortsBusy == \E q \in Ports : port[q] # NoPid

RuntimeIsQuiescent(r) ==
    /\ RecordedChildrenAlive(r) = {}
    /\ ~RuntimePortsBusy

\* SIGTERM to the groups of the orphans: each may exit at once, later, or partly.
SignalGroups(targets) ==
    /\ strayHit' = (strayHit \/ \E p \in targets : proc[p] = "stranger")
    /\ \E gone \in SUBSET targets :
          /\ proc' = [p \in Pids |-> IF p \in gone THEN "none" ELSE proc[p]]
          /\ port' = [q \in Ports |-> IF port[q] \in gone THEN NoPid ELSE port[q]]
    /\ UNCHANGED sig

\* _reconcile_dead_supervisor up to the wait: refuse, or signal every orphan.
ReconcileDeadSupervisor(c, r) ==
    LET alive == RecordedChildrenAlive(r) IN
    \/ /\ \E p \in alive : ~RuntimeChildMatches(r, p)
       /\ Finish(c)
       /\ UNCHANGED <<proc, sig, port, strayHit>>
    \/ /\ \A p \in alive : RuntimeChildMatches(r, p)
       /\ SignalGroups(alive)
       /\ cmd' = [cmd EXCEPT ![c].pc = "reconcile", ![c].seen = r]

\* The wait: everything is gone and the record is unlinked, or time is up.
ReconcileWait(c) ==
    /\ cmd[c].pc = "reconcile"
    /\ \/ /\ RuntimeIsQuiescent(cmd[c].seen)
          /\ record' = NoRecord
          /\ Go(c, IF cmd[c].op = "run" THEN "ports" ELSE "done")
       \/ /\ Finish(c)
          /\ UNCHANGED record
    /\ UNCHANGED <<table, store, cluster, bundles, strangers, strayHit>>

----------------------------------------------------------------------------
(***************************************************************************)
(* Starting a command.  supervise_local_runtime takes the signature of its  *)
(* own process first; the other commands are not recorded.                  *)
(***************************************************************************)
Begin(c, op, first) ==
    /\ cmd[c].pc = "new"
    /\ UNCHANGED <<proc, port, record, store, cluster, bundles, strangers, strayHit>>
    /\ IF op = "run"
       THEN \E p \in FreePids :
               /\ NewSignature(p)
               /\ cmd' = [cmd EXCEPT ![c] = [Fresh EXCEPT !.op = op, !.pc = first, !.pid = p]]
       ELSE /\ cmd' = [cmd EXCEPT ![c] = [Fresh EXCEPT !.op = op, !.pc = first]]
            /\ UNCHANGED sig

MakeLocal(c) == Begin(c, "run", "record")
MakeLocalBackend(c) == Begin(c, "backend", "ports")
MakeLocalStop(c) == Begin(c, "stop", "record")
MakeLocalBackup(c) == Begin(c, "backup", "ports")

\* SIGKILL, or a signal before the handlers are installed: nothing is cleaned up and
\* the children, in sessions of their own, go on.
Kill(c) ==
    /\ c \in Active
    /\ Finish(c)
    /\ \/ UNCHANGED cluster
       \/ cmd[c].pc = "restore" /\ cluster' = [cluster EXCEPT ![c] = "stopped"]
    /\ UNCHANGED <<table, record, store, bundles, strangers, strayHit>>

\* The existing record, as supervise_local_runtime reads it.
CheckRecordForRun(c) ==
    /\ cmd[c].pc = "record" /\ cmd[c].op = "run"
    /\ IF record = NoRecord
       THEN Go(c, "ports") /\ UNCHANGED <<table, strayHit>>
       ELSE IF IsState(record) /\ ~Alive(record.sup)
       THEN ReconcileDeadSupervisor(c, record)
       ELSE \* invalid, already running, incomplete or unverified: all end here
            Finish(c) /\ UNCHANGED <<table, strayHit>>
    /\ UNCHANGED <<record, store, cluster, bundles, strangers>>

\* stop_recorded_runtime: SIGTERM only for the verified supervisor.
StopRecordedRuntime(c) ==
    /\ cmd[c].pc = "record" /\ cmd[c].op = "stop"
    /\ IF ~IsState(record)
       THEN Finish(c) /\ UNCHANGED <<table, strayHit>>
       ELSE IF ~Alive(record.sup)
       THEN ReconcileDeadSupervisor(c, record)
       ELSE IF ~RuntimeProcessMatches(record)
       THEN Finish(c) /\ UNCHANGED <<table, strayHit>>
       ELSE /\ cmd' = [cmd EXCEPT ![c].pc = "stopping", ![c].seen = record]
            /\ strayHit' = (strayHit \/ Kind(record.sup) = "stranger")
            /\ UNCHANGED table
    /\ UNCHANGED <<record, store, cluster, bundles, strangers>>

\* The supervisor is gone before the deadline, or the command gives up.
StopWait(c) ==
    /\ cmd[c].pc = "stopping"
    /\ \/ ~Alive(cmd[c].seen.sup) /\ ReconcileDeadSupervisor(c, cmd[c].seen)
       \/ Finish(c) /\ UNCHANGED <<table, strayHit>>
    /\ UNCHANGED <<record, store, cluster, bundles, strangers>>

----------------------------------------------------------------------------
(***************************************************************************)
(* Backup.  The ports are looked at once, at the start; the dump, the       *)
(* counts, the restore and the two scans of the raw storage follow.  Any    *)
(* step may fail, which removes the partial bundle and reports the error.   *)
(***************************************************************************)
\* recover_stale_restore_clusters: a running cluster is never treated as stale.
RestoreRunning == \E d \in Commands : cluster[d] = "running"
RecoverStaleRestoreClusters ==
    /\ ~RestoreRunning
    /\ cluster' = [d \in Commands |-> "none"]

BackupFrame == UNCHANGED <<table, record, store, strangers, strayHit>>
BackupSteps == {"dump", "snapshot", "restore", "compare", "archive", "rescan"}

BackupPorts(c) ==
    /\ cmd[c].pc = "bports"
    /\ ~RuntimePortsBusy
    /\ RecoverStaleRestoreClusters
    /\ cmd' = [cmd EXCEPT ![c].pc = "dump", ![c].scan = raw]
    /\ UNCHANGED bundles /\ BackupFrame

PgDump(c) ==
    /\ cmd[c].pc = "dump"
    /\ cmd' = [cmd EXCEPT ![c].pc = "snapshot", ![c].dump = db]
    /\ UNCHANGED <<cluster, bundles>> /\ BackupFrame

\* database_snapshot of the source: revisions and row counts, not contents.
SourceSnapshot(c) ==
    /\ cmd[c].pc = "snapshot"
    /\ cmd' = [cmd EXCEPT ![c].pc = "restore", ![c].snap = <<db.rev, db.rows>>]
    /\ UNCHANGED <<cluster, bundles>> /\ BackupFrame

\* initdb and pg_ctl start, in the partial bundle.
StartCluster(c) ==
    /\ cmd[c].pc = "restore"
    /\ cluster' = [cluster EXCEPT ![c] = "running"]
    /\ Go(c, "compare")
    /\ UNCHANGED bundles /\ BackupFrame

\* Restored counts against the source's, then the cluster is stopped and removed.
RestoreAndCompareDatabase(c) ==
    /\ cmd[c].pc = "compare"
    /\ <<cmd[c].dump.rev, cmd[c].dump.rows>> = cmd[c].snap
    /\ cluster' = [cluster EXCEPT ![c] = "none"]
    /\ Go(c, "archive")
    /\ UNCHANGED bundles /\ BackupFrame

\* The archive is read back and compared with the scanned inventory.
ArchiveRawStorage(c) ==
    /\ cmd[c].pc = "archive" /\ raw = cmd[c].scan
    /\ Go(c, "rescan")
    /\ UNCHANGED <<cluster, bundles>> /\ BackupFrame

Bundle(c) == [rev |-> cmd[c].dump.rev, rows |-> cmd[c].dump.rows, ver |-> cmd[c].dump.ver,
              raw |-> cmd[c].scan]

\* Mutant: the bundle is promoted without scanning the raw storage again, and the
\* archive is made from whatever is there.
PromoteWithoutRescan(c) ==
    /\ cmd[c].pc \in {"archive", "rescan"}
    /\ bundles' = bundles \cup {[Bundle(c) EXCEPT !.raw = raw]}
    /\ IF cmd[c].op = "backup" THEN Finish(c) ELSE Go(c, "migrate")
    /\ UNCHANGED cluster /\ BackupFrame

\* The second scan, the manifest, the receipt and the rename to the final name.
RescanAndPromote(c) ==
    /\ cmd[c].pc = "rescan" /\ raw = cmd[c].scan
    /\ bundles' = bundles \cup {Bundle(c)}
    /\ IF cmd[c].op = "backup" THEN Finish(c) ELSE Go(c, "migrate")
    /\ UNCHANGED cluster /\ BackupFrame

\* A failed step; a restore cluster that cannot be stopped stays with its directory.
BackupFails(c) ==
    /\ cmd[c].pc \in BackupSteps \cup {"bports"}
    /\ cluster' \in {[cluster EXCEPT ![c] = "none"], cluster}
    /\ (cluster[c] = "running" \/ cluster'[c] = "none")
    /\ Finish(c)
    /\ UNCHANGED bundles /\ BackupFrame

----------------------------------------------------------------------------
(***************************************************************************)
(* Preparing a start: stale restores, ports, database, backup, migration.   *)
(***************************************************************************)
NeededPorts(c) == IF cmd[c].op = "backend" THEN {"backend"} ELSE Ports

CheckPorts(c) ==
    /\ cmd[c].pc = "ports"
    /\ IF cmd[c].op = "backup"
       THEN Go(c, "bports") /\ UNCHANGED cluster
       ELSE IF RestoreRunning
       THEN Finish(c) /\ UNCHANGED cluster
       ELSE /\ RecoverStaleRestoreClusters
            /\ IF \A q \in NeededPorts(c) : port[q] = NoPid
               THEN Go(c, "database")
               ELSE Finish(c)
    /\ UNCHANGED bundles /\ BackupFrame

\* A reachable database is reused, else Compose starts one; an occupied port, a missing
\* Docker or missing web dependencies end the command.
EnsureDatabase(c) ==
    /\ cmd[c].pc = "database"
    /\ \/ Go(c, "precheck")
       \/ Finish(c)
    /\ UNCHANGED <<cluster, bundles>> /\ BackupFrame

\* Mutant: a database whose revision is known is trusted to need no backup.
BackupOnlyUnknown(c) ==
    /\ cmd[c].pc = "precheck"
    /\ Go(c, "migrate")
    /\ UNCHANGED <<cluster, bundles>> /\ BackupFrame

\* An empty database and one at the code's head need no backup before migrating.
PreMigrationBackup(c) ==
    /\ cmd[c].pc = "precheck"
    /\ Go(c, IF db.rev = "old" THEN "bports" ELSE "migrate")
    /\ UNCHANGED <<cluster, bundles>> /\ BackupFrame

\* alembic upgrade head, in one transaction.
ApplyMigrations(c) ==
    /\ cmd[c].pc = "migrate"
    /\ \/ /\ db' = [db EXCEPT !.rev = "head"]
          /\ moments' = moments \cup {[Content EXCEPT !.rev = "head"]}
          /\ Go(c, "spawn")
       \/ Finish(c) /\ UNCHANGED <<db, moments>>
    /\ UNCHANGED <<raw, table, record, cluster, bundles, strangers, strayHit>>

----------------------------------------------------------------------------
(***************************************************************************)
(* Supervising.  Each child is spawned in a session of its own, then its    *)
(* signature is captured, then the record is written; between spawning and  *)
(* writing the child is known to nobody but the supervisor.                 *)
(***************************************************************************)
RunFrame == UNCHANGED <<store, cluster, bundles, strangers, strayHit>>

SpawnBackend(c) ==
    /\ cmd[c].pc = "spawn"
    /\ \E p \in Pids :
          /\ Spawned(p, "backend")
          /\ cmd' = [cmd EXCEPT ![c].back = p,
                                ![c].pc = IF cmd[c].op = "run" THEN "write1" ELSE "serving"]
    /\ UNCHANGED <<port, record>> /\ RunFrame

\* make local-backend only waits for its child.
BackendOnlyEnds(c) ==
    /\ cmd[c].pc = "serving"
    /\ proc[cmd[c].back] # "backend"
    /\ Finish(c)
    /\ UNCHANGED <<table, record>> /\ RunFrame

\* _capture_child_start_signature: a zombie has no command line any more.
SignatureCaptured(child) == proc[child] \in {"backend", "frontend"}

\* The record is replaced atomically, whoever wrote the one that is there.
WriteRuntimeState(c, child, from, to) ==
    /\ cmd[c].pc = from
    /\ \/ /\ SignatureCaptured(child)
          /\ record' = RuntimeState(cmd[c].pid, cmd[c].back, cmd[c].front)
          /\ Go(c, to)
       \/ Go(c, "closing") /\ UNCHANGED record
    /\ UNCHANGED table /\ RunFrame

RecordBackend(c) == WriteRuntimeState(c, cmd[c].back, "write1", "wait1")
RecordFrontend(c) == WriteRuntimeState(c, cmd[c].front, "write2", "wait2")

\* wait_for_url: whoever listens on the port answers; a stop request, a child that
\* exited or the timeout ends the wait.
UrlAnswers(q) == port[q] # NoPid

BackendHealthy(c) ==
    /\ cmd[c].pc = "wait1"
    /\ \/ /\ UrlAnswers("backend")
          /\ \E p \in Pids :
                /\ Spawned(p, "frontend")
                /\ cmd' = [cmd EXCEPT ![c].front = p, ![c].pc = "write2"]
          /\ UNCHANGED port
       \/ Go(c, "closing") /\ UNCHANGED table
    /\ UNCHANGED record /\ RunFrame

WebHealthy(c) ==
    /\ cmd[c].pc = "wait2"
    /\ \/ UrlAnswers("web") /\ Go(c, "up")
       \/ Go(c, "closing")
    /\ UNCHANGED <<table, record>> /\ RunFrame

OwnChildren(c) == {cmd[c].back, cmd[c].front} \ {NoPid}

\* A child exits, or SIGINT, SIGTERM or SIGHUP comes: from the operator, who may send
\* one at any time, or from make local-stop.
SuperviseEnds(c) ==
    /\ cmd[c].pc = "up"
    /\ Go(c, "closing")
    /\ UNCHANGED <<table, record>> /\ RunFrame

\* _terminate_child for both: a live child dies, with SIGKILL if it must; the group of
\* one that had already exited is not signalled.
TerminateChildren(c) ==
    /\ cmd[c].pc = "closing"
    /\ LET own == {p \in OwnChildren(c) : proc[p] \in {"backend", "frontend"}} IN
       /\ proc' = [p \in Pids |-> IF p \in own THEN "none" ELSE proc[p]]
       /\ \E lingering \in SUBSET {q \in Ports : port[q] \in own} :
             port' = [q \in Ports |-> IF port[q] \in own /\ q \notin lingering
                                      THEN NoPid ELSE port[q]]
    /\ Go(c, "release")
    /\ UNCHANGED <<sig, record>> /\ RunFrame

\* The end of the finally block: an own record goes only when all is quiet.
ReleaseRecord(c) ==
    /\ cmd[c].pc = "release"
    /\ record' = IF IsState(record)
                    /\ ~(record.sup = cmd[c].pid /\ RuntimeIsQuiescent(record))
                 THEN record ELSE NoRecord
    /\ Finish(c)
    /\ UNCHANGED table /\ RunFrame

----------------------------------------------------------------------------
CommandStep(c) ==
    \/ MakeLocal(c) \/ MakeLocalBackend(c) \/ MakeLocalStop(c) \/ MakeLocalBackup(c)
    \/ CheckRecordForRun(c) \/ StopRecordedRuntime(c) \/ StopWait(c) \/ ReconcileWait(c)
    \/ CheckPorts(c) \/ EnsureDatabase(c) \/ PreMigrationBackup(c) \/ ApplyMigrations(c)
    \/ BackupPorts(c) \/ PgDump(c) \/ SourceSnapshot(c) \/ StartCluster(c)
    \/ RestoreAndCompareDatabase(c) \/ ArchiveRawStorage(c) \/ RescanAndPromote(c)
    \/ BackupFails(c)
    \/ SpawnBackend(c) \/ BackendOnlyEnds(c) \/ RecordBackend(c) \/ BackendHealthy(c)
    \/ RecordFrontend(c) \/ WebHealthy(c)
    \/ SuperviseEnds(c) \/ TerminateChildren(c) \/ ReleaseRecord(c)
    \/ Kill(c)

Next ==
    \/ \E c \in Commands : CommandStep(c)
    \/ \E p \in Pids : Exit(p) \/ Stranger(p) \/ \E q \in Ports : Listen(q, p)
    \/ \E q \in Ports : GroupGone(q)
    \/ AppWrites

Spec == Init /\ [][Next]_vars

----------------------------------------------------------------------------
\* Whatever pids are reused and however commands interleave, make local and make
\* local-stop never signal a process that this checkout did not start.
OnlyOwnSignalled == ~strayHit

\* A non-empty database that is behind is migrated only when a verified bundle holds
\* exactly what it holds.
MigrationIsBacked ==
    [][db.rev = "old" /\ db'.rev = "head" =>
          \E b \in bundles : b.rev = "old" /\ b.ver = db.ver /\ b.rows = db.rows]_vars

\* A promoted bundle's dump and raw archive belong to one moment, even when the
\* application was started while the backup ran.
BundleIsOneMoment == bundles \subseteq moments
=============================================================================
