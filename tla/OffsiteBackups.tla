--------------------------- MODULE OffsiteBackups ---------------------------
(***************************************************************************)
(* Encrypted copies of verified bundles on an independent target            *)
(* (scripts/disaster_recovery.py): initialise, export, restore drill,       *)
(* materialise and prune.  A copy is a pair of files, the artifact and its  *)
(* receipt; every command but export first loads all receipts and stops if  *)
(* one of them does not describe its artifact.                              *)
(*                                                                         *)
(* Encryption and checksums are perfect: a file either is what a receipt    *)
(* describes or it is not.  The operator runs one command at a time; a      *)
(* command may be killed between any two steps.                             *)
(***************************************************************************)
EXTENDS Integers, FiniteSets, FiniteSetsExt

CONSTANTS
    MaxDay,     \* bound: days that pass
    WeekDays,   \* days in a week (7)
    MonthDays,  \* days in a month
    Policies    \* the retention policies an operator prunes with

ASSUME OffsiteAssumption ==
    /\ {MaxDay, WeekDays, MonthDays} \subseteq Nat \ {0}
    /\ \A p \in Policies : {p.daily, p.weekly, p.monthly} \subseteq Nat

VARIABLES
    day,        \* today
    ready,      \* the key file and the target marker exist
    local,      \* the newest verified local bundle, named by its day
    artifact,   \* bundles that have an artifact on the target
    receipt,    \* receipts on the target: bundle and created_at
    task,       \* the command under way
    drilled,    \* the copy of the last drill receipt
    last,       \* history: the last export that completed
    months      \* history: the months in which an export completed

offsiteVars == <<day, ready, local, artifact, receipt, task, drilled, last, months>>

NoTask == [op |-> "none"]
NoCopy == [bundle |-> -1, at |-> -1]

WeekOf(d) == d \div WeekDays
MonthOf(d) == d \div MonthDays

OffsiteInit ==
    /\ day = 0
    /\ ready = FALSE
    /\ local = -1
    /\ artifact = {} /\ receipt = {}
    /\ task = NoTask
    /\ drilled = NoCopy
    /\ last = NoCopy
    /\ months = {}

----------------------------------------------------------------------------
(***************************************************************************)
(* Retention.  Backups are visited from the newest to the oldest; each is   *)
(* offered to the daily, the weekly or the monthly tier, by its age.        *)
(***************************************************************************)
NoTiers == [keep |-> {}, daily |-> {}, weekly |-> {}, monthly |-> {}]

\* Mutant: what is young enough for the daily tier is never offered to the weekly one.
DailyTierAlone(t, d, now, policy) == now - d <= Max({policy.daily, 1})

DailyTier(t, d, now, policy) ==
    /\ now - d <= Max({policy.daily, 1})
    /\ d \in t.daily \/ Cardinality(t.daily) < policy.daily

InWeeklyWindow(d, now, policy) ==
    now - d <= Max({policy.daily + policy.weekly * WeekDays, 1})

\* A tier takes the first backup of a period it has not seen, while it has room.
Offer(t, tier, period, room, item) ==
    IF period \notin t[tier] /\ Cardinality(t[tier]) < room
    THEN [t EXCEPT ![tier] = @ \cup {period}, !.keep = @ \cup {item}]
    ELSE t

\* One backup; what its tier does not take is dropped, not offered to the next tier.
Visit(t, item, now, policy) ==
    LET d == item.at IN
    IF d > now THEN [t EXCEPT !.keep = @ \cup {item}]
    ELSE IF DailyTier(t, d, now, policy)
    THEN Offer(t, "daily", d, policy.daily, item)
    ELSE IF InWeeklyWindow(d, now, policy)
    THEN Offer(t, "weekly", WeekOf(d), policy.weekly, item)
    ELSE Offer(t, "monthly", MonthOf(d), policy.monthly, item)

\* Sorted by (created_at, name).
Newer(a, b) == a.at > b.at \/ (a.at = b.at /\ a.bundle > b.bundle)
Newest(items) == CHOOSE i \in items : \A j \in items \ {i} : Newer(i, j)

\* A round of the loop: the newest backup left is offered to the tiers.
Round(s, policy, now) ==
    [tiers |-> Visit(s.tiers, Newest(s.left), now, policy), left |-> s.left \ {Newest(s.left)}]

KeptByTiers(items, policy, now) ==
    LET after[k \in 0..Cardinality(items)] ==
            IF k = 0 THEN [tiers |-> NoTiers, left |-> items]
            ELSE Round(after[k - 1], policy, now)
    IN  after[Cardinality(items)].tiers.keep

RetainedBackupPaths(items, policy, now) ==
    IF items = {} THEN {} ELSE {Newest(items)} \cup KeptByTiers(items, policy, now)

----------------------------------------------------------------------------
(***************************************************************************)
(* Commands.                                                               *)
(***************************************************************************)
Frame(rest) == UNCHANGED <<day, ready, local>> /\ UNCHANGED rest

NextDay ==
    /\ day < MaxDay
    /\ task = NoTask
    /\ day' = day + 1
    /\ UNCHANGED <<ready, local, artifact, receipt, task, drilled, last, months>>

\* initialize_key_file and initialize_target never replace what exists.
InitializeTarget ==
    /\ ~ready /\ task = NoTask
    /\ ready' = TRUE
    /\ UNCHANGED <<day, local, artifact, receipt, task, drilled, last, months>>

\* make local-backup: at most one bundle a day is of interest.
LocalBackup ==
    /\ task = NoTask /\ local < day
    /\ local' = day
    /\ UNCHANGED <<day, ready, artifact, receipt, task, drilled, last, months>>

\* _validate_target and _load_key: a private external directory with its marker, and a
\* private key file of the right length outside the repository.
TargetUsable == ready

\* verify_local_backup_bundle: the seven files, the receipt and every checksum agree.
\* A bundle under its final name is complete, so the newest one always qualifies.
LocalBundleVerified == local >= 0

\* export takes the newest local bundle, verifies it, and refuses an existing copy.
ExportBegin ==
    /\ task = NoTask /\ TargetUsable /\ LocalBundleVerified
    /\ local \notin artifact /\ \A r \in receipt : r.bundle # local
    /\ task' = [op |-> "encrypt", bundle |-> local]
    /\ Frame(<<artifact, receipt, drilled, last, months>>)

\* _encrypt_file writes under a temporary name and renames.
ExportEncrypt ==
    /\ task.op = "encrypt"
    /\ artifact' = artifact \cup {task.bundle}
    /\ task' = [task EXCEPT !.op = "verify"]
    /\ Frame(<<receipt, drilled, last, months>>)

\* The copy is decrypted, unpacked and compared; then the receipt is written.
ExportVerified ==
    /\ task.op = "verify"
    /\ receipt' = receipt \cup {[bundle |-> task.bundle, at |-> day]}
    /\ last' = [bundle |-> task.bundle, at |-> day]
    /\ months' = months \cup {MonthOf(day)}
    /\ task' = NoTask
    /\ Frame(<<artifact, drilled>>)

\* An exception removes both files.
ExportFails ==
    /\ task.op \in {"encrypt", "verify"}
    /\ artifact' = artifact \ {task.bundle}
    /\ task' = NoTask
    /\ Frame(<<receipt, drilled, last, months>>)

\* _load_offsite_backups: every receipt must describe an artifact that is there.
Loads == \A r \in receipt : r.bundle \in artifact

\* drill: the newest backup is decrypted, unpacked, restored and compared.
Drill ==
    /\ task = NoTask /\ TargetUsable /\ Loads /\ receipt # {}
    /\ drilled' = Newest(receipt)
    /\ Frame(<<artifact, receipt, task, last, months>>)

PruneBegin(policy) ==
    /\ task = NoTask /\ TargetUsable /\ Loads
    /\ LET out == receipt \ RetainedBackupPaths(receipt, policy, day) IN
       /\ out # {}
       /\ task' = [op |-> "unlink", policy |-> policy, left |-> out]
    /\ Frame(<<artifact, receipt, drilled, last, months>>)

PruneArtifact ==
    /\ task.op = "unlink"
    /\ \E r \in task.left :
          /\ artifact' = artifact \ {r.bundle}
          /\ task' = [op |-> "unlinkReceipt", policy |-> task.policy,
                      left |-> task.left \ {r}, item |-> r]
    /\ Frame(<<receipt, drilled, last, months>>)

PruneReceipt ==
    /\ task.op = "unlinkReceipt"
    /\ receipt' = receipt \ {task.item}
    /\ task' = IF task.left = {} THEN NoTask
               ELSE [op |-> "unlink", policy |-> task.policy, left |-> task.left]
    /\ Frame(<<artifact, drilled, last, months>>)

\* SIGKILL, a full disk under the receipt, an unmounted target, Ctrl-C.
Interrupted ==
    /\ task # NoTask
    /\ task' = NoTask
    /\ Frame(<<artifact, receipt, drilled, last, months>>)

OffsiteNext ==
    \/ NextDay \/ InitializeTarget \/ LocalBackup
    \/ ExportBegin \/ ExportEncrypt \/ ExportVerified \/ ExportFails
    \/ Drill
    \/ \E policy \in Policies : PruneBegin(policy)
    \/ PruneArtifact \/ PruneReceipt \/ Interrupted

OffsiteSpec == OffsiteInit /\ [][OffsiteNext]_offsiteVars

----------------------------------------------------------------------------
\* The newest copy whose export completed stays on the target, artifact and receipt,
\* whatever is pruned with whatever policy and whenever a command is killed.
NewestSurvives ==
    last # NoCopy => last \in receipt /\ last.bundle \in artifact

\* Copies that can be restored.
Complete == {r \in receipt : r.bundle \in artifact}

Pruning == task.op \in {"unlink", "unlinkReceipt"}

\* What a step leaves in place of the complete copy r: one that is no older, one of
\* its day and one of its week, as far as the policy of a prune promises them.
NewestKept(r) == \E s \in Complete' : s = r \/ Newer(s, r)

DayKept(r) ==
    (Pruning => day - r.at < task.policy.daily) => \E s \in Complete' : s.at = r.at

WeekKept(r) ==
    (Pruning => WeekOf(day) - WeekOf(r.at) < task.policy.weekly) =>
        \E s \in Complete' : WeekOf(s.at) = WeekOf(r.at)

\* What the runbook promises, but for the months: no step loses the newest copy, the
\* last complete copy of a day or the last one of a week, unless a prune runs whose
\* policy does not promise that day or week.  Each prune decides on what the prunes
\* before it left and takes its copies one file at a time; what one tier does not take
\* is dropped or offered late; and any command may be killed in between.
RecoveryPointsKept ==
    [][\A r \in Complete : NewestKept(r) /\ DayKept(r) /\ WeekKept(r)]_offsiteVars

\* The runbook promises "7 daily, 4 weekly, and 12 monthly recovery points": each of the
\* last months in which a copy was made still has one.
MonthsKept(policy) ==
    task = NoTask =>
        \A m \in months :
            MonthOf(day) - m < policy.monthly => \E r \in receipt : MonthOf(r.at) = m
=============================================================================
