------------------------- MODULE RepositoryCheckout -------------------------
(***************************************************************************)
(* Materialising one exact commit of a local repository into an ephemeral   *)
(* directory (services/repository_intelligence/checkout.py).                *)
(*                                                                         *)
(* A path is a sequence of parts; Fold gives the part a case-folding file   *)
(* system would use for it.  Git answers what it likes: the size its tree   *)
(* listing declares for an entry and the bytes its blob holds may differ.   *)
(* Two requests may name the same run, and a request may be killed.         *)
(***************************************************************************)
EXTENDS Integers, Sequences, SequencesExt, FiniteSets

CONSTANTS
    Requests,       \* materialize_repository_checkout calls
    RunIds,         \* the run ids they may name
    Fold(_),        \* NFC normalisation and case folding of a component
    GitDirectory,   \* the folded component .git
    Inputs,         \* request -> what it may be given: a run id, a listing (a
                    \* sequence of entries) and what is wrong with it, if anything
    MaxFiles, MaxBytes, MaxFileBytes, MaxDepth  \* RepositoryCheckoutPolicy

ASSUME CheckoutAssumption ==
    /\ {MaxFiles, MaxBytes, MaxFileBytes, MaxDepth} \subseteq Nat \ {0}
    /\ MaxFileBytes <= MaxBytes
    /\ \A q \in Requests : \A x \in Inputs[q] :
          /\ x.run \in RunIds
          /\ x.tree \in Seq([path : Seq(STRING), size : Nat, actual : Nat, blob : BOOLEAN])

VARIABLES
    call,       \* request -> step, run id, flaw, tree, entry being read and bytes of it
    expired,    \* requests past their deadline
    child,      \* requests with a git process of theirs alive
    worktree    \* run id -> its directory, if there is one

checkoutVars == <<call, expired, child, worktree>>

NoTree == [by |-> "nobody"]

\* A directory as mkdir leaves it: no file yet, still writable.
NewDirectory(q) == [by |-> q, files |-> <<>>, frozen |-> FALSE]

CheckoutInit ==
    /\ call = [q \in Requests |-> [step |-> "start"]]
    /\ expired = {} /\ child = {}
    /\ worktree = [r \in RunIds |-> NoTree]

----------------------------------------------------------------------------
(***************************************************************************)
(* What is refused before anything is written.                              *)
(***************************************************************************)
ValidPolicy(f) == f # "nonPositiveBound"

ValidatedRequest(f) == f \notin {"abbreviatedSha", "badRunId"}

ValidatedSourceRepository(f) == f \notin {"sourceIsLink", "sourceInsideThisRepository"}

ValidateLocalGitLayout(f) == f \notin {"gitIsLink", "configIncludesFile", "metadataUnbounded"}

ValidatedDataRoot(f) == f \notin {"dataInsideThisRepository", "sourceOverlapsData"}

EnsurePrivateDirectory(f) == f \notin {"directoryNotPrivate"}

\* What only git can tell, found out after the run's directory exists.
ValidateGitRepositoryBoundary(f) == f \notin {"notRepositoryRoot", "alternates"}

ResolveExactCommit(f) == f \notin {"commitMissing"}

----------------------------------------------------------------------------
(***************************************************************************)
(* The tree listing.  _parse_tree_entries keeps the folded file paths and   *)
(* the first spelling of every folded directory path.                       *)
(***************************************************************************)
Key(path) == [i \in DOMAIN path |-> Fold(path[i])]

Directories(path) == {SubSeq(path, 1, i) : i \in 1..Len(path) - 1}

\* _validated_tree_path
SafePath(path) ==
    /\ Len(path) \in 1..MaxDepth
    /\ \A i \in DOMAIN path : Fold(path[i]) # GitDirectory

\* file_paths, directory_paths and total_bytes when record i is reached.
FilesBefore(tree, i) == {Key(tree[j].path) : j \in 1..i - 1}
DirectoriesBefore(tree, i) == UNION {Directories(tree[j].path) : j \in 1..i - 1}
TotalBytes(tree, i) == FoldLeft(LAMBDA n, e : n + e.size, 0, SubSeq(tree, 1, i))

\* A file where there is a file or a directory, a directory where there is a
\* file, or a directory with a second spelling.
Collides(tree, i) ==
    LET path == tree[i].path
        dirs == DirectoriesBefore(tree, i)
    IN  \/ Key(path) \in FilesBefore(tree, i)
        \/ \E d \in dirs : Key(d) = Key(path)
        \/ \E p \in Directories(path) :
              \/ Key(p) \in FilesBefore(tree, i)
              \/ \E d \in dirs : Key(d) = Key(p) /\ d # p

\* One record of the listing, after the ones already accepted.
EntryAccepted(tree, i) ==
    /\ tree[i].blob /\ SafePath(tree[i].path) /\ ~Collides(tree, i)
    /\ tree[i].size <= MaxFileBytes /\ TotalBytes(tree, i) <= MaxBytes /\ i <= MaxFiles

ParseTreeEntries(tree) == \A i \in DOMAIN tree : EntryAccepted(tree, i)

----------------------------------------------------------------------------
(***************************************************************************)
(* The request.                                                             *)
(***************************************************************************)
Goto(q, s) == call' = [call EXCEPT ![q].step = s]

\* Everything raised inside the try block ends in its finally clause.
Raise(q) ==
    /\ Goto(q, "cleanup")
    /\ child' = child \ {q}
    /\ UNCHANGED <<expired, worktree>>

Running(q) == call[q].step \in {"boundary", "commit", "list", "write", "read"}

\* The checks up to the run directory.
Prepare(q) ==
    /\ call[q].step = "start"
    /\ \E x \in Inputs[q] :
           LET f == x.flaw
               passes == /\ ValidPolicy(f) /\ ValidatedRequest(f)
                         /\ q \notin expired
                         /\ ValidatedSourceRepository(f) /\ ValidateLocalGitLayout(f)
                         /\ ValidatedDataRoot(f) /\ EnsurePrivateDirectory(f)
           IN  call' = [call EXCEPT ![q] =
                   [step |-> IF passes THEN "mkdir" ELSE "refused",
                    run |-> x.run, flaw |-> f, tree |-> x.tree, entry |-> 0]]
    /\ UNCHANGED <<expired, child, worktree>>

\* Mutant: cleanup also runs for a request that found the directory there.
MakeOrCleanUp(q) ==
    LET r == call[q].run IN
    /\ call[q].step = "mkdir"
    /\ IF worktree[r] = NoTree
       THEN /\ worktree' = [worktree EXCEPT ![r] = NewDirectory(q)]
            /\ Goto(q, "boundary")
       ELSE Goto(q, "cleanup") /\ UNCHANGED worktree
    /\ UNCHANGED <<expired, child>>

\* run_directory.mkdir(exist_ok=False): a directory that exists belongs to
\* another request, or to one that was killed, and stays.
MakeRunDirectory(q) ==
    LET r == call[q].run IN
    /\ call[q].step = "mkdir"
    /\ IF worktree[r] = NoTree
       THEN /\ worktree' = [worktree EXCEPT ![r] = NewDirectory(q)]
            /\ Goto(q, "boundary")
       ELSE Goto(q, "refused") /\ UNCHANGED worktree
    /\ UNCHANGED <<expired, child>>

\* A git command whose output is kept in memory: the boundary, the commit and
\* the listing.  It fails by itself, by its output limit, or by the deadline.
GitSays(q, step, holds, next) ==
    /\ call[q].step = step
    /\ IF holds /\ q \notin expired
       THEN Goto(q, next) /\ UNCHANGED <<expired, child, worktree>>
       ELSE Raise(q)

CheckBoundary(q) == GitSays(q, "boundary", ValidateGitRepositoryBoundary(call[q].flaw), "commit")

CheckCommit(q) == GitSays(q, "commit", ResolveExactCommit(call[q].flaw), "list")

ListTree(q) == GitSays(q, "list", ParseTreeEntries(call[q].tree), "write")

\* _materialize_entries: the next entry's file is created and git cat-file
\* starts writing to the pipe.
OpenEntry(q) ==
    LET i == call[q].entry + 1
        r == call[q].run
    IN  /\ call[q].step = "write"
        /\ i <= Len(call[q].tree)
        /\ IF q \in expired
           THEN Raise(q)
           ELSE /\ call' = [call EXCEPT ![q] = [call[q] EXCEPT !.step = "read", !.entry = i]]
                /\ child' = child \cup {q}
                /\ worktree' = [worktree EXCEPT ![r].files =
                        Append(worktree[r].files, [path |-> call[q].tree[i].path, bytes |-> 0])]
                /\ UNCHANGED expired

\* _run_bounded_process: a chunk is written only while the output stays within
\* the declared size; at the end of the output the file has to have that size.
ReadChunk(q) ==
    LET i == call[q].entry
        r == call[q].run
        e == call[q].tree[i]
        got == worktree[r].files[i].bytes
    IN  /\ call[q].step = "read"
        /\ \/ q \in expired /\ Raise(q)
           \/ /\ got < e.actual
              /\ IF got + 1 > e.size
                 THEN Raise(q)
                 ELSE /\ worktree' = [worktree EXCEPT ![r].files =
                              [worktree[r].files EXCEPT ![i].bytes = got + 1]]
                      /\ UNCHANGED <<call, expired, child>>
           \/ /\ got = e.actual
              /\ IF got # e.size
                 THEN Raise(q)
                 ELSE /\ Goto(q, "write")
                      /\ child' = child \ {q}
                      /\ UNCHANGED <<expired, worktree>>

\* _freeze_checkout, and the checkout is handed to the caller.
Freeze(q) ==
    /\ call[q].step = "write"
    /\ call[q].entry = Len(call[q].tree)
    /\ Goto(q, "use")
    /\ worktree' = [worktree EXCEPT ![call[q].run].frozen = TRUE]
    /\ UNCHANGED <<expired, child>>

\* The caller's block ends, normally or by an exception.
Leave(q) ==
    /\ call[q].step = "use"
    /\ Goto(q, "cleanup")
    /\ UNCHANGED <<expired, child, worktree>>

\* _remove_run_directory, reached only with created_run; it may fail and leave
\* the directory.
RemoveRunDirectory(q) ==
    /\ call[q].step = "cleanup"
    /\ \/ Goto(q, "done") /\ worktree' = [worktree EXCEPT ![call[q].run] = NoTree]
       \/ Goto(q, "left") /\ UNCHANGED worktree
    /\ UNCHANGED <<expired, child>>

Expire(q) ==
    /\ q \notin expired
    /\ expired' = expired \cup {q}
    /\ UNCHANGED <<call, child, worktree>>

\* The worker is killed: no finally clause runs, its git process reads on
\* until its pipe breaks.
Killed(q) ==
    /\ Running(q) \/ call[q].step \in {"use", "cleanup"}
    /\ Goto(q, "killed")
    /\ UNCHANGED <<expired, child, worktree>>

CheckoutNext ==
    \E q \in Requests :
        \/ Prepare(q) \/ MakeRunDirectory(q)
        \/ CheckBoundary(q) \/ CheckCommit(q) \/ ListTree(q)
        \/ OpenEntry(q) \/ ReadChunk(q) \/ Freeze(q) \/ Leave(q)
        \/ RemoveRunDirectory(q) \/ Expire(q) \/ Killed(q)

CheckoutSpec == CheckoutInit /\ [][CheckoutNext]_checkoutVars

----------------------------------------------------------------------------
(***************************************************************************)
(* Properties.                                                              *)
(***************************************************************************)
\* What two entries may not do on a file system that folds names: a file may
\* not be another's file or directory, and a directory has one spelling.
PortablyDistinct(tree) ==
    \A i, j \in DOMAIN tree : i < j =>
        \A n \in 1..Len(tree[i].path), m \in 1..Len(tree[j].path) :
            LET p == SubSeq(tree[i].path, 1, n)
                q == SubSeq(tree[j].path, 1, m)
            IN  Key(p) = Key(q) =>
                    p = q /\ n < Len(tree[i].path) /\ m < Len(tree[j].path)

\* The checkout a caller works on is its own, holds every entry of the commit
\* with its declared size under a name no other entry shares on a case-folding
\* file system, and is read-only, whatever other requests, deadlines and kills
\* do meanwhile (checkout.py:193-241).
UsedCheckoutIsWhole ==
    \A q \in Requests : call[q].step = "use" =>
        LET d == worktree[call[q].run]
            t == call[q].tree
        IN  /\ d # NoTree /\ d.by = q /\ d.frozen
            /\ [i \in DOMAIN d.files |-> <<d.files[i].path, d.files[i].bytes>>]
                   = [i \in DOMAIN t |-> <<t[i].path, t[i].size>>]
            /\ PortablyDistinct(t)
=============================================================================
