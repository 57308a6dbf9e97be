------------------------------ MODULE Documents ------------------------------
(***************************************************************************)
(* One internal document and its versions (document_service.py).  Ordinary  *)
(* edits append history; a correction replaces the document and purges its  *)
(* history, forgetting deletes both, and these two are bound to a preview.  *)
(*                                                                         *)
(* A request is one READ COMMITTED transaction.  A title or a body is the   *)
(* stamp of the transaction that wrote it: contents are told apart by who   *)
(* wrote them.  Stamps are also what now() returns, the transaction's start,*)
(* and no two transactions start at the same microsecond.                   *)
(***************************************************************************)
EXTENDS Integers, FiniteSets, FiniteSetsExt

CONSTANTS
    Handlers,       \* requests
    MaxStamp        \* bound: transactions that write

Absent == [exists |-> FALSE]        \* not yet created
Forgotten == [exists |-> FALSE, gone |-> TRUE]

VARIABLES
    document,   \* documents: the row
    versions,   \* document_versions: its rows
    stamp,      \* the newest transaction start
    request,    \* requests under way
    purged      \* contents that a correction or forgetting removed

documentVars == <<document, versions, stamp, request, purged>>

IdleRequest == [pc |-> "idle"]

DocumentsInit ==
    /\ document = Absent /\ versions = {}
    /\ stamp = 0
    /\ request = [h \in Handlers |-> IdleRequest]
    /\ purged = {}

Starts == stamp < MaxStamp /\ stamp' = stamp + 1

End(h) == request' = [request EXCEPT ![h] = IdleRequest]

\* _append_document_version: a snapshot of the document as the session knows it
Version(rows, doc) ==
    [number |-> 1 + Max({v.number : v \in rows} \cup {0}), title |-> doc.title, body |-> doc.body]

Create(h) ==
    /\ request[h] = IdleRequest /\ document = Absent
    /\ Starts
    /\ document' = [exists |-> TRUE, title |-> stamp', body |-> stamp', at |-> stamp']
    /\ versions' = {Version({}, document')}
    /\ UNCHANGED <<request, purged>>

----------------------------------------------------------------------------
(***************************************************************************)
(* An ordinary edit loads the row without a lock.  Its UPDATE names only    *)
(* the columns that differ from what it loaded, and the row lock the UPDATE *)
(* takes is held until the commit.                                         *)
(***************************************************************************)
BeginEdit(h, fields) ==
    /\ request[h] = IdleRequest /\ document.exists
    /\ Starts
    /\ request' = [request EXCEPT ![h] =
            [pc |-> "loaded", loaded |-> document, fields |-> fields, now |-> stamp']]
    /\ UNCHANGED <<document, versions, purged>>

Edited(doc, fields, now) ==
    [doc EXCEPT !.title = IF "title" \in fields THEN now ELSE @,
                !.body = IF "body" \in fields THEN now ELSE @,
                !.at = now]

\* update_document after the load: nothing to change, or the row is gone and
\* the flush fails, or the row and a version of the session's copy are written.
FinishEdit(h) ==
    LET r == request[h] IN
    /\ r.pc = "loaded"
    /\ IF document.exists /\ r.fields # {}
       THEN /\ document' = Edited(document, r.fields, r.now)
            /\ versions' = versions \cup {Version(versions, Edited(r.loaded, r.fields, r.now))}
       ELSE UNCHANGED <<document, versions>>
    /\ End(h)
    /\ UNCHANGED <<stamp, purged>>

----------------------------------------------------------------------------
(***************************************************************************)
(* The preview reads the row and counts the versions in two statements.     *)
(***************************************************************************)
BeginPreview(h) ==
    /\ request[h] = IdleRequest /\ document.exists
    /\ request' = [request EXCEPT ![h] = [pc |-> "previewing", shown |-> document]]
    /\ UNCHANGED <<document, versions, stamp, purged>>

EndPreview(h) ==
    /\ request[h].pc = "previewing"
    /\ request' = [request EXCEPT ![h] =
            [pc |-> "previewed", shown |-> @.shown, count |-> Cardinality(versions), saw |-> versions]]
    /\ UNCHANGED <<document, versions, stamp, purged>>

Discard(h) ==
    /\ request[h].pc = "previewed"
    /\ End(h)
    /\ UNCHANGED <<document, versions, stamp, purged>>

\* Mutant: only the number of versions is compared.
CountedAsExpected(preview) == Cardinality(versions) = preview.count

\* _assert_memory_expectation, on the locked row
AsExpected(preview) ==
    document.at = preview.shown.at /\ Cardinality(versions) = preview.count

Contents == {document.title, document.body} \cup UNION {{v.title, v.body} : v \in versions}

Purges(h) ==
    /\ request[h].pc = "previewed" /\ document.exists
    /\ AsExpected(request[h])
    /\ purged' = purged \cup Contents
    /\ End(h)

\* correct_document_and_forget_history; updated_at is the clock of the process
Correct(h) ==
    /\ Purges(h)
    /\ Starts
    /\ document' = [exists |-> TRUE, title |-> stamp', body |-> stamp', at |-> stamp']
    /\ versions' = {Version({}, document')}

\* forget_document_memory: the versions go with the row
Forget(h) ==
    /\ Purges(h)
    /\ document' = Forgotten /\ versions' = {}
    /\ UNCHANGED stamp

\* A refused correction or forgetting shows the conflict; the preview is read
\* again.
Conflict(h) ==
    /\ request[h].pc = "previewed"
    /\ ~(document.exists /\ AsExpected(request[h]))
    /\ End(h)
    /\ UNCHANGED <<document, versions, stamp, purged>>

DocumentsNext ==
    \E h \in Handlers :
        \/ Create(h) \/ FinishEdit(h)
        \/ \E fields \in SUBSET {"title", "body"} : BeginEdit(h, fields)
        \/ BeginPreview(h) \/ EndPreview(h) \/ Discard(h)
        \/ Correct(h) \/ Forget(h) \/ Conflict(h)

DocumentsSpec == DocumentsInit /\ [][DocumentsNext]_documentVars

----------------------------------------------------------------------------
\* What is purged is what the preview showed: no version that was appended,
\* and no correction that was made, after or while the preview was read is lost
\* to a purge that was confirmed on it (document_service.py:273-399, 538).
PurgesOnlyPreviewed ==
    [][\A h \in Handlers :
        (request[h].pc = "previewed" /\ versions \ versions' # {} /\ request'[h] # request[h])
            => request[h].shown = document /\ request[h].saw = versions]_documentVars

\* A correction leaves one canonical version: no version holds a title or a
\* body that a purge removed (docs/DECISIONS.md:3576-3579,
\* document_service.py:472).
PurgedStaysPurged == \A v \in versions : {v.title, v.body} \cap purged = {}
=============================================================================
