--------------------------- MODULE WorkspaceProofs --------------------------
(****************************************************************************)
(* What members do in a workspace, for any number of requests and rows: a   *)
(* purge takes only what its preview showed, the assistant never runs on    *)
(* settings that no check passed with and shows only answers that are       *)
(* supported, a decision about the company world rests on what was shown, an*)
(* import pairs every record with its task, a follow-up is not proposed     *)
(* twice, and what a member acknowledges is what the member was shown.      *)
(****************************************************************************)
EXTENDS Documents, AISettings, Assistant, CompanyWorld, LocalImports, Briefings, Headquarters,
        FiniteSetTheorems, StepwiseRecursion, TLAPS

-----------------------------------------------------------------------------
(* Documents.                                                              *)

DocumentRows == [exists : {TRUE}, title : Nat, body : Nat, at : Nat]

\* The row, its versions, and the clock that no updated_at is ahead of.
RowInv ==
    /\ stamp \in Nat
    /\ document \in {Absent, Forgotten} \cup DocumentRows
    /\ document.exists => document \in DocumentRows /\ document.at <= stamp
    /\ IsFiniteSet(versions)

Shows(h) == request[h].pc \in {"previewing", "previewed"}

\* An edit under way will write a time that nobody else writes, and that no
\* preview has seen.
EditInv(h) ==
    request[h].pc = "loaded" =>
        /\ request[h].now \in Nat /\ request[h].now <= stamp
        /\ document.exists => document.at # request[h].now
        /\ \A g \in Handlers :
              /\ g # h /\ request[g].pc = "loaded" => request[g].now # request[h].now
              /\ Shows(g) => request[g].shown.at # request[h].now

\* As long as the row has the time that a preview saw, it is the row that the
\* preview saw, and no version that was counted is gone.
PreviewInv(h) ==
    /\ Shows(h) =>
          /\ request[h].shown \in DocumentRows /\ request[h].shown.at <= stamp
          /\ document.exists /\ document.at = request[h].shown.at => document = request[h].shown
    /\ request[h].pc = "previewed" =>
          /\ request[h].count = Cardinality(request[h].saw)
          /\ document.exists /\ document.at = request[h].shown.at => request[h].saw \subseteq versions

DocInv ==
    /\ RowInv
    /\ request = [h \in Handlers |-> request[h]]
    /\ \A h \in Handlers : EditInv(h) /\ PreviewInv(h)

-----------------------------------------------------------------------------
LEMMA DocumentsInitHolds == DocumentsInit => DocInv
<1> SUFFICES ASSUME DocumentsInit PROVE DocInv
  OBVIOUS
<1>1. ~document.exists
  BY DEF DocumentsInit, Absent
<1>2. RowInv
  BY <1>1, FS_EmptySet DEF DocumentsInit, RowInv
<1>3. \A h \in Handlers : request[h].pc = "idle"
  BY DEF DocumentsInit, IdleRequest
<1>4. request = [h \in Handlers |-> request[h]]
  BY DEF DocumentsInit
<1>5. \A h \in Handlers : EditInv(h) /\ PreviewInv(h)
  BY <1>3 DEF EditInv, PreviewInv, Shows
<1>6. QED
  BY <1>2, <1>4, <1>5 DEF DocInv

\* A request that ends, or was idle, asks nothing of the others.
LEMMA IdlePc == IdleRequest.pc = "idle"
BY DEF IdleRequest

\* A transaction that starts now writes a time that is new.
LEMMA NewRow ==
    ASSUME DocInv, Starts, NEW g \in Handlers,
           \/ UNCHANGED request
           \/ request' = [request EXCEPT ![g] = IdleRequest],
           document' = [exists |-> TRUE, title |-> stamp', body |-> stamp', at |-> stamp'],
           versions' = {Version({}, document')}
    PROVE  DocInv'
<1>1. stamp \in Nat /\ stamp' = stamp + 1
  BY DEF DocInv, RowInv, Starts
<1>2. document' \in DocumentRows /\ document'.at = stamp' /\ document'.exists
  BY <1>1 DEF DocumentRows
<1>3. RowInv'
  <2>1. IsFiniteSet(versions')
    BY FS_Singleton
  <2>2. stamp' \in Nat /\ document'.at <= stamp'
    BY <1>1, <1>2
  <2>3. QED
    BY <1>2, <2>1, <2>2 DEF RowInv
<1>4. request' = [h \in Handlers |-> request'[h]]
  BY DEF DocInv
<1>5. \A h \in Handlers : request'[h] = request[h] \/ request'[h].pc = "idle"
  BY IdlePc DEF DocInv
<1>6. ASSUME NEW h \in Handlers PROVE EditInv(h)'
  BY <1>1, <1>2, <1>5 DEF DocInv, EditInv, Shows
<1>7. ASSUME NEW h \in Handlers PROVE PreviewInv(h)'
  <2>1. Shows(h)' => /\ request'[h] = request[h] /\ Shows(h)
                     /\ request[h].shown \in DocumentRows /\ request[h].shown.at <= stamp
    BY <1>5 DEF DocInv, PreviewInv, Shows
  <2>2. Shows(h)' => request'[h].shown.at # stamp' /\ request'[h].shown.at <= stamp'
    <3>1. ASSUME Shows(h)' PROVE request[h].shown.at \in Nat /\ request[h].shown.at <= stamp
      BY <2>1, <3>1 DEF DocumentRows
    <3>2. QED
      BY <1>1, <2>1, <3>1
  <2>3. request'[h].pc = "previewed" => request'[h].count = Cardinality(request'[h].saw)
    BY <1>5 DEF DocInv, PreviewInv
  <2>4. QED
    BY <1>2, <2>1, <2>2, <2>3 DEF PreviewInv, Shows
<1>8. QED
  BY <1>3, <1>4, <1>6, <1>7 DEF DocInv

\* A request that ends leaves the rest as it was.
LEMMA RequestEndKeeps ==
    ASSUME DocInv, NEW g \in Handlers, End(g), UNCHANGED <<document, versions, stamp>>
    PROVE  DocInv'
<1>1. RowInv'
  BY DEF DocInv, RowInv
<1>2. request' = [h \in Handlers |-> request'[h]]
  BY DEF DocInv, End
<1>3. \A h \in Handlers : request'[h] = request[h] \/ request'[h].pc = "idle"
  BY IdlePc DEF DocInv, End
<1>4. \A h \in Handlers : EditInv(h)' /\ PreviewInv(h)'
  BY <1>3 DEF DocInv, EditInv, PreviewInv, Shows
<1>5. QED
  BY <1>1, <1>2, <1>4 DEF DocInv

LEMMA BeginEditKeeps ==
    ASSUME DocInv, NEW g \in Handlers, NEW fields, BeginEdit(g, fields)
    PROVE  DocInv'
<1>1. /\ stamp \in Nat /\ stamp' = stamp + 1 /\ document.exists
      /\ UNCHANGED <<document, versions>>
  BY DEF DocInv, RowInv, BeginEdit, Starts
<1>2. /\ request' = [h \in Handlers |-> request'[h]]
      /\ request'[g].pc = "loaded" /\ request'[g].now = stamp'
      /\ \A h \in Handlers \ {g} : request'[h] = request[h]
  BY DEF DocInv, BeginEdit
<1>3. document \in DocumentRows /\ document.at \in Nat /\ document.at <= stamp
  BY <1>1 DEF DocInv, RowInv, DocumentRows
<1>4. RowInv'
  BY <1>1, <1>3 DEF DocInv, RowInv
<1>5. \A h \in Handlers : Shows(h) => /\ request[h].shown \in DocumentRows
                                      /\ request[h].shown.at \in Nat
                                      /\ request[h].shown.at <= stamp
  BY DEF DocInv, PreviewInv, DocumentRows
<1>6. ASSUME NEW h \in Handlers PROVE EditInv(h)'
  <2>1. CASE h = g
    BY <2>1, <1>1, <1>2, <1>3, <1>5 DEF DocInv, EditInv, Shows
  <2>2. CASE h # g
    BY <2>2, <1>1, <1>2 DEF DocInv, EditInv, Shows
  <2>3. QED
    BY <2>1, <2>2
<1>7. ASSUME NEW h \in Handlers PROVE PreviewInv(h)'
  <2>1. CASE h = g
    BY <2>1, <1>2 DEF PreviewInv, Shows
  <2>2. CASE h # g
    <3>1. request'[h] = request[h] /\ PreviewInv(h)
      BY <2>2, <1>2 DEF DocInv
    <3>2. QED
      BY <3>1, <1>1, <1>5 DEF PreviewInv, Shows
  <2>3. QED
    BY <2>1, <2>2
<1>8. QED
  BY <1>2, <1>4, <1>6, <1>7 DEF DocInv

\* An edit writes its own time, so it is no preview's, and only adds a version.
LEMMA FinishEditKeeps ==
    ASSUME DocInv, NEW g \in Handlers, FinishEdit(g)
    PROVE  DocInv'
<1>1. CASE UNCHANGED <<document, versions>>
  BY <1>1, RequestEndKeeps DEF FinishEdit
<1>2. CASE document.exists /\ request[g].fields # {}
  <2> DEFINE r == request[g]
             new == Edited(r.loaded, r.fields, r.now)
  <2>1. /\ r.pc = "loaded" /\ End(g) /\ stamp' = stamp
        /\ document' = Edited(document, r.fields, r.now)
        /\ versions' = versions \cup {Version(versions, new)}
    BY <1>2 DEF FinishEdit
  <2>2. document \in DocumentRows /\ r.now \in Nat /\ r.now <= stamp /\ stamp \in Nat
    BY <1>2, <2>1 DEF DocInv, RowInv, EditInv
  <2>3. document' \in DocumentRows /\ document'.at = r.now /\ document'.exists
    BY <2>1, <2>2 DEF Edited, DocumentRows
  <2>4. IsFiniteSet(versions') /\ versions \subseteq versions'
    BY <2>1, FS_AddElement DEF DocInv, RowInv
  <2>5. RowInv'
    BY <2>1, <2>2, <2>3, <2>4 DEF RowInv
  <2>6. /\ request' = [h \in Handlers |-> request'[h]]
        /\ request'[g].pc = "idle"
        /\ \A h \in Handlers \ {g} : request'[h] = request[h]
    BY <2>1, IdlePc DEF DocInv, End
  <2>7. \A h \in Handlers : Shows(h) => request[h].shown.at # r.now
    BY <2>1 DEF DocInv, EditInv
  <2>8. \A h \in Handlers \ {g} : request[h].pc = "loaded" => request[h].now # r.now
    BY <2>1 DEF DocInv, EditInv
  <2> HIDE DEF r, new
  <2>9. ASSUME NEW h \in Handlers PROVE EditInv(h)'
    <3>1. CASE h = g
      BY <3>1, <2>6 DEF EditInv
    <3>2. CASE h # g
      BY <3>2, <2>1, <2>3, <2>6, <2>8 DEF DocInv, EditInv, Shows
    <3>3. QED
      BY <3>1, <3>2
  <2>10. ASSUME NEW h \in Handlers PROVE PreviewInv(h)'
    <3>1. CASE h = g
      BY <3>1, <2>6 DEF PreviewInv, Shows
    <3>2. CASE h # g
      <4>1. request'[h] = request[h] /\ PreviewInv(h)
        BY <3>2, <2>6 DEF DocInv
      <4>2. QED
        BY <4>1, <2>1, <2>3, <2>7 DEF PreviewInv, Shows
    <3>3. QED
      BY <3>1, <3>2
  <2>11. QED
    BY <2>5, <2>6, <2>9, <2>10 DEF DocInv
<1>3. QED
  BY <1>1, <1>2 DEF FinishEdit

\* The steps of a preview: the row as it is, then the versions as they are.
LEMMA PreviewKeeps ==
    ASSUME DocInv, NEW g \in Handlers, BeginPreview(g) \/ EndPreview(g)
    PROVE  DocInv'
<1>1. UNCHANGED <<document, versions, stamp>>
  BY DEF BeginPreview, EndPreview
<1>2. /\ request' = [h \in Handlers |-> request'[h]]
      /\ \A h \in Handlers \ {g} : request'[h] = request[h]
      /\ Shows(g)'
      /\ \/ request'[g].shown = document /\ document.exists
         \/ request'[g].shown = request[g].shown /\ Shows(g)
      /\ request'[g].pc = "previewed" =>
            request'[g].saw = versions /\ request'[g].count = Cardinality(versions)
  BY DEF DocInv, BeginPreview, EndPreview, Shows
<1>3. RowInv'
  BY <1>1 DEF DocInv, RowInv
<1>4. ASSUME NEW h \in Handlers PROVE EditInv(h)'
  <2>1. CASE h = g
    BY <2>1, <1>2 DEF EditInv, Shows
  <2>2. CASE h # g
    <3>1. request'[h] = request[h] /\ EditInv(h)
      BY <2>2, <1>2 DEF DocInv
    <3>2. request[h].pc = "loaded" => request'[g].shown.at # request[h].now
      BY <3>1, <1>2 DEF EditInv
    <3>3. QED
      BY <3>1, <3>2, <1>1, <1>2 DEF EditInv, Shows
  <2>3. QED
    BY <2>1, <2>2
<1>5. ASSUME NEW h \in Handlers PROVE PreviewInv(h)'
  <2>1. CASE h = g
    BY <2>1, <1>1, <1>2 DEF DocInv, RowInv, PreviewInv, Shows
  <2>2. CASE h # g
    BY <2>2, <1>1, <1>2 DEF DocInv, PreviewInv, Shows
  <2>3. QED
    BY <2>1, <2>2
<1>6. QED
  BY <1>2, <1>3, <1>4, <1>5 DEF DocInv

LEMMA ForgetKeeps ==
    ASSUME DocInv, NEW g \in Handlers, Forget(g)
    PROVE  DocInv'
<1>1. ~document'.exists /\ document' = Forgotten /\ versions' = {} /\ stamp' = stamp
  BY DEF Forget, Forgotten
<1>2. RowInv'
  BY <1>1, FS_EmptySet DEF DocInv, RowInv
<1>3. /\ request' = [h \in Handlers |-> request'[h]]
      /\ \A h \in Handlers : request'[h] = request[h] \/ request'[h].pc = "idle"
  BY IdlePc DEF DocInv, Forget, Purges, End
<1>4. \A h \in Handlers : EditInv(h)' /\ PreviewInv(h)'
  BY <1>1, <1>3 DEF DocInv, EditInv, PreviewInv, Shows
<1>5. QED
  BY <1>2, <1>3, <1>4 DEF DocInv

LEMMA DocStep == DocInv /\ [DocumentsNext]_documentVars => DocInv'
<1> SUFFICES ASSUME DocInv, [DocumentsNext]_documentVars PROVE DocInv'
  OBVIOUS
<1>1. CASE UNCHANGED documentVars
  BY <1>1 DEF documentVars, DocInv, RowInv, EditInv, PreviewInv, Shows
<1>2. ASSUME NEW g \in Handlers, Create(g) PROVE DocInv'
  BY <1>2, NewRow DEF Create
<1>3. ASSUME NEW g \in Handlers, Correct(g) PROVE DocInv'
  BY <1>3, NewRow DEF Correct, Purges, End
<1>4. ASSUME NEW g \in Handlers, Discard(g) \/ Conflict(g) PROVE DocInv'
  BY <1>4, RequestEndKeeps DEF Discard, Conflict
<1>5. QED
  BY <1>1, <1>2, <1>3, <1>4, BeginEditKeeps, FinishEditKeeps, PreviewKeeps, ForgetKeeps
     DEF DocumentsNext

-----------------------------------------------------------------------------
\* A purge that passes the comparison of time and number loses what it showed.
LEMMA PurgedIsShown ==
    ASSUME DocInv, NEW h \in Handlers, Purges(h)
    PROVE  request[h].shown = document /\ request[h].saw = versions
<1>1. /\ document.exists /\ request[h].pc = "previewed"
      /\ document.at = request[h].shown.at /\ Cardinality(versions) = request[h].count
  BY DEF Purges, AsExpected
<1>2. /\ document = request[h].shown /\ request[h].saw \subseteq versions
      /\ Cardinality(request[h].saw) = Cardinality(versions)
  BY <1>1 DEF DocInv, PreviewInv, Shows
<1>3. request[h].saw = versions
  BY <1>2, FS_Subset DEF DocInv, RowInv
<1>4. QED
  BY <1>2, <1>3

\* No version and no correction that a member did not see in the preview is
\* lost to the purge that the preview led to.
THEOREM PurgesOnlyPreviewedTheorem == DocumentsSpec => PurgesOnlyPreviewed
<1> DEFINE Step(h) ==
        (request[h].pc = "previewed" /\ versions \ versions' # {} /\ request'[h] # request[h])
            => request[h].shown = document /\ request[h].saw = versions
<1>1. DocInv /\ [DocumentsNext]_documentVars => [\A h \in Handlers : Step(h)]_documentVars
  <2> SUFFICES ASSUME DocInv, DocumentsNext, NEW h \in Handlers, request[h].pc = "previewed",
                      versions \ versions' # {}, request'[h] # request[h]
               PROVE  request[h].shown = document /\ request[h].saw = versions
    OBVIOUS
  <2>1. ASSUME NEW g \in Handlers, End(g) PROVE g = h
    BY <2>1 DEF End, DocInv
  <2>2. ASSUME NEW g \in Handlers, Correct(g) \/ Forget(g) PROVE g = h /\ Purges(h)
    BY <2>1, <2>2 DEF Correct, Forget, Purges
  <2>3. \A g \in Handlers :
            /\ ~Create(g) /\ ~BeginPreview(g) /\ ~EndPreview(g) /\ ~Discard(g) /\ ~Conflict(g)
            /\ \A fields : ~BeginEdit(g, fields)
    BY DEF Create, BeginPreview, EndPreview, Discard, Conflict, BeginEdit
  <2>4. \A g \in Handlers : ~FinishEdit(g)
    BY <2>1 DEF FinishEdit
  <2>5. QED
    BY <2>2, <2>3, <2>4, PurgedIsShown DEF DocumentsNext
<1>2. QED
  BY <1>1, DocumentsInitHolds, DocStep, PTL DEF DocumentsSpec, PurgesOnlyPreviewed

-----------------------------------------------------------------------------
(* AI settings.                                                            *)

AIKeys == Nat \cup {NoKey}

Fingerprints == AIKeys \X ModelChoices \X BOOLEAN

Receipts == [status : {"passed", "failed"}, of : Fingerprints]

SettingsRows ==
    [version : Nat \ {0}, key : AIKeys, choice : ModelChoices,
     acknowledged : BOOLEAN, enabled : BOOLEAN, check : {NoCheck} \cup Receipts]

CheckerStates ==
    {IdleChecker} \cup [pc : {"answered"}, version : Nat \ {0}, receipt : Receipts]

AITypeOK ==
    /\ settings \in {NoSettings} \cup SettingsRows
    /\ checker \in [Checkers -> CheckerStates]

\* A receipt that is stored is about the settings it is stored with.
StoredIsCurrent ==
    Exists /\ settings.check # NoCheck => settings.check.of = Fingerprint(settings)

\* A check under way read these settings, or settings with an older version.
ReadIsCurrent(c) ==
    checker[c] # IdleChecker =>
        /\ Exists
        /\ checker[c].version <= settings.version
        /\ checker[c].version = settings.version =>
              checker[c].receipt.of = Fingerprint(settings)

AIInv == AITypeOK /\ StoredIsCurrent /\ \A c \in Checkers : ReadIsCurrent(c)

-----------------------------------------------------------------------------
\* Neither an idle check nor an absent row is a row or an answer.
LEMMA Absences ==
    /\ NoSettings.version = 0
    /\ \A s \in SettingsRows : s.version \in Nat /\ s.version > 0
    /\ \A r \in Receipts : r # NoCheck /\ r.status \in {"passed", "failed"}
BY DEF NoSettings, SettingsRows, Receipts, NoCheck

LEMMA SettingsInitHolds == AIInit => AIInv
BY DEF AIInit, AIInv, AITypeOK, CheckerStates, StoredIsCurrent, ReadIsCurrent, Exists, NoSettings

\* Settings that are new are older than no check: nothing under way is about them.
LEMMA NewVersion ==
    ASSUME AIInv, settings' \in SettingsRows, UNCHANGED checker,
           settings'.version = settings.version + 1, NEW c \in Checkers
    PROVE  ReadIsCurrent(c)'
<1>1. CASE checker[c] = IdleChecker
  BY <1>1 DEF ReadIsCurrent
<1>2. CASE checker[c] # IdleChecker
  <2>1. checker[c].version \in Nat /\ settings.version \in Nat
    BY <1>2, Absences DEF AIInv, AITypeOK, CheckerStates
  <2>2. checker[c].version <= settings.version
    BY <1>2 DEF AIInv, ReadIsCurrent
  <2>3. QED
    BY <2>1, <2>2 DEF ReadIsCurrent, Exists
<1>3. QED
  BY <1>1, <1>2

\* Saving keeps a receipt only with the settings it is about.
LEMMA SettingsSaveKeeps ==
    ASSUME AIInv, NEW key \in BOOLEAN, NEW choice \in ModelChoices,
           NEW acknowledged \in BOOLEAN, NEW enabled \in BOOLEAN,
           Save(key, choice, acknowledged, enabled)
    PROVE  AIInv'
<1> DEFINE k == IF key THEN settings.version + 1
                ELSE IF Exists THEN settings.key ELSE NoKey
           same == Exists /\ <<k, choice, acknowledged>> = Fingerprint(settings)
           kept == IF same THEN settings.check ELSE NoCheck
<1>1. settings.version \in Nat /\ (Exists <=> settings \in SettingsRows)
  BY Absences DEF AIInv, AITypeOK, Exists
<1>2. settings' = [version |-> settings.version + 1, key |-> k, choice |-> choice,
                   acknowledged |-> acknowledged, enabled |-> enabled, check |-> kept]
  BY DEF Save, Fingerprint
<1>3. k \in AIKeys
  BY <1>1 DEF AIKeys, SettingsRows
<1>4. kept \in {NoCheck} \cup Receipts
  BY <1>1 DEF SettingsRows
<1> HIDE DEF k, kept, same
<1>5. settings' \in SettingsRows
  BY <1>1, <1>2, <1>3, <1>4 DEF SettingsRows
<1>6. UNCHANGED checker /\ settings'.version = settings.version + 1
  BY <1>2 DEF Save
<1>7. AITypeOK'
  BY <1>5, <1>6 DEF AIInv, AITypeOK
<1>8. StoredIsCurrent'
  <2>1. Fingerprint(settings)' = <<k, choice, acknowledged>>
    BY <1>2 DEF Fingerprint
  <2>2. CASE same
    BY <2>1, <2>2, <1>2 DEF same, kept, AIInv, StoredIsCurrent
  <2>3. CASE ~same
    BY <2>3, <1>2 DEF kept, StoredIsCurrent
  <2>4. QED
    BY <2>2, <2>3
<1>9. \A c \in Checkers : ReadIsCurrent(c)'
  BY <1>5, <1>6, NewVersion
<1>10. QED
  BY <1>7, <1>8, <1>9 DEF AIInv

LEMMA RemoveKeeps ==
    ASSUME AIInv, RemoveCredential
    PROVE  AIInv'
<1>1. settings \in SettingsRows
  BY Absences DEF AIInv, AITypeOK, RemoveCredential, Exists
<1>2. settings' \in SettingsRows /\ settings'.check = NoCheck
  <2>1. settings' = [version |-> settings.version + 1, key |-> NoKey,
                     choice |-> settings.choice, acknowledged |-> FALSE,
                     enabled |-> FALSE, check |-> NoCheck]
    BY <1>1 DEF RemoveCredential, SettingsRows
  <2>2. settings.version + 1 \in Nat \ {0} /\ settings.choice \in ModelChoices
    BY <1>1 DEF SettingsRows
  <2>3. QED
    BY <2>1, <2>2 DEF SettingsRows, AIKeys
<1>3. UNCHANGED checker /\ settings'.version = settings.version + 1
  BY <1>1 DEF RemoveCredential, SettingsRows
<1>4. \A c \in Checkers : ReadIsCurrent(c)'
  BY <1>2, <1>3, NewVersion
<1>5. QED
  BY <1>2, <1>3, <1>4 DEF AIInv, AITypeOK, StoredIsCurrent

\* A check reads the settings that are there.
LEMMA CheckKeeps ==
    ASSUME AIInv, NEW c \in Checkers, NEW status \in {"passed", "failed"}, Check(c, status)
    PROVE  AIInv'
<1> DEFINE answer == [pc |-> "answered", version |-> settings.version,
                      receipt |-> [status |-> status, of |-> Fingerprint(settings)]]
<1>1. settings \in SettingsRows
  BY Absences DEF AIInv, AITypeOK, Check, Exists
<1>2. Fingerprint(settings) \in Fingerprints
  BY <1>1 DEF Fingerprint, Fingerprints, SettingsRows
<1>3. answer \in CheckerStates
  BY <1>1, <1>2 DEF CheckerStates, Receipts, SettingsRows
<1>4. checker' = [checker EXCEPT ![c] = answer] /\ UNCHANGED settings
  BY DEF Check
<1>5. AITypeOK'
  BY <1>3, <1>4 DEF AIInv, AITypeOK
<1>6. StoredIsCurrent'
  BY <1>4 DEF AIInv, StoredIsCurrent, Exists, Fingerprint
<1>7. ASSUME NEW d \in Checkers PROVE ReadIsCurrent(d)'
  <2>1. CASE d = c
    <3>1. checker'[d] = answer
      BY <2>1, <1>4 DEF AIInv, AITypeOK
    <3>2. Exists /\ settings.version \in Nat
      BY <1>1, Absences DEF Check
    <3>3. QED
      BY <3>1, <3>2, <1>4 DEF ReadIsCurrent, Exists, Fingerprint
  <2>2. CASE d # c
    <3>1. checker'[d] = checker[d]
      BY <2>2, <1>4 DEF AIInv, AITypeOK
    <3>2. QED
      BY <3>1, <1>4 DEF AIInv, ReadIsCurrent, Exists, Fingerprint
  <2>3. QED
    BY <2>1, <2>2
<1>8. QED
  BY <1>5, <1>6, <1>7 DEF AIInv

\* A check that ends leaves the settings alone, or stores what it read of them.
LEMMA EndKeeps ==
    ASSUME AIInv, NEW c \in Checkers, FinishCheck(c) \/ LoseCheck(c)
    PROVE  AIInv'
<1>1. checker[c] # IdleChecker
  BY DEF FinishCheck, LoseCheck, IdleChecker
<1>2. settings \in SettingsRows /\ checker[c].receipt \in Receipts
  BY <1>1, Absences DEF AIInv, AITypeOK, ReadIsCurrent, Exists, CheckerStates
<1>3. checker' = [checker EXCEPT ![c] = IdleChecker]
  BY DEF FinishCheck, LoseCheck
<1>4. \/ settings' = settings
      \/ /\ settings' = [settings EXCEPT !.check = checker[c].receipt]
         /\ checker[c].version = settings.version
  BY DEF FinishCheck, LoseCheck
<1>5. settings' \in SettingsRows
  BY <1>2, <1>4 DEF SettingsRows
<1>6. Fingerprint(settings)' = Fingerprint(settings) /\ settings'.version = settings.version
  BY <1>2, <1>4 DEF Fingerprint, SettingsRows
<1>7. AITypeOK'
  BY <1>3, <1>5 DEF AIInv, AITypeOK, CheckerStates
<1>8. StoredIsCurrent'
  <2>1. CASE settings' = settings
    BY <2>1 DEF AIInv, StoredIsCurrent, Exists, Fingerprint
  <2>2. CASE /\ settings' = [settings EXCEPT !.check = checker[c].receipt]
             /\ checker[c].version = settings.version
    <3>1. settings'.check = checker[c].receipt
      BY <2>2, <1>2 DEF SettingsRows
    <3>2. checker[c].receipt.of = Fingerprint(settings)
      BY <2>2, <1>1 DEF AIInv, ReadIsCurrent
    <3>3. QED
      BY <3>1, <3>2, <1>6 DEF StoredIsCurrent
  <2>3. QED
    BY <1>4, <2>1, <2>2
<1>9. ASSUME NEW d \in Checkers PROVE ReadIsCurrent(d)'
  <2>1. checker'[d] = IdleChecker \/ checker'[d] = checker[d]
    BY <1>3 DEF AIInv, AITypeOK
  <2>2. QED
    BY <2>1, <1>6 DEF AIInv, ReadIsCurrent, Exists
<1>10. QED
  BY <1>7, <1>8, <1>9 DEF AIInv

-----------------------------------------------------------------------------
\* Whatever is saved, removed or lost while a provider answers a check, the
\* assistant is ready only with settings that a check passed with.
THEOREM VerifiedIsCurrentTheorem == AISpec => []VerifiedIsCurrent
<1>1. AIInv /\ [AINext]_aiVars => AIInv'
  <2>1. ASSUME AIInv, AINext PROVE AIInv'
    BY <2>1, SettingsSaveKeeps, RemoveKeeps, CheckKeeps, EndKeeps DEF AINext
  <2>2. ASSUME AIInv, UNCHANGED aiVars PROVE AIInv'
    BY <2>2 DEF aiVars, AIInv, AITypeOK, StoredIsCurrent, ReadIsCurrent, Exists, Fingerprint
  <2>3. QED
    BY <2>1, <2>2
<1>2. AIInv => VerifiedIsCurrent
  BY Absences DEF AIInv, StoredIsCurrent, VerifiedIsCurrent, RuntimeReady, NoCheck
<1>3. QED
  BY <1>1, <1>2, SettingsInitHolds, PTL DEF AISpec

-----------------------------------------------------------------------------
(* The assistant.                                                          *)

\* A list stays within its limit and loses nothing when it is extended.
LEMMA ExtendedIs ==
    ASSUME NEW C, NEW list \in Seq(C), Len(list) <= CitationLimit, NEW R, NEW refs \in Seq(R),
           NEW allowed, R \cap allowed \subseteq C
    PROVE  /\ Extended(list, refs, allowed) \in Seq(C)
           /\ Len(Extended(list, refs, allowed)) <= CitationLimit
           /\ Range(list) \subseteq Range(Extended(list, refs, allowed))
<1> DEFINE n == Len(refs)
           Next1(i, q) == IF refs[i] \in Range(q) \/ refs[i] \notin allowed \/ Len(q) >= CitationLimit
                          THEN q ELSE Append(q, refs[i])
           S == {q \in Seq(C) : Len(q) <= CitationLimit /\ Range(list) \subseteq Range(q)}
           Body(f) == [i \in 0..n |-> IF i = 0 THEN list ELSE Next1(i, f[i - 1])]
           F == CHOOSE f : f = Body(f)
<1>1. Extended(list, refs, allowed) = F[n]
  BY DEF Extended
<1>2. n \in Nat /\ CitationLimit \in Nat /\ \A i \in 1..n : refs[i] \in R
  BY AssistantAssumption
<1>3. list \in S
  OBVIOUS
<1>4. ASSUME NEW i \in 1..n, NEW q \in S PROVE Next1(i, q) \in S
  <2>1. CASE refs[i] \in Range(q) \/ refs[i] \notin allowed \/ Len(q) >= CitationLimit
    BY <2>1
  <2>2. CASE ~(refs[i] \in Range(q) \/ refs[i] \notin allowed \/ Len(q) >= CitationLimit)
    <3>1. refs[i] \in C
      BY <1>2, <2>2
    <3>2. Append(q, refs[i]) \in Seq(C) /\ Len(Append(q, refs[i])) <= CitationLimit
      BY <1>2, <2>2, <3>1
    <3>3. Range(q) \subseteq Range(Append(q, refs[i]))
      BY <3>1 DEF Range
    <3>4. QED
      BY <2>2, <3>2, <3>3
  <2>3. QED
    BY <2>1, <2>2
<1> HIDE DEF Next1, S
<1>5. PICK f \in [0..n -> S] : f[0] = list /\ \A i \in 1..n : f[i] = Next1(i, f[i - 1])
  <2> DEFINE step == [i \in 1..n |-> [q \in S |-> Next1(i, q)]]
  <2>1. step \in [1..n -> [S -> S]]
    BY <1>4
  <2>2. PICK f : Computes(f, n, S, list, step)
    <3>1. n \in Nat
      BY <1>2
    <3> HIDE DEF step, n
    <3>2. QED
      BY <1>3, <2>1, <3>1, RecursionUpTo, Zenon
  <2>3. f \in [0..n -> S] /\ \A i \in 1..n : f[i - 1] \in S
    <3>1. n \in Nat
      BY <1>2
    <3> HIDE DEF step, n
    <3>2. f \in [0..n -> S]
      BY <2>2 DEF Computes
    <3>3. \A i \in 1..n : i - 1 \in 0..n
      BY <3>1
    <3>4. QED
      BY <3>2, <3>3
  <2>4. QED
    BY <2>2, <2>3 DEF Computes
<1>6. f = Body(f)
  BY <1>2, <1>5
<1>7. F = Body(F)
  BY <1>6
<1> HIDE DEF F
<1>8. F[0] = list /\ \A i \in 1..n : F[i] = Next1(i, F[i - 1])
  <2>1. \A i \in 0..n : F[i] = IF i = 0 THEN list ELSE Next1(i, F[i - 1])
    BY <1>7, Zenon
  <2>2. QED
    BY <1>2, <2>1
<1> DEFINE G == {i \in 0..n : F[i] \in S}
<1>9. 0 \in G /\ \A i \in 1..n : i - 1 \in G => i \in G
  <2>1. 0 \in 0..n /\ \A i \in 1..n : i \in 0..n
    BY <1>2
  <2>2. QED
    BY <1>3, <1>4, <1>8, <2>1
<1>10. n \in G
  <2> HIDE DEF G, n
  <2>1. 0..n \subseteq G
    BY <1>2, <1>9, InductionUpTo
  <2>2. QED
    BY <1>2, <2>1
<1>11. QED
  BY <1>1, <1>10 DEF S

-----------------------------------------------------------------------------
\* What may be cited of a snapshot: trusted evidence and its own aggregates.
CitesIn(s) == Trusted \cup {SnapshotCitation(s, g) : g \in Aggregates \cup {"decisions"}}

Lists(s) == {q \in Seq(CitesIn(s)) : Len(q) <= CitationLimit}

\* Every fact that was found keeps citations, and they are listed.
Found(s) ==
    {r \in [facts : Seq([id : Nat, cites : SUBSET CitesIn(s)]), citations : Lists(s)] :
        \A i \in DOMAIN r.facts :
            r.facts[i].cites # {} /\ r.facts[i].cites \subseteq Range(r.citations)}

LEMMA ListsHave ==
    ASSUME NEW s
    PROVE  /\ <<>> \in Lists(s)
           /\ \A g \in Aggregates \cup {"decisions"} : <<SnapshotCitation(s, g)>> \in Lists(s)
           /\ \A R : \A refs \in Seq(R) : CitableEvidence(refs) \in Lists(s)
<1>1. CitationLimit \in Nat /\ CitationLimit >= 1
  BY AssistantAssumption
<1>2. <<>> \in Lists(s)
  BY <1>1 DEF Lists
<1>3. ASSUME NEW g \in Aggregates \cup {"decisions"} PROVE <<SnapshotCitation(s, g)>> \in Lists(s)
  <2> DEFINE c == SnapshotCitation(s, g)
  <2>1. c \in CitesIn(s)
    BY DEF CitesIn
  <2> HIDE DEF c
  <2>2. QED
    BY <1>1, <2>1 DEF Lists, c
<1>4. ASSUME NEW R, NEW refs \in Seq(R) PROVE CitableEvidence(refs) \in Lists(s)
  <2>1. <<>> \in Seq(CitesIn(s)) /\ Len(<<>>) <= CitationLimit /\ R \cap Trusted \subseteq CitesIn(s)
    BY <1>1 DEF CitesIn
  <2>2. Extended(<<>>, refs, Trusted) \in Seq(CitesIn(s)) /\ Len(Extended(<<>>, refs, Trusted)) <= CitationLimit
    BY <2>1, ExtendedIs
  <2>3. QED
    BY <2>2 DEF CitableEvidence, Lists
<1>5. QED
  BY <1>2, <1>3, <1>4

LEMMA OfferedIs ==
    ASSUME NEW s \in Snapshots
    PROVE  Offered(s) \in Seq(Lists(s))
<1> DEFINE shown == Content[s]
           refs == CitableEvidence(shown.priority)
           queue == [i \in 1 .. Smaller(Len(shown.queue), 3) |-> CitableEvidence(shown.queue[i])]
           counts == [i \in DOMAIN shown.counts |-> <<SnapshotCitation(s, shown.counts[i])>>]
<1>1. /\ shown.priority \in Seq(Refs) /\ shown.queue \in Seq(Seq(Refs))
      /\ shown.counts \in Seq(Aggregates)
  BY AssistantAssumption
<1> HIDE DEF shown
<1>2. refs \in Lists(s)
  BY <1>1, ListsHave
<1>3. queue \in Seq(Lists(s))
  <2>1. Smaller(Len(shown.queue), 3) \in Nat /\ Smaller(Len(shown.queue), 3) <= Len(shown.queue)
    BY <1>1 DEF Smaller
  <2>2. ASSUME NEW i \in 1 .. Smaller(Len(shown.queue), 3)
        PROVE  CitableEvidence(shown.queue[i]) \in Lists(s)
    <3>1. shown.queue[i] \in Seq(Refs)
      BY <1>1, <2>1
    <3>2. QED
      BY <3>1, ListsHave
  <2>3. QED
    BY <2>1, <2>2
<1>4. counts \in Seq(Lists(s))
  <2>1. ASSUME NEW i \in DOMAIN shown.counts
        PROVE  <<SnapshotCitation(s, shown.counts[i])>> \in Lists(s)
    <3>1. shown.counts[i] \in Aggregates
      BY <1>1
    <3>2. QED
      BY <3>1, ListsHave
  <2>2. DOMAIN shown.counts = 1..Len(shown.counts) /\ Len(shown.counts) \in Nat
    BY <1>1
  <2>3. QED
    BY <2>1, <2>2
<1> HIDE DEF refs, queue, counts
<1>5. Offered(s) = (<<refs, refs>> \o queue) \o counts
  BY DEF Offered, shown, refs, queue, counts
<1>6. QED
  BY <1>2, <1>3, <1>4, <1>5

LEMMA AddFactIs ==
    ASSUME NEW s, NEW found \in Found(s), NEW n \in Nat, NEW cites \in Lists(s)
    PROVE  AddFact(found, [id |-> n, cites |-> cites]) \in Found(s)
<1> DEFINE fact == [id |-> n, cites |-> cites]
           listed == Extended(found.citations, fact.cites, Range(fact.cites))
           kept == Range(fact.cites) \cap Range(listed)
<1>1. CASE Len(found.facts) >= FactLimit \/ kept = {}
  BY <1>1, Zenon DEF AddFact
<1>2. CASE ~(Len(found.facts) >= FactLimit \/ kept = {})
  <2>1. fact.cites = cites /\ fact.id = n
    OBVIOUS
  <2>2. cites \in Seq(CitesIn(s)) /\ Range(cites) \subseteq CitesIn(s)
    BY DEF Lists, Range
  <2>3. found.citations \in Seq(CitesIn(s)) /\ Len(found.citations) <= CitationLimit
    BY DEF Found, Lists
  <2>4. /\ listed \in Seq(CitesIn(s)) /\ Len(listed) <= CitationLimit
        /\ Range(found.citations) \subseteq Range(listed)
    <3>1. CitesIn(s) \cap Range(cites) \subseteq CitesIn(s)
      OBVIOUS
    <3>2. QED
      BY <2>1, <2>2, <2>3, <3>1, ExtendedIs
  <2> DEFINE new == [id |-> n, cites |-> kept]
             result == [facts |-> Append(found.facts, new), citations |-> listed]
  <2>5. AddFact(found, fact) = result
    BY <1>2, <2>1, Zenon DEF AddFact
  <2>6. new \in [id : Nat, cites : SUBSET CitesIn(s)] /\ new.cites = kept
    BY <2>1, <2>2
  <2>7. kept # {} /\ kept \subseteq Range(listed)
    BY <1>2
  <2> HIDE DEF new, kept, listed, fact
  <2>8. /\ result.facts = Append(found.facts, new) /\ result.citations = listed
        /\ found.facts \in Seq([id : Nat, cites : SUBSET CitesIn(s)])
    BY DEF Found
  <2>9. result \in [facts : Seq([id : Nat, cites : SUBSET CitesIn(s)]), citations : Lists(s)]
    BY <2>4, <2>6, <2>8 DEF Lists
  <2>10. ASSUME NEW i \in DOMAIN result.facts
         PROVE  result.facts[i].cites # {} /\ result.facts[i].cites \subseteq Range(result.citations)
    <3>1. CASE i \in DOMAIN found.facts
      <4>1. result.facts[i] = found.facts[i]
        BY <2>8, <3>1
      <4>2. found.facts[i].cites # {} /\ found.facts[i].cites \subseteq Range(found.citations)
        BY <3>1 DEF Found
      <4>3. QED
        BY <2>4, <2>8, <4>1, <4>2
    <3>2. CASE i \notin DOMAIN found.facts
      <4>1. result.facts[i] = new
        BY <2>6, <2>8, <3>2
      <4>2. QED
        BY <2>6, <2>7, <2>8, <4>1
    <3>3. QED
      BY <3>1, <3>2
  <2> HIDE DEF result
  <2>11. QED
    BY <2>5, <2>9, <2>10 DEF Found, fact
<1>3. QED
  BY <1>1, <1>2

LEMMA RetrievalIs ==
    ASSUME NEW s \in Snapshots
    PROVE  AssistantRetrieval[s] \in Found(s)
<1> DEFINE offered == Offered(s)
           n == Len(offered)
           start == [facts |-> <<>>, citations |-> <<>>]
           Add(i, r) == AddFact(r, [id |-> i, cites |-> offered[i]])
           Body(f) == [i \in 0..n |-> IF i = 0 THEN start ELSE Add(i, f[i - 1])]
           F == CHOOSE f : f = Body(f)
           S == Found(s)
<1>1. AssistantRetrieval[s] = F[n]
  BY Zenon DEF AssistantRetrieval
<1>2. offered \in Seq(Lists(s))
  BY OfferedIs
<1> HIDE DEF offered
<1>3. n \in Nat /\ \A i \in 1..n : i \in Nat /\ offered[i] \in Lists(s)
  BY <1>2
<1>4. start \in S
  <2>1. start.facts = <<>> /\ start.citations = <<>> /\ <<>> \in Lists(s)
    BY ListsHave
  <2>2. start \in [facts : Seq([id : Nat, cites : SUBSET CitesIn(s)]), citations : Lists(s)]
    BY <2>1
  <2> HIDE DEF start
  <2>3. QED
    BY <2>1, <2>2 DEF Found
<1>5. ASSUME NEW i \in 1..n, NEW r \in S PROVE Add(i, r) \in S
  BY <1>3, AddFactIs
<1> HIDE DEF Add, S, start
<1>6. PICK f \in [0..n -> S] : f[0] = start /\ \A i \in 1..n : f[i] = Add(i, f[i - 1])
  <2> DEFINE step == [i \in 1..n |-> [r \in S |-> Add(i, r)]]
  <2>1. step \in [1..n -> [S -> S]]
    BY <1>5
  <2>2. PICK f : Computes(f, n, S, start, step)
    <3>1. n \in Nat
      BY <1>3
    <3> HIDE DEF step, n
    <3>2. QED
      BY <1>4, <2>1, <3>1, RecursionUpTo, Zenon
  <2>3. f \in [0..n -> S] /\ \A i \in 1..n : f[i - 1] \in S
    <3>1. n \in Nat
      BY <1>3
    <3> HIDE DEF step, n
    <3>2. f \in [0..n -> S]
      BY <2>2 DEF Computes
    <3>3. \A i \in 1..n : i - 1 \in 0..n
      BY <3>1
    <3>4. QED
      BY <3>2, <3>3
  <2>4. QED
    BY <2>2, <2>3 DEF Computes
<1>7. f = Body(f)
  BY <1>3, <1>6
<1>8. F = Body(F)
  BY <1>7
<1> HIDE DEF F
<1>9. F[0] = start /\ \A i \in 1..n : F[i] = Add(i, F[i - 1])
  <2>1. \A i \in 0..n : F[i] = IF i = 0 THEN start ELSE Add(i, F[i - 1])
    BY <1>8, Zenon
  <2>2. QED
    BY <1>3, <2>1
<1> DEFINE G == {i \in 0..n : F[i] \in S}
<1>10. 0 \in G /\ \A i \in 1..n : i - 1 \in G => i \in G
  <2>1. 0 \in 0..n /\ \A i \in 1..n : i \in 0..n
    BY <1>3
  <2>2. QED
    BY <1>4, <1>5, <1>9, <2>1
<1>11. n \in G
  <2> HIDE DEF G, n
  <2>1. 0..n \subseteq G
    BY <1>3, <1>10, InductionUpTo
  <2>2. QED
    BY <1>3, <2>1
<1>12. QED
  BY <1>1, <1>11 DEF S

-----------------------------------------------------------------------------
\* A list has no more members than places.
LEMMA ListMembers ==
    ASSUME NEW C, NEW q \in Seq(C)
    PROVE  IsFiniteSet(Range(q)) /\ Cardinality(Range(q)) \in Nat /\ Cardinality(Range(q)) <= Len(q)
<1>1. Len(q) \in Nat /\ DOMAIN q = 1..Len(q)
  OBVIOUS
<1>2. IsFiniteSet(1..Len(q)) /\ Cardinality(1..Len(q)) = Len(q)
  BY <1>1, FS_Interval
<1>3. q \in Surjection(1..Len(q), Range(q))
  BY <1>1 DEF Surjection, Range
<1>4. IsFiniteSet(Range(q)) /\ Cardinality(Range(q)) <= Len(q)
  BY <1>2, <1>3, FS_Surjection
<1>5. QED
  BY <1>4, FS_CardinalityType

SaidIn(s) == [says : BOOLEAN, cites : SUBSET CitesIn(s)]

\* An answer about a snapshot that the response model lets through.
Answers(s) ==
    {a \in [kind : {"answer"}, snapshot : {s},
            intent : {IntentOf[q] : q \in Questions} \cup {"second_opinion"},
            perspectives : [fact : SaidIn(s), opinion : SaidIn(s)],
            citations : SUBSET CitesIn(s),
            warnings : SUBSET {"unsupported_intent", "ai_configuration", "insufficient_ai_evidence",
                               "ai_response_unavailable"},
            llmUsed : BOOLEAN] : Deliverable(a)}

LEMMA AnswerIs ==
    ASSUME NEW s \in Snapshots, NEW intent
    PROVE  Answer(intent, s) \in Lists(s)
<1> DEFINE shown == Content[s]
<1>1. /\ shown.priority \in Seq(Refs) /\ shown.owner \in Seq(Refs)
      /\ shown.reviews \in Seq(Seq(Refs)) /\ shown.counts \in Seq(Aggregates)
  BY AssistantAssumption
<1> HIDE DEF shown
<1>2. /\ CitableEvidence(shown.priority) \in Lists(s) /\ CitableEvidence(shown.owner) \in Lists(s)
      /\ <<SnapshotCitation(s, "decisions")>> \in Lists(s) /\ <<>> \in Lists(s)
  BY <1>1, ListsHave
<1>3. ASSUME shown.reviews # <<>> PROVE CitableEvidence(Head(shown.reviews)) \in Lists(s)
  <2>1. Head(shown.reviews) \in Seq(Refs)
    BY <1>1, <1>3
  <2>2. QED
    BY <2>1, ListsHave
<1>4. ASSUME intent \in Range(shown.counts) PROVE <<SnapshotCitation(s, intent)>> \in Lists(s)
  <2>1. intent \in Aggregates
    BY <1>1, <1>4 DEF Range
  <2>2. QED
    BY <2>1, ListsHave
<1>5. QED
  BY <1>2, <1>3, <1>4 DEF Answer, shown

LEMMA ByRuleIs ==
    ASSUME NEW s \in Snapshots, NEW q \in Questions
    PROVE  BuildAssistantResponse(s, q) \in Answers(s)
<1> DEFINE cites == Answer(IntentOf[q], s)
           fact == [says |-> Range(cites) # {}, cites |-> Range(cites)]
           both == [fact |-> fact, opinion |-> Unsaid]
           result == BuildAssistantResponse(s, q)
<1>1. cites \in Seq(CitesIn(s)) /\ Len(cites) \in Nat /\ Len(cites) <= CitationLimit
  BY AnswerIs DEF Lists
<1>2. CitationLimit \in Nat
  BY AssistantAssumption
<1> HIDE DEF cites
<1>3. SubSeq(cites, 1, Smaller(Len(cites), CitationLimit)) = cites
  <2>1. Smaller(Len(cites), CitationLimit) = Len(cites)
    BY <1>1, <1>2 DEF Smaller
  <2>2. SubSeq(cites, 1, Len(cites)) = cites
    BY <1>1
  <2>3. QED
    BY <2>1, <2>2
<1>4. Range(cites) \subseteq CitesIn(s)
  BY <1>1 DEF Range
<1>5. Cardinality(Range(cites)) <= CitationLimit
  <2>1. Cardinality(Range(cites)) \in Nat /\ Cardinality(Range(cites)) <= Len(cites)
    BY <1>1, ListMembers
  <2>2. QED
    BY <1>1, <1>2, <2>1
<1>6. /\ fact \in SaidIn(s) /\ Unsaid \in SaidIn(s)
      /\ fact.cites = Range(cites) /\ (fact.says <=> fact.cites # {})
      /\ Unsaid.cites = {} /\ ~Unsaid.says
  BY <1>4 DEF SaidIn, Unsaid
<1> HIDE DEF fact
<1>7. both \in [fact : SaidIn(s), opinion : SaidIn(s)] /\ both.fact = fact /\ both.opinion = Unsaid
  BY <1>6
<1> HIDE DEF both
<1> DEFINE warned == IF IntentOf[q] = "unsupported" THEN {"unsupported_intent"} ELSE {}
           record == [kind |-> "answer", snapshot |-> s, intent |-> IntentOf[q], perspectives |-> both,
                      citations |-> Range(cites), warnings |-> warned, llmUsed |-> FALSE]
<1>8. result = record
  BY <1>3 DEF BuildAssistantResponse, DeterministicPerspectives, both, fact, cites
<1>9. warned \subseteq {"unsupported_intent"}
  OBVIOUS
<1> HIDE DEF warned
<1>10. /\ record \in [kind : {"answer"}, snapshot : {s},
            intent : {IntentOf[x] : x \in Questions} \cup {"second_opinion"},
            perspectives : [fact : SaidIn(s), opinion : SaidIn(s)],
            citations : SUBSET CitesIn(s),
            warnings : SUBSET {"unsupported_intent", "ai_configuration", "insufficient_ai_evidence",
                               "ai_response_unavailable"},
            llmUsed : BOOLEAN]
       /\ record.perspectives = both /\ record.citations = Range(cites) /\ ~record.llmUsed
  BY <1>4, <1>7, <1>9
<1> HIDE DEF record
<1>11. Deliverable(record)
  BY <1>5, <1>6, <1>7, <1>10 DEF Deliverable
<1>12. QED
  BY <1>8, <1>10, <1>11 DEF Answers

LEMMA WarnedIs ==
    ASSUME NEW s, NEW a \in Answers(s),
           NEW w \in {"ai_configuration", "insufficient_ai_evidence", "ai_response_unavailable"}
    PROVE  WithWarning(a, w) \in Answers(s)
<1> DEFINE b == WithWarning(a, w)
<1>1. /\ b \in [kind : {"answer"}, snapshot : {s},
            intent : {IntentOf[x] : x \in Questions} \cup {"second_opinion"},
            perspectives : [fact : SaidIn(s), opinion : SaidIn(s)],
            citations : SUBSET CitesIn(s),
            warnings : SUBSET {"unsupported_intent", "ai_configuration", "insufficient_ai_evidence",
                               "ai_response_unavailable"},
            llmUsed : BOOLEAN]
      /\ b.perspectives = a.perspectives /\ b.citations = a.citations /\ b.llmUsed = a.llmUsed
  BY DEF WithWarning, Answers
<1>2. Deliverable(a)
  BY DEF Answers
<1> HIDE DEF b
<1>3. Deliverable(b)
  BY <1>1, <1>2 DEF Deliverable
<1>4. QED
  BY <1>1, <1>3 DEF Answers, b

\* A section that leans on facts that were offered cites something, and all of it is
\* listed.
LEMMA SectionCites ==
    ASSUME NEW s, NEW found \in Found(s), NEW section,
           section.on \subseteq {f.id : f \in Range(found.facts)}
    PROVE  /\ CitesOf(section, found.facts) \subseteq Range(found.citations)
           /\ CitesOf(section, found.facts) \subseteq CitesIn(s)
           /\ section.on # {} <=> CitesOf(section, found.facts) # {}
<1>1. ASSUME NEW f \in Range(found.facts)
      PROVE  f.cites # {} /\ f.cites \subseteq Range(found.citations) /\ f.cites \subseteq CitesIn(s)
  <2>1. found.facts \in Seq([id : Nat, cites : SUBSET CitesIn(s)])
    BY DEF Found
  <2>2. PICK i \in DOMAIN found.facts : f = found.facts[i]
    BY DEF Range
  <2>3. f \in [id : Nat, cites : SUBSET CitesIn(s)]
    <3> DEFINE T == [id : Nat, cites : SUBSET CitesIn(s)]
               facts == found.facts
    <3> HIDE DEF T, facts
    <3>1. facts \in Seq(T) /\ i \in DOMAIN facts /\ f = facts[i]
      BY <2>1, <2>2 DEF T, facts
    <3>2. f \in T
      BY <3>1
    <3>3. QED
      BY <3>2 DEF T
  <2>4. \A j \in DOMAIN found.facts :
          found.facts[j].cites # {} /\ found.facts[j].cites \subseteq Range(found.citations)
    BY Zenon DEF Found
  <2>5. QED
    BY <2>2, <2>3, <2>4
<1> DEFINE on == {g \in Range(found.facts) : g.id \in section.on}
<1>2. CitesOf(section, found.facts) = UNION {f.cites : f \in on}
  BY DEF CitesOf
<1>3. section.on # {} <=> on # {}
  OBVIOUS
<1>4. on \subseteq Range(found.facts)
  OBVIOUS
<1> HIDE DEF on
<1>5. QED
  BY <1>1, <1>2, <1>3, <1>4

LEMMA GenerativeIs ==
    ASSUME NEW s, NEW found \in Found(s), NEW reply,
           ValidateReasoning(reply, found.facts), NEW a \in Answers(s)
    PROVE  BuildGenerativeResponse(a, reply, found) \in Answers(s)
<1> DEFINE Said(section) == [says |-> section.on # {}, cites |-> CitesOf(section, found.facts)]
           sections == [fact |-> Said(reply.fact), opinion |-> Said(reply.opinion)]
           referenced == sections.fact.cites \cup sections.opinion.cites
           resolved == referenced \cap Range(found.citations)
           b == [a EXCEPT !.intent = IF @ = "unsupported" THEN "second_opinion" ELSE @,
                          !.perspectives = sections, !.citations = resolved,
                          !.warnings = @ \ {"unsupported_intent"}, !.llmUsed = TRUE]
<1>1. ASSUME NEW section \in {reply.fact, reply.opinion}
      PROVE  /\ Said(section) \in SaidIn(s)
             /\ Said(section).says <=> Said(section).cites # {}
             /\ Said(section).cites \subseteq Range(found.citations)
             /\ Said(section).says <=> section.on # {}
  <2>1. section.on \subseteq {f.id : f \in Range(found.facts)}
    BY DEF ValidateReasoning
  <2>2. /\ CitesOf(section, found.facts) \subseteq Range(found.citations)
        /\ CitesOf(section, found.facts) \subseteq CitesIn(s)
        /\ section.on # {} <=> CitesOf(section, found.facts) # {}
    BY <2>1, SectionCites
  <2>3. QED
    BY <2>2 DEF SaidIn
<1>2. /\ sections.fact = Said(reply.fact) /\ sections.opinion = Said(reply.opinion)
  OBVIOUS
<1> HIDE DEF Said
<1>3. sections \in [fact : SaidIn(s), opinion : SaidIn(s)]
  BY <1>1
<1>4. /\ sections.fact.says <=> sections.fact.cites # {}
      /\ sections.opinion.says <=> sections.opinion.cites # {}
      /\ referenced \subseteq Range(found.citations)
      /\ sections.fact.says
  BY <1>1, <1>2 DEF ValidateReasoning
<1>5. BuildGenerativeResponse(a, reply, found) =
        IF referenced # resolved THEN Failed("unavailable") ELSE b
  BY DEF BuildGenerativeResponse, Said
<1>6. referenced \subseteq CitesIn(s)
  BY <1>3 DEF SaidIn
<1> HIDE DEF sections
<1>7. resolved = referenced /\ resolved \subseteq CitesIn(s)
  BY <1>4, <1>6
<1>8. Cardinality(resolved) <= CitationLimit
  <2>1. found.citations \in Seq(CitesIn(s)) /\ Len(found.citations) <= CitationLimit
    BY DEF Found, Lists
  <2>2. /\ IsFiniteSet(Range(found.citations)) /\ Cardinality(Range(found.citations)) \in Nat
        /\ Cardinality(Range(found.citations)) <= Len(found.citations)
    BY <2>1, ListMembers
  <2>3. /\ Cardinality(resolved) <= Cardinality(Range(found.citations))
        /\ Cardinality(resolved) \in Nat
    <3>1. resolved \subseteq Range(found.citations)
      OBVIOUS
    <3> HIDE DEF resolved
    <3>2. QED
      BY <2>2, <3>1, FS_Subset, FS_CardinalityType
  <2>4. CitationLimit \in Nat /\ Len(found.citations) \in Nat
    BY <2>1, AssistantAssumption
  <2>5. QED
    BY <2>1, <2>2, <2>3, <2>4
<1>9. sections.fact.cites \subseteq resolved /\ sections.opinion.cites \subseteq resolved
  BY <1>7
<1> HIDE DEF referenced, resolved
<1>10. /\ b \in [kind : {"answer"}, snapshot : {s},
            intent : {IntentOf[x] : x \in Questions} \cup {"second_opinion"},
            perspectives : [fact : SaidIn(s), opinion : SaidIn(s)],
            citations : SUBSET CitesIn(s),
            warnings : SUBSET {"unsupported_intent", "ai_configuration", "insufficient_ai_evidence",
                               "ai_response_unavailable"},
            llmUsed : BOOLEAN]
       /\ b.perspectives = sections /\ b.citations = resolved
  BY <1>3, <1>7 DEF Answers
<1> HIDE DEF b
<1>11. Deliverable(b)
  BY <1>4, <1>8, <1>9, <1>10 DEF Deliverable
<1>12. QED
  BY <1>5, <1>7, <1>10, <1>11 DEF Answers

-----------------------------------------------------------------------------
\* What a flight may end with, if its question was about s.
Results(s) == Answers(s) \cup {Failed(why) : why \in {"not_found", "snapshot_changed", "too_large", "timeout"}}

\* A flight that has landed has a result about the snapshot it was asked about.
FlightInv(r) ==
    /\ \E A, B : r \in [key : Keys, at : A, pc : {"reads", "asks", "done"}, result : B]
    /\ r.pc = "done" => r.result \in Results(r.key[1])

\* A page waits for, and is shown, a flight of its own question.
TabInv(w) ==
    /\ w \in [pc : {"idle", "waits", "shows", "limited"}, key : Keys \cup {NoFlight},
              on : Nat \cup {NoFlight}]
    /\ w.pc \in {"waits", "shows"} => w.on \in DOMAIN flight /\ flight[w.on].key = w.key
    /\ w.pc = "shows" => flight[w.on].pc = "done"

AssistantInv ==
    /\ \E R : flight \in Seq(R)
    /\ \A f \in DOMAIN flight : FlightInv(flight[f])
    /\ inFlight = [k \in Keys |-> inFlight[k]]
    /\ \A k \in Keys : inFlight[k] # NoFlight =>
          inFlight[k] \in DOMAIN flight /\ flight[inFlight[k]].key = k
    /\ tab = [t \in Tabs |-> tab[t]]
    /\ \A t \in Tabs : TabInv(tab[t])

LEMMA AssistantInitHolds == AssistantInit => AssistantInv
<1> SUFFICES ASSUME AssistantInit PROVE AssistantInv
  OBVIOUS
<1>1. flight \in Seq({}) /\ DOMAIN flight = {}
  BY DEF AssistantInit
<1>2. /\ tab = [t \in Tabs |-> Idle] /\ inFlight = [k \in Keys |-> NoFlight]
  BY DEF AssistantInit
<1>3. TabInv(Idle)
  BY DEF TabInv, Idle
<1>4. QED
  BY <1>1, <1>2, <1>3 DEF AssistantInv

\* Flights that go on keep their question, and a result that was shown stays.
LEMMA FlightsGoOn ==
    ASSUME AssistantInv, NEW f \in DOMAIN flight, NEW x,
           flight' = [flight EXCEPT ![f] = x], x.key = flight[f].key, FlightInv(x),
           flight[f].pc # "done", UNCHANGED <<inFlight, tab>>
    PROVE  AssistantInv'
<1>1. PICK R : flight \in Seq(R)
  BY DEF AssistantInv
<1>2. flight' \in Seq(R \cup {x}) /\ DOMAIN flight' = DOMAIN flight
  BY <1>1
<1>3. \A g \in DOMAIN flight : flight'[g] = IF g = f THEN x ELSE flight[g]
  BY <1>1
<1>4. \A g \in DOMAIN flight : flight'[g].key = flight[g].key /\ FlightInv(flight'[g])
  BY <1>3 DEF AssistantInv
<1>5. ASSUME NEW t \in Tabs PROVE TabInv(tab[t])'
  <2>1. TabInv(tab[t]) /\ tab'[t] = tab[t]
    BY DEF AssistantInv
  <2>2. QED
    BY <1>2, <1>3, <1>4, <2>1 DEF TabInv
<1>6. \A g \in DOMAIN flight' : FlightInv(flight'[g])
  BY <1>2, <1>4
<1>7. ASSUME NEW k \in Keys, inFlight'[k] # NoFlight
      PROVE  inFlight'[k] \in DOMAIN flight' /\ flight'[inFlight'[k]].key = k
  BY <1>2, <1>4, <1>7 DEF AssistantInv
<1>8. \E S : flight' \in Seq(S)
  BY <1>2
<1>9. inFlight' = [k \in Keys |-> inFlight'[k]] /\ tab' = [t \in Tabs |-> tab'[t]]
  BY DEF AssistantInv
<1>10. QED
  BY <1>5, <1>6, <1>7, <1>8, <1>9, Zenon DEF AssistantInv

LEMMA FlightLands ==
    ASSUME AssistantInv, NEW f \in DOMAIN flight, flight[f].pc # "done",
           NEW result \in Results(flight[f].key[1]), Land(f, result), UNCHANGED <<inFlight, tab>>
    PROVE  AssistantInv'
<1> DEFINE r == flight[f]
           x == [[r EXCEPT !.pc = "done"] EXCEPT !.result = result]
<1>1. PICK A, B : r \in [key : Keys, at : A, pc : {"reads", "asks", "done"}, result : B]
  BY DEF AssistantInv, FlightInv
<1>2. flight' = [flight EXCEPT ![f] = x]
  BY DEF Land, AssistantInv
<1> HIDE DEF r
<1>3. /\ x \in [key : Keys, at : A, pc : {"reads", "asks", "done"}, result : B \cup {result}]
      /\ x.key = r.key /\ x.result = result
  BY <1>1
<1> HIDE DEF x
<1>4. FlightInv(x)
  BY <1>3 DEF FlightInv, r
<1>5. QED
  BY <1>2, <1>3, <1>4, FlightsGoOn DEF r

LEMMA FlightStep ==
    ASSUME AssistantInv, NEW f \in DOMAIN flight,
           \/ ReadScreen(f) \/ ProviderFails(f) \/ ProviderAnswers(f)
           \/ AnswerTooLarge(f) \/ TimesOut(f)
    PROVE  AssistantInv'
<1> DEFINE s == flight[f].key[1]
           q == flight[f].key[2]
           byRule == BuildAssistantResponse(s, q)
           found == AssistantRetrieval[s]
<1>1. flight[f].key \in Keys
  BY DEF AssistantInv, FlightInv
<1>2. s \in Snapshots /\ q \in Questions
  BY <1>1 DEF Keys
<1>3. byRule \in Answers(s)
  BY <1>2, ByRuleIs
<1>4. found \in Found(s)
  BY <1>2, RetrievalIs
<1>5. UNCHANGED <<inFlight, tab>> /\ flight[f].pc # "done"
  BY DEF ReadScreen, ProviderFails, ProviderAnswers, AnswerTooLarge, TimesOut
<1> HIDE DEF byRule, found
<1>6. ASSUME NEW w \in {"ai_configuration", "insufficient_ai_evidence", "ai_response_unavailable"}
      PROVE  WithWarning(byRule, w) \in Results(s)
  BY <1>3, WarnedIs DEF Results
<1>7. /\ byRule \in Results(s)
      /\ \A why \in {"not_found", "snapshot_changed", "too_large", "timeout"} : Failed(why) \in Results(s)
  BY <1>3 DEF Results
<1>8. ASSUME NEW reply, ValidateReasoning(reply, found.facts)
      PROVE  BuildGenerativeResponse(byRule, reply, found) \in Results(s)
  BY <1>3, <1>4, <1>8, GenerativeIs DEF Results
<1>9. ASSUME NEW result \in Results(s), Land(f, result) PROVE AssistantInv'
  BY <1>5, <1>9, FlightLands
<1>10. ASSUME flight' = [flight EXCEPT ![f].pc = "asks"] PROVE AssistantInv'
  <2> DEFINE r == flight[f]
             x == [r EXCEPT !.pc = "asks"]
  <2>1. PICK A, B : r \in [key : Keys, at : A, pc : {"reads", "asks", "done"}, result : B]
    BY DEF AssistantInv, FlightInv
  <2>2. flight' = [flight EXCEPT ![f] = x]
    BY <1>10
  <2> HIDE DEF r
  <2>3. /\ x \in [key : Keys, at : A, pc : {"reads", "asks", "done"}, result : B]
        /\ x.key = r.key /\ x.pc = "asks"
    BY <2>1
  <2> HIDE DEF x
  <2>4. FlightInv(x)
    BY <2>3 DEF FlightInv
  <2>5. QED
    BY <1>5, <2>2, <2>3, <2>4, FlightsGoOn DEF r
<1>11. CASE ReadScreen(f)
  <2>1. \/ Land(f, Failed("not_found")) \/ Land(f, Failed("snapshot_changed")) \/ Land(f, byRule)
        \/ Land(f, WithWarning(byRule, "ai_configuration"))
        \/ Land(f, WithWarning(byRule, "insufficient_ai_evidence"))
        \/ flight' = [flight EXCEPT ![f].pc = "asks"]
    BY <1>11, Zenon DEF ReadScreen, byRule
  <2>2. QED
    BY <1>6, <1>7, <1>9, <1>10, <2>1
<1>12. CASE ProviderFails(f)
  <2>1. Land(f, WithWarning(byRule, "ai_response_unavailable"))
    BY <1>12, Zenon DEF ProviderFails, byRule
  <2>2. QED
    BY <1>6, <1>9, <2>1
<1>13. CASE ProviderAnswers(f)
  <2>1. PICK reply : Land(f, IF ValidateReasoning(reply, found.facts)
                             THEN BuildGenerativeResponse(byRule, reply, found)
                             ELSE WithWarning(byRule, "ai_response_unavailable"))
    BY <1>13, Zenon DEF ProviderAnswers, byRule, found
  <2>2. CASE ValidateReasoning(reply, found.facts)
    <3>1. Land(f, BuildGenerativeResponse(byRule, reply, found))
      BY <2>1, <2>2, Zenon
    <3>2. QED
      BY <1>8, <1>9, <2>2, <3>1
  <2>3. CASE ~ValidateReasoning(reply, found.facts)
    <3>1. Land(f, WithWarning(byRule, "ai_response_unavailable"))
      BY <2>1, <2>3, Zenon
    <3>2. QED
      BY <1>6, <1>9, <3>1
  <2>4. QED
    BY <2>2, <2>3
<1>14. CASE TimesOut(f)
  BY <1>7, <1>9, <1>14 DEF TimesOut
<1>15. CASE AnswerTooLarge(f)
  BY <1>7, <1>9, <1>15 DEF AnswerTooLarge
<1>16. QED
  BY <1>11, <1>12, <1>13, <1>14, <1>15

\* A question joins the flight of its key, or begins it.
LEMMA AskStep ==
    ASSUME AssistantInv, NEW t \in Tabs, NEW key \in Keys, Ask(t, key)
    PROVE  AssistantInv'
<1>1. PICK R : flight \in Seq(R)
  BY DEF AssistantInv
<1>2. ASSUME NEW w, tab' = [tab EXCEPT ![t] = w], TabInv(w)',
             \A g \in DOMAIN flight : g \in DOMAIN flight' /\ flight'[g] = flight[g]
      PROVE  tab' = [u \in Tabs |-> tab'[u]] /\ \A u \in Tabs : TabInv(tab[u])'
  <2>1. tab' = [u \in Tabs |-> tab'[u]]
    BY <1>2 DEF AssistantInv
  <2>2. ASSUME NEW u \in Tabs PROVE TabInv(tab[u])'
    <3>1. CASE u = t
      <4>1. tab'[u] = w
        BY <1>2, <3>1 DEF AssistantInv
      <4>2. QED
        BY <1>2, <4>1 DEF TabInv
    <3>2. CASE u # t
      <4>1. tab'[u] = tab[u] /\ TabInv(tab[u])
        BY <1>2, <3>2 DEF AssistantInv
      <4>2. QED
        BY <1>2, <4>1 DEF TabInv
    <3>3. QED
      BY <3>1, <3>2
  <2>3. QED
    BY <2>1, <2>2
<1>3. CASE inFlight[key] # NoFlight
  <2>0. PICK n : n = inFlight[key]
    OBVIOUS
  <2> DEFINE w == [pc |-> "waits", key |-> key, on |-> n]
  <2>1. tab' = [tab EXCEPT ![t] = w] /\ UNCHANGED <<inFlight, flight>>
    BY <1>3, <2>0 DEF Ask
  <2>2. n \in DOMAIN flight /\ flight[n].key = key /\ n \in Nat
    BY <1>1, <1>3, <2>0 DEF AssistantInv
  <2>3. TabInv(w)'
    BY <2>1, <2>2 DEF TabInv
  <2> HIDE DEF w
  <2>4. QED
    BY <1>2, <2>1, <2>3 DEF AssistantInv, FlightInv
<1>4. CASE inFlight[key] = NoFlight /\ Len(Pruned(clock)) >= Limit
  <2> DEFINE w == [Idle EXCEPT !.pc = "limited"]
  <2>1. tab' = [tab EXCEPT ![t] = w] /\ UNCHANGED <<inFlight, flight>>
    BY <1>4 DEF Ask
  <2>2. TabInv(w)'
    BY DEF TabInv, Idle
  <2> HIDE DEF w
  <2>3. QED
    BY <1>2, <2>1, <2>2 DEF AssistantInv, FlightInv
<1>5. CASE inFlight[key] = NoFlight /\ ~(Len(Pruned(clock)) >= Limit)
  <2>0. PICK n : n = Len(flight')
    OBVIOUS
  <2> DEFINE x == [key |-> key, at |-> clock, pc |-> "reads", result |-> NoFlight]
             w == [pc |-> "waits", key |-> key, on |-> n]
  <2>1. /\ flight' = Append(flight, x) /\ inFlight' = [inFlight EXCEPT ![key] = n]
        /\ tab' = [tab EXCEPT ![t] = w]
    BY <1>5, <2>0 DEF Ask
  <2>2. FlightInv(x) /\ x.key = key
    <3>1. x \in [key : Keys, at : {clock}, pc : {"reads", "asks", "done"}, result : {NoFlight}]
      OBVIOUS
    <3>2. x.pc # "done" /\ x.key = key
      OBVIOUS
    <3> HIDE DEF x
    <3>3. QED
      BY <3>1, <3>2 DEF FlightInv
  <2> HIDE DEF x
  <2>3. /\ flight' \in Seq(R \cup {x}) /\ DOMAIN flight' = DOMAIN flight \cup {n}
        /\ n \in Nat /\ n \notin DOMAIN flight
        /\ \A g \in DOMAIN flight : flight'[g] = flight[g]
        /\ flight'[n] = x
    BY <1>1, <2>0, <2>1
  <2>4. TabInv(w)'
    <3>1. w.pc = "waits" /\ w.key = key /\ w.on = n
      OBVIOUS
    <3>2. n \in DOMAIN flight' /\ flight'[n].key = key /\ n \in Nat
      BY <2>2, <2>3
    <3>3. w \in [pc : {"idle", "waits", "shows", "limited"}, key : Keys \cup {NoFlight},
                 on : Nat \cup {NoFlight}]
      BY <3>2
    <3> HIDE DEF w
    <3>4. QED
      BY <3>1, <3>2, <3>3 DEF TabInv
  <2> HIDE DEF w
  <2>5. tab' = [u \in Tabs |-> tab'[u]] /\ \A u \in Tabs : TabInv(tab[u])'
    BY <1>2, <2>1, <2>3, <2>4
  <2>6. /\ inFlight' = [k \in Keys |-> inFlight'[k]]
        /\ \A k \in Keys : inFlight'[k] # NoFlight =>
              inFlight'[k] \in DOMAIN flight' /\ flight'[inFlight'[k]].key = k
    <3>1. inFlight'[key] = n /\ \A k \in Keys \ {key} : inFlight'[k] = inFlight[k]
      BY <2>1 DEF AssistantInv
    <3>2. inFlight' = [k \in Keys |-> inFlight'[k]]
      BY <2>1 DEF AssistantInv
    <3>3. QED
      BY <2>2, <2>3, <3>1, <3>2 DEF AssistantInv
  <2>7. \A g \in DOMAIN flight' : FlightInv(flight'[g])
    BY <2>2, <2>3 DEF AssistantInv
  <2>8. QED
    BY <2>3, <2>5, <2>6, <2>7 DEF AssistantInv, FlightInv
<1>6. QED
  BY <1>3, <1>4, <1>5

\* Pages that receive or leave, and flights that end, change no flight.
LEMMA PageStep ==
    ASSUME AssistantInv, NEW t \in Tabs, Receive(t) \/ Leave(t)
    PROVE  AssistantInv'
<1>1. UNCHANGED <<inFlight, flight>>
  BY DEF Receive, Leave
<1>2. ASSUME NEW w, tab' = [tab EXCEPT ![t] = w], TabInv(w) PROVE AssistantInv'
  <2>1. tab' = [u \in Tabs |-> tab'[u]]
    BY <1>2 DEF AssistantInv
  <2>2. \A u \in Tabs : TabInv(tab'[u])
    BY <1>2 DEF AssistantInv
  <2>3. \A u \in Tabs : TabInv(tab[u])'
    BY <1>1, <2>2 DEF TabInv
  <2>4. QED
    BY <1>1, <2>1, <2>3 DEF AssistantInv, FlightInv
<1>3. CASE Receive(t)
  <2> DEFINE v == tab[t]
             w == [v EXCEPT !.pc = "shows"]
  <2>1. tab' = [tab EXCEPT ![t] = w] /\ v.pc = "waits" /\ flight[v.on].pc = "done"
    BY <1>3 DEF Receive
  <2>2. TabInv(v)
    BY DEF AssistantInv
  <2> HIDE DEF v
  <2>3. /\ w \in [pc : {"idle", "waits", "shows", "limited"}, key : Keys \cup {NoFlight},
                  on : Nat \cup {NoFlight}]
        /\ w.key = v.key /\ w.on = v.on
    BY <2>2 DEF TabInv
  <2> HIDE DEF w
  <2>4. TabInv(w)
    BY <2>1, <2>2, <2>3 DEF TabInv
  <2>5. QED
    BY <1>2, <2>1, <2>4
<1>4. CASE Leave(t)
  <2>1. tab' = [tab EXCEPT ![t] = Idle]
    BY <1>4 DEF Leave
  <2>2. TabInv(Idle)
    BY DEF TabInv, Idle
  <2>3. QED
    BY <1>2, <2>1, <2>2
<1>5. QED
  BY <1>3, <1>4

LEMMA CompleteStep ==
    ASSUME AssistantInv, NEW f \in DOMAIN flight, Complete(f)
    PROVE  AssistantInv'
<1>1. UNCHANGED <<flight, tab>> /\ inFlight' = [inFlight EXCEPT ![flight[f].key] = NoFlight]
  BY DEF Complete
<1>2. /\ inFlight' = [k \in Keys |-> inFlight'[k]]
      /\ \A k \in Keys : inFlight'[k] \in {inFlight[k], NoFlight}
  BY <1>1 DEF AssistantInv
<1>3. \A u \in Tabs : TabInv(tab[u])'
  BY <1>1 DEF AssistantInv, TabInv
<1>4. QED
  BY <1>1, <1>2, <1>3 DEF AssistantInv, FlightInv

LEMMA AssistantStep == AssistantInv /\ [AssistantNext]_assistantVars => AssistantInv'
<1> SUFFICES ASSUME AssistantInv, [AssistantNext]_assistantVars PROVE AssistantInv'
  OBVIOUS
<1>1. ASSUME UNCHANGED <<inFlight, flight, tab>> PROVE AssistantInv'
  <2>1. \A u \in Tabs : TabInv(tab[u])'
    BY <1>1 DEF AssistantInv, TabInv
  <2>2. QED
    BY <1>1, <2>1 DEF AssistantInv, FlightInv
<1>2. CASE HeadquartersMoves \/ ClockTicks \/ UNCHANGED assistantVars
  BY <1>1, <1>2 DEF HeadquartersMoves, ClockTicks, assistantVars
<1>3. QED
  BY <1>2, AskStep, PageStep, FlightStep, CompleteStep DEF AssistantNext

LEMMA ShownIsSupported == AssistantInv => AnswersAreSupported
<1> SUFFICES ASSUME AssistantInv, NEW t \in Tabs, tab[t].pc = "shows"
             PROVE  LET shown == flight[tab[t].on].result IN
                    /\ shown.kind # "unavailable"
                    /\ shown.kind = "answer" =>
                          /\ shown.snapshot = tab[t].key[1]
                          /\ \A c \in shown.citations : c \in Trusted \/ c[1] = shown.snapshot
                          /\ Deliverable(shown)
  BY DEF AnswersAreSupported
<1> DEFINE shown == flight[tab[t].on].result
           s == tab[t].key[1]
<1>1. shown \in Results(s)
  BY DEF AssistantInv, TabInv, FlightInv
<1> HIDE DEF shown, s
<1>2. CASE shown \in Answers(s)
  <2>1. shown.kind = "answer" /\ shown.snapshot = s /\ shown.citations \subseteq CitesIn(s)
    BY <1>2 DEF Answers
  <2>2. Deliverable(shown)
    BY <1>2, Zenon DEF Answers
  <2>3. ASSUME NEW c \in CitesIn(s) PROVE c \in Trusted \/ c[1] = s
    BY DEF CitesIn, SnapshotCitation
  <2>4. QED
    BY <2>1, <2>2, <2>3 DEF shown, s
<1>3. CASE \E why \in {"not_found", "snapshot_changed", "too_large", "timeout"} : shown = Failed(why)
  <2>1. shown.kind \in {"not_found", "snapshot_changed", "too_large", "timeout"}
    BY <1>3 DEF Failed
  <2>2. QED
    BY <2>1 DEF shown
<1>4. QED
  BY <1>1, <1>2, <1>3 DEF Results

\* An answer that a page shows is about the snapshot the page asked about, cites only
\* trusted evidence or aggregates of it, and passes the response model: the capped
\* list of citations always holds what the facts keep, however many a snapshot has.
THEOREM AnswersAreSupportedTheorem == AssistantSpec => []AnswersAreSupported
BY AssistantInitHolds, AssistantStep, ShownIsSupported, PTL DEF AssistantSpec

-----------------------------------------------------------------------------
(* The company world.                                                      *)

MailRows == [live : BOOLEAN, names : SUBSET People, hash : Nat]

\* The message is there and names the candidate.
Supports(c, m) == message[m].live /\ \E p \in message[m].names : c \in {p, DomainOf[p]}

\* The version that a member holds is of the candidate as it was shown, and the messages
\* that a decision rests on are share-locked until it is written.
AskInv(w) ==
    /\ w.pc \in {"shown", "read", "locked"} => \E H : w.version = <<w.of, w.shows, H>>
    /\ w.pc = "read" => \E A, B, C, D, E : w \in [pc : A, of : B, shows : C, version : D, evidence : E]
    /\ w.pc = "decided" => w.shows.ids \subseteq Messages /\ \A m \in w.shows.ids : Supports(w.of, m)

WorldInv ==
    /\ message \in [Messages -> MailRows]
    /\ ask = [f \in Members |-> ask[f]]
    /\ \A f \in Members : AskInv(ask[f])

LEMMA WorldInitHolds == WorldInit => WorldInv
<1> SUFFICES ASSUME WorldInit PROVE WorldInv
  OBVIOUS
<1>1. message \in [Messages -> MailRows]
  BY DEF WorldInit, MailRows
<1>2. IdleAsk.pc = "idle"
  BY DEF IdleAsk
<1>3. QED
  BY <1>1, <1>2 DEF WorldInit, WorldInv, AskInv

\* A request goes on while the mailbox stands still.
LEMMA AskMoves ==
    ASSUME WorldInv, NEW f \in Members, NEW w, ask' = [ask EXCEPT ![f] = w], message' = message, AskInv(w)
    PROVE  WorldInv'
<1>1. ask'[f] = w /\ \A g \in Members \ {f} : ask'[g] = ask[g]
  BY DEF WorldInv
<1>2. ask' = [g \in Members |-> ask'[g]]
  BY DEF WorldInv
<1>3. \A c, m : Supports(c, m)' <=> Supports(c, m)
  BY DEF Supports
<1>4. \A g \in Members : AskInv(ask[g])'
  <2>1. \A g \in Members : AskInv(ask'[g])
    BY <1>1 DEF WorldInv
  <2>2. QED
    BY <1>3, <2>1 DEF AskInv
<1>5. QED
  BY <1>2, <1>4 DEF WorldInv

LEMMA IdleAskHolds == AskInv(IdleAsk)
BY DEF AskInv, IdleAsk

\* A message that no share lock holds may change.
LEMMA MailMoves ==
    ASSUME WorldInv, NEW m \in Messages, ~ShareLocked(m), NEW x \in MailRows,
           message' = [message EXCEPT ![m] = x], ask' = ask
    PROVE  WorldInv'
<1>1. message' \in [Messages -> MailRows] /\ \A n \in Messages \ {m} : message'[n] = message[n]
  BY DEF WorldInv
<1>2. ASSUME NEW f \in Members PROVE AskInv(ask[f])'
  <2>1. AskInv(ask[f])
    BY DEF WorldInv
  <2>2. ASSUME ask[f].pc = "decided", NEW n \in ask[f].shows.ids PROVE Supports(ask[f].of, n)'
    <3>1. n # m /\ n \in Messages /\ Supports(ask[f].of, n)
      BY <2>1, <2>2 DEF ShareLocked, AskInv
    <3>2. QED
      BY <1>1, <3>1 DEF Supports
  <2>3. QED
    BY <2>1, <2>2 DEF AskInv
<1>3. QED
  BY <1>1, <1>2 DEF WorldInv

LEMMA WorldStep == WorldInv /\ [WorldNext]_worldVars => WorldInv'
<1> SUFFICES ASSUME WorldInv, [WorldNext]_worldVars PROVE WorldInv'
  OBVIOUS
<1>1. ASSUME NEW f \in Members, NEW c, ShowCandidate(f, c) PROVE WorldInv'
  <2> DEFINE w == [pc |-> "reading", of |-> c, shows |-> Visible(c, Evidence(c))]
  <2>1. AskInv(w)
    BY DEF AskInv
  <2>2. ask' = [ask EXCEPT ![f] = w] /\ message' = message
    BY <1>1 DEF ShowCandidate
  <2> HIDE DEF w
  <2>3. QED
    BY <2>1, <2>2, AskMoves
<1>2. ASSUME NEW f \in Members, ShowVersion(f) PROVE WorldInv'
  <2> DEFINE H == {<<m, message[m].hash>> : m \in ask[f].shows.ids \cap Live}
             v == <<ask[f].of, ask[f].shows, H>>
             w == [pc |-> "shown", of |-> ask[f].of, shows |-> ask[f].shows, version |-> v]
  <2>1. ask' = [ask EXCEPT ![f] = w] /\ message' = message
    BY <1>2 DEF ShowVersion, CandidateVersion
  <2> HIDE DEF H
  <2>2. AskInv(w)
    <3>1. w.pc = "shown" /\ w.version = <<w.of, w.shows, H>>
      OBVIOUS
    <3> HIDE DEF w
    <3>2. QED
      BY <3>1 DEF AskInv
  <2> HIDE DEF w
  <2>3. QED
    BY <2>1, <2>2, AskMoves
<1>3. ASSUME NEW f \in Members, EndAsk(f), message' = message PROVE WorldInv'
  BY <1>3, AskMoves, IdleAskHolds DEF EndAsk
<1>4. ASSUME NEW f \in Members, Submit(f) PROVE WorldInv'
  <2>1. message' = message /\ ask[f].pc = "shown" /\ AskInv(ask[f])
    BY <1>4 DEF Submit, WorldInv
  <2>2. CASE EndAsk(f)
    BY <1>3, <2>1, <2>2
  <2>3. CASE ~EndAsk(f)
    <3> DEFINE e == Evidence(ask[f].of)
               w == [pc |-> "read", of |-> ask[f].of, shows |-> ask[f].shows,
                     version |-> ask[f].version, evidence |-> e]
    <3>1. ask' = [ask EXCEPT ![f] = w]
      BY <1>4, <2>3 DEF Submit
    <3>2. PICK H : ask[f].version = <<ask[f].of, ask[f].shows, H>>
      BY <2>1 DEF AskInv
    <3> HIDE DEF e
    <3>3. /\ w.pc = "read" /\ w.version = <<w.of, w.shows, H>>
          /\ w \in [pc : {"read"}, of : {ask[f].of}, shows : {ask[f].shows},
                    version : {ask[f].version}, evidence : {e}]
      BY <3>2
    <3> HIDE DEF w
    <3>4. AskInv(w)
      BY <3>3 DEF AskInv
    <3>5. QED
      BY <2>1, <3>1, <3>4, AskMoves
  <2>4. QED
    BY <2>2, <2>3
<1>5. ASSUME NEW f \in Members, LockEvidence(f) PROVE WorldInv'
  <2>1. message' = message /\ ask[f].pc = "read" /\ AskInv(ask[f])
    BY <1>5 DEF LockEvidence, WorldInv
  <2>2. CASE EndAsk(f)
    BY <1>3, <2>1, <2>2
  <2>3. CASE ~EndAsk(f)
    <3> DEFINE w == [ask[f] EXCEPT !.pc = "locked"]
    <3>1. ask' = [ask EXCEPT ![f] = w]
      BY <1>5, <2>3 DEF LockEvidence
    <3>2. PICK A, B, C, D, E : ask[f] \in [pc : A, of : B, shows : C, version : D, evidence : E]
      BY <2>1 DEF AskInv
    <3>3. w.pc = "locked" /\ w.of = ask[f].of /\ w.shows = ask[f].shows /\ w.version = ask[f].version
      BY <3>2
    <3> HIDE DEF w
    <3>4. AskInv(w)
      BY <2>1, <3>3 DEF AskInv
    <3>5. QED
      BY <2>1, <3>1, <3>4, AskMoves
  <2>4. QED
    BY <2>2, <2>3
<1>6. ASSUME NEW f \in Members, NEW decision, NEW affiliates, Decide(f, decision, affiliates) PROVE WorldInv'
  <2>1. message' = message /\ ask[f].pc = "locked" /\ AskInv(ask[f])
    BY <1>6 DEF Decide, WorldInv
  <2>2. CASE EndAsk(f)
    BY <1>3, <2>1, <2>2
  <2>3. CASE ~EndAsk(f)
    <3> DEFINE c == ask[f].of
               w == [pc |-> "decided", of |-> c, shows |-> ask[f].shows,
                     decision |-> decision, affiliates |-> affiliates]
    <3>1. ask' = [ask EXCEPT ![f] = w] /\ AsShown(f)
      BY <1>6, <2>3 DEF Decide
    <3>2. PICK H : ask[f].version = <<c, ask[f].shows, H>>
      BY <2>1 DEF AskInv
    <3>3. Visible(c, Evidence(c)) = ask[f].shows
      <4> DEFINE v == Visible(c, Evidence(c))
      <4>1. PICK G : CandidateVersion(c, v) = <<c, v, G>>
        BY DEF CandidateVersion
      <4>2. <<c, v, G>> = <<c, ask[f].shows, H>>
        BY <3>1, <3>2, <4>1 DEF AsShown
      <4> HIDE DEF v
      <4>3. v = ask[f].shows
        BY <4>2
      <4>4. QED
        BY <4>3 DEF v
    <3>4. ask[f].shows.ids = Evidence(c)
      BY <3>3 DEF Visible
    <3>5. Evidence(c) \subseteq Messages /\ \A m \in Evidence(c) : Supports(c, m)
      BY DEF Evidence, Considered, Live, Named, External, Supports
    <3>6. w.pc = "decided" /\ w.of = c /\ w.shows = ask[f].shows
      OBVIOUS
    <3> HIDE DEF w, c
    <3>7. AskInv(w)
      BY <3>4, <3>5, <3>6 DEF AskInv
    <3>8. QED
      BY <2>1, <3>1, <3>7, AskMoves
  <2>4. QED
    BY <2>2, <2>3
<1>7. ASSUME NEW f \in Members, CommitResolution(f) PROVE WorldInv'
  BY <1>3, <1>7 DEF CommitResolution
<1>8. ASSUME NEW m \in Messages, NEW names \in SUBSET People, Deliver(m, names) PROVE WorldInv'
  <2> DEFINE x == [live |-> TRUE, names |-> names, hash |-> message[m].hash + 1]
  <2>1. message[m] \in MailRows
    BY DEF WorldInv
  <2>2. message[m].hash + 1 \in Nat
    BY <2>1 DEF MailRows
  <2>3. x \in MailRows
    BY <2>2 DEF MailRows
  <2>4. message' = [message EXCEPT ![m] = x] /\ ~ShareLocked(m) /\ ask' = ask
    BY <1>8 DEF Deliver
  <2> HIDE DEF x
  <2>5. QED
    BY <2>3, <2>4, MailMoves
<1>9. ASSUME NEW m \in Messages, Withdraw(m) PROVE WorldInv'
  <2> DEFINE x == [message[m] EXCEPT !.live = FALSE]
  <2>1. message[m] \in MailRows
    BY DEF WorldInv
  <2>2. x \in MailRows
    BY <2>1 DEF MailRows
  <2>3. message' = [message EXCEPT ![m] = x] /\ ~ShareLocked(m) /\ ask' = ask
    BY <1>9 DEF Withdraw
  <2> HIDE DEF x
  <2>4. QED
    BY <2>2, <2>3, MailMoves
<1>10. ASSUME UNCHANGED <<message, ask>> PROVE WorldInv'
  BY <1>10 DEF WorldInv, AskInv, Supports
<1>11. QED
  BY <1>1, <1>2, <1>4, <1>5, <1>6, <1>7, <1>8, <1>9, <1>10 DEF WorldNext, Backfill, Join, worldVars

\* A decision is written while every message that it was shown with is still there and
\* still names the candidate (resolve_company_world_candidate), however many members
\* decide and however the mailbox is read again.
THEOREM DecidedOnWhatWasShownTheorem == WorldSpec => DecidedOnWhatWasShown
<1>1. ASSUME WorldInv
      PROVE  \A f \in Members : (ask[f].pc = "decided" /\ ask'[f] = IdleAsk) =>
                \A m \in ask[f].shows.ids :
                    message[m].live /\ \E p \in message[m].names : ask[f].of \in {p, DomainOf[p]}
  BY <1>1 DEF WorldInv, AskInv, Supports
<1>2. QED
  BY <1>1, WorldInitHolds, WorldStep, PTL DEF WorldSpec, DecidedOnWhatWasShown

-----------------------------------------------------------------------------
(* Imports.                                                                *)

Ids == Given \ {Blank}

RecordOf(k) == <<"record", "jira", k>>
TaskOf(k) == <<"task", "jira", k>>

ImportShape(w) ==
    \/ w = IdleImport
    \/ \E A, B, C, D : w \in [pc : A, provider : B, locked : C, todo : D]

\* An import has written both rows of an issue or none, but for the issue between them.
Paired(w) ==
    /\ \A k \in Ids : (w.pc = "task" /\ k = Head(w.todo)) \/ (RecordOf(k) \in w.locked <=> TaskOf(k) \in w.locked)
    /\ w.pc = "task" => w.provider = "jira" /\ RecordOf(Head(w.todo)) \in w.locked

ImportInv ==
    /\ \A k \in Ids : row[RecordOf(k)] = row[TaskOf(k)]
    /\ import = [i \in Importers |-> import[i]]
    /\ \A i \in Importers : ImportShape(import[i]) /\ Paired(import[i])

LEMMA ImportInitHolds == ImportsInit => ImportInv
<1> SUFFICES ASSUME ImportsInit PROVE ImportInv
  OBVIOUS
<1>1. \A k \in Ids : RecordOf(k) \in Rows /\ TaskOf(k) \in Rows
  BY DEF Ids, RecordOf, TaskOf, Rows, Tables, Providers
<1>2. IdleImport.pc = "idle" /\ IdleImport.locked = {}
  BY DEF IdleImport
<1>3. QED
  BY <1>1, <1>2 DEF ImportsInit, ImportInv, ImportShape, Paired

\* One import goes on and nothing is committed.
LEMMA ImportWrites ==
    ASSUME ImportInv, NEW i \in Importers, NEW w, import' = [import EXCEPT ![i] = w], row' = row,
           ImportShape(w), Paired(w)
    PROVE  ImportInv'
<1>1. import'[i] = w /\ \A j \in Importers \ {i} : import'[j] = import[j]
  BY DEF ImportInv
<1>2. import' = [j \in Importers |-> import'[j]]
  BY DEF ImportInv
<1>3. QED
  BY <1>1, <1>2 DEF ImportInv

LEMMA IdleIsPaired == ImportShape(IdleImport) /\ Paired(IdleImport)
BY DEF IdleImport, ImportShape, Paired

LEMMA ImportBegins ==
    ASSUME ImportInv, NEW i \in Importers, NEW p, NEW ids, BeginImport(i, p, ids)
    PROVE  ImportInv'
<1> DEFINE w == [pc |-> "record", provider |-> p, locked |-> {},
                 todo |-> SelectSeq(ids, LAMBDA k : k # Blank)]
<1>1. import' = [import EXCEPT ![i] = w] /\ row' = row
  BY DEF BeginImport
<1>2. w \in [pc : {"record"}, provider : {p}, locked : {{}}, todo : {w.todo}]
  OBVIOUS
<1>3. ImportShape(w) /\ Paired(w)
  BY <1>2 DEF ImportShape, Paired
<1> HIDE DEF w
<1>4. QED
  BY <1>1, <1>3, ImportWrites

LEMMA ImportStep == ImportInv /\ [ImportsNext]_importVars => ImportInv'
<1> SUFFICES ASSUME ImportInv, [ImportsNext]_importVars PROVE ImportInv'
  OBVIOUS
<1>1. CASE UNCHANGED importVars
  BY <1>1 DEF ImportInv, importVars
<1>2. ASSUME NEW i \in Importers, NEW p, NEW ids, BeginImport(i, p, ids) PROVE ImportInv'
  BY <1>2, ImportBegins
<1>3. ASSUME NEW i \in Importers, AbortImport(i) PROVE ImportInv'
  BY <1>3, ImportWrites, IdleIsPaired DEF AbortImport
<1>4. ASSUME NEW i \in Importers, NEW r, NEW next, UpsertRow(i, r, next), import[i].pc # "idle"
      PROVE  /\ row' = row
             /\ \E w : /\ import' = [import EXCEPT ![i] = w]
                       /\ ImportShape(w)
                       /\ w.pc = next.pc /\ w.provider = import[i].provider
                       /\ w.locked = import[i].locked \cup {r} /\ w.todo = next.todo
  <2>1. row' = row
    BY <1>4 DEF UpsertRow
  <2>2. PICK A, B, C, D : import[i] \in [pc : A, provider : B, locked : C, todo : D]
    BY <1>4 DEF ImportInv, ImportShape, IdleImport
  <2> DEFINE l == import[i].locked \cup {r}
             w == [import[i] EXCEPT !.locked = l, !.pc = next.pc, !.todo = next.todo]
  <2>3. import' = [import EXCEPT ![i] = w]
    BY <1>4 DEF UpsertRow
  <2> HIDE DEF l
  <2>4. /\ w \in [pc : A \cup {next.pc}, provider : B, locked : C \cup {l}, todo : D \cup {next.todo}]
        /\ w.pc = next.pc /\ w.provider = import[i].provider
        /\ w.locked = l /\ w.todo = next.todo
    BY <2>2
  <2> HIDE DEF w
  <2>5. ImportShape(w)
    BY <2>4 DEF ImportShape
  <2>6. QED
    BY <2>1, <2>3, <2>4, <2>5 DEF l
<1>5. ASSUME NEW i \in Importers, UpsertRecord(i) PROVE ImportInv'
  <2> DEFINE h == Head(import[i].todo)
             r == <<"record", import[i].provider, h>>
             next == IF import[i].provider = "jira"
                     THEN [pc |-> "task", todo |-> import[i].todo]
                     ELSE [pc |-> "record", todo |-> Tail(import[i].todo)]
  <2>1. import[i].pc = "record" /\ UpsertRow(i, r, next) /\ Paired(import[i])
    BY <1>5 DEF UpsertRecord, TargetRow, ImportInv
  <2>2. /\ import[i].provider = "jira" => next.pc = "task" /\ next.todo = import[i].todo
        /\ import[i].provider # "jira" => next.pc = "record"
    OBVIOUS
  <2>3. \A k \in Ids : RecordOf(k) \in import[i].locked <=> TaskOf(k) \in import[i].locked
    BY <2>1 DEF Paired
  <2> HIDE DEF next
  <2>4. PICK w : /\ import' = [import EXCEPT ![i] = w]
                 /\ ImportShape(w)
                 /\ w.pc = next.pc /\ w.provider = import[i].provider
                 /\ w.locked = import[i].locked \cup {r} /\ w.todo = next.todo
    <3> HIDE DEF r
    <3>1. QED
      BY <1>4, <2>1
  <2>5. row' = row
    BY <2>1 DEF UpsertRow
  <2>6. CASE import[i].provider = "jira"
    <3>1. r = RecordOf(h)
      BY <2>6 DEF RecordOf
    <3>2. \A k \in Ids : k # h => RecordOf(k) # RecordOf(h) /\ TaskOf(k) # RecordOf(h)
      BY DEF RecordOf, TaskOf
    <3> HIDE DEF r
    <3>3. Paired(w)
      BY <2>2, <2>3, <2>4, <2>6, <3>1, <3>2 DEF Paired
    <3>4. QED
      BY <2>4, <2>5, <3>3, ImportWrites
  <2>7. CASE import[i].provider # "jira"
    <3>1. \A k \in Ids : RecordOf(k) # r /\ TaskOf(k) # r
      BY <2>7 DEF RecordOf, TaskOf
    <3> HIDE DEF r
    <3>2. Paired(w)
      BY <2>2, <2>3, <2>4, <2>7, <3>1 DEF Paired
    <3>3. QED
      BY <2>4, <2>5, <3>2, ImportWrites
  <2>8. QED
    BY <2>6, <2>7
<1>6. ASSUME NEW i \in Importers, UpsertTask(i) PROVE ImportInv'
  <2> DEFINE h == Head(import[i].todo)
             r == <<"task", import[i].provider, h>>
             next == [pc |-> "record", todo |-> Tail(import[i].todo)]
  <2>1. import[i].pc = "task" /\ UpsertRow(i, r, next) /\ Paired(import[i]) /\ next.pc = "record"
    BY <1>6 DEF UpsertTask, TargetRow, ImportInv
  <2>2. import[i].provider = "jira" /\ RecordOf(h) \in import[i].locked
    BY <2>1 DEF Paired
  <2>3. r = TaskOf(h)
    BY <2>2 DEF TaskOf
  <2> HIDE DEF next, r
  <2>4. PICK w : /\ import' = [import EXCEPT ![i] = w]
                 /\ ImportShape(w)
                 /\ w.pc = next.pc /\ w.provider = import[i].provider
                 /\ w.locked = import[i].locked \cup {r} /\ w.todo = next.todo
    BY <1>4, <2>1
  <2>5. row' = row
    BY <2>1 DEF UpsertRow
  <2>6. \A k \in Ids : k # h => RecordOf(k) # TaskOf(h) /\ TaskOf(k) # TaskOf(h)
    BY DEF RecordOf, TaskOf
  <2>7. \A k \in Ids : k # h => (RecordOf(k) \in import[i].locked <=> TaskOf(k) \in import[i].locked)
    BY <2>1 DEF Paired
  <2>8. Paired(w)
    BY <2>1, <2>2, <2>3, <2>4, <2>6, <2>7 DEF Paired
  <2>9. QED
    BY <2>4, <2>5, <2>8, ImportWrites
<1>7. ASSUME NEW i \in Importers, CommitImport(i) PROVE ImportInv'
  <2>1. import'[i] = IdleImport /\ \A j \in Importers \ {i} : import'[j] = import[j]
    BY <1>7 DEF CommitImport, ImportInv
  <2>2. import' = [j \in Importers |-> import'[j]]
    BY <1>7 DEF CommitImport, ImportInv
  <2>3. \A k \in Ids : RecordOf(k) \in import[i].locked <=> TaskOf(k) \in import[i].locked
    BY <1>7 DEF CommitImport, ImportInv, Paired
  <2>4. \A k \in Ids : RecordOf(k) \in Rows /\ TaskOf(k) \in Rows
    BY DEF Ids, RecordOf, TaskOf, Rows, Tables, Providers
  <2>5. \A k \in Ids : row'[RecordOf(k)] = row'[TaskOf(k)]
    BY <1>7, <2>3, <2>4 DEF CommitImport, ImportInv
  <2>6. QED
    BY <2>1, <2>2, <2>5, IdleIsPaired DEF ImportInv
<1>8. QED
  BY <1>1, <1>2, <1>3, <1>5, <1>6, <1>7 DEF ImportsNext, ImportJira, ImportGmail, ImportDrive

\* The issues that are listed are the records kept as evidence, each with the content
\* of the same import (upsert_jira_issues), however many imports overlap.
THEOREM IssuesAreTheirRecordsTheorem == ImportsSpec => []IssuesAreTheirRecords
<1>1. ImportInv => IssuesAreTheirRecords
  BY DEF ImportInv, IssuesAreTheirRecords, ListedIssues, ListedRecords, Kept, Ids, RecordOf, TaskOf
<1>2. QED
  BY <1>1, ImportInitHolds, ImportStep, PTL DEF ImportsSpec

-----------------------------------------------------------------------------
(* Proposals made from briefings.                                          *)

Todos ==
    [briefing : Nat, item : Actionable, status : {"proposed", "approved", "rejected"},
     seen : SUBSET Nat]

Creating == [pc : {"create"}, briefing : Nat, taken : SUBSET Actionable, seen : SUBSET Nat]

IsOpen(i) == todo[i].status \in OpenStatuses

\* What a request found open is still all that is open of what it saw.
TakenInv(g) ==
    generator[g].pc = "create" =>
        /\ generator[g] \in Creating
        /\ generator[g].seen \subseteq DOMAIN todo
        /\ \A p \in generator[g].seen :
              todo[p].briefing = generator[g].briefing /\ IsOpen(p) =>
                  todo[p].item \in generator[g].taken

BriefingInv ==
    /\ \E R : briefing \in Seq(R)
    /\ todo \in Seq(Todos)
    /\ \A q \in DOMAIN todo : todo[q].seen \subseteq DOMAIN todo
    /\ generator = [g \in Generators |-> generator[g]]
    /\ \A g \in Generators : TakenInv(g)
    /\ RepeatsOnlyInFlight

LEMMA BriefingsInitHolds == BriefingsInit => BriefingInv
<1> SUFFICES ASSUME BriefingsInit PROVE BriefingInv
  OBVIOUS
<1>1. briefing \in Seq({}) /\ todo \in Seq(Todos) /\ DOMAIN todo = {}
  BY DEF BriefingsInit
<1>2. generator = [g \in Generators |-> IdleGenerator]
  BY DEF BriefingsInit
<1>3. \A g \in Generators : TakenInv(g)
  BY <1>2 DEF TakenInv, IdleGenerator
<1>4. \E R : briefing \in Seq(R)
  BY <1>1
<1>5. generator = [g \in Generators |-> generator[g]]
  BY <1>2
<1>6. RepeatsOnlyInFlight
  BY <1>1 DEF RepeatsOnlyInFlight
<1>7. QED
  BY <1>1, <1>3, <1>4, <1>5, <1>6 DEF BriefingInv

LEMMA ActionableIsFinite == IsFiniteSet(Actionable)
<1>1. DOMAIN ItemOrder = 1..4
  BY DEF ItemOrder
<1>2. IsFiniteSet(1..4)
  BY FS_Interval, 1 \in Int, 4 \in Int, Zenon
<1> DEFINE f == [i \in 1..4 |-> ItemOrder[i]]
<1>3. Actionable = {ItemOrder[i] : i \in 1..4}
  BY <1>1 DEF Actionable
<1>4. f \in Surjection(1..4, Actionable)
  BY <1>3 DEF Surjection
<1>5. QED
  BY <1>2, <1>4, FS_Surjection

\* New proposals at the end leave those that were there.
LEMMA TodosGrow ==
    ASSUME BriefingInv, NEW new \in Seq(Todos), todo' = todo \o new,
           \A i \in DOMAIN new : new[i].seen \subseteq DOMAIN todo,
           \A i \in DOMAIN new : \A p \in new[i].seen :
              ~(todo[p].briefing = new[i].briefing /\ todo[p].item = new[i].item /\ IsOpen(p)),
           UNCHANGED briefing,
           generator' = generator \/ \E g \in Generators : generator' = [generator EXCEPT ![g] = IdleGenerator]
    PROVE  BriefingInv'
<1>1. todo \in Seq(Todos)
  BY DEF BriefingInv
<1>2. /\ todo' \in Seq(Todos) /\ Len(todo') = Len(todo) + Len(new)
      /\ \A i \in DOMAIN todo : todo'[i] = todo[i]
      /\ DOMAIN todo \subseteq DOMAIN todo'
  BY <1>1
<1>3. ASSUME NEW i \in DOMAIN todo', i \notin DOMAIN todo
      PROVE  i - Len(todo) \in DOMAIN new /\ todo'[i] = new[i - Len(todo)]
  BY <1>1, <1>3
<1>4. ASSUME NEW q \in DOMAIN todo'
      PROVE  /\ todo'[q].seen \subseteq DOMAIN todo
             /\ \A p \in todo'[q].seen :
                  ~ /\ todo'[p].briefing = todo'[q].briefing
                    /\ todo'[p].item = todo'[q].item
                    /\ todo'[p].status \in {"proposed", "approved"}
                    /\ todo'[q].status \in {"proposed", "approved"}
  <2>1. CASE q \in DOMAIN todo
    BY <1>2, <2>1 DEF BriefingInv, RepeatsOnlyInFlight
  <2>2. CASE q \notin DOMAIN todo
    BY <1>2, <1>3, <2>2 DEF IsOpen, OpenStatuses
  <2>3. QED
    BY <2>1, <2>2
<1>5. ASSUME NEW h \in Generators PROVE TakenInv(h)'
  <2>1. TakenInv(h)
    BY DEF BriefingInv
  <2>2. generator'[h] = generator[h] \/ generator'[h].pc = "idle"
    BY DEF BriefingInv, IdleGenerator
  <2>3. ASSUME generator'[h] = generator[h] PROVE TakenInv(h)'
    BY <1>2, <2>1, <2>3 DEF TakenInv, IsOpen
  <2>4. ASSUME generator'[h].pc = "idle" PROVE TakenInv(h)'
    BY <2>4 DEF TakenInv
  <2>5. QED
    BY <2>2, <2>3, <2>4
<1>6. generator' = [g \in Generators |-> generator'[g]]
  BY DEF BriefingInv
<1>7. RepeatsOnlyInFlight'
  BY <1>4 DEF RepeatsOnlyInFlight
<1>8. \A q \in DOMAIN todo' : todo'[q].seen \subseteq DOMAIN todo'
  BY <1>2, <1>4
<1>9. QED
  BY <1>2, <1>5, <1>6, <1>7, <1>8 DEF BriefingInv

LEMMA CreateKeeps ==
    ASSUME BriefingInv, NEW g \in Generators, CreateTodos(g)
    PROVE  BriefingInv'
<1> DEFINE w == generator[g]
           new == Proposable(w.briefing, w.taken)
<1>1. w.pc = "create" /\ UNCHANGED briefing /\ generator' = [generator EXCEPT ![g] = IdleGenerator]
  BY DEF CreateTodos
<1> DEFINE made(k) == [briefing |-> w.briefing, item |-> k, status |-> "proposed", seen |-> w.seen]
<1>2. PICK s \in InItemOrder(new) : todo' = todo \o [i \in DOMAIN s |-> made(s[i])]
  BY DEF CreateTodos
<1>3. /\ w \in Creating /\ w.seen \subseteq DOMAIN todo
      /\ \A p \in w.seen : todo[p].briefing = w.briefing /\ IsOpen(p) => todo[p].item \in w.taken
  BY <1>1 DEF BriefingInv, TakenInv
<1>4. new \subseteq Actionable /\ new \cap w.taken = {}
  BY DEF Proposable
<1>5. Cardinality(new) \in Nat
  BY <1>4, ActionableIsFinite, FS_Subset, FS_CardinalityType
<1>6. s \in [1..Cardinality(new) -> new]
  BY DEF InItemOrder
<1>7. ASSUME NEW k \in Actionable
      PROVE  made(k) \in Todos /\ made(k).briefing = w.briefing /\ made(k).item = k /\ made(k).seen = w.seen
  BY <1>3 DEF Todos, Creating
<1> DEFINE rows == [i \in DOMAIN s |-> made(s[i])]
<1> HIDE DEF w, made, new
<1>8. rows \in Seq(Todos) /\ DOMAIN rows = DOMAIN s /\ \A i \in DOMAIN rows : rows[i] = made(s[i]) /\ s[i] \in new
  BY <1>4, <1>5, <1>6, <1>7
<1>9. todo' = todo \o rows
  BY <1>2
<1> HIDE DEF rows
<1>10. ASSUME NEW i \in DOMAIN rows
       PROVE  /\ rows[i].seen = w.seen /\ rows[i].briefing = w.briefing
              /\ rows[i].item \in Actionable /\ rows[i].item \notin w.taken
  BY <1>4, <1>7, <1>8
<1>11. \A i \in DOMAIN rows : rows[i].seen \subseteq DOMAIN todo
  BY <1>3, <1>10
<1>12. \A i \in DOMAIN rows : \A p \in rows[i].seen :
              ~(todo[p].briefing = rows[i].briefing /\ todo[p].item = rows[i].item /\ IsOpen(p))
  BY <1>3, <1>10
<1>13. QED
  BY <1>1, <1>8, <1>9, <1>11, <1>12, TodosGrow

LEMMA ReadKeeps ==
    ASSUME BriefingInv, NEW g \in Generators, NEW b \in DOMAIN briefing, ReadOpenTodos(g, b)
    PROVE  BriefingInv'
<1> DEFINE x == [pc |-> "create", briefing |-> b, taken |-> ExistingOpenItemKeys(b),
                 seen |-> DOMAIN todo]
<1>1. generator' = [generator EXCEPT ![g] = x] /\ UNCHANGED <<briefing, todo>>
  BY DEF ReadOpenTodos
<1>2. b \in Nat /\ DOMAIN todo \subseteq Nat
  <2>1. PICK R : briefing \in Seq(R)
    BY DEF BriefingInv
  <2>2. QED
    BY <2>1 DEF BriefingInv
<1>3. \A i \in DOMAIN todo : todo[i] \in Todos
  BY DEF BriefingInv
<1>4. ExistingOpenItemKeys(b) \subseteq Actionable
  BY <1>3 DEF ExistingOpenItemKeys, Todos
<1>5. x \in Creating /\ x.pc = "create" /\ x.seen = DOMAIN todo /\ x.briefing = b
      /\ x.taken = ExistingOpenItemKeys(b)
  BY <1>2, <1>4 DEF Creating
<1> HIDE DEF x
<1>6. \A p \in DOMAIN todo :
        todo[p].briefing = b /\ IsOpen(p) => todo[p].item \in ExistingOpenItemKeys(b)
  BY DEF ExistingOpenItemKeys, IsOpen
<1>7. ASSUME NEW h \in Generators PROVE TakenInv(h)'
  <2>1. CASE h = g
    <3>1. generator'[h] = x
      BY <1>1, <2>1 DEF BriefingInv
    <3>2. QED
      BY <1>1, <1>5, <1>6, <3>1 DEF TakenInv, IsOpen
  <2>2. CASE h # g
    <3>1. generator'[h] = generator[h] /\ TakenInv(h)
      BY <1>1, <2>2 DEF BriefingInv
    <3>2. QED
      BY <1>1, <3>1 DEF TakenInv, IsOpen
  <2>3. QED
    BY <2>1, <2>2
<1>8. generator' = [h \in Generators |-> generator'[h]]
  BY <1>1 DEF BriefingInv
<1>9. QED
  BY <1>1, <1>7, <1>8 DEF BriefingInv, RepeatsOnlyInFlight

LEMMA RefuseKeeps ==
    ASSUME BriefingInv, NEW g \in Generators, RefuseTodos(g)
    PROVE  BriefingInv'
<1>1. /\ generator' = [generator EXCEPT ![g] = IdleGenerator]
      /\ UNCHANGED <<briefing, todo>>
  BY DEF RefuseTodos
<1>2. todo \in Seq(Todos) /\ todo \o <<>> = todo
  BY DEF BriefingInv
<1>3. <<>> \in Seq(Todos) /\ DOMAIN <<>> = {}
  OBVIOUS
<1>4. todo' = todo \o <<>>
  BY <1>1, <1>2
<1>5. QED
  BY <1>1, <1>3, <1>4, TodosGrow

\* A proposal made by hand has looked at no other.
LEMMA ByHandKeeps ==
    ASSUME BriefingInv, NEW b \in DOMAIN briefing, NEW k \in Actionable, CreateByHand(b, k)
    PROVE  BriefingInv'
<1> DEFINE made == [briefing |-> b, item |-> k, status |-> "proposed", seen |-> {}]
<1>1. todo' = Append(todo, made) /\ UNCHANGED <<briefing, generator>>
  BY DEF CreateByHand
<1>2. b \in Nat
  <2>1. PICK R : briefing \in Seq(R)
    BY DEF BriefingInv
  <2>2. QED
    BY <2>1
<1>3. made \in Todos /\ made.seen = {}
  BY <1>2 DEF Todos
<1> HIDE DEF made
<1>4. todo \in Seq(Todos)
  BY DEF BriefingInv
<1>5. /\ <<made>> \in Seq(Todos) /\ todo' = todo \o <<made>>
      /\ \A i \in DOMAIN <<made>> : <<made>>[i] = made
  BY <1>1, <1>3, <1>4
<1>6. QED
  BY <1>1, <1>3, <1>5, TodosGrow

\* A decision opens nothing that was closed.
LEMMA DecideKeeps ==
    ASSUME BriefingInv, NEW i \in DOMAIN todo, NEW d \in {"approved", "rejected"},
           DecideTodo(i, d)
    PROVE  BriefingInv'
<1>1. /\ todo[i].status = "proposed" /\ todo' = [todo EXCEPT ![i].status = d]
      /\ UNCHANGED <<briefing, generator>>
  BY DEF DecideTodo
<1>2. todo \in Seq(Todos)
  BY DEF BriefingInv
<1>3. todo[i] \in Todos
  BY <1>2
<1> DEFINE x == [todo[i] EXCEPT !.status = d]
<1>4. /\ x \in Todos /\ x.seen = todo[i].seen /\ x.briefing = todo[i].briefing
      /\ x.item = todo[i].item
  BY <1>3 DEF Todos
<1>5. todo' = [todo EXCEPT ![i] = x]
  BY <1>1
<1> HIDE DEF x
<1>6. /\ todo' \in Seq(Todos) /\ DOMAIN todo' = DOMAIN todo
  BY <1>2, <1>4, <1>5
<1>7. ASSUME NEW j \in DOMAIN todo
      PROVE  /\ todo'[j].seen = todo[j].seen /\ todo'[j].briefing = todo[j].briefing
             /\ todo'[j].item = todo[j].item
             /\ todo'[j].status \in OpenStatuses => todo[j].status \in OpenStatuses
             /\ todo'[j].status \in {"proposed", "approved"} =>
                  todo[j].status \in {"proposed", "approved"}
  BY <1>1, <1>2, <1>4, <1>5 DEF OpenStatuses
<1>8. ASSUME NEW h \in Generators PROVE TakenInv(h)'
  <2>1. TakenInv(h)
    BY DEF BriefingInv
  <2>2. QED
    BY <1>1, <1>6, <1>7, <2>1 DEF TakenInv, IsOpen
<1>9. RepeatsOnlyInFlight'
  <2>1. \A q \in DOMAIN todo : todo[q].seen \subseteq DOMAIN todo
    BY DEF BriefingInv
  <2>2. QED
    BY <1>6, <1>7, <2>1 DEF RepeatsOnlyInFlight, BriefingInv
<1>10. \A q \in DOMAIN todo' : todo'[q].seen \subseteq DOMAIN todo'
  BY <1>6, <1>7 DEF BriefingInv
<1>11. QED
  BY <1>1, <1>6, <1>8, <1>9, <1>10 DEF BriefingInv

LEMMA SaveBriefingKeeps ==
    ASSUME BriefingInv, NEW a \in Authors, SaveBriefing(a)
    PROVE  BriefingInv'
<1>1. UNCHANGED <<generator, todo>>
  BY DEF SaveBriefing
<1>2. PICK R : briefing \in Seq(R)
  BY DEF BriefingInv
<1>3. PICK x : briefing' = Append(briefing, x)
  BY Zenon DEF SaveBriefing
<1>4. briefing' \in Seq(R \cup {x})
  BY <1>2, <1>3
<1>5. \A g \in Generators : TakenInv(g)'
  BY <1>1 DEF BriefingInv, TakenInv, IsOpen
<1>6. QED
  BY <1>1, <1>4, <1>5 DEF BriefingInv, RepeatsOnlyInFlight

LEMMA BriefingStillKeeps ==
    ASSUME BriefingInv, UNCHANGED <<briefing, generator, todo>>
    PROVE  BriefingInv'
<1>1. \A g \in Generators : TakenInv(g)'
  BY DEF BriefingInv, TakenInv, IsOpen
<1>2. QED
  BY <1>1 DEF BriefingInv, RepeatsOnlyInFlight

LEMMA BriefingsStep == BriefingInv /\ [BriefingsNext]_briefingVars => BriefingInv'
<1> SUFFICES ASSUME BriefingInv, [BriefingsNext]_briefingVars PROVE BriefingInv'
  OBVIOUS
<1>1. ASSUME NEW r \in BrainRows, RowMoves(r) PROVE BriefingInv'
  BY <1>1, BriefingStillKeeps DEF RowMoves
<1>2. CASE SignalMoves
  BY <1>2, BriefingStillKeeps DEF SignalMoves
<1>3. ASSUME NEW a \in Authors, BeginBriefing(a) \/ ReadRows(a) \/ ReadCounts(a)
      PROVE  BriefingInv'
  BY <1>3, BriefingStillKeeps DEF BeginBriefing, ReadRows, ReadCounts
<1>4. ASSUME NEW a \in Authors, SaveBriefing(a) PROVE BriefingInv'
  BY <1>4, SaveBriefingKeeps
<1>5. ASSUME NEW g \in Generators, NEW b \in DOMAIN briefing, ReadOpenTodos(g, b)
      PROVE  BriefingInv'
  BY <1>5, ReadKeeps
<1>6. ASSUME NEW g \in Generators, CreateTodos(g) \/ RefuseTodos(g) PROVE BriefingInv'
  BY <1>6, CreateKeeps, RefuseKeeps
<1>7. ASSUME NEW b \in DOMAIN briefing, NEW k \in Actionable, CreateByHand(b, k)
      PROVE  BriefingInv'
  BY <1>7, ByHandKeeps
<1>8. ASSUME NEW i \in DOMAIN todo, NEW d \in {"approved", "rejected"}, DecideTodo(i, d)
      PROVE  BriefingInv'
  BY <1>8, DecideKeeps
<1>9. CASE UNCHANGED briefingVars
  BY <1>9, BriefingStillKeeps DEF briefingVars
<1>10. QED
  BY <1>1, <1>2, <1>3, <1>4, <1>5, <1>6, <1>7, <1>8, <1>9 DEF BriefingsNext

(* A to-do made from a briefing while another of the same item is open comes
   from a request that read the open to-dos before the other was committed
   (create_proposals_from_briefing): asking again never repeats a follow-up. *)
THEOREM RepeatsOnlyInFlightTheorem == BriefingsSpec => []RepeatsOnlyInFlight
<1>1. BriefingInv => RepeatsOnlyInFlight
  BY DEF BriefingInv
<1>2. QED
  BY <1>1, BriefingsInitHolds, BriefingsStep, PTL DEF BriefingsSpec

-----------------------------------------------------------------------------
(* Headquarters: nothing that was never shown is acknowledged, and          *)
(* everything that was shown.                                              *)

WriterStates ==
    {IdleWriter} \cup [pc : {"begun", "replayed"}, key : Events]
                 \cup [pc : {"numbered"}, key : Events, seq : Nat]

\* The stream row admits one numbered event at a time, the next one.
LedgerInv ==
    /\ stream \in Nat
    /\ event \in [Events -> Nat]
    /\ \A k \in Events : event[k] <= stream
    /\ writer \in [Writers -> WriterStates]
    /\ \A w \in Writers : writer[w].pc = "numbered" => writer[w].seq = stream + 1
    /\ \A v, w \in Writers :
          writer[v].pc = "numbered" /\ writer[w].pc = "numbered" => v = w

\* Every event outside saw has a number beyond seq.
Covered(seq, saw) ==
    seq \in Nat /\ seq <= stream /\ \A k \in Committed \ saw : event[k] > seq

\* A mark that is written, or about to be, covers what its view showed.
MarkInv(mark) == Covered(mark.seq, mark.saw) /\ mark.prints = mark.missions

ClientInv(c) ==
    /\ \/ \E s : client[c] = [pc |-> "idle", shows |-> s]
       \/ \E s, b, m : client[c] = [pc |-> "writing", shows |-> s, base |-> b, mark |-> m]
    /\ client[c].shows # None => Covered(client[c].shows.id.seq, client[c].shows.saw)
    /\ client[c].pc = "writing" => MarkInv(client[c].mark)

HqInv ==
    /\ LedgerInv
    /\ client = [c \in Clients |-> client[c]]
    /\ \A c \in Clients : ClientInv(c)
    /\ checkpoint # None => MarkInv(checkpoint)

-----------------------------------------------------------------------------
(* The ledger.                                                             *)

LEMMA InitHolds == HqInit => HqInv
<1> SUFFICES ASSUME HqInit PROVE HqInv
  OBVIOUS
<1>1. LedgerInv
  BY DEF HqInit, MemoryInit, LedgerInv, WriterStates, IdleWriter
<1>2. client = [c \in Clients |-> client[c]]
  BY DEF HqInit
<1>3. \A c \in Clients : client[c] = [pc |-> "idle", shows |-> None]
  BY DEF HqInit
<1>4. ASSUME NEW c \in Clients PROVE ClientInv(c)
  <2>1. client[c].pc = "idle" /\ client[c].shows = None
    BY <1>3
  <2>2. \E t : client[c] = [pc |-> "idle", shows |-> t]
    BY <1>3
  <2>3. QED
    BY <2>1, <2>2, Zenon DEF ClientInv
<1>5. checkpoint = None
  BY DEF HqInit
<1>6. QED
  BY <1>1, <1>2, <1>4, <1>5 DEF HqInv

\* A ledger that only grows keeps what is covered covered.
LEMMA CoveredGrows ==
    ASSUME LedgerInv, NEW seq, NEW saw, Covered(seq, saw), LedgerInv', stream <= stream',
           \A k \in Events : event'[k] = event[k] \/ event'[k] > stream
    PROVE  Covered(seq, saw)'
<1>1. seq \in Nat /\ stream \in Nat /\ seq <= stream /\ stream' \in Nat
  BY DEF Covered, LedgerInv
<1>2. ASSUME NEW k \in Committed', k \notin saw PROVE event'[k] > seq
  <2>1. k \in Events /\ event'[k] # 0 /\ event'[k] \in Nat
    BY <1>2 DEF Committed, LedgerInv
  <2>2. CASE event'[k] = event[k]
    BY <1>2, <2>1, <2>2 DEF Covered, Committed
  <2>3. CASE event'[k] > stream
    BY <1>1, <2>1, <2>3
  <2>4. QED
    BY <2>1, <2>2, <2>3
<1>3. QED
  BY <1>1, <1>2 DEF Covered

\* Appending keeps the ledger and lets it grow.
LEMMA LedgerKeeps ==
    ASSUME LedgerInv, DecisionNext \/ UNCHANGED memoryVars
    PROVE  /\ LedgerInv'
           /\ stream <= stream'
           /\ \A k \in Events : event'[k] = event[k] \/ event'[k] > stream
<1>1. CASE UNCHANGED memoryVars
  BY <1>1 DEF memoryVars, LedgerInv
<1>2. ASSUME NEW w \in Writers, NEW k \in Events, BeginDecision(w, k) PROVE LedgerInv' /\ UNCHANGED <<stream, event>>
  <2>1. [pc |-> "begun", key |-> k] \in WriterStates
    BY DEF WriterStates
  <2>2. writer' = [writer EXCEPT ![w] = [pc |-> "begun", key |-> k]] /\ UNCHANGED <<stream, event>>
    BY <1>2 DEF BeginDecision, BeginAppend
  <2>3. QED
    BY <2>1, <2>2 DEF LedgerInv
<1>3. ASSUME NEW w \in Writers, NumberDecision(w) PROVE LedgerInv' /\ UNCHANGED <<stream, event>>
  <2>1. writer[w] \in WriterStates /\ writer[w].pc = "begun"
    BY <1>3 DEF NumberDecision, TakeSequence, LedgerInv
  <2>2. writer[w].key \in Events
    BY <2>1 DEF WriterStates, IdleWriter
  <2>3. PICK r : /\ writer' = [writer EXCEPT ![w] = r]
                 /\ \/ r = [pc |-> "replayed", key |-> writer[w].key]
                    \/ r = [pc |-> "numbered", key |-> writer[w].key, seq |-> stream + 1]
    BY <1>3 DEF NumberDecision, TakeSequence
  <2>4. r \in WriterStates
    BY <2>2, <2>3 DEF WriterStates, LedgerInv
  <2>5. ~StreamLocked /\ UNCHANGED <<stream, event>>
    BY <1>3 DEF NumberDecision, TakeSequence
  <2>6. QED
    BY <2>3, <2>4, <2>5 DEF LedgerInv, StreamLocked
<1>4. ASSUME NEW w \in Writers, CommitDecision(w)
      PROVE  /\ LedgerInv' /\ stream <= stream'
             /\ \A k \in Events : event'[k] = event[k] \/ event'[k] > stream
  <2>1. writer' = [writer EXCEPT ![w] = IdleWriter] /\ IdleWriter \in WriterStates
    BY <1>4 DEF CommitDecision, CommitAppend, WriterStates
  <2>2. CASE writer[w].pc = "numbered"
    <3>1. writer[w].key \in Events /\ writer[w].seq = stream + 1
      BY <2>2 DEF LedgerInv, WriterStates, IdleWriter
    <3>2. stream' = stream + 1 /\ event' = [event EXCEPT ![writer[w].key] = stream + 1]
      BY <1>4, <2>2, <3>1 DEF CommitDecision, CommitAppend
    <3>3. \A v \in Writers : writer'[v].pc # "numbered"
      BY <2>1, <2>2 DEF LedgerInv, IdleWriter
    <3>4. QED
      BY <2>1, <3>1, <3>2, <3>3 DEF LedgerInv
  <2>3. CASE writer[w].pc # "numbered"
    <3>1. UNCHANGED <<stream, event>>
      BY <1>4, <2>3 DEF CommitDecision, CommitAppend
    <3>2. QED
      BY <2>1, <3>1 DEF LedgerInv, IdleWriter
  <2>4. QED
    BY <2>2, <2>3
<1>5. ASSUME NEW w \in Writers, FailDecision(w) PROVE LedgerInv' /\ UNCHANGED <<stream, event>>
  <2>1. writer' = [writer EXCEPT ![w] = IdleWriter] /\ IdleWriter \in WriterStates
    BY <1>5 DEF FailDecision, RollBack, WriterStates
  <2>2. UNCHANGED <<stream, event>>
    BY <1>5 DEF FailDecision
  <2>3. QED
    BY <2>1, <2>2 DEF LedgerInv, IdleWriter
<1>6. ASSUME NEW k \in Events, Appears(k) PROVE UNCHANGED memoryVars
  BY <1>6 DEF Appears
<1>7. stream \in Nat
  BY DEF LedgerInv
<1>8. QED
  BY <1>1, <1>2, <1>3, <1>4, <1>5, <1>6, <1>7 DEF DecisionNext, memoryVars, LedgerInv

-----------------------------------------------------------------------------
(* Clients.                                                                *)

\* A step of the rest of the workspace keeps what clients hold covered.
LEMMA OthersKeep ==
    ASSUME HqInv, DecisionNext \/ UNCHANGED memoryVars, UNCHANGED <<checkpoint, client>>
    PROVE  HqInv'
<1>1. LedgerInv
  BY DEF HqInv
<1>2. LedgerInv' /\ stream <= stream' /\ \A k \in Events : event'[k] = event[k] \/ event'[k] > stream
  BY <1>1, LedgerKeeps
<1>4. ASSUME NEW seq, NEW saw, Covered(seq, saw) PROVE Covered(seq, saw)'
  BY <1>1, <1>2, <1>4, CoveredGrows
<1>5. ASSUME NEW c \in Clients PROVE ClientInv(c)'
  <2>1. ClientInv(c) /\ client'[c] = client[c]
    BY DEF HqInv
  <2>2. client[c].shows # None => Covered(client[c].shows.id.seq, client[c].shows.saw)'
    BY <2>1, <1>4 DEF ClientInv
  <2>3. client[c].pc = "writing" => MarkInv(client[c].mark)'
    BY <2>1, <1>4 DEF ClientInv, MarkInv
  <2>4. QED
    BY <2>1, <2>2, <2>3 DEF ClientInv
<1>6. (checkpoint # None => MarkInv(checkpoint))'
  BY <1>4 DEF HqInv, MarkInv
<1>7. QED
  BY <1>2, <1>5, <1>6 DEF HqInv

\* What a step of one client must establish.
LEMMA OneClient ==
    ASSUME HqInv, UNCHANGED memoryVars, NEW c \in Clients, NEW v,
           client' = [client EXCEPT ![c] = v],
           ClientInv(c)', (checkpoint # None => MarkInv(checkpoint))'
    PROVE  HqInv'
<1>1. LedgerInv'
  BY DEF HqInv, LedgerInv, memoryVars
<1>2. ASSUME NEW seq, NEW saw PROVE Covered(seq, saw)' <=> Covered(seq, saw)
  BY DEF Covered, Committed, memoryVars
<1>3. ASSUME NEW d \in Clients, d # c PROVE ClientInv(d)'
  <2>1. client'[d] = client[d] /\ ClientInv(d)
    BY <1>3 DEF HqInv
  <2>2. QED
    BY <1>2, <2>1 DEF ClientInv, MarkInv
<1>4. client' = [d \in Clients |-> client'[d]]
  BY DEF HqInv
<1>5. QED
  BY <1>1, <1>3, <1>4 DEF HqInv

LEMMA ViewKeeps ==
    ASSUME HqInv, NEW c \in Clients, NEW world \in BOOLEAN, View(c, world)
    PROVE  HqInv'
<1>1. PICK shown : shown = [id |-> Snapshot(world), saw |-> Committed]
  OBVIOUS
<1>2. /\ client' = [client EXCEPT ![c] = [pc |-> "idle", shows |-> shown]]
      /\ UNCHANGED <<memoryVars, checkpoint>>
  BY <1>1 DEF View
<1>3. shown.id.seq = stream /\ shown.saw = Committed
  BY <1>1 DEF Snapshot
<1>4. client'[c] = [pc |-> "idle", shows |-> shown]
  BY <1>2 DEF HqInv
<1>5. stream' \in Nat /\ stream' = stream /\ Committed' = Committed
  BY <1>2 DEF HqInv, LedgerInv, memoryVars, Committed
<1>6. Covered(shown.id.seq, shown.saw)'
  BY <1>3, <1>5 DEF Covered
<1>7. ClientInv(c)'
  <2>1. client'[c].pc = "idle" /\ client'[c].shows = shown
    BY <1>4
  <2>2. \E t : client'[c] = [pc |-> "idle", shows |-> t]
    BY <1>4
  <2>3. QED
    BY <1>6, <2>1, <2>2, Zenon DEF ClientInv
<1>8. (checkpoint # None => MarkInv(checkpoint))'
  BY <1>2 DEF HqInv, MarkInv, Covered, Committed, memoryVars
<1>9. QED
  BY <1>2, <1>7, <1>8, OneClient DEF memoryVars

\* The mark of an acknowledgement is the view that was named, which is still
\* the present one.
LEMMA AcknowledgeKeeps ==
    ASSUME HqInv, NEW c \in Clients, NEW world \in BOOLEAN, Acknowledge(c, world)
    PROVE  HqInv'
<1> DEFINE s == client[c].shows
           mark == [seq |-> stream, prints |-> CheckpointPrints(world), saw |-> s.saw,
                    missions |-> Missions(world)]
           v == [pc |-> "writing", shows |-> s, base |-> checkpoint, mark |-> mark]
<1>1. /\ client' = [client EXCEPT ![c] = v] /\ s # None /\ s.id = Snapshot(world)
      /\ UNCHANGED <<memoryVars, checkpoint>>
  BY DEF Acknowledge
<1>2. client'[c] = v
  BY <1>1 DEF HqInv
<1>3. Snapshot(world).seq = stream
  BY DEF Snapshot
<1>4. Covered(s.id.seq, s.saw)
  BY <1>1 DEF HqInv, ClientInv
<1>5. Covered(stream, s.saw)
  BY <1>1, <1>3, <1>4
<1>6. mark.seq = stream /\ mark.saw = s.saw /\ mark.prints = mark.missions
  BY DEF CheckpointPrints
<1>7. v.pc = "writing" /\ v.shows = s /\ v.mark = mark
      /\ \E t, b, m : v = [pc |-> "writing", shows |-> t, base |-> b, mark |-> m]
  OBVIOUS
<1> HIDE DEF s, mark, v
<1>8. ClientInv(c)'
  <2>1. \A seq, saw : Covered(seq, saw)' <=> Covered(seq, saw)
    BY <1>1 DEF Covered, Committed, memoryVars
  <2>2. QED
    BY <2>1, <1>2, <1>4, <1>5, <1>6, <1>7 DEF ClientInv, MarkInv
<1>9. (checkpoint # None => MarkInv(checkpoint))'
  BY <1>1 DEF HqInv, MarkInv, Covered, Committed, memoryVars
<1>10. QED
  BY <1>1, <1>8, <1>9, OneClient DEF memoryVars

LEMMA UpsertKeeps ==
    ASSUME HqInv, NEW c \in Clients, Upsert(c)
    PROVE  HqInv'
<1>1. /\ client' = [client EXCEPT ![c] = [pc |-> "idle", shows |-> None]]
      /\ client[c].pc = "writing" /\ UNCHANGED memoryVars
      /\ checkpoint' = checkpoint \/ checkpoint' = client[c].mark
  BY DEF Upsert
<1>2. client'[c] = [pc |-> "idle", shows |-> None]
  BY <1>1 DEF HqInv
<1>3. ClientInv(c)'
  <2>1. client'[c].pc = "idle" /\ client'[c].shows = None
    BY <1>2
  <2>2. \E t : client'[c] = [pc |-> "idle", shows |-> t]
    BY <1>2
  <2>3. QED
    BY <2>1, <2>2, Zenon DEF ClientInv
<1>4. checkpoint' # None => MarkInv(checkpoint')
  BY <1>1 DEF HqInv, ClientInv
<1>5. (checkpoint # None => MarkInv(checkpoint))'
  BY <1>1, <1>4 DEF MarkInv, Covered, Committed, memoryVars
<1>6. QED
  BY <1>1, <1>3, <1>5, OneClient

LEMMA HqStep == HqInv /\ [HqNext]_hqVars => HqInv'
<1>1. ASSUME HqInv, ClientNext PROVE HqInv'
  BY <1>1, ViewKeeps, AcknowledgeKeeps, UpsertKeeps DEF ClientNext
<1>2. ASSUME HqInv, DecisionNext PROVE HqInv'
  <2>1. UNCHANGED <<checkpoint, client>>
    BY <1>2 DEF DecisionNext, Appears, BeginDecision, NumberDecision, CommitDecision, FailDecision
  <2>2. QED
    BY <1>2, <2>1, OthersKeep
<1>3. ASSUME HqInv, SourceNext PROVE HqInv'
  <2>1. UNCHANGED <<memoryVars, checkpoint, client>>
    BY <1>3 DEF SourceNext, Connect, Disconnect, StartRead, EndRead, Vanish, Age, Set, Brief
  <2>2. QED
    BY <1>3, <2>1, OthersKeep
<1>4. ASSUME HqInv, UNCHANGED hqVars PROVE HqInv'
  BY <1>4, OthersKeep DEF hqVars
<1>5. QED
  BY <1>1, <1>2, <1>3, <1>4 DEF HqNext

-----------------------------------------------------------------------------
\* Nothing that a member was not shown is taken as acknowledged, however many
\* transactions commit late and however many clients acknowledge at once.
THEOREM UnseenIsCountedTheorem == HqSpec => []UnseenIsCounted
<1>1. HqInv => UnseenIsCounted
  BY DEF HqInv, MarkInv, Covered, UnseenIsCounted
<1>2. QED
  BY <1>1, InitHolds, HqStep, PTL DEF HqSpec

\* What was acknowledged is not reported again while nothing changes, whatever
\* the limits of the lists.
THEOREM AcknowledgedIsQuietTheorem == HqSpec => []AcknowledgedIsQuiet
<1>1. HqInv => AcknowledgedIsQuiet
  <2> SUFFICES ASSUME HqInv, NEW world \in BOOLEAN, checkpoint # None,
                      stream = checkpoint.seq, Missions(world) \subseteq checkpoint.missions
               PROVE  ChangesTotal(world) = 0
    BY DEF AcknowledgedIsQuiet
  <2>1. Selected(world) = {}
    BY DEF Selected, HqInv, MarkInv
  <2>2. ResolvedSince = {}
    BY HeadquartersAssumption, MemoryAssumption DEF ResolvedSince, HqInv, LedgerInv
  <2>3. QED
    BY <2>1, <2>2, FS_EmptySet DEF ChangesTotal
<1>2. QED
  BY <1>1, InitHolds, HqStep, PTL DEF HqSpec

\* The missions ask for a source only while the onboarding asks for data, and
\* ask for a briefing as soon as it does not: both are read off the records,
\* the missions through the state of each source, in every state of the sources.
THEOREM GuidanceAgreesTheorem == HqSpec => []GuidanceAgrees
<1>1. ASSUME NEW p \in Sources, source[p].records PROVE p \in DataReady
  BY <1>1 DEF DataReady, DataState
<1>2. OnboardingReady => DataReady # {}
  BY <1>1 DEF OnboardingReady
<1>3. ConnectSource => OnboardingStep = "canonical_data"
  BY <1>2 DEF ConnectSource, OnboardingStep
<1>4. GuidanceAgrees
  BY <1>2, <1>3 DEF GuidanceAgrees, CreateBriefing
<1>5. QED
  BY <1>4, PTL
=============================================================================
