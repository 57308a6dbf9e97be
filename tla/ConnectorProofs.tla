-------------------------- MODULE ConnectorProofs --------------------------
(***************************************************************************)
(* The GitHub App setup beside the connector control center, for any       *)
(* number of administrators, installations, Apps, repositories, tokens and *)
(* read checks: whose callback is still accepted, what it was verified     *)
(* against, and which repositories may be read.                            *)
(***************************************************************************)
EXTENDS ConnectorControl, FiniteSetTheorems, StepwiseRecursion, TLAPS

\* A selection a connection holds, or a read check loaded with it, was offered
\* to the installation it names.
SelectionOffered(m) ==
    m.selected # {} => m.inst \in Installations /\ m.selected \subseteq offered[m.inst]

\* The state of a callback is gone once the installation is verified: from then
\* on other administrators may take the setup over.
StateInv ==
    /\ setup.state # None => setup.state = setup.owner
    /\ setup.phase \in Selecting => setup.state = None

\* The App of a setup that asks for an installation or a consent is known, and
\* the installation that was named is one of its own.
AppInv ==
    /\ setup.phase \in {"installation_pending", "oauth_pending"} => credential # None
    /\ setup.phase = "oauth_pending" =>
         setup.inst \in Installations /\ appOf[setup.inst] = credential
    /\ installation # NoInstallation =>
         /\ installation.inst \in Installations
         /\ appOf[installation.inst] # None
         /\ installation.row \in Rows

\* The inventory to select from is one of the verified installation.
InventoryInv ==
    setup.inventory # {} =>
        /\ installation # NoInstallation
        /\ setup.inventory \subseteq offered[installation.inst]

\* What is selected, and what a check may write back, was offered.
OfferInv ==
    /\ InventoryInv
    /\ \A c \in Rows : SelectionOffered(row[c].meta)
    /\ \A k \in Checks : SelectionOffered(check[k].loaded.meta)

ConnectorInv == TypeOK /\ StateInv /\ AppInv /\ OfferInv

-----------------------------------------------------------------------------
(* Rows are numbered in the order of their creation.                       *)

\* As long as a row is free, the next one is.
LEMMA FreshRowIsFree ==
    ASSUME \E c \in Rows : row[c].status = "absent"
    PROVE  FreshRow \in Rows /\ row[FreshRow].status = "absent"
<1> DEFINE free == {c \in Rows : row[c].status = "absent"}
<1>1. free # {} /\ free \subseteq Nat
  BY SetupAssumption DEF Rows
<1>2. PICK c \in free : \A d \in free : c <= d
  BY <1>1, LeastNumber
<1>3. \A d \in 1..(c - 1) : d \in Rows /\ d \notin free
  BY <1>2, SetupAssumption DEF Rows
<1>4. c \in Rows /\ row[c].status = "absent" /\ \A d \in 1..(c - 1) : row[d].status # "absent"
  BY <1>2, <1>3
<1>5. QED
  BY <1>4 DEF FreshRow

-----------------------------------------------------------------------------
(* Types.                                                                  *)

\* What a row holds when it is written as a whole.
LEMMA FreshRecords ==
    /\ NoRow \in RowRecords
    /\ \A i \in Installations : VerifiedRow(i) \in RowRecords
    /\ \A t \in Tokens, e \in {Login, None} :
         /\ [status |-> "disabled", account |-> None, token |-> t,
             meta |-> [NoMetadata EXCEPT !.via = "settings"]] \in RowRecords
         /\ [status |-> "connected", account |-> e, token |-> t,
             meta |-> [NoMetadata EXCEPT !.via = "operator"]] \in RowRecords
BY DEF NoRow, RowRecords, VerifiedRow, NoMetadata, Metadata

LEMMA InitHolds == Init => ConnectorInv
<1> SUFFICES ASSUME Init PROVE ConnectorInv
  OBVIOUS
<1> USE DEF Init, SetupInit
<1>1. NoSetup \in Setups
  BY SetupAssumption DEF NoSetup, Setups, Phases
<1>2. TypeOK
  BY <1>1, FreshRecords, SetupAssumption DEF TypeOK, NoInstallation, NoCheck
<1>3. StateInv /\ AppInv /\ InventoryInv
  BY DEF StateInv, AppInv, InventoryInv, NoSetup, Selecting
<1>4. OfferInv
  BY <1>3 DEF OfferInv, SelectionOffered, NoRow, NoMetadata, NoCheck
<1>5. QED
  BY <1>2, <1>3, <1>4 DEF ConnectorInv

\* The steps of the setup that touch neither a row nor the installation.
SetupOnly(a) ==
    \/ CheckStart(a) \/ Start(a) \/ AbandonStart(a) \/ ManifestCallback(a) \/ Launch(a)
    \/ CancelOAuth(a) \/ RefreshInventory(a) \/ Restart(a)
    \/ \E i \in Installations : BeginOAuth(a, i)

\* They keep the setup's type, and the App's.
LEMMA SetupOnlyTypes ==
    ASSUME TypeOK, AppInv, NEW a \in Admins, SetupOnly(a)
    PROVE  /\ setup' \in Setups
           /\ starting' \subseteq Admins
           /\ credential' \in Apps \cup {None}
           /\ appOf' \in [Installations -> Apps \cup {None}]
           /\ offered' \in [Installations -> SUBSET Repos]
<1> USE DEF TypeOK
<1>1. CASE CheckStart(a)
  BY <1>1 DEF CheckStart
<1>2. CASE Start(a)
  <2>1. NoSetup \in Setups
    BY SetupAssumption DEF NoSetup, Setups, Phases
  <2>2. setup' \in Setups
    BY <1>2, <2>1 DEF Start, Setups, Phases
  <2>3. QED
    BY <1>2, <2>2 DEF Start
<1>3. CASE AbandonStart(a)
  BY <1>3 DEF AbandonStart
<1>4. CASE ManifestCallback(a)
  BY <1>4 DEF ManifestCallback, StoreCredential, Failed, Setups, Phases
<1>5. CASE Launch(a)
  <2>1. setup' \in Setups
    BY <1>5 DEF Launch, Setups, Phases
  <2>2. QED
    BY <1>5, <2>1 DEF Launch
<1>6. CASE CancelOAuth(a)
  BY <1>6 DEF CancelOAuth, Setups, Phases
<1>7. CASE RefreshInventory(a)
  <2>1. setup' \in Setups
    BY ZenonT(40), <1>7 DEF RefreshInventory, Setups, Phases
  <2>2. ASSUME NEW R \in SUBSET Repos,
                offered' = [offered EXCEPT ![installation.inst] = @ \cup R]
        PROVE  offered' \in [Installations -> SUBSET Repos]
    <3>1. \A i \in Installations : offered[i] \cup R \in SUBSET Repos
      OBVIOUS
    <3>2. QED
      BY <2>2, <3>1
  <2>3. QED
    BY <1>7, <2>1, <2>2 DEF RefreshInventory
<1>8. CASE Restart(a)
  <2>1. Taken(a) \in Setups
    BY DEF Taken, Setups
  <2>2. setup' \in Setups
    BY ZenonT(40), <1>8, <2>1 DEF Restart, Setups, Phases
  <2>3. QED
    BY <1>8, <2>2 DEF Restart
<1>9. ASSUME NEW i \in Installations, BeginOAuth(a, i)
      PROVE  /\ setup' \in Setups
             /\ starting' \subseteq Admins
             /\ credential' \in Apps \cup {None}
             /\ appOf' \in [Installations -> Apps \cup {None}]
             /\ offered' \in [Installations -> SUBSET Repos]
  <2>1. setup' \in Setups
    <3>1. [setup EXCEPT !.phase = "oauth_pending", !.state = a, !.verifier = TRUE,
                        !.inst = i] \in Setups
      BY DEF Setups, Phases
    <3>2. Failed \in Setups
      BY SetupAssumption DEF Failed, Setups, Phases
    <3>3. QED
      BY <1>9, <3>1, <3>2 DEF BeginOAuth
  <2>2. appOf' \in [Installations -> Apps \cup {None}]
    BY <1>9 DEF BeginOAuth, ConfirmInstallation
  <2>3. QED
    BY <1>9, <2>1, <2>2 DEF BeginOAuth
<1>10. QED
  BY <1>1, <1>2, <1>3, <1>4, <1>5, <1>6, <1>7, <1>8, <1>9 DEF SetupOnly

-----------------------------------------------------------------------------
(* The state that a callback must bring, and what it is verified against.  *)

LEMMA SetupOnlyState ==
    ASSUME TypeOK, StateInv, NEW a \in Admins, SetupOnly(a)
    PROVE  StateInv'
<1> USE SetupAssumption DEF TypeOK, StateInv, Setups, Selecting
<1>1. CASE CheckStart(a)
  BY <1>1 DEF CheckStart
<1>2. CASE Start(a)
  BY <1>2 DEF Start, NoSetup
<1>3. CASE AbandonStart(a)
  BY <1>3 DEF AbandonStart
<1>4. CASE ManifestCallback(a)
  BY <1>4 DEF ManifestCallback, Failed
<1>5. CASE Launch(a)
  BY <1>5 DEF Launch
<1>6. CASE CancelOAuth(a)
  BY <1>6 DEF CancelOAuth
<1>7. CASE RefreshInventory(a)
  BY ZenonT(40), <1>7 DEF RefreshInventory, MayRefresh
<1>8. CASE Restart(a)
  <2>1. setup'.state = None
    BY <1>8 DEF Restart, Taken
  <2>2. QED
    BY <2>1
<1>9. ASSUME NEW i \in Installations, BeginOAuth(a, i) PROVE StateInv'
  <2>1. setup.owner = a
    BY <1>9 DEF BeginOAuth, Claimable
  <2>2. CASE setup' = Failed
    BY <2>2 DEF Failed
  <2>3. CASE setup' = [setup EXCEPT !.phase = "oauth_pending", !.state = a,
                                    !.verifier = TRUE, !.inst = i]
    BY <2>1, <2>3
  <2>4. QED
    BY <1>9, <2>2, <2>3 DEF BeginOAuth
<1>10. QED
  BY <1>1, <1>2, <1>3, <1>4, <1>5, <1>6, <1>7, <1>8, <1>9 DEF SetupOnly

LEMMA SetupOnlyApp ==
    ASSUME TypeOK, AppInv, NEW a \in Admins, SetupOnly(a)
    PROVE  AppInv'
<1> USE SetupAssumption DEF TypeOK, AppInv, Setups
<1>1. CASE CheckStart(a)
  BY <1>1 DEF CheckStart
<1>2. CASE Start(a)
  BY <1>2 DEF Start, NoSetup
<1>3. CASE AbandonStart(a)
  BY <1>3 DEF AbandonStart
<1>4. CASE ManifestCallback(a)
  <2>1. UNCHANGED <<installation, appOf>> /\ setup'.phase # "oauth_pending"
    BY ZenonT(40), <1>4 DEF ManifestCallback, Failed
  <2>2. CASE StoreCredential
    <3>1. credential' \in Apps /\ None \notin Apps
      BY <2>2 DEF StoreCredential
    <3>2. QED
      BY <2>1, <3>1
  <2>3. CASE setup' = Failed
    <3>1. setup'.phase = "failed"
      BY <2>3 DEF Failed
    <3>2. QED
      BY <2>1, <3>1
  <2>4. QED
    BY <1>4, <2>2, <2>3, Zenon DEF ManifestCallback
<1>5. CASE Launch(a)
  BY <1>5 DEF Launch
<1>6. CASE CancelOAuth(a)
  BY <1>6 DEF CancelOAuth
<1>7. CASE RefreshInventory(a)
  <2>1. UNCHANGED <<credential, installation, appOf>>
    BY <1>7 DEF RefreshInventory
  <2>2. setup'.inst = setup.inst /\ setup'.phase \in {setup.phase, "repository_selection"}
    <3>1. ASSUME NEW R,
                 setup' = [setup EXCEPT !.owner = a, !.phase = "repository_selection",
                                        !.inventory = R, !.expired = FALSE]
          PROVE  setup'.inst = setup.inst /\ setup'.phase = "repository_selection"
      BY <3>1
    <3>2. CASE setup' = [setup EXCEPT !.owner = a]
      BY <3>2
    <3>3. QED
      BY <1>7, <3>1, <3>2 DEF RefreshInventory
  <2>3. QED
    BY <2>1, <2>2
<1>8. CASE Restart(a)
  <2>1. setup'.phase = "installation_pending" => credential # None
    BY <1>8 DEF Restart, Taken
  <2>2. setup'.phase # "oauth_pending"
    BY <1>8 DEF Restart, Taken
  <2>3. QED
    BY <1>8, <2>1, <2>2 DEF Restart
<1>9. ASSUME NEW i \in Installations, BeginOAuth(a, i) PROVE AppInv'
  <2>1. credential # None
    BY <1>9 DEF BeginOAuth, Claimable
  <2>2. CASE setup' = Failed /\ UNCHANGED appOf
    BY <1>9, <2>2 DEF BeginOAuth, Failed
  <2>3. CASE ConfirmInstallation(i) /\ setup'.inst = i
    <3>1. appOf'[i] = credential /\ \A j \in Installations : appOf[j] # None => appOf'[j] # None
      BY <2>1, <2>3 DEF ConfirmInstallation
    <3>2. UNCHANGED <<installation, credential>>
      BY <1>9 DEF BeginOAuth
    <3>3. QED
      BY <2>1, <2>3, <3>1, <3>2
  <2>4. QED
    BY ZenonT(40), <1>9, <2>2, <2>3 DEF BeginOAuth
<1>10. QED
  BY <1>1, <1>2, <1>3, <1>4, <1>5, <1>6, <1>7, <1>8, <1>9 DEF SetupOnly

-----------------------------------------------------------------------------
(* What was offered stays offered.                                         *)

OfferedGrows == \A i \in Installations : offered[i] \subseteq offered'[i]

LEMMA SelectionStays ==
    ASSUME OfferedGrows, NEW m, SelectionOffered(m)
    PROVE  m.selected # {} => m.inst \in Installations /\ m.selected \subseteq offered'[m.inst]
BY DEF OfferedGrows, SelectionOffered

LEMMA SetupOnlyOffer ==
    ASSUME TypeOK, AppInv, OfferInv, NEW a \in Admins, SetupOnly(a), UNCHANGED check
    PROVE  OfferInv'
<1>1. OfferedGrows /\ UNCHANGED <<row, installation>>
  <2>1. CASE RefreshInventory(a)
    <3>1. ASSUME NEW R, offered' = [offered EXCEPT ![installation.inst] = @ \cup R]
          PROVE  OfferedGrows
      <4>1. offered' = [i \in Installations |-> IF i = installation.inst
                                                 THEN offered[i] \cup R ELSE offered[i]]
        BY <3>1 DEF TypeOK
      <4>2. QED
        BY <4>1 DEF OfferedGrows
    <3>2. ASSUME UNCHANGED offered PROVE OfferedGrows
      BY <3>2 DEF OfferedGrows
    <3>3. QED
      BY <2>1, <3>1, <3>2 DEF RefreshInventory
  <2>2. CASE ~RefreshInventory(a)
    BY <2>2 DEF SetupOnly, OfferedGrows, CheckStart, Start, AbandonStart, ManifestCallback,
                Launch, CancelOAuth, Restart, BeginOAuth
  <2>3. QED
    BY <2>1, <2>2
<1>2. \A c \in Rows : SelectionOffered(row[c].meta)'
  BY <1>1, SelectionStays DEF OfferInv, SelectionOffered
<1>3. \A k \in Checks : SelectionOffered(check[k].loaded.meta)'
  BY <1>1, SelectionStays DEF OfferInv, SelectionOffered
<1>4. InventoryInv'
  <2> USE DEF InventoryInv, TypeOK, Setups
  <2>1. CASE setup'.inventory \in {{}, setup.inventory}
    BY <1>1, <2>1 DEF OfferInv, AppInv, OfferedGrows
  <2>2. CASE RefreshInventory(a) /\ setup'.inventory # setup.inventory
    <3>1. PICK R \in SUBSET Repos :
            /\ installation # NoInstallation
            /\ setup' = [setup EXCEPT !.owner = a, !.phase = "repository_selection",
                                      !.inventory = R, !.expired = FALSE]
            /\ offered' = [offered EXCEPT ![installation.inst] = @ \cup R]
      BY <2>2 DEF RefreshInventory
    <3>2. setup'.inventory = R
      BY <3>1
    <3>3. offered'[installation.inst] = offered[installation.inst] \cup R
      BY <3>1 DEF AppInv
    <3>4. QED
      BY <1>1, <3>1, <3>2, <3>3
  <2>3. CASE ~RefreshInventory(a)
    <3>1. setup'.inventory \in {{}, setup.inventory}
      BY <2>3 DEF SetupOnly, CheckStart, Start, NoSetup, AbandonStart, ManifestCallback, Failed,
                  Launch, CancelOAuth, Restart, Taken, BeginOAuth
    <3>2. QED
      BY <2>1, <3>1
  <2>4. QED
    BY <2>1, <2>2, <2>3
<1>5. QED
  BY <1>2, <1>3, <1>4 DEF OfferInv

\* One row is written, with what fits the type and was offered.
LEMMA RowWritten ==
    ASSUME row \in [Rows -> RowRecords], \A d \in Rows : SelectionOffered(row[d].meta),
           NEW c, NEW r, row' = [row EXCEPT ![c] = r], UNCHANGED offered,
           c \in Rows => r \in RowRecords /\ SelectionOffered(r.meta)
    PROVE  /\ row' \in [Rows -> RowRecords]
           /\ \A d \in Rows : SelectionOffered(row[d].meta)'
<1>1. ASSUME NEW d \in Rows PROVE row'[d] \in RowRecords /\ SelectionOffered(row[d].meta)'
  <2>1. CASE d = c
    BY <2>1 DEF SelectionOffered
  <2>2. CASE d # c
    BY <2>2 DEF SelectionOffered
  <2>3. QED
    BY <2>1, <2>2
<1>2. QED
  BY <1>1

\* A read check is begun or ends.
LEMMA CheckWritten ==
    ASSUME TypeOK, \A j \in Checks : SelectionOffered(check[j].loaded.meta),
           NEW k \in Checks, NEW v, check' = [check EXCEPT ![k] = v], UNCHANGED offered,
           v \in [row : 0..MaxRows, loaded : RowRecords, managed : BOOLEAN],
           SelectionOffered(v.loaded.meta)
    PROVE  /\ check' \in [Checks -> [row : 0..MaxRows, loaded : RowRecords, managed : BOOLEAN]]
           /\ \A j \in Checks : SelectionOffered(check[j].loaded.meta)'
<1>1. check' \in [Checks -> [row : 0..MaxRows, loaded : RowRecords, managed : BOOLEAN]]
  BY DEF TypeOK
<1>2. ASSUME NEW j \in Checks PROVE SelectionOffered(check[j].loaded.meta)'
  <2>1. CASE j = k
    BY <2>1 DEF SelectionOffered, TypeOK
  <2>2. CASE j # k
    BY <2>2 DEF SelectionOffered, TypeOK
  <2>3. QED
    BY <2>1, <2>2
<1>3. QED
  BY <1>1, <1>2

\* Steps that leave the setup alone leave what is said of it.
LEMMA SetupStays ==
    ASSUME TypeOK, StateInv, AppInv, InventoryInv, UNCHANGED SetupElse
    PROVE  StateInv' /\ AppInv' /\ InventoryInv'
BY DEF SetupElse, StateInv, AppInv, InventoryInv

LEMMA NothingSelected ==
    ASSUME NEW m, m.selected = {} PROVE SelectionOffered(m)
BY DEF SelectionOffered

-----------------------------------------------------------------------------
(* The verified installation, and the selection.                           *)

LEMMA OAuthCallbackKeeps ==
    ASSUME ConnectorInv, NEW a \in Admins, OAuthCallback(a), UNCHANGED <<check, secret>>
    PROVE  ConnectorInv'
<1> USE SetupAssumption DEF ConnectorInv
<1> DEFINE failed == [Failed EXCEPT !.verifier = FALSE]
<1>1. CASE setup' = failed /\ UNCHANGED <<row, installation>>
  <2>1. UNCHANGED <<starting, credential, appOf, offered>>
    BY DEF OAuthCallback
  <2>2. setup' \in Setups /\ setup'.phase = "failed" /\ setup'.state = None
        /\ setup'.inventory = setup.inventory
    BY <1>1 DEF TypeOK, Failed, Setups, Phases
  <2>3. TypeOK'
    BY <1>1, <2>1, <2>2 DEF TypeOK
  <2>4. StateInv' /\ AppInv' /\ InventoryInv'
    BY <1>1, <2>1, <2>2 DEF StateInv, AppInv, OfferInv, InventoryInv, Selecting
  <2>5. OfferInv'
    BY <1>1, <2>1, <2>4 DEF OfferInv, SelectionOffered
  <2>6. QED
    BY <2>3, <2>4, <2>5
<1>2. CASE ~(setup' = failed /\ UNCHANGED <<row, installation>>)
  <2> DEFINE i == setup.inst
             c == IF RowsOf(i) = {} THEN FreshRow ELSE CHOOSE d \in RowsOf(i) : TRUE
  <2>1. /\ setup.inst # None
        /\ ListedToUser(setup.inst)
        /\ RowsOf(setup.inst) # {} \/ \E d \in Rows : row[d].status = "absent"
        /\ row' = [row EXCEPT ![c] = VerifiedRow(i)]
        /\ installation' = [row |-> c, inst |-> i]
        /\ setup' = [setup EXCEPT !.phase = "repository_selection", !.state = None,
                                  !.credentialed = TRUE, !.verifier = FALSE,
                                  !.row = c, !.inventory = {}]
    BY <1>2 DEF OAuthCallback
  <2>2. UNCHANGED <<starting, credential, appOf, offered>>
    BY DEF OAuthCallback
  <2>3. i \in Installations
    BY <2>1 DEF TypeOK, Setups
  <2>4. c \in Rows
    <3>1. CASE RowsOf(i) = {}
      BY <2>1, <3>1, FreshRowIsFree
    <3>2. CASE RowsOf(i) # {}
      BY <3>2 DEF RowsOf
    <3>3. QED
      BY <3>1, <3>2
  <2> HIDE DEF c
  <2>5. c \in 0..MaxRows
    BY <2>4 DEF Rows
  <2>6. setup' \in Setups
    BY <2>1, <2>5 DEF TypeOK, Setups, Phases
  <2>7. VerifiedRow(i) \in RowRecords /\ SelectionOffered(VerifiedRow(i).meta)
    BY <2>3, FreshRecords DEF VerifiedRow, NoMetadata, SelectionOffered
  <2>8. row' \in [Rows -> RowRecords] /\ \A d \in Rows : SelectionOffered(row[d].meta)'
    BY <2>1, <2>2, <2>7, RowWritten DEF TypeOK, OfferInv
  <2>9. TypeOK'
    BY <2>1, <2>2, <2>3, <2>5, <2>6, <2>8 DEF TypeOK
  <2>10. setup'.phase = "repository_selection" /\ setup'.state = None /\ setup'.inventory = {}
    BY <2>1 DEF TypeOK, Setups
  <2>11. StateInv' /\ InventoryInv'
    BY <2>10 DEF StateInv, InventoryInv
  <2>12. AppInv'
    <3>1. installation'.inst = i /\ installation'.row = c
      BY <2>1
    <3>2. appOf[i] # None
      BY <2>1 DEF AppInv, ListedToUser, OAuthCallback, Claimable
    <3>3. QED
      BY <2>2, <2>3, <2>4, <2>10, <3>1, <3>2 DEF AppInv
  <2>13. OfferInv'
    BY <2>2, <2>8, <2>11 DEF OfferInv, SelectionOffered
  <2>14. QED
    BY <2>9, <2>11, <2>12, <2>13
<1>3. QED
  BY <1>1, <1>2

LEMMA FinalizeKeeps ==
    ASSUME ConnectorInv, NEW a \in Admins, NEW R \in SUBSET Repos, Finalize(a, R),
           UNCHANGED <<check, secret>>
    PROVE  ConnectorInv'
<1> USE DEF ConnectorInv
<1> DEFINE c == setup.row
           r == [row[c] EXCEPT !.status = "connected",
                   !.meta = [@ EXCEPT !.inst = installation.inst, !.reads = TRUE, !.selected = R]]
<1>1. UNCHANGED <<starting, credential, installation, appOf, offered>>
  BY DEF Finalize
<1>2. c \in Rows
  BY SetupAssumption DEF Finalize, RelationHolds, TypeOK, Setups, Rows
<1>3. row' = [row EXCEPT ![c] = r]
  BY ZenonT(40) DEF Finalize
<1>4. R # {} /\ R \subseteq setup.inventory
  BY DEF Finalize, Selectable
<1>5. installation # NoInstallation /\ R \subseteq offered[installation.inst]
  BY <1>4 DEF OfferInv, InventoryInv
<1>6. installation.inst \in Installations
  BY <1>5 DEF AppInv
<1>7. r \in RowRecords /\ r.meta.inst = installation.inst /\ r.meta.selected = R
  <2>1. row[c] \in RowRecords /\ row[c].meta \in Metadata
    BY <1>2 DEF TypeOK, RowRecords
  <2>2. [row[c].meta EXCEPT !.inst = installation.inst, !.reads = TRUE, !.selected = R] \in Metadata
    BY <1>6, <2>1 DEF Metadata
  <2>3. QED
    BY <2>1, <2>2 DEF RowRecords, Metadata
<1> HIDE DEF r
<1>8. SelectionOffered(r.meta)
  BY <1>5, <1>6, <1>7 DEF SelectionOffered
<1>9. row' \in [Rows -> RowRecords] /\ \A d \in Rows : SelectionOffered(row[d].meta)'
  BY <1>1, <1>3, <1>7, <1>8, RowWritten DEF TypeOK, OfferInv
<1>10. setup' \in Setups /\ setup'.phase = "completed" /\ setup'.inventory = R
       /\ setup'.state = setup.state
  BY DEF Finalize, TypeOK, Setups, Phases
<1>11. TypeOK'
  BY <1>1, <1>9, <1>10 DEF TypeOK
<1>12. setup.state = None
  BY DEF Finalize, StateInv, Selecting
<1>13. StateInv' /\ AppInv' /\ InventoryInv'
  BY <1>1, <1>5, <1>10, <1>12 DEF StateInv, AppInv, InventoryInv
<1>14. OfferInv'
  BY <1>1, <1>9, <1>13 DEF OfferInv, SelectionOffered
<1>15. QED
  BY <1>11, <1>13, <1>14

LEMMA ExpireKeeps ==
    ASSUME ConnectorInv, Expire, UNCHANGED <<check, secret>>
    PROVE  ConnectorInv'
<1> USE DEF ConnectorInv
<1>1. UNCHANGED <<starting, credential, installation, row, appOf, offered>>
  BY DEF Expire
<1>2. /\ setup' \in Setups
      /\ setup'.phase = setup.phase /\ setup'.state = setup.state /\ setup'.owner = setup.owner
      /\ setup'.inst = setup.inst /\ setup'.inventory = setup.inventory
  BY DEF Expire, TypeOK, Setups
<1>3. TypeOK'
  BY <1>1, <1>2 DEF TypeOK
<1>4. StateInv' /\ AppInv' /\ InventoryInv'
  BY <1>1, <1>2 DEF StateInv, AppInv, InventoryInv, OfferInv
<1>5. OfferInv'
  BY <1>1, <1>4 DEF OfferInv, SelectionOffered
<1>6. QED
  BY <1>3, <1>4, <1>5

-----------------------------------------------------------------------------
(* Tokens and read checks.                                                 *)

\* A token is saved in a row written as a whole, or the row loses its token.
LEMMA TokenKeeps ==
    ASSUME ConnectorInv, NEW c, NEW r, row' = [row EXCEPT ![c] = r],
           c \in Rows => r \in RowRecords /\ SelectionOffered(r.meta),
           UNCHANGED <<SetupElse, check>>,
           secret' \in [Tokens -> {"new", "saved", "proved"}]
    PROVE  ConnectorInv'
<1> USE DEF ConnectorInv
<1>1. UNCHANGED <<setup, starting, credential, installation, appOf, offered>>
  BY DEF SetupElse
<1>2. row' \in [Rows -> RowRecords] /\ \A d \in Rows : SelectionOffered(row[d].meta)'
  BY <1>1, RowWritten DEF TypeOK, OfferInv
<1>3. TypeOK'
  BY <1>1, <1>2 DEF TypeOK
<1>4. StateInv' /\ AppInv' /\ InventoryInv'
  BY SetupStays DEF OfferInv
<1>5. OfferInv'
  BY <1>1, <1>2, <1>4 DEF OfferInv, SelectionOffered
<1>6. QED
  BY <1>3, <1>4, <1>5

LEMMA SaveKeeps ==
    ASSUME ConnectorInv, NEW t \in Tokens, Apply(t) \/ \E e \in {Login, None} : SaveProviderToken(t, e)
    PROVE  ConnectorInv'
<1>1. secret' \in [Tokens -> {"new", "saved", "proved"}]
  BY DEF Apply, SaveProviderToken, Save, ConnectorInv, TypeOK
<1>2. CASE Apply(t)
  <2> DEFINE r == [status |-> "disabled", account |-> None, token |-> t,
                   meta |-> [NoMetadata EXCEPT !.via = "settings"]]
  <2>1. PICK c : row' = [row EXCEPT ![c] = r]
    BY <1>2 DEF Apply
  <2>2. r \in RowRecords
    BY FreshRecords
  <2>3. SelectionOffered(r.meta)
    BY DEF SelectionOffered, NoMetadata
  <2>4. UNCHANGED <<SetupElse, check>>
    BY <1>2 DEF Apply
  <2> HIDE DEF r
  <2>5. QED
    BY <1>1, <2>1, <2>2, <2>3, <2>4, TokenKeeps
<1>3. ASSUME NEW e \in {Login, None}, SaveProviderToken(t, e) PROVE ConnectorInv'
  <2> DEFINE r == [status |-> "connected", account |-> e, token |-> t,
                   meta |-> [NoMetadata EXCEPT !.via = "operator"]]
  <2>1. PICK c : row' = [row EXCEPT ![c] = r]
    BY <1>3 DEF SaveProviderToken
  <2>2. r \in RowRecords
    BY FreshRecords
  <2>3. SelectionOffered(r.meta)
    BY DEF SelectionOffered, NoMetadata
  <2>4. UNCHANGED <<SetupElse, check>>
    BY <1>3 DEF SaveProviderToken
  <2> HIDE DEF r
  <2>5. QED
    BY <1>1, <2>1, <2>2, <2>3, <2>4, TokenKeeps
<1>4. QED
  BY <1>2, <1>3

LEMMA DisconnectKeeps == ASSUME ConnectorInv, Disconnect PROVE ConnectorInv'
<1> DEFINE c == SettingsRow
           r == [row[c] EXCEPT !.status = "disabled", !.account = None, !.token = None,
                               !.meta.check = "none"]
<1>1. row' = [row EXCEPT ![c] = r]
  BY DEF Disconnect
<1>2. UNCHANGED <<SetupElse, check>> /\ UNCHANGED secret
  BY DEF Disconnect
<1>3. ASSUME c \in Rows PROVE r \in RowRecords /\ SelectionOffered(r.meta)
  <2>1. row[c] \in RowRecords /\ row[c].meta \in Metadata /\ SelectionOffered(row[c].meta)
    BY <1>3 DEF ConnectorInv, TypeOK, RowRecords, OfferInv
  <2>2. r.meta = [row[c].meta EXCEPT !.check = "none"]
    BY <2>1 DEF RowRecords
  <2>3. r.meta \in Metadata /\ r.meta.inst = row[c].meta.inst
        /\ r.meta.selected = row[c].meta.selected
    BY <2>1, <2>2 DEF Metadata
  <2>4. r \in RowRecords
    BY <2>1, <2>3 DEF RowRecords
  <2>5. QED
    BY <2>1, <2>3, <2>4 DEF SelectionOffered
<1> HIDE DEF c, r
<1>4. QED
  BY <1>1, <1>2, <1>3, TokenKeeps DEF ConnectorInv, TypeOK

\* The steps of a read check.
LEMMA CheckKeeps ==
    ASSUME ConnectorInv, NEW k \in Checks,
           NEW v \in [row : 0..MaxRows, loaded : RowRecords, managed : BOOLEAN],
           check' = [check EXCEPT ![k] = v], SelectionOffered(v.loaded.meta),
           UNCHANGED SetupElse, secret' \in [Tokens -> {"new", "saved", "proved"}],
           row' \in [Rows -> RowRecords], \A d \in Rows : SelectionOffered(row[d].meta)'
    PROVE  ConnectorInv'
<1> USE DEF ConnectorInv
<1>1. UNCHANGED <<setup, starting, credential, installation, appOf, offered>>
  BY DEF SetupElse
<1>2. /\ check' \in [Checks -> [row : 0..MaxRows, loaded : RowRecords, managed : BOOLEAN]]
      /\ \A j \in Checks : SelectionOffered(check[j].loaded.meta)'
  BY <1>1, CheckWritten DEF OfferInv
<1>3. TypeOK'
  BY <1>1, <1>2 DEF TypeOK
<1>4. StateInv' /\ AppInv' /\ InventoryInv'
  BY SetupStays DEF OfferInv
<1>5. OfferInv'
  BY <1>2, <1>4 DEF OfferInv
<1>6. QED
  BY <1>3, <1>4, <1>5

LEMMA NoCheckFits ==
    /\ NoCheck \in [row : 0..MaxRows, loaded : RowRecords, managed : BOOLEAN]
    /\ SelectionOffered(NoCheck.loaded.meta)
<1>1. NoCheck.loaded.meta.selected = {}
  BY DEF NoCheck, NoRow, NoMetadata
<1>2. NoCheck \in [row : 0..MaxRows, loaded : RowRecords, managed : BOOLEAN]
  BY FreshRecords, SetupAssumption DEF NoCheck
<1>3. QED
  BY <1>1, <1>2 DEF SelectionOffered

\* The receipt of a check is written with the metadata that it had loaded.
LEMMA ReceiptKeeps ==
    ASSUME ConnectorInv, NEW k \in Checks, UNCHANGED offered,
           NEW status \in {"connected", "error"},
           NEW account \in Installations \cup {Login, None},
           NEW receipt \in {"passed", "failed"},
           Receipted(k, status, account, [check[k].loaded.meta EXCEPT !.check = receipt])
    PROVE  row' \in [Rows -> RowRecords] /\ \A d \in Rows : SelectionOffered(row[d].meta)'
<1> DEFINE c == check[k].row
           l == check[k].loaded
           m == [l.meta EXCEPT !.check = receipt]
           r == [row[c] EXCEPT !.status = Column(l.status, status, row[c].status),
                               !.account = Column(l.account, account, row[c].account),
                               !.meta = m]
<1>1. l \in RowRecords /\ l.meta \in Metadata /\ SelectionOffered(l.meta)
  BY DEF ConnectorInv, TypeOK, RowRecords, OfferInv
<1>2. m \in Metadata /\ m.inst = l.meta.inst /\ m.selected = l.meta.selected
  BY <1>1 DEF Metadata
<1>3. SelectionOffered(m)
  BY <1>1, <1>2 DEF SelectionOffered
<1>4. row' = [row EXCEPT ![c] = r]
  BY DEF Receipted
<1> HIDE DEF m
<1>5. ASSUME c \in Rows PROVE r \in RowRecords /\ r.meta = m
  <2>1. row[c] \in RowRecords
    BY <1>5 DEF ConnectorInv, TypeOK
  <2>2. Column(l.status, status, row[c].status) \in {"absent", "disabled", "connected", "error"}
    BY <2>1 DEF Column, RowRecords
  <2>3. Column(l.account, account, row[c].account) \in Installations \cup {Login, None}
    BY <2>1 DEF Column, RowRecords
  <2>4. QED
    BY <1>2, <2>1, <2>2, <2>3 DEF RowRecords
<1> HIDE DEF r, c
<1>6. QED
  BY <1>3, <1>4, <1>5, RowWritten DEF ConnectorInv, TypeOK, OfferInv

LEMMA CheckStepKeeps ==
    ASSUME ConnectorInv, NEW k \in Checks,
           BeginCheck(k) \/ PassCheck(k) \/ FailCheck(k) \/ AbandonCheck(k)
    PROVE  ConnectorInv'
<1> DEFINE Kept == row' \in [Rows -> RowRecords] /\ \A d \in Rows : SelectionOffered(row[d].meta)'
<1>1. ASSUME UNCHANGED <<setupVars, secret>>
      PROVE  UNCHANGED SetupElse /\ secret' \in [Tokens -> {"new", "saved", "proved"}] /\ Kept
  <2>1. UNCHANGED SetupElse /\ UNCHANGED <<row, offered, secret>>
    BY <1>1 DEF setupVars, SetupElse
  <2>2. QED
    BY <2>1 DEF ConnectorInv, TypeOK, OfferInv, SelectionOffered
<1>2. CASE BeginCheck(k)
  <2>1. PICK c \in Selected :
          check' = [check EXCEPT ![k] = [row |-> c, loaded |-> row[c], managed |-> Managed]]
    BY <1>2 DEF BeginCheck
  <2>2. c \in Rows
    BY <2>1 DEF Selected, Managed, SettingsRows, Present, ConnectorInv, AppInv
  <2> DEFINE v == [row |-> c, loaded |-> row[c], managed |-> Managed]
  <2>3. v \in [row : 0..MaxRows, loaded : RowRecords, managed : BOOLEAN]
    BY <2>2, SetupAssumption DEF ConnectorInv, TypeOK, Rows, Managed
  <2>4. SelectionOffered(v.loaded.meta)
    BY <2>2 DEF ConnectorInv, OfferInv
  <2>5. UNCHANGED <<setupVars, secret>>
    BY <1>2 DEF BeginCheck
  <2> HIDE DEF v
  <2>6. QED
    BY <1>1, <2>1, <2>3, <2>4, <2>5, CheckKeeps DEF v
<1>3. CASE PassCheck(k)
  <2>1. UNCHANGED SetupElse /\ UNCHANGED offered
    BY <1>3 DEF PassCheck, SetupElse
  <2>2. Kept
    BY <1>3, <2>1, ReceiptKeeps DEF PassCheck
  <2>3. secret' \in [Tokens -> {"new", "saved", "proved"}]
    BY <1>3 DEF PassCheck, ConnectorInv, TypeOK
  <2>4. check' = [check EXCEPT ![k] = NoCheck]
    BY <1>3 DEF PassCheck
  <2>5. QED
    BY <2>1, <2>2, <2>3, <2>4, NoCheckFits, CheckKeeps
<1>4. CASE FailCheck(k)
  <2>1. UNCHANGED SetupElse /\ UNCHANGED <<offered, secret>>
    BY <1>4 DEF FailCheck, SetupElse
  <2>2. check[k].loaded.account \in Installations \cup {Login, None}
    BY DEF ConnectorInv, TypeOK, RowRecords
  <2>3. Kept
    BY <1>4, <2>1, <2>2, ReceiptKeeps DEF FailCheck
  <2>4. secret' \in [Tokens -> {"new", "saved", "proved"}]
    BY <2>1 DEF ConnectorInv, TypeOK
  <2>5. check' = [check EXCEPT ![k] = NoCheck]
    BY <1>4 DEF FailCheck
  <2>6. QED
    BY <2>1, <2>3, <2>4, <2>5, NoCheckFits, CheckKeeps
<1>5. CASE AbandonCheck(k)
  <2>1. UNCHANGED <<setupVars, secret>> /\ check' = [check EXCEPT ![k] = NoCheck]
    BY <1>5 DEF AbandonCheck
  <2>2. QED
    BY <1>1, <2>1, NoCheckFits, CheckKeeps
<1>6. QED
  BY <1>2, <1>3, <1>4, <1>5

-----------------------------------------------------------------------------
(* Every step, and what follows.                                           *)

LEMMA SetupOnlyKeeps ==
    ASSUME ConnectorInv, NEW a \in Admins, SetupOnly(a), UNCHANGED <<check, secret>>
    PROVE  ConnectorInv'
<1> USE DEF ConnectorInv
<1>1. UNCHANGED <<row, installation>>
  BY DEF SetupOnly, CheckStart, Start, AbandonStart, ManifestCallback, Launch, CancelOAuth,
         RefreshInventory, Restart, BeginOAuth
<1>2. TypeOK'
  BY <1>1, SetupOnlyTypes DEF TypeOK
<1>3. StateInv' /\ AppInv' /\ OfferInv'
  BY SetupOnlyState, SetupOnlyApp, SetupOnlyOffer
<1>4. QED
  BY <1>2, <1>3

LEMMA NextKeeps == ASSUME ConnectorInv, [Next]_vars PROVE ConnectorInv'
<1>1. CASE SetupNext /\ UNCHANGED <<check, secret>>
  <2>1. CASE Expire
    BY <1>1, <2>1, ExpireKeeps
  <2>2. ASSUME NEW a \in Admins, SetupOnly(a) PROVE ConnectorInv'
    BY <1>1, <2>2, SetupOnlyKeeps
  <2>3. ASSUME NEW a \in Admins, OAuthCallback(a) PROVE ConnectorInv'
    BY <1>1, <2>3, OAuthCallbackKeeps
  <2>4. ASSUME NEW a \in Admins, NEW R \in SUBSET Repos, Finalize(a, R) PROVE ConnectorInv'
    BY <1>1, <2>4, FinalizeKeeps
  <2>5. QED
    BY <1>1, <2>1, <2>2, <2>3, <2>4 DEF SetupNext, SetupOnly
<1>2. CASE \E t \in Tokens : Apply(t) \/ \E e \in {Login, None} : SaveProviderToken(t, e)
  BY <1>2, SaveKeeps
<1>3. CASE Disconnect
  BY <1>3, DisconnectKeeps
<1>4. CASE \E k \in Checks : BeginCheck(k) \/ PassCheck(k) \/ FailCheck(k) \/ AbandonCheck(k)
  BY <1>4, CheckStepKeeps
<1>5. CASE UNCHANGED vars
  <2>1. /\ UNCHANGED <<setup, starting, credential, installation, row, appOf, offered>>
        /\ UNCHANGED <<check, secret>>
    BY <1>5 DEF vars, setupVars
  <2>2. TypeOK' /\ StateInv' /\ AppInv' /\ InventoryInv'
    BY <2>1 DEF ConnectorInv, TypeOK, StateInv, AppInv, OfferInv, InventoryInv
  <2>3. OfferInv'
    BY <2>1, <2>2 DEF ConnectorInv, OfferInv, SelectionOffered
  <2>4. QED
    BY <2>2, <2>3 DEF ConnectorInv
<1>6. QED
  BY <1>1, <1>2, <1>3, <1>4, <1>5 DEF Next

LEMMA Invariance == Spec => []ConnectorInv
<1>1. QED
  BY InitHolds, NextKeeps, PTL DEF Spec

\* The setup, the connections and the read checks keep their types; in
\* particular a connection is always written to a row that exists.
THEOREM ConnectorTypeCorrect == Spec => []TypeOK
<1>1. ConnectorInv => TypeOK
  BY DEF ConnectorInv
<1>2. QED
  BY <1>1, Invariance, PTL

\* Whoever restarts or takes over a setup, the one-time state that a callback
\* may still bring (_claim_setup_state) is the one of its present owner.
THEOREM PendingStateTheorem == Spec => []PendingStateIsOwners
<1>1. ConnectorInv => PendingStateIsOwners
  BY DEF ConnectorInv, StateInv, PendingStateIsOwners
<1>2. QED
  BY <1>1, Invariance, PTL

\* Between begin_github_app_oauth_from_installation and the OAuth callback the
\* App that confirmed the installation stays the App of the workspace.
THEOREM VerifiedTwiceTheorem == Spec => []VerifiedTwice
<1>1. ConnectorInv => VerifiedTwice
  BY SetupAssumption DEF ConnectorInv, AppInv, VerifiedTwice
<1>2. QED
  BY <1>1, Invariance, PTL

\* Live reads are authorized for repositories that GitHub listed for the
\* installation that reads them, also when a read check writes back metadata
\* that it loaded before the selection or the installation changed.
THEOREM LiveReadsTheorem == Spec => []LiveReadsWereOffered
<1>1. ASSUME ConnectorInv PROVE LiveReadsWereOffered
  BY <1>1 DEF ConnectorInv, OfferInv, SelectionOffered, LiveReadsWereOffered, LiveReadable
<1>2. QED
  BY <1>1, Invariance, PTL
=============================================================================
