--------------------------- MODULE GithubAppSetup ---------------------------
(***************************************************************************)
(* Setting up the GitHub App of one workspace                              *)
(* (github_app_setup_service.py): the manifest, installation and OAuth     *)
(* callbacks over one-time states, the repository selection, restart and   *)
(* hand-over between administrators.                                       *)
(*                                                                         *)
(* Every operation locks the setup row from its first read of it to its    *)
(* commit, also while it waits for GitHub, so each is one step; an         *)
(* unexpected error rolls it back.  Only start_github_app_manifest_setup   *)
(* looks at other rows before it takes the lock and is two steps.          *)
(***************************************************************************)
EXTENDS Naturals, FiniteSets

CONSTANTS Admins,         \* owners and administrators with a browser session
          Installations,  \* installations of GitHub Apps, by installation_id
          Apps,           \* GitHub Apps, each created from one manifest
          Repos,          \* repositories of the provider
          Login,          \* the account login GitHub reports
          None,
          MaxRows         \* bound on rows of integration_connections

ASSUME SetupAssumption ==
    /\ MaxRows \in Nat \ {0}
    /\ None \notin Admins \cup Installations \cup Apps \cup {Login}

VARIABLES setup,         \* GitHubAppSetupSession of the workspace
          starting,      \* requests that may still start, not yet holding the row
          credential,    \* GitHubAppCredential: the App of the workspace
          installation,  \* GitHubAppInstallation of the workspace
          row,           \* integration_connections of provider github
          appOf,         \* the App of an installation at GitHub, None until it matters
          offered        \* history: repositories GitHub listed per installation

setupVars == <<setup, starting, credential, installation, row, appOf, offered>>

Rows == 1..MaxRows

Phases == {"none", "manifest_pending", "installation_pending", "oauth_pending",
           "repository_selection", "completed", "failed", "cancelled"}

\* state is the one-time state whose hash is stored.  States are random, so an
\* older one never matches; the stored one is named by whom it was issued to.
\* credentialed stands for credential_id, verifier for encrypted_pkce_verifier,
\* row 0 for no connection_id.
Setups == [phase : Phases, owner : Admins \cup {None}, state : Admins \cup {None},
           credentialed : BOOLEAN, verifier : BOOLEAN,
           inst : Installations \cup {None}, row : 0..MaxRows,
           inventory : SUBSET Repos, expired : BOOLEAN]

NoSetup == [phase |-> "none", owner |-> None, state |-> None, credentialed |-> FALSE,
            verifier |-> FALSE, inst |-> None, row |-> 0, inventory |-> {},
            expired |-> FALSE]

\* What provider_metadata says: who wrote it (created_via), and for an App the
\* installation, whether reads are enabled and the selected repositories; check is
\* the read receipt of the connector control center.
Metadata == [via : {"none", "app", "settings", "operator"},
             inst : Installations \cup {None}, reads : BOOLEAN,
             selected : SUBSET Repos, check : {"none", "passed", "failed"}]

NoMetadata == [via |-> "none", inst |-> None, reads |-> FALSE, selected |-> {},
               check |-> "none"]

NoInstallation == [row |-> 0, inst |-> None]

\* The row created next.
FreshRow == CHOOSE c \in Rows : row[c].status = "absent" /\ \A d \in 1..(c - 1) : row[d].status # "absent"

SetupInit ==
    /\ setup = NoSetup
    /\ starting = {}
    /\ credential = None
    /\ installation = NoInstallation
    /\ appOf = [i \in Installations |-> None]
    /\ offered = [i \in Installations |-> {}]

-----------------------------------------------------------------------------
\* start_github_app_manifest_setup: no installation and no App exist yet ...
CheckStart(a) ==
    /\ installation = NoInstallation
    /\ credential = None
    /\ starting' = starting \cup {a}
    /\ UNCHANGED <<setup, credential, installation, row, appOf, offered>>

\* ... when these were read; now the row is locked, or inserted, and reset.
Start(a) ==
    /\ a \in starting
    /\ starting' = starting \ {a}
    /\ setup' = [NoSetup EXCEPT !.phase = "manifest_pending", !.owner = a,
                                !.state = a]
    /\ UNCHANGED <<credential, installation, row, appOf, offered>>

\* Two requests insert the first row, or the second one fails otherwise.
AbandonStart(a) ==
    /\ a \in starting
    /\ starting' = starting \ {a}
    /\ UNCHANGED <<setup, credential, installation, row, appOf, offered>>

\* _claim_setup_state: the row is found by owner, state and phase, for a state
\* that was issued to administrator a.
Claimable(a, phase) ==
    /\ setup.owner = a
    /\ setup.state = a
    /\ setup.phase = phase
    /\ ~setup.expired

\* _fail_setup
Failed == [setup EXCEPT !.phase = "failed", !.state = None]

\* store_manifest_github_app_credential: the credential of the new App replaces the
\* one the workspace may have.
StoreCredential ==
    credential' \in Apps \ ({credential} \cup {appOf[i] : i \in Installations})

\* complete_github_app_manifest_callback: the code is exchanged for an App.
ManifestCallback(a) ==
    /\ Claimable(a, "manifest_pending")
    /\ \/ /\ StoreCredential
          /\ setup' = [setup EXCEPT !.phase = "installation_pending", !.state = None,
                                    !.credentialed = TRUE]
       \/ /\ setup' = Failed
          /\ UNCHANGED credential
    /\ UNCHANGED <<starting, installation, row, appOf, offered>>

\* launch_github_app_installation
Launch(a) ==
    /\ setup.owner = a
    /\ credential # None
    /\ setup.phase \in {"installation_pending", "failed"}
    /\ setup' = [setup EXCEPT !.phase = "installation_pending", !.state = a,
                              !.expired = FALSE]
    /\ UNCHANGED <<starting, credential, installation, row, appOf, offered>>

\* Mutant: the installation_id is taken from the browser.
TrustInstallation(i) == UNCHANGED appOf

\* get_app_installation: GitHub confirms to the App that an installation is one of
\* its own.
ConfirmInstallation(i) ==
    /\ appOf[i] \in {None, credential}
    /\ appOf' = [appOf EXCEPT ![i] = credential]

\* begin_github_app_oauth_from_installation, with the installation the browser
\* names.  A verifier is always encrypted when the credentials could be decrypted:
\* the key is the same.
BeginOAuth(a, i) ==
    /\ Claimable(a, "installation_pending")
    /\ \/ /\ ConfirmInstallation(i)
          /\ setup' = [setup EXCEPT !.phase = "oauth_pending", !.state = a,
                                    !.verifier = TRUE, !.inst = i]
       \/ /\ setup' = Failed
          /\ UNCHANGED appOf
    /\ UNCHANGED <<starting, credential, installation, row, offered>>

\* The connection row of installation i, if any, and the one it gets
\* (_persist_verified_installation looks it up by external_account_id).
RowsOf(i) == {c \in Rows : row[c].status # "absent" /\ row[c].account = i}

VerifiedRow(i) == [status |-> "disabled", account |-> i, token |-> None,
                   meta |-> [NoMetadata EXCEPT !.via = "app", !.inst = i]]

\* find_verified_user_installation: GitHub lists the installation to the user who
\* signed in, as one of this App.
ListedToUser(i) == appOf[i] = credential

\* complete_github_app_oauth_callback.  The refresh that the endpoint makes in a
\* transaction of its own is RefreshInventory.
OAuthCallback(a) ==
    /\ Claimable(a, "oauth_pending")
    /\ \/ /\ setup.inst # None /\ setup.verifier
          /\ ListedToUser(setup.inst)
          /\ RowsOf(setup.inst) # {} \/ \E c \in Rows : row[c].status = "absent"
          /\ LET i == setup.inst
                 c == IF RowsOf(i) = {} THEN FreshRow ELSE CHOOSE d \in RowsOf(i) : TRUE
             IN  /\ row' = [row EXCEPT ![c] = VerifiedRow(i)]
                 /\ installation' = [row |-> c, inst |-> i]
                 /\ setup' = [setup EXCEPT !.phase = "repository_selection", !.state = None,
                                           !.credentialed = TRUE, !.verifier = FALSE,
                                           !.row = c, !.inventory = {}]
       \/ /\ setup' = [Failed EXCEPT !.verifier = FALSE]
          /\ UNCHANGED <<row, installation>>
    /\ UNCHANGED <<starting, credential, appOf, offered>>

\* cancel_github_app_oauth_callback: the user declined at GitHub.
CancelOAuth(a) ==
    /\ Claimable(a, "oauth_pending")
    /\ setup' = [setup EXCEPT !.phase = "cancelled", !.state = None, !.verifier = FALSE]
    /\ UNCHANGED <<starting, credential, installation, row, appOf, offered>>

-----------------------------------------------------------------------------
Selecting == {"repository_selection", "completed"}

Connected(c) == c # 0 /\ row[c].status = "connected"

\* _repository_setup_for_update: the owner, or any administrator once connected,
\* who then owns the setup.
MayRefresh(a) ==
    \/ setup.owner = a
    \/ setup.phase \in Selecting /\ Connected(setup.row)

\* refresh_github_app_repository_inventory.  Errors are committed too: they leave
\* the new owner behind.
RefreshInventory(a) ==
    /\ setup # NoSetup
    /\ MayRefresh(a)
    /\ \/ \E R \in SUBSET Repos :
            /\ installation # NoInstallation /\ credential # None
            /\ setup.phase \in Selecting
            /\ setup.phase = "completed" =>
                 setup.row = installation.row /\ Connected(setup.row)
            /\ setup' = [setup EXCEPT !.owner = a, !.phase = "repository_selection",
                                      !.inventory = R, !.expired = FALSE]
            /\ offered' = [offered EXCEPT ![installation.inst] = @ \cup R]
       \/ /\ setup' = [setup EXCEPT !.owner = a]
          /\ UNCHANGED offered
    /\ UNCHANGED <<starting, credential, installation, row, appOf>>

\* The active relation that finalize_github_app_repositories rechecks.
RelationHolds ==
    /\ setup.row # 0
    /\ row[setup.row].status \in {"disabled", "connected"}
    /\ row[setup.row].meta.via = "app"
    /\ installation.row = setup.row
    /\ installation.inst = setup.inst
    /\ setup.credentialed

\* Mutant: any repository can be selected.
SelectableUnlisted(R) == R # {}

\* What may be selected.
Selectable(R) == R # {} /\ R \subseteq setup.inventory

\* finalize_github_app_repositories: the selection is saved and reads enabled.
Finalize(a, R) ==
    /\ setup.owner = a
    /\ setup.phase = "repository_selection"
    /\ ~setup.expired
    /\ Selectable(R)
    /\ RelationHolds
    /\ row' = [row EXCEPT ![setup.row].status = "connected",
                          ![setup.row].meta.inst = installation.inst,
                          ![setup.row].meta.reads = TRUE,
                          ![setup.row].meta.selected = R]
    /\ setup' = [setup EXCEPT !.phase = "completed", !.inventory = R]
    /\ UNCHANGED <<starting, credential, installation, appOf, offered>>

\* Mutant: the one-time state survives the restart.
TakenWithState(a) == [setup EXCEPT !.owner = a, !.verifier = FALSE, !.expired = FALSE]

\* The setup that administrator a takes over.
Taken(a) == [setup EXCEPT !.owner = a, !.state = None, !.verifier = FALSE,
                          !.expired = FALSE]

\* restart_github_app_setup: any administrator takes the setup over and resumes
\* from what is durable.
Restart(a) ==
    /\ setup # NoSetup
    /\ LET bound == installation # NoInstallation /\ credential # None
       IN  setup' =
             IF bound /\ row[installation.row].status \in {"connected", "disabled"}
             THEN [Taken(a) EXCEPT
                     !.phase = IF Connected(installation.row) THEN "completed"
                                                              ELSE "repository_selection",
                     !.row = installation.row]
             ELSE IF credential # None
             THEN [Taken(a) EXCEPT !.phase = "installation_pending", !.credentialed = TRUE,
                                   !.inst = None, !.inventory = {}]
             ELSE [Taken(a) EXCEPT !.phase = "cancelled"]
    /\ UNCHANGED <<starting, credential, installation, row, appOf, offered>>

\* expires_at passes, in a phase that looks at it.
Expire ==
    /\ setup.phase \in {"manifest_pending", "installation_pending", "oauth_pending",
                       "repository_selection"}
    /\ ~setup.expired
    /\ setup' = [setup EXCEPT !.expired = TRUE]
    /\ UNCHANGED <<starting, credential, installation, row, appOf, offered>>

SetupNext ==
    \/ \E a \in Admins :
         \/ CheckStart(a) \/ Start(a) \/ AbandonStart(a)
         \/ Launch(a) \/ RefreshInventory(a) \/ Restart(a)
         \/ ManifestCallback(a) \/ OAuthCallback(a) \/ CancelOAuth(a)
         \/ \E i \in Installations : BeginOAuth(a, i)
         \/ \E R \in SUBSET Repos : Finalize(a, R)
    \/ Expire

-----------------------------------------------------------------------------
\* A one-time state that GitHub may still return belongs to the administrator who
\* owns the setup: restart and hand-over leave nothing behind for a callback that
\* was under way (DEC-080, "one resumable setup session per workspace").
PendingStateIsOwners ==
    setup.state # None => setup.state = setup.owner

\* DEC-080, "verifies the installation twice": while the user's consent is awaited
\* the App that confirmed the installation is still the one of the workspace, so
\* both verifications are about the same App; and what is stored was confirmed.
VerifiedTwice ==
    /\ setup.phase = "oauth_pending" =>
         /\ setup.inst # None
         /\ credential # None
         /\ appOf[setup.inst] = credential
    /\ installation # NoInstallation => appOf[installation.inst] # None

\* The authorization of managed live reads (_resolve_live_read_authorization).
LiveReadable(c) ==
    /\ row[c].status = "connected"
    /\ row[c].meta.via = "app"
    /\ credential # None
    /\ installation.row = c
    /\ row[c].meta.inst = installation.inst
    /\ row[c].meta.reads
    /\ row[c].meta.selected # {}

\* Reads are authorized only for repositories that GitHub listed for the very
\* installation they are read through.
LiveReadsWereOffered ==
    \A c \in Rows : LiveReadable(c) =>
        row[c].meta.selected \subseteq offered[installation.inst]

\* DEC-080: "After connection, any owner/admin may refresh the provider inventory
\* and revise the subset": when the setup of a connected workspace is at the
\* repository selection and has its credential and its connection, the relation
\* check of finalization succeeds.
SelectionCanBeRevised ==
    (/\ setup.phase = "repository_selection" /\ setup.credentialed
     /\ installation # NoInstallation
     /\ setup.row = installation.row
     /\ Connected(setup.row)
     /\ row[setup.row].meta.via = "app")
    => RelationHolds
=============================================================================
