-------------------------- MODULE ConnectorControl --------------------------
(***************************************************************************)
(* The connector control center beside the GitHub App setup                *)
(* (connector_control_service.py, and the provider-token connection of     *)
(* github_connection_service.py): an administrator saves, replaces or      *)
(* removes a personal token, and asks for a read check of whichever        *)
(* connection is in force.                                                 *)
(*                                                                         *)
(* No operation locks a connection row.  Those that only use the database  *)
(* are one step; the read check loads a row, waits for the provider, and   *)
(* writes the columns it changed from what it had loaded.  Jira, Gmail and *)
(* Drive connections differ in that no installation exists for them.       *)
(***************************************************************************)
EXTENDS GithubAppSetup

CONSTANTS Tokens,  \* personal access tokens; a save always brings a new one
          Checks   \* concurrent read checks

ASSUME ControlAssumption == None \notin Tokens

VARIABLES check,   \* what a read check loaded before it called the provider
          secret   \* history: which tokens were saved, and proved by a read

vars == <<setupVars, check, secret>>

RowRecords == [status : {"absent", "disabled", "connected", "error"},
               account : Installations \cup {Login, None},
               token : Tokens \cup {None}, meta : Metadata]

NoRow == [status |-> "absent", account |-> None, token |-> None, meta |-> NoMetadata]

NoCheck == [row |-> 0, loaded |-> NoRow, managed |-> FALSE]

TypeOK ==
    /\ setup \in Setups
    /\ starting \subseteq Admins
    /\ credential \in Apps \cup {None}
    /\ installation \in [row : 0..MaxRows, inst : Installations \cup {None}]
    /\ row \in [Rows -> RowRecords]
    /\ appOf \in [Installations -> Apps \cup {None}]
    /\ offered \in [Installations -> SUBSET Repos]
    /\ check \in [Checks -> [row : 0..MaxRows, loaded : RowRecords, managed : BOOLEAN]]
    /\ secret \in [Tokens -> {"new", "saved", "proved"}]

Init ==
    /\ SetupInit
    /\ row = [c \in Rows |-> NoRow]
    /\ check = [k \in Checks |-> NoCheck]
    /\ secret = [t \in Tokens |-> "new"]

Present == {c \in Rows : row[c].status # "absent"}
SettingsRows == {c \in Present : row[c].meta.via = "settings"}

\* _settings_connection: the latest row the control center created.
SettingsRow == CHOOSE c \in SettingsRows : \A d \in SettingsRows : d <= c

\* Token t is saved for the first time.
Save(t) ==
    /\ secret[t] = "new"
    /\ secret' = [secret EXCEPT ![t] = "saved"]

SetupElse == <<setup, starting, credential, installation, appOf, offered>>

\* apply_connector_configuration: a token is saved, or replaces the saved one.
Apply(t) ==
    /\ SettingsRows # {} \/ Present # Rows
    /\ LET c == IF SettingsRows # {} THEN SettingsRow ELSE FreshRow
       IN  row' = [row EXCEPT ![c] =
                     [status |-> "disabled", account |-> None, token |-> t,
                      meta |-> [NoMetadata EXCEPT !.via = "settings"]]]
    /\ Save(t)
    /\ UNCHANGED <<SetupElse, check>>

\* disconnect_connector_configuration: the row stays, its credential does not.
Disconnect ==
    /\ SettingsRows # {} /\ row[SettingsRow].token # None
    /\ row' = [row EXCEPT ![SettingsRow] =
                 [@ EXCEPT !.status = "disabled", !.account = None, !.token = None,
                           !.meta.check = "none"]]
    /\ UNCHANGED <<SetupElse, check, secret>>

\* _find_provider_token_connection: by account, or the one manual row without.
ProviderTokenRows(account) ==
    LET manual == {c \in Present : row[c].account = None /\
                                   row[c].meta.via \in {"settings", "operator"}}
    IN  IF account # None THEN {c \in Present : row[c].account = account}
        ELSE IF Cardinality(manual) = 1 THEN manual ELSE {}

\* create_or_update_github_provider_token_connection
SaveProviderToken(t, account) ==
    /\ ProviderTokenRows(account) # {} \/ Present # Rows
    /\ \E c \in IF ProviderTokenRows(account) # {} THEN ProviderTokenRows(account)
                                                   ELSE {FreshRow} :
         row' = [row EXCEPT ![c] =
                   [status |-> "connected", account |-> account, token |-> t,
                    meta |-> [NoMetadata EXCEPT !.via = "operator"]]]
    /\ Save(t)
    /\ UNCHANGED <<SetupElse, check>>

-----------------------------------------------------------------------------
Managed == installation # NoInstallation

\* _select_connection: the App's connection, else a saved token, else any row.
Selected ==
    IF Managed THEN {installation.row}
    ELSE IF SettingsRows # {} THEN SettingsRows ELSE Present

\* run_connector_read_check up to the provider call.
BeginCheck(k) ==
    /\ check[k] = NoCheck
    /\ \E c \in Selected :
         check' = [check EXCEPT ![k] = [row |-> c, loaded |-> row[c], managed |-> Managed]]
    /\ UNCHANGED <<setupVars, secret>>

\* A column is written only if it was set to something else than was loaded.
Column(loaded, value, current) == IF value = loaded THEN current ELSE value

\* The row after the check: status, account label and the receipt in the metadata,
\* which is written as a whole.
Receipted(k, status, account, meta) ==
    LET l == check[k].loaded
        c == check[k].row
    IN  row' = [row EXCEPT ![c] =
                  [@ EXCEPT !.status = Column(l.status, status, row[c].status),
                            !.account = Column(l.account, account, row[c].account),
                            !.meta = meta]]

\* The provider accepted the credential.
PassCheck(k) ==
    /\ check[k] # NoCheck
    /\ IF check[k].managed THEN credential # None ELSE check[k].loaded.token # None
    /\ LET l == check[k].loaded
       IN  /\ Receipted(k, "connected", Login, [l.meta EXCEPT !.check = "passed"])
           /\ secret' = IF check[k].managed THEN secret
                        ELSE [secret EXCEPT ![l.token] = "proved"]
    /\ check' = [check EXCEPT ![k] = NoCheck]
    /\ UNCHANGED SetupElse

\* It did not, could not be reached, or there was no credential to send.
FailCheck(k) ==
    /\ check[k] # NoCheck
    /\ LET l == check[k].loaded
       IN  Receipted(k, "error", l.account, [l.meta EXCEPT !.check = "failed"])
    /\ check' = [check EXCEPT ![k] = NoCheck]
    /\ UNCHANGED <<SetupElse, secret>>

\* The request dies with its transaction.
AbandonCheck(k) ==
    /\ check[k] # NoCheck
    /\ check' = [check EXCEPT ![k] = NoCheck]
    /\ UNCHANGED <<setupVars, secret>>

Next ==
    \/ SetupNext /\ UNCHANGED <<check, secret>>
    \/ \E t \in Tokens : Apply(t) \/ \E e \in {Login, None} : SaveProviderToken(t, e)
    \/ Disconnect
    \/ \E k \in Checks : BeginCheck(k) \/ PassCheck(k) \/ FailCheck(k) \/ AbandonCheck(k)

Spec == Init /\ [][Next]_vars

-----------------------------------------------------------------------------
\* docs/integrations-control-center.md: "Replacing a secret resets read and write
\* receipts so a previous verification cannot be mistaken for proof of the new
\* credential".
ReceiptProvesCredential ==
    \A c \in SettingsRows : row[c].meta.check = "passed" =>
        row[c].token # None /\ secret[row[c].token] = "proved"
=============================================================================
