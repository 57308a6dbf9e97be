----------------------------- MODULE AISettings -----------------------------
(***************************************************************************)
(* The AI provider settings of one workspace (ai_settings_service.py).      *)
(* A check reads the settings, calls the provider outside any transaction,  *)
(* and stores its receipt only if the settings have not changed meanwhile;  *)
(* the assistant uses only settings whose check passed.                     *)
(*                                                                         *)
(* A saved key is encrypted afresh, so two savings of one key are two       *)
(* ciphertexts; a key is the version at which it was saved.  Model, effort  *)
(* and budget are one choice.                                               *)
(***************************************************************************)
EXTENDS Integers

CONSTANTS
    Checkers,       \* requests that check the connection
    ModelChoices,   \* model, reasoning effort and output budget
    MaxVersion,     \* bound: configuration_version
    NoKey

VARIABLES
    settings,   \* workspace_ai_configurations: the row
    checker     \* checks under way

aiVars == <<settings, checker>>

NoSettings == [version |-> 0]

IdleChecker == [pc |-> "idle"]

AIInit == settings = NoSettings /\ checker = [c \in Checkers |-> IdleChecker]

Exists == settings.version > 0

\* _verification_fingerprint
Fingerprint(s) == <<s.key, s.choice, s.acknowledged>>

NoCheck == [status |-> "none"]

\* save_workspace_ai_settings; a first save by two requests at once fails for
\* one of them.  Without the acknowledgement the settings are never enabled.
Save(key, choice, acknowledged, enabled) ==
    LET old == IF Exists THEN settings.key ELSE NoKey
        saved == [version |-> settings.version + 1,
                  key |-> IF key THEN settings.version + 1 ELSE old,
                  choice |-> choice, acknowledged |-> acknowledged, enabled |-> enabled]
    IN  /\ settings.version < MaxVersion
        /\ enabled => saved.key # NoKey /\ acknowledged
        /\ settings' = [version |-> saved.version, key |-> saved.key, choice |-> choice,
                        acknowledged |-> acknowledged, enabled |-> enabled,
                        check |-> IF Exists /\ Fingerprint(saved) = Fingerprint(settings)
                                  THEN settings.check ELSE NoCheck]
        /\ UNCHANGED checker

RemoveCredential ==
    /\ Exists /\ settings.version < MaxVersion
    /\ settings' = [settings EXCEPT !.version = @ + 1, !.key = NoKey, !.enabled = FALSE,
                                    !.acknowledged = FALSE, !.check = NoCheck]
    /\ UNCHANGED checker

\* check_workspace_ai_connection up to the provider's answer.  The receipt
\* remembers what was checked.
Check(c, status) ==
    /\ checker[c] = IdleChecker
    /\ Exists /\ settings.key # NoKey /\ settings.acknowledged
    /\ checker' = [checker EXCEPT ![c] =
            [pc |-> "answered", version |-> settings.version,
             receipt |-> [status |-> status, of |-> Fingerprint(settings)]]]
    /\ UNCHANGED settings

\* Mutant: the receipt is stored whatever the settings are now.
StoreReceipt(c) ==
    /\ checker[c].pc = "answered"
    /\ settings' = [settings EXCEPT !.check = checker[c].receipt]
    /\ checker' = [checker EXCEPT ![c] = IdleChecker]

\* Its second transaction, on the locked row.
FinishCheck(c) ==
    /\ checker[c].pc = "answered"
    /\ settings' = IF settings.version = checker[c].version
                   THEN [settings EXCEPT !.check = checker[c].receipt] ELSE settings
    /\ checker' = [checker EXCEPT ![c] = IdleChecker]

\* The process stops between the two transactions.
LoseCheck(c) ==
    /\ checker[c] # IdleChecker
    /\ checker' = [checker EXCEPT ![c] = IdleChecker]
    /\ UNCHANGED settings

\* resolve_assistant_runtime_configuration: whether the assistant may call
RuntimeReady ==
    /\ Exists /\ settings.enabled /\ settings.acknowledged
    /\ settings.key # NoKey /\ settings.check.status = "passed"

AINext ==
    \/ \E key, acknowledged, enabled \in BOOLEAN, choice \in ModelChoices :
            Save(key, choice, acknowledged, enabled)
    \/ RemoveCredential
    \/ \E c \in Checkers : FinishCheck(c) \/ LoseCheck(c)
    \/ \E c \in Checkers, status \in {"passed", "failed"} : Check(c, status)

AISpec == AIInit /\ [][AINext]_aiVars

----------------------------------------------------------------------------
\* The assistant sends company facts only with the key, the model and under the
\* policy that a check passed with, however slow the provider was to answer it
\* (ai_settings_service.py:158-254, 257-316).
VerifiedIsCurrent == RuntimeReady => settings.check.of = Fingerprint(settings)
=============================================================================
