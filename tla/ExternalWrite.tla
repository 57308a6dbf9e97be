---------------------------- MODULE ExternalWrite ----------------------------
(***************************************************************************)
(* What approving and executing a proposal promises, without requests,     *)
(* rows, crashes or reconciliation: a proposal is ruled on once, an        *)
(* approved one leads to at most one issue, and it is acknowledged as      *)
(* executed only after that issue exists.                                  *)
(***************************************************************************)
CONSTANTS Proposals, Keys

VARIABLES verdict,      \* absent, proposed, approved or rejected, per proposal
          issues,       \* pairs of a proposal and the attempt that wrote its issue
          acknowledged  \* proposals reported as executed

vars == <<verdict, issues, acknowledged>>

Init ==
    /\ verdict = [p \in Proposals |-> "absent"]
    /\ issues = {}
    /\ acknowledged = {}

Submit(p) ==
    /\ verdict[p] = "absent"
    /\ verdict' = [verdict EXCEPT ![p] = "proposed"]
    /\ UNCHANGED <<issues, acknowledged>>

\* One ruling on the proposals of a batch.
Rule(B, v) ==
    /\ \A p \in B : verdict[p] = "proposed"
    /\ verdict' = [p \in Proposals |-> IF p \in B THEN v ELSE verdict[p]]
    /\ UNCHANGED <<issues, acknowledged>>

Write(p, k) ==
    /\ verdict[p] = "approved"
    /\ \A j \in Keys : <<p, j>> \notin issues
    /\ issues' = issues \cup {<<p, k>>}
    /\ UNCHANGED <<verdict, acknowledged>>

Acknowledge(p) ==
    /\ \E k \in Keys : <<p, k>> \in issues
    /\ acknowledged' = acknowledged \cup {p}
    /\ UNCHANGED <<verdict, issues>>

Next ==
    \/ \E p \in Proposals : Submit(p) \/ Acknowledge(p)
    \/ \E B \in SUBSET Proposals, v \in {"approved", "rejected"} : Rule(B, v)
    \/ \E p \in Proposals, k \in Keys : Write(p, k)

Spec == Init /\ [][Next]_vars
=============================================================================
