--------------------------- MODULE MCInstallation ---------------------------
(***************************************************************************)
(* One installation: its accounts, the gate in front of a password check,   *)
(* the operator's local runtime and the offsite backups.  They share no     *)
(* state that a property looks at (OffsiteBackups takes promoted bundles as *)
(* given, LoginGate does not say what a login does to an account), so a     *)
(* behaviour exercises one of them: focus says which.                       *)
(*                                                                         *)
(* The accounts start with one of three databases: a founder who has a      *)
(* password and two workspaces, whose invite and setup link are used up and *)
(* swept; the same founder with an invited member whose link is open; and   *)
(* an account outside every workspace, with one session row left to spend.  *)
(* Where rows are used up the actions that need one are disabled, so the    *)
(* state spaces add instead of multiplying.                                 *)
(***************************************************************************)
EXTENDS Accounts, LoginGate, LocalRuntime, OffsiteBackups

CONSTANTS e1, w1, w2

VARIABLE focus

installationVars == <<accountVars, gateVars, vars, offsiteVars, focus>>

Spent(rows, left) == [r \in rows |-> IF r \in left THEN Absent ELSE Deleted]

FounderInit ==
    /\ user = [e \in Emails |-> IF e = e1 THEN NewUser(1) ELSE Absent]
    /\ member = {Membership(w1, e1, "owner"), Membership(w2, e1, "owner")}
    /\ session = Spent(Sessions, Sessions)
    /\ token = Spent(Tokens, {})
    /\ invite = Spent(Invites, {})

InvitedInit ==
    /\ user = [e \in Emails |-> NewUser(IF e = e1 THEN 1 ELSE 0)]
    /\ member = {Membership(w1, e1, "owner"), Membership(w2, e1, "owner")}
                    \cup {Membership(w1, e, "member") : e \in Emails \ {e1}}
    /\ \E s \in Sessions : session = Spent(Sessions, Sessions \ {s})
    /\ token \in [Tokens -> [status : {"open"}, email : Emails \ {e1}, old : {FALSE}]]
    /\ invite = Spent(Invites, {})

JoiningInit ==
    /\ user = [e \in Emails |-> IF e \in Orphans THEN NewUser(0) ELSE Absent]
    /\ member = {}
    /\ \E s \in Sessions : session = Spent(Sessions, {s})
    /\ token = Spent(Tokens, Tokens)
    /\ invite = Spent(Invites, Invites)

ShortPolicies ==
    {[daily |-> 2, weekly |-> 2, monthly |-> 2], [daily |-> 1, weekly |-> 0, monthly |-> 0]}

InstallationInit ==
    /\ focus \in {"accounts", "gate", "runtime", "offsite"}
    /\ IF focus = "accounts" THEN FounderInit \/ InvitedInit \/ JoiningInit ELSE FounderInit
    /\ tx = [h \in Handlers |-> IdleTx]
    /\ GateInit /\ (focus # "gate" => backend = "process")
    /\ Init /\ (focus # "runtime" => record = NoRecord /\ db.rev = "head")
    /\ OffsiteInit

InstallationNext ==
    /\ UNCHANGED focus
    /\ \/ focus = "accounts" /\ AccountsNext /\ UNCHANGED <<gateVars, vars, offsiteVars>>
       \/ focus = "gate" /\ GateNext /\ UNCHANGED <<accountVars, vars, offsiteVars>>
       \/ focus = "runtime" /\ Next /\ UNCHANGED <<accountVars, gateVars, offsiteVars>>
       \/ focus = "offsite" /\ OffsiteNext /\ UNCHANGED <<accountVars, gateVars, vars>>

InstallationSpec == InstallationInit /\ [][InstallationNext]_installationVars

\* The concerns are given the same model values (two requests are h1 and h2,
\* three rows or processes are s1, s2 and s3), so one small group serves all.
Symmetry == Permutations(Handlers) \cup Permutations(Sessions)
=============================================================================
