------------------------------ MODULE Accounts ------------------------------
(***************************************************************************)
(* Users, workspaces, memberships, browser sessions, one-time setup links   *)
(* and founder invites.  Every request is one or two database transactions  *)
(* at READ COMMITTED; the steps below are the points between which others   *)
(* can act: what a handler has read or locked, and its commit.  Rows locked *)
(* FOR UPDATE are kept with the transaction that holds them.                *)
(*                                                                         *)
(* The admission and throttling of these requests is in LoginGate.          *)
(***************************************************************************)
EXTENDS Integers, FiniteSets

CONSTANTS
    Handlers,   \* requests handled at a time
    Emails,     \* accounts, by their normalised e-mail address
    Orphans,    \* accounts that exist without a membership at the start
    Slugs,      \* workspaces, by their normalised slug
    Sessions,   \* identities of session rows
    Tokens,     \* identities of setup tokens
    Invites,    \* identities of founder invites
    MaxPw,      \* bound on the number of passwords an account has had
    None

ASSUME AccountsAssumption ==
    /\ Orphans \subseteq Emails
    /\ MaxPw \in Nat \ {0}

VARIABLES
    user,       \* users: status and the number of the current password, 0 for null
    member,     \* memberships
    session,    \* sessions
    token,      \* account_setup_tokens
    invite,     \* founder_enrollment_invites
    tx          \* the transaction each handler is in

accountVars == <<user, member, session, token, invite, tx>>

Absent == [status |-> "absent"]
Deleted == [status |-> "deleted"]
IdleTx == [op |-> "idle", locks |-> {}]

NewUser(pw) == [status |-> "active", pw |-> pw, changer |-> None]

\* ver is the password the session's login verified; late marks a login that was
\* under way while a change of the password revoked the other sessions.
NewSession(e, ver, late) ==
    [status |-> "live", email |-> e, ver |-> ver, late |-> late, old |-> FALSE]

Exists(e) == user[e].status # "absent"
ActiveUser(e) == user[e].status = "active"
Taken == {m.slug : m \in member}
MembershipsOf(e) == {m \in member : m.email = e}

Live(s) == session[s].status = "live" /\ ~session[s].old
SessionsOf(e) == {s \in Sessions : session[s].status \in {"live", "revoked"} /\ session[s].email = e}

\* A row locked FOR UPDATE: another lock or UPDATE of it waits, and so does the
\* insert of a row with a foreign key to it.  An account whose password is being
\* updated makes other locks and updates wait, and no insert.
Locked(row) == \E h \in Handlers : row \in tx[h].locks
Changing(e) == \E h \in Handlers : tx[h].op = "changed" /\ tx[h].email = e
Busy(e) == Locked(e) \/ Changing(e)

AccountsInit ==
    /\ user = [e \in Emails |-> IF e \in Orphans THEN NewUser(0) ELSE Absent]
    /\ member = {}
    /\ session = [s \in Sessions |-> Absent]
    /\ token = [t \in Tokens |-> Absent]
    /\ invite = [i \in Invites |-> Absent]
    /\ tx = [h \in Handlers |-> IdleTx]

BeginTx(h, record) ==
    /\ tx[h] = IdleTx
    /\ tx' = [tx EXCEPT ![h] = record]
    /\ UNCHANGED <<user, member, session, token, invite>>

EndTx(h) == tx' = [tx EXCEPT ![h] = IdleTx]

Rollback(h) == EndTx(h) /\ UNCHANGED <<user, member, session, token, invite>>

\* create_session, for a row the database has not used yet.
OpenSession(e, ver, late) ==
    \E s \in Sessions :
        /\ session[s] = Absent
        /\ session' = [session EXCEPT ![s] = NewSession(e, ver, late)]

----------------------------------------------------------------------------
(***************************************************************************)
(* Login, logout and what a request with a session cookie does first.       *)
(***************************************************************************)
\* The password hash is read and verified.
LoginVerify(h, e) ==
    /\ ActiveUser(e)
    /\ user[e].pw > 0
    /\ BeginTx(h, [op |-> "login", email |-> e, ver |-> user[e].pw, locks |-> {}])

\* The session is created and committed; nothing looks at the password again.
LoginCommit(h) ==
    /\ tx[h].op = "login"
    /\ LET e == tx[h].email
       IN  /\ ~Locked(e)
           /\ OpenSession(e, tx[h].ver, tx[h].ver # user[e].pw \/ Changing(e))
    /\ EndTx(h)
    /\ UNCHANGED <<user, member, token, invite>>

\* logout: revoke_session by the cookie's token.
Logout(s) ==
    /\ Live(s)
    /\ ActiveUser(session[s].email)
    /\ session' = [session EXCEPT ![s].status = "revoked"]
    /\ UNCHANGED <<user, member, token, invite, tx>>

\* validate_session finds the account disabled: the session is revoked for good.
ValidateDisabled(s) ==
    /\ Live(s)
    /\ ~ActiveUser(session[s].email)
    /\ session' = [session EXCEPT ![s].status = "revoked"]
    /\ UNCHANGED <<user, member, token, invite, tx>>

----------------------------------------------------------------------------
(***************************************************************************)
(* change_password: require_session in a transaction of its own, then the   *)
(* check of the current password, then the UPDATE of the hash with the      *)
(* revocation of the sessions it sees, then the commit.                     *)
(***************************************************************************)
ChangeAuthorise(h, s) ==
    /\ Live(s)
    /\ ActiveUser(session[s].email)
    /\ BeginTx(h, [op |-> "authorised", email |-> session[s].email, by |-> s, locks |-> {}])

ChangeVerify(h) ==
    /\ tx[h].op = "authorised"
    /\ user[tx[h].email].pw > 0
    /\ tx' = [tx EXCEPT ![h].op = "matched"]
    /\ UNCHANGED <<user, member, session, token, invite>>

\* Mutant: a password change leaves the other sessions alone.
ChangeKeepAll(h) ==
    /\ tx[h].op = "matched"
    /\ ~Busy(tx[h].email)
    /\ user[tx[h].email].pw < MaxPw
    /\ tx' = [tx EXCEPT ![h] = [op |-> "changed", email |-> @.email, by |-> @.by,
                                locks |-> {}, doomed |-> {}]]
    /\ UNCHANGED <<user, member, session, token, invite>>

\* revoke_other_sessions: the rows this statement sees, except the caller's.
ChangeRevoke(h) ==
    /\ tx[h].op = "matched"
    /\ LET e == tx[h].email
       IN  /\ ~Busy(e)
           /\ user[e].pw < MaxPw
           /\ tx' = [tx EXCEPT ![h] =
                [op |-> "changed", email |-> e, by |-> @.by, locks |-> {},
                 doomed |-> {s \in SessionsOf(e) : session[s].status = "live"} \ {@.by}]]
    /\ UNCHANGED <<user, member, session, token, invite>>

ChangeCommit(h) ==
    /\ tx[h].op = "changed"
    /\ user' = [user EXCEPT ![tx[h].email].pw = @ + 1, ![tx[h].email].changer = tx[h].by]
    /\ session' = [s \in Sessions |->
                    IF s \in tx[h].doomed /\ session[s].status = "live"
                    THEN [session[s] EXCEPT !.status = "revoked"] ELSE session[s]]
    /\ EndTx(h)
    /\ UNCHANGED <<member, token, invite>>

----------------------------------------------------------------------------
(***************************************************************************)
(* Workspaces, memberships and the setup link of a new member.              *)
(***************************************************************************)
Membership(slug, e, role) == [slug |-> slug, email |-> e, role |-> role]

\* bootstrap_workspace_for_owner, by an operator.
Bootstrap(e, slug) ==
    /\ user[e].status \in {"absent", "active"}
    /\ ~Locked(e)
    /\ slug \notin Taken
    /\ user' = [user EXCEPT ![e] = IF Exists(e) THEN @ ELSE NewUser(0)]
    /\ member' = member \cup {Membership(slug, e, "owner")}
    /\ UNCHANGED <<session, token, invite, tx>>

\* provision_workspace_member up to its checks, by an admin of the workspace:
\* an account that exists is locked and must belong to no workspace.
ProvisionCheck(h, slug, e) ==
    /\ slug \in Taken
    /\ \/ ~Exists(e)
       \/ /\ ActiveUser(e)
          /\ ~Busy(e)
          /\ MembershipsOf(e) = {}
    /\ BeginTx(h, [op |-> "provision", email |-> e, slug |-> slug, new |-> ~Exists(e),
                 locks |-> IF Exists(e) THEN {e} ELSE {}])

\* A second insert of the same address or membership violates a unique constraint.
ProvisionCommit(h, role) ==
    /\ tx[h].op = "provision"
    /\ LET e == tx[h].email
           m == Membership(tx[h].slug, e, role)
       IN  IF tx[h].new /\ Exists(e) THEN Rollback(h)
           ELSE /\ user' = IF tx[h].new THEN [user EXCEPT ![e] = NewUser(0)] ELSE user
                /\ member' = member \cup {m}
                /\ IF tx[h].new
                   THEN \E t \in Tokens :
                           /\ token[t] = Absent
                           /\ token' = [token EXCEPT ![t] =
                                [status |-> "open", email |-> e, old |-> FALSE]]
                   ELSE UNCHANGED token
                /\ EndTx(h)
                /\ UNCHANGED <<session, invite>>

\* Mutant: a link that was used, by an account with a password, works again.
SetupReusable(h, t) ==
    /\ token[t].status \in {"open", "consumed"} /\ ~token[t].old
    /\ ~Locked(t)
    /\ ~Busy(token[t].email)
    /\ ActiveUser(token[t].email)
    /\ BeginTx(h, [op |-> "setup", email |-> token[t].email, token |-> t,
                 locks |-> {t, token[t].email}])

\* complete_account_setup_token: the token and the account are locked and checked.
SetupLock(h, t) ==
    /\ token[t].status = "open" /\ ~token[t].old
    /\ ~Locked(t)
    /\ LET e == token[t].email
       IN  /\ ~Busy(e)
           /\ ActiveUser(e)
           /\ user[e].pw = 0
           /\ BeginTx(h, [op |-> "setup", email |-> e, token |-> t, locks |-> {t, e}])

SetupCommit(h) ==
    /\ tx[h].op = "setup"
    /\ user' = [user EXCEPT ![tx[h].email].pw = @ + 1]
    /\ token' = [token EXCEPT ![tx[h].token].status = "consumed"]
    /\ OpenSession(tx[h].email, 1, FALSE)
    /\ EndTx(h)
    /\ UNCHANGED <<member, invite>>

----------------------------------------------------------------------------
(***************************************************************************)
(* Founder invites, issued and revoked by an operator.                      *)
(***************************************************************************)
CreateInvite(i) ==
    /\ invite[i] = Absent
    /\ invite' = [invite EXCEPT ![i] =
            [status |-> "issued", consumed |-> 0, revoked |-> FALSE, old |-> FALSE]]
    /\ UNCHANGED <<user, member, session, token, tx>>

RevokeInvite(i) ==
    /\ invite[i].status = "issued"
    /\ ~Locked(i)
    /\ invite[i].consumed = 0
    /\ ~invite[i].revoked
    /\ invite' = [invite EXCEPT ![i].revoked = TRUE]
    /\ UNCHANGED <<user, member, session, token, tx>>

\* Mutant: the invite is not locked.
EnrollUnlocked(h, i, e, slug) ==
    /\ invite[i].status = "issued" /\ ~invite[i].old
    /\ invite[i].consumed = 0 /\ ~invite[i].revoked
    /\ ~Exists(e)
    /\ slug \notin Taken
    /\ BeginTx(h, [op |-> "enroll", email |-> e, slug |-> slug, invite |-> i, locks |-> {}])

\* consume_founder_invite up to the inserts.
EnrollLock(h, i, e, slug) ==
    /\ invite[i].status = "issued" /\ ~invite[i].old
    /\ ~Locked(i)
    /\ invite[i].consumed = 0 /\ ~invite[i].revoked
    /\ ~Exists(e)
    /\ slug \notin Taken
    /\ BeginTx(h, [op |-> "enroll", email |-> e, slug |-> slug, invite |-> i, locks |-> {i}])

\* Another request may have taken the address or the slug since: 409, and the
\* invite is still good.
EnrollCommit(h) ==
    /\ tx[h].op = "enroll"
    /\ LET e == tx[h].email
       IN  IF Exists(e) \/ tx[h].slug \in Taken THEN Rollback(h)
           ELSE /\ user' = [user EXCEPT ![e] = NewUser(1)]
                /\ member' = member \cup {Membership(tx[h].slug, e, "owner")}
                /\ invite' = [invite EXCEPT ![tx[h].invite].consumed = @ + 1]
                /\ OpenSession(e, 1, FALSE)
                /\ EndTx(h)
                /\ UNCHANGED token

----------------------------------------------------------------------------
\* An account is disabled; no code of the repository does it.
DisableUser(e) ==
    /\ ActiveUser(e)
    /\ ~Busy(e)
    /\ user' = [user EXCEPT ![e].status = "disabled"]
    /\ UNCHANGED <<member, session, token, invite, tx>>

\* expires_at passes, or the retention of a revoked session.
SessionAges(s) ==
    /\ session[s].status \in {"live", "revoked"}
    /\ session' = [session EXCEPT ![s].old = TRUE]
    /\ UNCHANGED <<user, member, token, invite, tx>>

LinkAges ==
    /\ \/ \E t \in Tokens :
            /\ token[t].status \in {"open", "consumed"}
            /\ token' = [token EXCEPT ![t].old = TRUE]
            /\ UNCHANGED invite
       \/ \E i \in Invites :
            /\ invite[i].status = "issued"
            /\ invite' = [invite EXCEPT ![i].old = TRUE]
            /\ UNCHANGED token
    /\ UNCHANGED <<user, member, session, tx>>

\* cleanup_expired_auth_artifacts: its deletes wait for rows other transactions hold.
Swept(rows) ==
    [r \in DOMAIN rows |->
        IF rows[r].status \notin {"absent", "deleted"} /\ rows[r].old
        THEN Deleted ELSE rows[r]]

Cleanup ==
    /\ <<Swept(session), Swept(token), Swept(invite)>> # <<session, token, invite>>
    /\ \A h \in Handlers : \A r \in tx[h].locks :
            /\ r \in Tokens => ~token[r].old
            /\ r \in Invites => ~invite[r].old
    /\ \A h \in Handlers : tx[h].op = "changed" => \A s \in tx[h].doomed : ~session[s].old
    /\ session' = Swept(session)
    /\ token' = Swept(token)
    /\ invite' = Swept(invite)
    /\ UNCHANGED <<user, member, tx>>

AccountsNext ==
    \/ \E h \in Handlers :
          \/ \E e \in Emails : LoginVerify(h, e)
          \/ LoginCommit(h)
          \/ \E s \in Sessions : ChangeAuthorise(h, s)
          \/ ChangeVerify(h) \/ ChangeRevoke(h) \/ ChangeCommit(h)
          \/ \E e \in Emails, slug \in Slugs : ProvisionCheck(h, slug, e)
          \/ \E role \in {"member", "admin"} : ProvisionCommit(h, role)
          \/ \E t \in Tokens : SetupLock(h, t)
          \/ SetupCommit(h)
          \/ \E i \in Invites, e \in Emails, slug \in Slugs : EnrollLock(h, i, e, slug)
          \/ EnrollCommit(h)
    \/ \E e \in Emails, slug \in Slugs : Bootstrap(e, slug)
    \/ \E e \in Emails : DisableUser(e)
    \/ \E s \in Sessions : Logout(s) \/ ValidateDisabled(s) \/ SessionAges(s)
    \/ \E i \in Invites : CreateInvite(i) \/ RevokeInvite(i)
    \/ LinkAges
    \/ Cleanup

AccountsSpec == AccountsInit /\ [][AccountsNext]_accountVars

----------------------------------------------------------------------------
(***************************************************************************)
(* "Log out other devices; keep the current session valid" (auth_routes:    *)
(* change_password): a live session that was issued for an earlier password *)
(* is the one that changed it, unless its login was under way when the      *)
(* change revoked the others, however logins and changes interleave.        *)
(***************************************************************************)
OnlyChangerSurvives ==
    \A s \in Sessions : Live(s) /\ ~session[s].late =>
        \/ session[s].ver = user[session[s].email].pw
        \/ user[session[s].email].changer = s

(***************************************************************************)
(* An invite founds at most one account, and none once it is revoked: the   *)
(* row lock decides between two enrollments, and between an enrollment and  *)
(* a revocation.                                                           *)
(***************************************************************************)
InviteSpentOnce ==
    \A i \in Invites : invite[i].status = "issued" =>
        invite[i].consumed + (IF invite[i].revoked THEN 1 ELSE 0) <= 1

(***************************************************************************)
(* A setup link gives an account its first password and never replaces one: *)
(* a password that exists changes only in a change_password transaction.    *)
(***************************************************************************)
LinkNeverReplaces ==
    [][\A e \in Emails : Exists(e) /\ user[e].pw > 0 /\ user'[e].pw # user[e].pw =>
            Changing(e)]_accountVars
=============================================================================
