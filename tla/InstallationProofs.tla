------------------------- MODULE InstallationProofs -------------------------
(****************************************************************************)
(* A company's installation, for any number of sessions, members, requests, *)
(* processes, migrations and days: who changed an account, what the login   *)
(* gate admits, what the operator commands signal, back up and restore, and *)
(* which copies survive.                                                    *)
(****************************************************************************)
EXTENDS Accounts, LoginGate, LocalRuntime, OffsiteBackups, FiniteSetTheorems,
        StepwiseRecursion, TLAPS

-----------------------------------------------------------------------------
(* Accounts, sessions, setup links and invites.                            *)

UserRecords ==
    {Absent} \cup [status : {"active", "disabled"}, pw : Nat, changer : Sessions \cup {None}]

SessionRecords ==
    {Absent, Deleted} \cup [status : {"live", "revoked"}, email : Emails, ver : Nat,
                            late : BOOLEAN, old : BOOLEAN]

TokenRecords ==
    {Absent, Deleted} \cup [status : {"open", "consumed"}, email : Emails, old : BOOLEAN]

InviteRecords ==
    {Absent, Deleted} \cup [status : {"issued"}, consumed : Nat, revoked : BOOLEAN, old : BOOLEAN]

RowLocks == SUBSET (Emails \cup Tokens \cup Invites)

TxRecords ==
    {IdleTx}
    \cup [op : {"login"}, email : Emails, ver : Nat, locks : RowLocks]
    \cup [op : {"authorised", "matched"}, email : Emails, by : Sessions, locks : RowLocks]
    \cup [op : {"changed"}, email : Emails, by : Sessions, locks : RowLocks,
          doomed : SUBSET Sessions]
    \cup [op : {"provision"}, email : Emails, slug : Slugs, new : BOOLEAN, locks : RowLocks]
    \cup [op : {"setup"}, email : Emails, token : Tokens, locks : RowLocks]
    \cup [op : {"enroll"}, email : Emails, slug : Slugs, invite : Invites, locks : RowLocks]

AccountsTypeInv ==
    /\ user \in [Emails -> UserRecords]
    /\ session \in [Sessions -> SessionRecords]
    /\ token \in [Tokens -> TokenRecords]
    /\ invite \in [Invites -> InviteRecords]
    /\ tx \in [Handlers -> TxRecords]

HasPassword(e) == Exists(e) /\ user[e].pw > 0

\* Sessions, logins and password changes are those of accounts with a password.
PasswordInv ==
    /\ \A s \in Sessions :
         session[s].status \in {"live", "revoked"} => HasPassword(session[s].email)
    /\ \A h \in Handlers :
         tx[h].op \in {"login", "authorised", "matched", "changed"} => HasPassword(tx[h].email)

\* A link being used is the only one for its account, which has no password yet.
SetupInv ==
    /\ \A h \in Handlers : tx[h].op = "setup" =>
         /\ {tx[h].token, tx[h].email} \subseteq tx[h].locks
         /\ token[tx[h].token].status \in {"open", "consumed"}
         /\ Exists(tx[h].email) /\ user[tx[h].email].pw = 0
    /\ \A g, h \in Handlers :
         tx[g].op = "setup" /\ tx[h].op = "setup" /\ tx[g].email = tx[h].email => g = h

\* An invite being used is good, and used by one request.
EnrollInv ==
    /\ \A h \in Handlers : tx[h].op = "enroll" =>
         /\ tx[h].invite \in tx[h].locks
         /\ invite[tx[h].invite].status = "issued"
         /\ invite[tx[h].invite].consumed = 0 /\ ~invite[tx[h].invite].revoked
    /\ \A g, h \in Handlers :
         tx[g].op = "enroll" /\ tx[h].op = "enroll" /\ tx[g].invite = tx[h].invite => g = h
    /\ InviteSpentOnce

Prompt(s) == session[s].status = "live" /\ ~session[s].late

\* A change about to commit has seen every session but the late ones, and what it
\* leaves are those issued for the present password and the one that set it.
SurvivorInv ==
    /\ \A h \in Handlers : tx[h].op = "changed" =>
         \A s \in Sessions : Prompt(s) /\ session[s].email = tx[h].email =>
            s \in tx[h].doomed \cup {tx[h].by}
    /\ \A s \in Sessions : Prompt(s) =>
         \/ session[s].ver = user[session[s].email].pw
         \/ user[session[s].email].changer = s

AccountsInv == AccountsTypeInv /\ PasswordInv /\ SetupInv /\ EnrollInv /\ SurvivorInv

LEMMA AccountsInitHolds == AccountsInit => AccountsInv
<1> SUFFICES ASSUME AccountsInit PROVE AccountsInv
  OBVIOUS
<1> USE DEF AccountsInit
<1>1. AccountsTypeInv
  BY DEF AccountsTypeInv, UserRecords, SessionRecords, TokenRecords, InviteRecords, TxRecords,
         NewUser
<1>2. /\ \A s \in Sessions : session[s].status = "absent"
      /\ \A i \in Invites : invite[i].status = "absent"
      /\ \A h \in Handlers : tx[h].op = "idle"
  BY DEF Absent, IdleTx
<1>3. QED
  BY <1>1, <1>2 DEF AccountsInv, PasswordInv, SetupInv, EnrollInv, SurvivorInv, InviteSpentOnce,
                    Prompt

-----------------------------------------------------------------------------
(* Steps that begin or advance a transaction.                              *)

Beginning(h) ==
    \/ \E e \in Emails : LoginVerify(h, e)
    \/ \E s \in Sessions : ChangeAuthorise(h, s)
    \/ ChangeVerify(h) \/ ChangeRevoke(h)
    \/ \E e \in Emails, slug \in Slugs : ProvisionCheck(h, slug, e)
    \/ \E t \in Tokens : SetupLock(h, t)
    \/ \E i \in Invites, e \in Emails, slug \in Slugs : EnrollLock(h, i, e, slug)

\* The record of a transaction, by what it does.
LEMMA TxFields ==
    ASSUME AccountsTypeInv, NEW h \in Handlers
    PROVE  /\ tx[h].locks \in RowLocks
           /\ tx[h].op \in {"idle", "login", "authorised", "matched", "changed", "provision",
                            "setup", "enroll"}
           /\ tx[h].op # "idle" => tx[h].email \in Emails
           /\ tx[h].op = "login" => tx[h].ver \in Nat
           /\ tx[h].op \in {"authorised", "matched"} =>
                tx[h] \in [op : {"authorised", "matched"}, email : Emails, by : Sessions,
                           locks : RowLocks]
           /\ tx[h].op = "changed" => tx[h].by \in Sessions /\ tx[h].doomed \in SUBSET Sessions
           /\ tx[h].op = "provision" => tx[h].slug \in Slugs /\ tx[h].new \in BOOLEAN
           /\ tx[h].op = "setup" => tx[h].token \in Tokens
           /\ tx[h].op = "enroll" => tx[h].slug \in Slugs /\ tx[h].invite \in Invites
<1>1. tx[h] \in TxRecords
  BY DEF AccountsTypeInv
<1>2. QED
  BY <1>1 DEF TxRecords, IdleTx, RowLocks

LEMMA SessionFields ==
    ASSUME AccountsTypeInv, NEW s \in Sessions, session[s].status \in {"live", "revoked"}
    PROVE  session[s] \in [status : {"live", "revoked"}, email : Emails, ver : Nat,
                           late : BOOLEAN, old : BOOLEAN]
<1>1. session[s] \in SessionRecords
  BY DEF AccountsTypeInv
<1>2. QED
  BY <1>1 DEF SessionRecords, Absent, Deleted

LEMMA UserFields ==
    ASSUME AccountsTypeInv, NEW e \in Emails, Exists(e)
    PROVE  user[e] \in [status : {"active", "disabled"}, pw : Nat, changer : Sessions \cup {None}]
<1>1. user[e] \in UserRecords
  BY DEF AccountsTypeInv
<1>2. QED
  BY <1>1 DEF UserRecords, Exists, Absent

LEMMA TokenFields ==
    ASSUME AccountsTypeInv, NEW t \in Tokens, token[t].status \in {"open", "consumed"}
    PROVE  token[t] \in [status : {"open", "consumed"}, email : Emails, old : BOOLEAN]
<1>1. token[t] \in TokenRecords
  BY DEF AccountsTypeInv
<1>2. QED
  BY <1>1 DEF TokenRecords, Absent, Deleted

LEMMA InviteFields ==
    ASSUME AccountsTypeInv, NEW i \in Invites, invite[i].status = "issued"
    PROVE  invite[i] \in [status : {"issued"}, consumed : Nat, revoked : BOOLEAN, old : BOOLEAN]
<1>1. invite[i] \in InviteRecords
  BY DEF AccountsTypeInv
<1>2. QED
  BY <1>1 DEF InviteRecords, Absent, Deleted

\* Where a transaction begins, from what it has read.
LEMMA BeginningIs ==
    ASSUME AccountsInv, NEW h \in Handlers, Beginning(h)
    PROVE  /\ UNCHANGED <<user, session, token, invite>>
           /\ \E x \in TxRecords : tx' = [tx EXCEPT ![h] = x]
           /\ tx'[h].op \in {"login", "authorised", "matched", "changed"} =>
                HasPassword(tx'[h].email)
           /\ tx'[h].op = "changed" => \A s \in Sessions :
                Prompt(s) /\ session[s].email = tx'[h].email => s \in tx'[h].doomed \cup {tx'[h].by}
           /\ tx'[h].op = "setup" =>
                /\ {tx'[h].token, tx'[h].email} \subseteq tx'[h].locks
                /\ token[tx'[h].token].status = "open"
                /\ Exists(tx'[h].email) /\ user[tx'[h].email].pw = 0
                /\ ~Locked(tx'[h].email)
           /\ tx'[h].op = "enroll" =>
                /\ tx'[h].invite \in tx'[h].locks
                /\ invite[tx'[h].invite].status = "issued"
                /\ invite[tx'[h].invite].consumed = 0 /\ ~invite[tx'[h].invite].revoked
                /\ ~Locked(tx'[h].invite)
<1> DEFINE Goal ==
      /\ UNCHANGED <<user, session, token, invite>>
      /\ \E x \in TxRecords : tx' = [tx EXCEPT ![h] = x]
      /\ tx'[h].op \in {"login", "authorised", "matched", "changed"} =>
           HasPassword(tx'[h].email)
      /\ tx'[h].op = "changed" => \A s \in Sessions :
           Prompt(s) /\ session[s].email = tx'[h].email => s \in tx'[h].doomed \cup {tx'[h].by}
      /\ tx'[h].op = "setup" =>
           /\ {tx'[h].token, tx'[h].email} \subseteq tx'[h].locks
           /\ token[tx'[h].token].status = "open"
           /\ Exists(tx'[h].email) /\ user[tx'[h].email].pw = 0
           /\ ~Locked(tx'[h].email)
      /\ tx'[h].op = "enroll" =>
           /\ tx'[h].invite \in tx'[h].locks
           /\ invite[tx'[h].invite].status = "issued"
           /\ invite[tx'[h].invite].consumed = 0 /\ ~invite[tx'[h].invite].revoked
           /\ ~Locked(tx'[h].invite)
<1>0. AccountsTypeInv /\ PasswordInv /\ h \in DOMAIN tx
  BY DEF AccountsInv, AccountsTypeInv
<1>1. ASSUME NEW e \in Emails, LoginVerify(h, e) PROVE Goal
  <2> DEFINE x == [op |-> "login", email |-> e, ver |-> user[e].pw, locks |-> {}]
  <2>1. HasPassword(e) /\ user[e].pw \in Nat
    BY <1>0, <1>1, UserFields DEF LoginVerify, HasPassword, ActiveUser, Exists
  <2>2. x \in TxRecords /\ tx' = [tx EXCEPT ![h] = x] /\ UNCHANGED <<user, session, token, invite>>
    BY <1>1, <2>1 DEF LoginVerify, BeginTx, TxRecords, RowLocks
  <2>3. tx'[h] = x
    BY <1>0, <2>2
  <2>4. x.op = "login" /\ x.email = e
    OBVIOUS
  <2> HIDE DEF x
  <2>5. QED
    BY <2>1, <2>2, <2>3, <2>4
<1>2. ASSUME NEW s \in Sessions, ChangeAuthorise(h, s) PROVE Goal
  <2> DEFINE x == [op |-> "authorised", email |-> session[s].email, by |-> s, locks |-> {}]
  <2>1. HasPassword(session[s].email) /\ session[s].email \in Emails
    BY <1>0, <1>2, SessionFields DEF ChangeAuthorise, Live, PasswordInv
  <2>2. x \in TxRecords /\ tx' = [tx EXCEPT ![h] = x] /\ UNCHANGED <<user, session, token, invite>>
    BY <1>2, <2>1 DEF ChangeAuthorise, BeginTx, TxRecords, RowLocks
  <2>3. tx'[h] = x
    BY <1>0, <2>2
  <2>4. x.op = "authorised" /\ x.email = session[s].email
    OBVIOUS
  <2> HIDE DEF x
  <2>5. QED
    BY <2>1, <2>2, <2>3, <2>4
<1>3. CASE ChangeVerify(h)
  <2> DEFINE x == [tx[h] EXCEPT !.op = "matched"]
  <2>1. HasPassword(tx[h].email)
        /\ tx[h] \in [op : {"authorised", "matched"}, email : Emails, by : Sessions,
                      locks : RowLocks]
    BY <1>0, <1>3, TxFields DEF ChangeVerify, PasswordInv
  <2>2. x \in TxRecords /\ x.op = "matched" /\ x.email = tx[h].email
    BY <2>1 DEF TxRecords
  <2>3. tx' = [tx EXCEPT ![h] = x] /\ UNCHANGED <<user, session, token, invite>>
    BY <1>3 DEF ChangeVerify
  <2>4. tx'[h] = x
    BY <1>0, <2>3
  <2>5. QED
    BY <2>1, <2>2, <2>3, <2>4
<1>4. CASE ChangeRevoke(h)
  <2> DEFINE e == tx[h].email
             x == [op |-> "changed", email |-> e, by |-> tx[h].by, locks |-> {},
                   doomed |-> {s \in SessionsOf(e) : session[s].status = "live"} \ {tx[h].by}]
  <2>1. HasPassword(tx[h].email) /\ tx[h].by \in Sessions /\ e \in Emails
    BY <1>0, <1>4, TxFields DEF ChangeRevoke, PasswordInv
  <2>2. tx' = [tx EXCEPT ![h] = x] /\ UNCHANGED <<user, session, token, invite>>
    BY <1>4 DEF ChangeRevoke
  <2>3. x \in TxRecords
    BY <2>1 DEF TxRecords, SessionsOf, RowLocks
  <2>4. tx'[h] = x
    BY <1>0, <2>2
  <2>5. ASSUME NEW s \in Sessions, Prompt(s), session[s].email = e
        PROVE  s \in x.doomed \cup {x.by}
    BY <2>5 DEF Prompt, SessionsOf
  <2>6. x.op = "changed" /\ x.email = e
    OBVIOUS
  <2> HIDE DEF x
  <2>7. QED
    BY <2>1, <2>2, <2>3, <2>4, <2>5, <2>6
<1>5. ASSUME NEW e \in Emails, NEW slug \in Slugs, ProvisionCheck(h, slug, e) PROVE Goal
  <2> DEFINE x == [op |-> "provision", email |-> e, slug |-> slug, new |-> ~Exists(e),
                   locks |-> IF Exists(e) THEN {e} ELSE {}]
  <2>1. x \in TxRecords
    BY DEF TxRecords, RowLocks
  <2>2. tx' = [tx EXCEPT ![h] = x] /\ UNCHANGED <<user, session, token, invite>>
    BY <1>5 DEF ProvisionCheck, BeginTx
  <2>3. tx'[h] = x
    BY <1>0, <2>2
  <2>4. x.op = "provision"
    OBVIOUS
  <2> HIDE DEF x
  <2>5. QED
    BY <2>1, <2>2, <2>3, <2>4
<1>6. ASSUME NEW t \in Tokens, SetupLock(h, t) PROVE Goal
  <2> DEFINE e == token[t].email
             x == [op |-> "setup", email |-> e, token |-> t, locks |-> {t, e}]
  <2>1. e \in Emails
    BY <1>0, <1>6, TokenFields DEF SetupLock
  <2>2. x \in TxRecords
    BY <2>1 DEF TxRecords, RowLocks
  <2>3. /\ tx' = [tx EXCEPT ![h] = x] /\ UNCHANGED <<user, session, token, invite>>
        /\ token[t].status = "open" /\ Exists(e) /\ user[e].pw = 0 /\ ~Locked(e)
    BY <1>6 DEF SetupLock, BeginTx, Busy, ActiveUser, Exists
  <2>4. tx'[h] = x
    BY <1>0, <2>3
  <2>5. x.op = "setup" /\ x.email = e /\ x.token = t /\ x.locks = {t, e}
    OBVIOUS
  <2> HIDE DEF x, e
  <2>6. QED
    BY <2>2, <2>3, <2>4, <2>5
<1>7. ASSUME NEW i \in Invites, NEW e \in Emails, NEW slug \in Slugs, EnrollLock(h, i, e, slug)
      PROVE  Goal
  <2> DEFINE x == [op |-> "enroll", email |-> e, slug |-> slug, invite |-> i, locks |-> {i}]
  <2>1. x \in TxRecords
    BY DEF TxRecords, RowLocks
  <2>2. /\ tx' = [tx EXCEPT ![h] = x] /\ UNCHANGED <<user, session, token, invite>>
        /\ invite[i].status = "issued" /\ invite[i].consumed = 0 /\ ~invite[i].revoked /\ ~Locked(i)
    BY <1>7 DEF EnrollLock, BeginTx
  <2>3. tx'[h] = x
    BY <1>0, <2>2
  <2>4. x.op = "enroll" /\ x.invite = i /\ x.locks = {i}
    OBVIOUS
  <2> HIDE DEF x
  <2>5. QED
    BY <2>1, <2>2, <2>3, <2>4
<1>8. QED
  BY <1>1, <1>2, <1>3, <1>4, <1>5, <1>6, <1>7 DEF Beginning

LEMMA BeginningKeeps ==
    ASSUME AccountsInv, NEW h \in Handlers, Beginning(h)
    PROVE  AccountsInv'
<1>1. UNCHANGED <<user, session, token, invite>>
  BY BeginningIs
<1>2. PICK x \in TxRecords : tx' = [tx EXCEPT ![h] = x]
  BY BeginningIs
<1>3. AccountsTypeInv'
  BY <1>1, <1>2 DEF AccountsInv, AccountsTypeInv
<1>4. \A g \in Handlers : g # h => tx'[g] = tx[g]
  BY <1>2 DEF AccountsInv, AccountsTypeInv
<1>5. PasswordInv'
  BY <1>1, <1>4, BeginningIs DEF AccountsInv, PasswordInv, HasPassword, Exists
<1>6. SurvivorInv'
  BY <1>1, <1>4, BeginningIs DEF AccountsInv, SurvivorInv, Prompt
<1>7. SetupInv'
  <2>1. ASSUME NEW g \in Handlers, tx'[h].op = "setup", tx[g].op = "setup",
               tx[g].email = tx'[h].email
        PROVE  FALSE
    BY <2>1, BeginningIs DEF AccountsInv, SetupInv, Locked
  <2>2. QED
    BY <1>1, <1>4, <2>1, BeginningIs DEF AccountsInv, SetupInv, Exists
<1>8. EnrollInv'
  <2>1. ASSUME NEW g \in Handlers, tx'[h].op = "enroll", tx[g].op = "enroll",
               tx[g].invite = tx'[h].invite
        PROVE  FALSE
    BY <2>1, BeginningIs DEF AccountsInv, EnrollInv, Locked
  <2>2. QED
    BY <1>1, <1>4, <2>1, BeginningIs DEF AccountsInv, EnrollInv, InviteSpentOnce
<1>9. QED
  BY <1>3, <1>5, <1>6, <1>7, <1>8 DEF AccountsInv

-----------------------------------------------------------------------------
(* Steps that end a transaction, or that are one.                          *)

TxShrinks == \A g \in Handlers : tx'[g] = tx[g] \/ tx'[g] = IdleTx

IsSession(s) == session[s].status \in {"live", "revoked"}

\* Passwords are never taken back, and a session is opened with one.
LEMMA PasswordStays ==
    ASSUME AccountsInv, TxShrinks, \A e \in Emails : HasPassword(e) => HasPassword(e)',
           \A s \in Sessions : IsSession(s)' =>
              \/ IsSession(s) /\ session'[s].email = session[s].email
              \/ HasPassword(session[s].email)'
    PROVE  PasswordInv'
<1>1. ASSUME NEW s \in Sessions, IsSession(s)' PROVE HasPassword(session[s].email)'
  <2>1. CASE HasPassword(session[s].email)'
    BY <2>1
  <2>2. CASE IsSession(s) /\ session'[s].email = session[s].email
    <3>1. session[s].email \in Emails /\ HasPassword(session[s].email)
      BY <2>2, SessionFields DEF AccountsInv, PasswordInv, IsSession
    <3>2. QED
      BY <2>2, <3>1 DEF HasPassword, Exists
  <2>3. QED
    BY <1>1, <2>1, <2>2
<1>2. ASSUME NEW h \in Handlers, tx'[h].op \in {"login", "authorised", "matched", "changed"}
      PROVE  HasPassword(tx[h].email)'
  <2>1. tx'[h] = tx[h]
    BY <1>2 DEF TxShrinks, IdleTx
  <2>2. tx[h].email \in Emails /\ HasPassword(tx[h].email)
    BY <1>2, <2>1, TxFields DEF AccountsInv, PasswordInv
  <2>3. QED
    BY <2>1, <2>2 DEF HasPassword, Exists
<1>3. QED
  BY <1>1, <1>2 DEF PasswordInv, IsSession

\* A link in use is still there, and its account still without a password.
LEMMA SetupStays ==
    ASSUME AccountsInv, TxShrinks,
           \A h \in Handlers : tx'[h].op = "setup" =>
              /\ token'[tx[h].token].status \in {"open", "consumed"}
              /\ user'[tx[h].email].status # "absent" /\ user'[tx[h].email].pw = 0
    PROVE  SetupInv'
<1>1. \A h \in Handlers : tx'[h].op = "setup" => tx'[h] = tx[h]
  BY DEF TxShrinks, IdleTx
<1>2. QED
  BY <1>1 DEF AccountsInv, SetupInv, Exists

\* So is an invite, and it is still good.
LEMMA EnrollStays ==
    ASSUME AccountsInv, TxShrinks, InviteSpentOnce',
           \A h \in Handlers : tx'[h].op = "enroll" =>
              /\ invite'[tx[h].invite].status = "issued"
              /\ invite'[tx[h].invite].consumed = 0 /\ ~invite'[tx[h].invite].revoked
    PROVE  EnrollInv'
<1>1. \A h \in Handlers : tx'[h].op = "enroll" => tx'[h] = tx[h]
  BY DEF TxShrinks, IdleTx
<1>2. QED
  BY <1>1 DEF AccountsInv, EnrollInv

\* The sessions are those there were, for a password that stayed or by whoever
\* set it; or new ones, for the present password while nobody changes it.
LEMMA SurvivorStays ==
    ASSUME AccountsInv, TxShrinks,
           \A s \in Sessions : Prompt(s)' =>
              \/ /\ Prompt(s) /\ session'[s].email = session[s].email
                 /\ session'[s].ver = session[s].ver
                 /\ \/ /\ user'[session[s].email].pw = user[session[s].email].pw
                       /\ user'[session[s].email].changer = user[session[s].email].changer
                    \/ user'[session[s].email].changer = s
              \/ /\ session'[s].ver = user'[session'[s].email].pw
                 /\ \A h \in Handlers : tx'[h].op = "changed" => tx[h].email # session'[s].email
    PROVE  SurvivorInv'
<1>1. \A h \in Handlers : tx'[h].op = "changed" => tx'[h] = tx[h]
  BY DEF TxShrinks, IdleTx
<1>2. \A s \in Sessions : Prompt(s)' =>
         \/ session'[s].ver = user'[session'[s].email].pw
         \/ user'[session'[s].email].changer = s
  BY DEF AccountsInv, SurvivorInv
<1>3. ASSUME NEW h \in Handlers, tx'[h].op = "changed", NEW s \in Sessions, Prompt(s)',
             session'[s].email = tx'[h].email
      PROVE  s \in tx'[h].doomed \cup {tx'[h].by}
  BY <1>1, <1>3 DEF AccountsInv, SurvivorInv
<1>4. QED
  BY <1>2, <1>3 DEF SurvivorInv

\* Nothing happens to accounts.
LEMMA UserUnchanged ==
    ASSUME AccountsInv, TxShrinks, UNCHANGED user
    PROVE  /\ \A e \in Emails : HasPassword(e) => HasPassword(e)'
           /\ \A h \in Handlers : tx'[h].op = "setup" =>
                user'[tx[h].email].status # "absent" /\ user'[tx[h].email].pw = 0
<1>1. \A h \in Handlers : tx'[h].op = "setup" => tx'[h] = tx[h]
  BY DEF TxShrinks, IdleTx
<1>2. QED
  BY <1>1 DEF AccountsInv, SetupInv, HasPassword, Exists

\* Nothing happens to invites.
LEMMA InviteUnchanged ==
    ASSUME AccountsInv, TxShrinks, UNCHANGED invite PROVE EnrollInv'
<1>1. \A h \in Handlers : tx'[h].op = "enroll" => tx'[h] = tx[h]
  BY DEF TxShrinks, IdleTx
<1>2. QED
  BY <1>1, EnrollStays DEF AccountsInv, EnrollInv, InviteSpentOnce

\* Nothing happens to links and accounts.
LEMMA LinksUnchanged ==
    ASSUME AccountsInv, TxShrinks, UNCHANGED <<user, token>> PROVE SetupInv'
<1>1. \A h \in Handlers : tx'[h].op = "setup" => tx'[h] = tx[h]
  BY DEF TxShrinks, IdleTx
<1>2. QED
  BY <1>1, UserUnchanged, SetupStays DEF AccountsInv, SetupInv

\* No session is opened and no password changes.
LEMMA SessionsShrink ==
    ASSUME AccountsInv, TxShrinks, \A e \in Emails : Exists(e) => UNCHANGED user[e].pw,
           \A e \in Emails : Exists(e) => UNCHANGED user[e].changer /\ Exists(e)',
           \A s \in Sessions : IsSession(s)' =>
              /\ IsSession(s) /\ session'[s].email = session[s].email
              /\ session'[s].ver = session[s].ver /\ session'[s].late = session[s].late
              /\ session'[s].status = "live" => session[s].status = "live"
    PROVE  PasswordInv' /\ SurvivorInv'
<1>1. \A e \in Emails : HasPassword(e) => HasPassword(e)'
  BY DEF HasPassword, Exists
<1>2. PasswordInv'
  BY <1>1, PasswordStays
<1>3. ASSUME NEW s \in Sessions, Prompt(s)'
      PROVE  /\ Prompt(s) /\ session'[s].email = session[s].email
             /\ session'[s].ver = session[s].ver
             /\ user'[session[s].email].pw = user[session[s].email].pw
             /\ user'[session[s].email].changer = user[session[s].email].changer
  <2>1. /\ Prompt(s) /\ IsSession(s) /\ session'[s].email = session[s].email
        /\ session'[s].ver = session[s].ver
    BY <1>3 DEF Prompt, IsSession
  <2>2. session[s].email \in Emails /\ Exists(session[s].email)
    BY <2>1, SessionFields DEF AccountsInv, PasswordInv, HasPassword, IsSession
  <2>3. QED
    BY <2>1, <2>2
<1>4. SurvivorInv'
  BY <1>3, SurvivorStays
<1>5. QED
  BY <1>2, <1>4

-----------------------------------------------------------------------------
(* One step at a time.                                                     *)

LEMMA SessionOpened ==
    ASSUME AccountsTypeInv, NEW e \in Emails, NEW ver \in Nat, NEW late \in BOOLEAN,
           OpenSession(e, ver, late)
    PROVE  /\ session' \in [Sessions -> SessionRecords]
           /\ \E s \in Sessions :
                /\ session'[s] = NewSession(e, ver, late)
                /\ \A r \in Sessions \ {s} : session'[r] = session[r]
<1>1. PICK s \in Sessions : session' = [session EXCEPT ![s] = NewSession(e, ver, late)]
  BY DEF OpenSession
<1>2. NewSession(e, ver, late) \in SessionRecords
  BY DEF NewSession, SessionRecords
<1>3. QED
  BY <1>1, <1>2 DEF AccountsTypeInv

LEMMA TxEnded ==
    ASSUME AccountsTypeInv, NEW h \in Handlers, EndTx(h)
    PROVE  /\ tx' \in [Handlers -> TxRecords] /\ TxShrinks /\ tx'[h].op = "idle"
           /\ \A g \in Handlers \ {h} : tx'[g] = tx[g]
<1>1. IdleTx \in TxRecords /\ IdleTx.op = "idle"
  BY DEF TxRecords, IdleTx
<1>2. QED
  BY <1>1 DEF AccountsTypeInv, EndTx, TxShrinks

LEMMA RollbackKeeps ==
    ASSUME AccountsInv, NEW h \in Handlers, Rollback(h) PROVE AccountsInv'
<1>1. UNCHANGED <<user, session, token, invite>> /\ EndTx(h)
  BY DEF Rollback
<1>2. tx' \in [Handlers -> TxRecords] /\ TxShrinks
  BY <1>1, TxEnded DEF AccountsInv
<1>3. AccountsTypeInv'
  BY <1>1, <1>2 DEF AccountsInv, AccountsTypeInv
<1>4. PasswordInv' /\ SurvivorInv'
  BY <1>1, <1>2, SessionsShrink DEF Exists, IsSession
<1>5. SetupInv' /\ EnrollInv'
  BY <1>1, <1>2, LinksUnchanged, InviteUnchanged
<1>6. QED
  BY <1>3, <1>4, <1>5 DEF AccountsInv

LEMMA LoginCommitKeeps ==
    ASSUME AccountsInv, NEW h \in Handlers, LoginCommit(h) PROVE AccountsInv'
<1> DEFINE e == tx[h].email
           late == tx[h].ver # user[e].pw \/ Changing(e)
<1>1. UNCHANGED <<user, token, invite>> /\ EndTx(h) /\ OpenSession(e, tx[h].ver, late)
  BY DEF LoginCommit
<1>2. /\ e \in Emails /\ tx[h].ver \in Nat /\ HasPassword(e)
  BY TxFields DEF AccountsInv, LoginCommit, PasswordInv
<1>3. tx' \in [Handlers -> TxRecords] /\ TxShrinks
  BY <1>1, TxEnded DEF AccountsInv
<1>4. late \in BOOLEAN
  BY DEF Changing
<1> HIDE DEF late
<1>5. PICK s \in Sessions :
        /\ session'[s] = NewSession(e, tx[h].ver, late)
        /\ \A r \in Sessions \ {s} : session'[r] = session[r]
  BY <1>1, <1>2, <1>4, SessionOpened DEF AccountsInv
<1>6. AccountsTypeInv'
  BY <1>1, <1>2, <1>3, <1>4, SessionOpened DEF AccountsInv, AccountsTypeInv
<1>7. /\ session'[s].email = e /\ session'[s].ver = tx[h].ver /\ session'[s].late = late
  BY <1>5 DEF NewSession
<1>8. SetupInv' /\ EnrollInv'
  BY <1>1, <1>3, LinksUnchanged, InviteUnchanged
<1>9. PasswordInv'
  <2>1. HasPassword(session[s].email)'
    BY <1>1, <1>2, <1>7 DEF HasPassword, Exists
  <2>2. QED
    BY <1>1, <1>3, <1>5, <2>1, UserUnchanged, PasswordStays DEF IsSession
<1>10. SurvivorInv'
  <2>1. ASSUME Prompt(s)'
        PROVE  /\ session'[s].ver = user'[session'[s].email].pw
               /\ \A g \in Handlers : tx'[g].op = "changed" => tx[g].email # session'[s].email
    <3>1. ~late
      BY <1>7, <2>1 DEF Prompt
    <3>2. tx[h].ver = user[e].pw /\ ~Changing(e)
      BY <3>1 DEF late
    <3>3. \A g \in Handlers : tx'[g].op = "changed" => tx[g].op = "changed"
      BY <1>3 DEF TxShrinks, IdleTx
    <3>4. QED
      BY <1>1, <1>7, <3>2, <3>3 DEF Changing
  <2>2. ASSUME NEW r \in Sessions \ {s}, Prompt(r)'
        PROVE  Prompt(r) /\ session'[r] = session[r]
    BY <1>5, <2>2 DEF Prompt
  <2>3. QED
    BY <1>1, <1>3, <2>1, <2>2, SurvivorStays
<1>11. QED
  BY <1>6, <1>8, <1>9, <1>10 DEF AccountsInv

LEMMA ChangeCommitKeeps ==
    ASSUME AccountsInv, NEW h \in Handlers, ChangeCommit(h) PROVE AccountsInv'
<1> DEFINE e == tx[h].email
<1>1. UNCHANGED <<token, invite>> /\ EndTx(h) /\ tx[h].op = "changed"
  BY DEF ChangeCommit
<1>2. e \in Emails /\ tx[h].by \in Sessions /\ HasPassword(e)
  BY <1>1, TxFields DEF AccountsInv, PasswordInv
<1>3. tx' \in [Handlers -> TxRecords] /\ TxShrinks
  BY <1>1, TxEnded DEF AccountsInv
<1>4. user[e] \in [status : {"active", "disabled"}, pw : Nat, changer : Sessions \cup {None}]
  BY <1>2, UserFields DEF AccountsInv, HasPassword
<1>5. user' = [user EXCEPT ![e] = [user[e] EXCEPT !.pw = user[e].pw + 1,
                                              !.changer = tx[h].by]]
  BY <1>4 DEF ChangeCommit, AccountsInv, AccountsTypeInv
<1>6. /\ user'[e].pw = user[e].pw + 1 /\ user'[e].changer = tx[h].by
      /\ user'[e].status = user[e].status
      /\ user'[e] \in UserRecords
      /\ \A f \in Emails \ {e} : user'[f] = user[f]
  <2>1. user'[e] = [user[e] EXCEPT !.pw = user[e].pw + 1, !.changer = tx[h].by]
    BY <1>2, <1>5 DEF AccountsInv, AccountsTypeInv
  <2>2. \A f \in Emails \ {e} : user'[f] = user[f]
    BY <1>2, <1>5 DEF AccountsInv, AccountsTypeInv
  <2>3. /\ user'[e] \in [status : {"active", "disabled"}, pw : Nat,
                          changer : Sessions \cup {None}]
        /\ user'[e].pw = user[e].pw + 1 /\ user'[e].changer = tx[h].by
        /\ user'[e].status = user[e].status
    <3> DEFINE u == user[e]
    <3>1. u \in [status : {"active", "disabled"}, pw : Nat, changer : Sessions \cup {None}]
      BY <1>4
    <3>2. user'[e] = [u EXCEPT !.pw = u.pw + 1, !.changer = tx[h].by]
      BY <2>1
    <3> HIDE DEF u, e
    <3>3. user'[e] = [status |-> u.status, pw |-> u.pw + 1, changer |-> tx[h].by]
      BY <3>1, <3>2
    <3>4. u.pw + 1 \in Nat /\ u.status \in {"active", "disabled"} /\ tx[h].by \in Sessions
      BY <1>2, <3>1
    <3>5. QED
      BY <3>3, <3>4 DEF u
  <2>4. QED
    BY <2>2, <2>3 DEF UserRecords
<1>7. ASSUME NEW s \in Sessions
      PROVE  /\ session'[s] = session[s] \/ session'[s] = [session[s] EXCEPT !.status = "revoked"]
             /\ session'[s] # session[s] => session[s].status = "live"
             /\ s \in tx[h].doomed => session'[s].status # "live"
  <2>1. CASE s \in tx[h].doomed /\ session[s].status = "live"
    <3>1. session'[s] = [session[s] EXCEPT !.status = "revoked"]
      BY <2>1 DEF ChangeCommit
    <3>2. session[s] \in [status : {"live", "revoked"}, email : Emails, ver : Nat,
                          late : BOOLEAN, old : BOOLEAN]
      BY <2>1, SessionFields DEF AccountsInv
    <3>3. QED
      BY <2>1, <3>1, <3>2
  <2>2. CASE ~(s \in tx[h].doomed /\ session[s].status = "live")
    BY <2>2 DEF ChangeCommit
  <2>3. QED
    BY <2>1, <2>2
<1>8. ASSUME NEW s \in Sessions
      PROVE  /\ session'[s] \in SessionRecords
             /\ IsSession(s)' => /\ IsSession(s) /\ session'[s].email = session[s].email
                                 /\ session'[s].ver = session[s].ver
                                 /\ session'[s].late = session[s].late
                                 /\ session'[s].status = "live" => session[s].status = "live"
  <2>1. CASE session'[s] = session[s]
    BY <2>1 DEF AccountsInv, AccountsTypeInv, IsSession
  <2>2. CASE session'[s] # session[s]
    <3>1. session[s] \in [status : {"live", "revoked"}, email : Emails, ver : Nat,
                          late : BOOLEAN, old : BOOLEAN]
      BY <1>7, <2>2, SessionFields DEF AccountsInv
    <3>2. QED
      BY ZenonT(40), <1>7, <2>2, <3>1 DEF SessionRecords, IsSession
  <2>3. QED
    BY <2>1, <2>2
<1>9. AccountsTypeInv'
  <2>1. session' \in [Sessions -> SessionRecords]
    BY <1>8 DEF ChangeCommit
  <2>2. user' \in [Emails -> UserRecords]
    BY <1>5, <1>6 DEF AccountsInv, AccountsTypeInv
  <2>3. QED
    BY <1>1, <1>3, <2>1, <2>2 DEF AccountsInv, AccountsTypeInv
<1>10. \A f \in Emails : HasPassword(f) => HasPassword(f)'
  BY <1>4, <1>6 DEF HasPassword, Exists
<1>11. PasswordInv'
  BY <1>3, <1>8, <1>10, PasswordStays
<1>12. SetupInv'
  <2>1. ASSUME NEW g \in Handlers, tx'[g].op = "setup"
        PROVE  /\ tx'[g] = tx[g] /\ tx[g].op = "setup" /\ tx[g].email \in Emails
               /\ tx[g].email # e
    BY <1>2, <1>3, <2>1, TxFields DEF TxShrinks, IdleTx, AccountsInv, SetupInv, HasPassword
  <2>2. QED
    BY SMTT(30), <1>1, <1>3, <1>6, <2>1, SetupStays DEF AccountsInv, SetupInv, Exists
<1>13. EnrollInv'
  BY <1>1, <1>3, InviteUnchanged
<1>14. SurvivorInv'
  <2>1. ASSUME NEW s \in Sessions, Prompt(s)'
        PROVE  /\ Prompt(s) /\ session'[s].email = session[s].email
               /\ session'[s].ver = session[s].ver
               /\ \/ /\ user'[session[s].email].pw = user[session[s].email].pw
                     /\ user'[session[s].email].changer = user[session[s].email].changer
                  \/ user'[session[s].email].changer = s
    <3>1. /\ Prompt(s) /\ IsSession(s) /\ session'[s].email = session[s].email
          /\ session'[s].ver = session[s].ver
          /\ s \notin tx[h].doomed
      BY <1>7, <1>8, <2>1 DEF Prompt, IsSession
    <3>2. session[s].email \in Emails
      BY <3>1, SessionFields DEF AccountsInv, IsSession
    <3>3. CASE session[s].email = e
      BY <1>1, <1>6, <3>1, <3>3 DEF AccountsInv, SurvivorInv
    <3>4. CASE session[s].email # e
      BY <1>6, <3>1, <3>2, <3>4
    <3>5. QED
      BY <3>1, <3>3, <3>4
  <2>2. QED
    BY <1>3, <2>1, SurvivorStays
<1>15. QED
  BY <1>9, <1>11, <1>12, <1>13, <1>14 DEF AccountsInv

\* An account is created, or stays as it is.
UserCreated(e, pw) ==
    /\ ~Exists(e) /\ user'[e] = NewUser(pw) /\ \A f \in Emails \ {e} : user'[f] = user[f]

LEMMA AccountCreated ==
    ASSUME AccountsInv, TxShrinks, NEW e \in Emails, NEW pw \in Nat, UserCreated(e, pw)
    PROVE  /\ \A f \in Emails : HasPassword(f) => HasPassword(f)'
           /\ \A f \in Emails : Exists(f) => user'[f] = user[f]
           /\ \A h \in Handlers : tx'[h].op = "setup" =>
                user'[tx[h].email].status # "absent" /\ user'[tx[h].email].pw = 0
<1>1. \A f \in Emails : Exists(f) => user'[f] = user[f]
  BY DEF UserCreated
<1>2. ASSUME NEW h \in Handlers, tx'[h].op = "setup"
      PROVE  tx'[h] = tx[h] /\ tx[h].email \in Emails /\ Exists(tx[h].email)
             /\ user[tx[h].email].pw = 0
  BY <1>2, TxFields DEF TxShrinks, IdleTx, AccountsInv, SetupInv
<1>3. QED
  BY <1>1, <1>2 DEF HasPassword, Exists

LEMMA NewUserFits == ASSUME NEW pw \in Nat PROVE NewUser(pw) \in UserRecords
BY DEF NewUser, UserRecords

LEMMA ProvisionCommitKeeps ==
    ASSUME AccountsInv, NEW h \in Handlers, NEW role, ProvisionCommit(h, role)
    PROVE  AccountsInv'
<1> DEFINE e == tx[h].email
<1>1. CASE Rollback(h)
  BY <1>1, RollbackKeeps
<1>2. CASE ~Rollback(h)
  <2>1. /\ tx[h].op = "provision" /\ ~(tx[h].new /\ Exists(e))
        /\ user' = IF tx[h].new THEN [user EXCEPT ![e] = NewUser(0)] ELSE user
        /\ IF tx[h].new
           THEN \E t \in Tokens :
                   /\ token[t] = Absent
                   /\ token' = [token EXCEPT ![t] =
                                  [status |-> "open", email |-> e, old |-> FALSE]]
           ELSE UNCHANGED token
        /\ EndTx(h)
        /\ UNCHANGED <<session, invite>>
    BY <1>2 DEF ProvisionCommit
  <2>2. e \in Emails
    BY <2>1, TxFields DEF AccountsInv
  <2>3. tx' \in [Handlers -> TxRecords] /\ TxShrinks
    BY <2>1, TxEnded DEF AccountsInv
  <2>4. user' \in [Emails -> UserRecords]
    BY <2>1, NewUserFits DEF AccountsInv, AccountsTypeInv
  <2>5. user' = user \/ UserCreated(e, 0)
    BY <2>1, <2>2 DEF AccountsInv, AccountsTypeInv, UserCreated
  <2>6. /\ token' \in [Tokens -> TokenRecords]
        /\ \A t \in Tokens : token[t].status \in {"open", "consumed"} => token'[t] = token[t]
    <3>1. ASSUME NEW t \in Tokens, token[t] = Absent,
                 token' = [token EXCEPT ![t] = [status |-> "open", email |-> e, old |-> FALSE]]
          PROVE  /\ token' \in [Tokens -> TokenRecords]
                 /\ \A u \in Tokens : token[u].status \in {"open", "consumed"} =>
                                         token'[u] = token[u]
      <4>1. [status |-> "open", email |-> e, old |-> FALSE] \in TokenRecords
        BY <2>2 DEF TokenRecords
      <4>2. token[t].status = "absent"
        BY <3>1 DEF Absent
      <4>3. QED
        BY <3>1, <4>1, <4>2 DEF AccountsInv, AccountsTypeInv
    <3>2. QED
      BY <2>1, <3>1 DEF AccountsInv, AccountsTypeInv
  <2>7. AccountsTypeInv'
    BY <2>1, <2>3, <2>4, <2>6 DEF AccountsInv, AccountsTypeInv
  <2>8. /\ \A f \in Emails : Exists(f) => user'[f] = user[f]
        /\ \A g \in Handlers : tx'[g].op = "setup" =>
             user'[tx[g].email].status # "absent" /\ user'[tx[g].email].pw = 0
    BY <2>2, <2>3, <2>5, UserUnchanged, AccountCreated
  <2>9. PasswordInv' /\ SurvivorInv'
    BY <2>1, <2>3, <2>8, SessionsShrink DEF Exists, IsSession
  <2>10. SetupInv'
    <3>1. ASSUME NEW g \in Handlers, tx'[g].op = "setup"
          PROVE  tx'[g] = tx[g] /\ tx[g].token \in Tokens
                 /\ token[tx[g].token].status \in {"open", "consumed"}
      BY <2>3, <3>1, TxFields DEF TxShrinks, IdleTx, AccountsInv, SetupInv
    <3>2. QED
      BY <2>3, <2>6, <2>8, <3>1, SetupStays
  <2>11. EnrollInv'
    BY <2>1, <2>3, InviteUnchanged
  <2>12. QED
    BY <2>7, <2>9, <2>10, <2>11 DEF AccountsInv
<1>3. QED
  BY <1>1, <1>2

LEMMA BootstrapKeeps ==
    ASSUME AccountsInv, NEW e \in Emails, NEW slug, Bootstrap(e, slug)
    PROVE  AccountsInv'
<1>1. /\ UNCHANGED <<session, token, invite, tx>>
      /\ user' = [user EXCEPT ![e] = IF Exists(e) THEN user[e] ELSE NewUser(0)]
  BY DEF Bootstrap
<1>2. TxShrinks
  BY <1>1 DEF TxShrinks
<1>3. AccountsTypeInv'
  BY <1>1, NewUserFits DEF AccountsInv, AccountsTypeInv
<1>4. user' = user \/ UserCreated(e, 0)
  BY <1>1 DEF AccountsInv, AccountsTypeInv, UserCreated
<1>5. /\ \A f \in Emails : Exists(f) => user'[f] = user[f]
      /\ \A g \in Handlers : tx'[g].op = "setup" =>
           user'[tx[g].email].status # "absent" /\ user'[tx[g].email].pw = 0
  BY <1>2, <1>4, UserUnchanged, AccountCreated
<1>6. PasswordInv' /\ SurvivorInv'
  BY <1>1, <1>2, <1>5, SessionsShrink DEF Exists, IsSession
<1>7. SetupInv'
  BY <1>1, <1>2, <1>5, SetupStays DEF AccountsInv, SetupInv
<1>8. EnrollInv'
  BY <1>1, <1>2, InviteUnchanged
<1>9. QED
  BY <1>3, <1>6, <1>7, <1>8 DEF AccountsInv

LEMMA SetupCommitKeeps ==
    ASSUME AccountsInv, NEW h \in Handlers, SetupCommit(h) PROVE AccountsInv'
<1> DEFINE e == tx[h].email
           t == tx[h].token
<1>1. /\ tx[h].op = "setup" /\ OpenSession(e, 1, FALSE) /\ EndTx(h) /\ UNCHANGED invite
      /\ user' = [user EXCEPT ![e].pw = user[e].pw + 1]
      /\ token' = [token EXCEPT ![t].status = "consumed"]
  BY DEF SetupCommit
<1>2. /\ e \in Emails /\ t \in Tokens
      /\ Exists(e) /\ user[e].pw = 0 /\ token[t].status \in {"open", "consumed"}
  BY <1>1, TxFields DEF AccountsInv, SetupInv
<1>3. tx' \in [Handlers -> TxRecords] /\ TxShrinks /\ tx'[h].op = "idle"
  BY <1>1, TxEnded DEF AccountsInv
<1>4. user[e] \in [status : {"active", "disabled"}, pw : Nat, changer : Sessions \cup {None}]
  BY <1>2, UserFields DEF AccountsInv
<1>5. /\ user' \in [Emails -> UserRecords]
      /\ user'[e].pw = 1 /\ user'[e].status # "absent"
      /\ \A f \in Emails \ {e} : user'[f] = user[f]
  <2>1. user' = [user EXCEPT ![e] = [user[e] EXCEPT !.pw = 1]]
    BY <1>1, <1>2
  <2>2. [user[e] EXCEPT !.pw = 1] \in UserRecords
    BY <1>4 DEF UserRecords
  <2>3. user'[e] = [user[e] EXCEPT !.pw = 1]
    BY <1>2, <2>1 DEF AccountsInv, AccountsTypeInv
  <2>4. user' \in [Emails -> UserRecords] /\ \A f \in Emails \ {e} : user'[f] = user[f]
    BY <2>1, <2>2 DEF AccountsInv, AccountsTypeInv
  <2>5. QED
    BY <1>4, <2>3, <2>4
<1>6. /\ token' \in [Tokens -> TokenRecords]
      /\ \A u \in Tokens : token[u].status \in {"open", "consumed"} =>
                              token'[u].status \in {"open", "consumed"}
  <2>1. token[t] \in [status : {"open", "consumed"}, email : Emails, old : BOOLEAN]
    BY <1>2, TokenFields DEF AccountsInv
  <2>2. token'[t] = [token[t] EXCEPT !.status = "consumed"] /\
        \A u \in Tokens \ {t} : token'[u] = token[u]
    BY <1>1, <1>2 DEF AccountsInv, AccountsTypeInv
  <2>3. token'[t] \in TokenRecords /\ token'[t].status = "consumed"
    BY <2>1, <2>2 DEF TokenRecords
  <2>4. token' \in [Tokens -> TokenRecords]
    BY <1>1, <2>2, <2>3 DEF AccountsInv, AccountsTypeInv
  <2>5. QED
    BY <2>2, <2>3, <2>4
<1>7. PICK s \in Sessions :
        /\ session'[s] = NewSession(e, 1, FALSE)
        /\ \A r \in Sessions \ {s} : session'[r] = session[r]
  BY <1>1, <1>2, SessionOpened DEF AccountsInv
<1>8. session' \in [Sessions -> SessionRecords]
  BY <1>1, <1>2, SessionOpened DEF AccountsInv
<1>9. AccountsTypeInv'
  BY <1>1, <1>3, <1>5, <1>6, <1>8 DEF AccountsInv, AccountsTypeInv
<1>10. session'[s].email = e /\ session'[s].ver = 1
  BY <1>7 DEF NewSession
<1>11. \A f \in Emails : HasPassword(f) => f # e /\ user'[f] = user[f] /\ HasPassword(f)'
  BY <1>2, <1>5 DEF HasPassword, Exists
<1>12. PasswordInv'
  <2>1. HasPassword(session[s].email)'
    BY <1>5, <1>10 DEF HasPassword, Exists
  <2>2. QED
    BY <1>3, <1>7, <1>11, <2>1, PasswordStays DEF IsSession
<1>13. SetupInv'
  <2>1. ASSUME NEW g \in Handlers, tx'[g].op = "setup"
        PROVE  /\ tx'[g] = tx[g] /\ tx[g].token \in Tokens /\ tx[g].email \in Emails
               /\ tx[g].email # e
    <3>1. tx'[g] = tx[g] /\ g # h
      BY <1>3, <2>1 DEF TxShrinks, IdleTx
    <3>2. QED
      BY <1>1, <2>1, <3>1, TxFields DEF AccountsInv, SetupInv
  <2>2. QED
    BY <1>3, <1>5, <1>6, <2>1, SetupStays DEF AccountsInv, SetupInv, Exists
<1>14. EnrollInv'
  BY <1>1, <1>3, InviteUnchanged
<1>15. SurvivorInv'
  <2>1. /\ session'[s].ver = user'[session'[s].email].pw
        /\ \A g \in Handlers : tx'[g].op = "changed" => tx[g].email # session'[s].email
    <3>1. \A g \in Handlers : tx'[g].op = "changed" => tx[g].op = "changed"
      BY <1>3 DEF TxShrinks, IdleTx
    <3>2. QED
      BY <1>2, <1>5, <1>10, <3>1 DEF AccountsInv, PasswordInv, HasPassword
  <2>2. ASSUME NEW r \in Sessions \ {s}, Prompt(r)'
        PROVE  /\ Prompt(r) /\ session'[r] = session[r]
               /\ user'[session[r].email] = user[session[r].email]
    <3>1. Prompt(r) /\ session'[r] = session[r]
      BY <1>7, <2>2 DEF Prompt
    <3>2. session[r].email \in Emails /\ HasPassword(session[r].email)
      BY <3>1, SessionFields DEF AccountsInv, PasswordInv, Prompt
    <3>3. QED
      BY <1>11, <3>1, <3>2
  <2>3. QED
    BY <1>3, <2>1, <2>2, SurvivorStays
<1>16. QED
  BY <1>9, <1>12, <1>13, <1>14, <1>15 DEF AccountsInv

LEMMA EnrollCommitKeeps ==
    ASSUME AccountsInv, NEW h \in Handlers, EnrollCommit(h) PROVE AccountsInv'
<1> DEFINE e == tx[h].email
           i == tx[h].invite
<1>1. CASE Rollback(h)
  BY <1>1, RollbackKeeps
<1>2. CASE ~Rollback(h)
  <2>1. /\ tx[h].op = "enroll" /\ ~Exists(e)
        /\ user' = [user EXCEPT ![e] = NewUser(1)]
        /\ invite' = [invite EXCEPT ![i].consumed = invite[i].consumed + 1]
        /\ OpenSession(e, 1, FALSE)
        /\ EndTx(h)
        /\ UNCHANGED token
    BY <1>2 DEF EnrollCommit
  <2>2. /\ e \in Emails /\ i \in Invites
        /\ invite[i].status = "issued" /\ invite[i].consumed = 0 /\ ~invite[i].revoked
    BY <2>1, TxFields DEF AccountsInv, EnrollInv
  <2>3. tx' \in [Handlers -> TxRecords] /\ TxShrinks /\ tx'[h].op = "idle"
    BY <2>1, TxEnded DEF AccountsInv
  <2>4. user' \in [Emails -> UserRecords] /\ UserCreated(e, 1)
    BY <2>1, <2>2, NewUserFits DEF AccountsInv, AccountsTypeInv, UserCreated
  <2>5. user'[e].pw = 1 /\ user'[e].status = "active"
    BY <2>4 DEF UserCreated, NewUser
  <2>6. invite[i] \in [status : {"issued"}, consumed : Nat, revoked : BOOLEAN, old : BOOLEAN]
    BY <2>2, InviteFields DEF AccountsInv
  <2>7. /\ invite'[i] = [invite[i] EXCEPT !.consumed = 1]
        /\ \A j \in Invites \ {i} : invite'[j] = invite[j]
    BY <2>1, <2>2 DEF AccountsInv, AccountsTypeInv
  <2>8. /\ invite'[i].status = "issued" /\ invite'[i].consumed = 1 /\ ~invite'[i].revoked
        /\ invite'[i] \in InviteRecords
    BY <2>2, <2>6, <2>7 DEF InviteRecords
  <2>9. invite' \in [Invites -> InviteRecords]
    BY <2>1, <2>7, <2>8 DEF AccountsInv, AccountsTypeInv
  <2>10. PICK s \in Sessions :
           /\ session'[s] = NewSession(e, 1, FALSE)
           /\ \A r \in Sessions \ {s} : session'[r] = session[r]
    BY <2>1, <2>2, SessionOpened DEF AccountsInv
  <2>11. session' \in [Sessions -> SessionRecords]
    BY <2>1, <2>2, SessionOpened DEF AccountsInv
  <2>12. AccountsTypeInv'
    BY <2>1, <2>3, <2>4, <2>9, <2>11 DEF AccountsInv, AccountsTypeInv
  <2>13. session'[s].email = e /\ session'[s].ver = 1
    BY <2>10 DEF NewSession
  <2>14. /\ \A f \in Emails : HasPassword(f) => HasPassword(f)'
         /\ \A f \in Emails : Exists(f) => user'[f] = user[f]
         /\ \A g \in Handlers : tx'[g].op = "setup" =>
              user'[tx[g].email].status # "absent" /\ user'[tx[g].email].pw = 0
    BY <2>2, <2>3, <2>4, AccountCreated
  <2>15. PasswordInv'
    <3>1. HasPassword(session[s].email)'
      BY <2>5, <2>13 DEF HasPassword, Exists
    <3>2. QED
      BY <2>3, <2>10, <2>14, <3>1, PasswordStays DEF IsSession
  <2>16. SetupInv'
    <3>1. \A g \in Handlers : tx'[g].op = "setup" => tx'[g] = tx[g]
      BY <2>3 DEF TxShrinks, IdleTx
    <3>2. QED
      BY <2>1, <2>3, <2>14, <3>1, SetupStays DEF AccountsInv, SetupInv
  <2>17. EnrollInv'
    <3>1. ASSUME NEW g \in Handlers, tx'[g].op = "enroll"
          PROVE  tx'[g] = tx[g] /\ tx[g].invite \in Invites \ {i}
      <4>1. tx'[g] = tx[g] /\ g # h
        BY <2>3, <3>1 DEF TxShrinks, IdleTx
      <4>2. QED
        BY <2>1, <3>1, <4>1, TxFields DEF AccountsInv, EnrollInv
    <3>2. InviteSpentOnce'
      <4>1. invite'[i].consumed + (IF invite'[i].revoked THEN 1 ELSE 0) <= 1
        BY <2>8
      <4>2. QED
        BY <2>7, <4>1 DEF AccountsInv, EnrollInv, InviteSpentOnce
    <3>3. QED
      BY <2>3, <2>7, <3>1, <3>2, EnrollStays DEF AccountsInv, EnrollInv
  <2>18. SurvivorInv'
    <3>1. /\ session'[s].ver = user'[session'[s].email].pw
          /\ \A g \in Handlers : tx'[g].op = "changed" => tx[g].email # session'[s].email
      <4>1. \A g \in Handlers : tx'[g].op = "changed" => tx[g].op = "changed"
        BY <2>3 DEF TxShrinks, IdleTx
      <4>2. QED
        BY <2>1, <2>5, <2>13, <4>1 DEF AccountsInv, PasswordInv, HasPassword
    <3>2. ASSUME NEW r \in Sessions \ {s}, Prompt(r)'
          PROVE  /\ Prompt(r) /\ session'[r] = session[r]
                 /\ user'[session[r].email] = user[session[r].email]
      <4>1. Prompt(r) /\ session'[r] = session[r]
        BY <2>10, <3>2 DEF Prompt
      <4>2. session[r].email \in Emails /\ Exists(session[r].email)
        BY <4>1, SessionFields DEF AccountsInv, PasswordInv, Prompt, HasPassword
      <4>3. QED
        BY <2>14, <4>1, <4>2
    <3>3. QED
      BY <2>3, <3>1, <3>2, SurvivorStays
  <2>19. QED
    BY <2>12, <2>15, <2>16, <2>17, <2>18 DEF AccountsInv
<1>3. QED
  BY <1>1, <1>2

LEMMA DisableUserKeeps ==
    ASSUME AccountsInv, NEW e \in Emails, DisableUser(e) PROVE AccountsInv'
<1>1. /\ UNCHANGED <<session, token, invite, tx>>
      /\ user' = [user EXCEPT ![e].status = "disabled"] /\ Exists(e)
  BY DEF DisableUser, ActiveUser, Exists
<1>2. TxShrinks
  BY <1>1 DEF TxShrinks
<1>3. user[e] \in [status : {"active", "disabled"}, pw : Nat, changer : Sessions \cup {None}]
  BY <1>1, UserFields DEF AccountsInv
<1>4. /\ user'[e] = [user[e] EXCEPT !.status = "disabled"]
      /\ \A f \in Emails \ {e} : user'[f] = user[f]
  BY <1>1 DEF AccountsInv, AccountsTypeInv
<1>5. /\ user'[e] \in UserRecords /\ user'[e].status = "disabled"
      /\ user'[e].pw = user[e].pw /\ user'[e].changer = user[e].changer
  BY <1>3, <1>4 DEF UserRecords
<1>6. AccountsTypeInv'
  BY <1>1, <1>4, <1>5 DEF AccountsInv, AccountsTypeInv
<1>7. \A f \in Emails : /\ Exists(f) => Exists(f)' /\ UNCHANGED user[f].pw
                        /\ Exists(f) => UNCHANGED user[f].changer
  BY <1>4, <1>5 DEF Exists
<1>8. PasswordInv' /\ SurvivorInv'
  BY <1>1, <1>2, <1>7, SessionsShrink DEF IsSession
<1>9. SetupInv'
  <2>1. ASSUME NEW h \in Handlers, tx'[h].op = "setup"
        PROVE  /\ tx[h].email \in Emails /\ Exists(tx[h].email) /\ user[tx[h].email].pw = 0
               /\ token[tx[h].token].status \in {"open", "consumed"}
    BY <1>1, <2>1, TxFields DEF AccountsInv, SetupInv
  <2>2. QED
    BY <1>1, <1>2, <1>7, <2>1, SetupStays DEF Exists
<1>10. EnrollInv'
  BY <1>1, <1>2, InviteUnchanged
<1>11. QED
  BY <1>6, <1>8, <1>9, <1>10 DEF AccountsInv

\* A session is revoked or grows old.
LEMMA SessionStepKeeps ==
    ASSUME AccountsInv, NEW s \in Sessions, Logout(s) \/ ValidateDisabled(s) \/ SessionAges(s)
    PROVE  AccountsInv'
<1>1. UNCHANGED <<user, token, invite, tx>> /\ session[s].status \in {"live", "revoked"}
  BY DEF Logout, ValidateDisabled, SessionAges, Live
<1>2. TxShrinks
  BY <1>1 DEF TxShrinks
<1>3. session[s] \in [status : {"live", "revoked"}, email : Emails, ver : Nat,
                      late : BOOLEAN, old : BOOLEAN]
  BY <1>1, SessionFields DEF AccountsInv
<1>4. PICK x \in {[session[s] EXCEPT !.status = "revoked"], [session[s] EXCEPT !.old = TRUE]} :
        session' = [session EXCEPT ![s] = x]
  BY DEF Logout, ValidateDisabled, SessionAges
<1>5. /\ x \in SessionRecords /\ x.email = session[s].email /\ x.ver = session[s].ver
      /\ x.late = session[s].late
      /\ x.status = "live" => session[s].status = "live"
  BY <1>3, <1>4 DEF SessionRecords
<1>6. session'[s] = x /\ \A r \in Sessions \ {s} : session'[r] = session[r]
  BY <1>4 DEF AccountsInv, AccountsTypeInv
<1>7. AccountsTypeInv'
  BY <1>1, <1>4, <1>5 DEF AccountsInv, AccountsTypeInv
<1>8. PasswordInv' /\ SurvivorInv'
  <2>1. \A r \in Sessions : IsSession(r)' =>
          /\ IsSession(r) /\ session'[r].email = session[r].email
          /\ session'[r].ver = session[r].ver /\ session'[r].late = session[r].late
          /\ session'[r].status = "live" => session[r].status = "live"
    BY <1>1, <1>5, <1>6 DEF IsSession
  <2>2. QED
    BY <1>1, <1>2, <2>1, SessionsShrink DEF Exists
<1>9. SetupInv' /\ EnrollInv'
  BY <1>1, <1>2, LinksUnchanged, InviteUnchanged
<1>10. QED
  BY <1>7, <1>8, <1>9 DEF AccountsInv

\* An invite that no request holds is issued or revoked.
LEMMA InviteStepKeeps ==
    ASSUME AccountsInv, NEW i \in Invites, CreateInvite(i) \/ RevokeInvite(i)
    PROVE  AccountsInv'
<1>1. UNCHANGED <<user, session, token, tx>>
  BY DEF CreateInvite, RevokeInvite
<1>2. TxShrinks
  BY <1>1 DEF TxShrinks
<1>3. /\ invite' \in [Invites -> InviteRecords]
      /\ \A j \in Invites \ {i} : invite'[j] = invite[j]
      /\ invite'[i].consumed + (IF invite'[i].revoked THEN 1 ELSE 0) <= 1
      /\ invite[i].status = "issued" => ~Locked(i)
  <2>1. CASE CreateInvite(i)
    <3> DEFINE x == [status |-> "issued", consumed |-> 0, revoked |-> FALSE, old |-> FALSE]
    <3>1. x \in InviteRecords /\ x.consumed = 0 /\ ~x.revoked
      BY DEF InviteRecords
    <3>2. invite' = [invite EXCEPT ![i] = x] /\ invite[i].status = "absent"
      BY <2>1 DEF CreateInvite, Absent
    <3>3. invite'[i] = x /\ \A j \in Invites \ {i} : invite'[j] = invite[j]
      BY <3>2 DEF AccountsInv, AccountsTypeInv
    <3> HIDE DEF x
    <3>4. QED
      BY <3>1, <3>2, <3>3 DEF AccountsInv, AccountsTypeInv
  <2>2. CASE RevokeInvite(i)
    <3> DEFINE x == [invite[i] EXCEPT !.revoked = TRUE]
    <3>1. invite[i] \in [status : {"issued"}, consumed : Nat, revoked : BOOLEAN, old : BOOLEAN]
      BY <2>2, InviteFields DEF RevokeInvite, AccountsInv
    <3>2. x \in InviteRecords /\ x.consumed = 0 /\ x.revoked
      BY <2>2, <3>1 DEF RevokeInvite, InviteRecords
    <3>3. invite' = [invite EXCEPT ![i] = x] /\ ~Locked(i)
      BY <2>2 DEF RevokeInvite
    <3>4. invite'[i] = x /\ \A j \in Invites \ {i} : invite'[j] = invite[j]
      BY <3>3 DEF AccountsInv, AccountsTypeInv
    <3> HIDE DEF x
    <3>5. QED
      BY <3>2, <3>3, <3>4 DEF AccountsInv, AccountsTypeInv
  <2>3. QED
    BY <2>1, <2>2
<1>4. AccountsTypeInv'
  BY <1>1, <1>3 DEF AccountsInv, AccountsTypeInv
<1>5. PasswordInv' /\ SurvivorInv'
  BY <1>1, <1>2, SessionsShrink DEF IsSession, Exists
<1>6. SetupInv'
  BY <1>1, <1>2, LinksUnchanged
<1>7. EnrollInv'
  <2>1. InviteSpentOnce'
    BY <1>3 DEF AccountsInv, EnrollInv, InviteSpentOnce
  <2>2. ASSUME NEW h \in Handlers, tx'[h].op = "enroll"
        PROVE  tx[h].invite \in Invites \ {i}
    BY <1>1, <1>3, <2>2, TxFields DEF AccountsInv, EnrollInv, Locked
  <2>3. QED
    BY <1>1, <1>2, <1>3, <2>1, <2>2, EnrollStays DEF AccountsInv, EnrollInv
<1>8. QED
  BY <1>4, <1>5, <1>6, <1>7 DEF AccountsInv

LEMMA LinkAgesKeeps == ASSUME AccountsInv, LinkAges PROVE AccountsInv'
<1>1. UNCHANGED <<user, session, tx>>
  BY DEF LinkAges
<1>2. TxShrinks
  BY <1>1 DEF TxShrinks
<1>3. PasswordInv' /\ SurvivorInv'
  BY <1>1, <1>2, SessionsShrink DEF IsSession, Exists
<1>4. ASSUME NEW t \in Tokens, token[t].status \in {"open", "consumed"},
             token' = [token EXCEPT ![t].old = TRUE], UNCHANGED invite
      PROVE  AccountsInv'
  <2>1. token[t] \in [status : {"open", "consumed"}, email : Emails, old : BOOLEAN]
    BY <1>4, TokenFields DEF AccountsInv
  <2>2. /\ token'[t] = [token[t] EXCEPT !.old = TRUE]
        /\ \A u \in Tokens \ {t} : token'[u] = token[u]
    BY <1>4 DEF AccountsInv, AccountsTypeInv
  <2>3. token'[t] \in TokenRecords /\ token'[t].status = token[t].status
    BY <2>1, <2>2 DEF TokenRecords
  <2>4. AccountsTypeInv'
    BY <1>1, <1>4, <2>2, <2>3 DEF AccountsInv, AccountsTypeInv
  <2>5. EnrollInv'
    BY <1>2, <1>4, InviteUnchanged
  <2>6. SetupInv'
    <3>1. ASSUME NEW h \in Handlers, tx'[h].op = "setup"
          PROVE  tx[h].token \in Tokens /\ token[tx[h].token].status \in {"open", "consumed"}
      BY <1>1, <3>1, TxFields DEF AccountsInv, SetupInv
    <3>2. QED
      BY <1>1, <1>2, <2>2, <2>3, <3>1, UserUnchanged, SetupStays
  <2>7. QED
    BY <1>3, <2>4, <2>5, <2>6 DEF AccountsInv
<1>5. ASSUME NEW i \in Invites, invite[i].status = "issued",
             invite' = [invite EXCEPT ![i].old = TRUE], UNCHANGED token
      PROVE  AccountsInv'
  <2>1. invite[i] \in [status : {"issued"}, consumed : Nat, revoked : BOOLEAN, old : BOOLEAN]
    BY <1>5, InviteFields DEF AccountsInv
  <2>2. /\ invite'[i] = [invite[i] EXCEPT !.old = TRUE]
        /\ \A j \in Invites \ {i} : invite'[j] = invite[j]
    BY <1>5 DEF AccountsInv, AccountsTypeInv
  <2>3. /\ invite'[i] \in InviteRecords /\ invite'[i].status = "issued"
        /\ invite'[i].consumed = invite[i].consumed /\ invite'[i].revoked = invite[i].revoked
    BY <2>1, <2>2 DEF InviteRecords
  <2>4. AccountsTypeInv'
    BY <1>1, <1>5, <2>2, <2>3 DEF AccountsInv, AccountsTypeInv
  <2>5. SetupInv'
    BY <1>1, <1>2, <1>5, LinksUnchanged
  <2>6. EnrollInv'
    <3>1. InviteSpentOnce'
      BY <1>5, <2>2, <2>3 DEF AccountsInv, EnrollInv, InviteSpentOnce
    <3>2. ASSUME NEW h \in Handlers, tx'[h].op = "enroll"
          PROVE  /\ tx[h].invite \in Invites /\ invite[tx[h].invite].status = "issued"
                 /\ invite[tx[h].invite].consumed = 0 /\ ~invite[tx[h].invite].revoked
      BY <1>1, <3>2, TxFields DEF AccountsInv, EnrollInv
    <3>3. QED
      BY <1>2, <2>2, <2>3, <3>1, <3>2, EnrollStays
  <2>7. QED
    BY <1>3, <2>4, <2>5, <2>6 DEF AccountsInv
<1>6. QED
  BY <1>4, <1>5 DEF LinkAges

\* What the sweep leaves it leaves unchanged, and the rows that transactions
\* hold it leaves.
LEMMA CleanupKeeps == ASSUME AccountsInv, Cleanup PROVE AccountsInv'
<1>1. UNCHANGED <<user, tx>>
  BY DEF Cleanup
<1>2. TxShrinks
  BY <1>1 DEF TxShrinks
<1>3. /\ session' = [s \in Sessions |-> IF session[s].status \notin {"absent", "deleted"}
                                           /\ session[s].old THEN Deleted ELSE session[s]]
      /\ token' = [t \in Tokens |-> IF token[t].status \notin {"absent", "deleted"}
                                       /\ token[t].old THEN Deleted ELSE token[t]]
      /\ invite' = [i \in Invites |-> IF invite[i].status \notin {"absent", "deleted"}
                                         /\ invite[i].old THEN Deleted ELSE invite[i]]
  <2>1. DOMAIN session = Sessions /\ DOMAIN token = Tokens /\ DOMAIN invite = Invites
    BY DEF AccountsInv, AccountsTypeInv
  <2>2. QED
    BY <2>1 DEF Cleanup, Swept
<1>4. Deleted \in SessionRecords /\ Deleted \in TokenRecords /\ Deleted \in InviteRecords
      /\ Deleted.status = "deleted"
  BY DEF SessionRecords, TokenRecords, InviteRecords, Deleted
<1>5. AccountsTypeInv'
  BY <1>1, <1>3, <1>4 DEF AccountsInv, AccountsTypeInv
<1>6. \A s \in Sessions : session'[s] = session[s] \/ session'[s] = Deleted
  BY <1>3
<1>7. PasswordInv' /\ SurvivorInv'
  BY <1>1, <1>2, <1>4, <1>6, SessionsShrink DEF IsSession, Exists
<1>8. SetupInv'
  <2>1. ASSUME NEW h \in Handlers, tx'[h].op = "setup"
        PROVE  token'[tx[h].token].status \in {"open", "consumed"}
    <3>1. /\ tx[h].token \in Tokens /\ token[tx[h].token].status \in {"open", "consumed"}
          /\ tx[h].token \in tx[h].locks
      BY <1>1, <2>1, TxFields DEF AccountsInv, SetupInv
    <3>2. ~token[tx[h].token].old
      BY <3>1 DEF Cleanup
    <3>3. QED
      BY <1>3, <3>1, <3>2
  <2>2. QED
    BY <1>1, <1>2, <2>1, UserUnchanged, SetupStays
<1>9. EnrollInv'
  <2>1. InviteSpentOnce'
    <3>1. \A i \in Invites : invite'[i].status = "issued" => invite'[i] = invite[i]
      BY <1>3, <1>4
    <3>2. QED
      BY <3>1 DEF AccountsInv, EnrollInv, InviteSpentOnce
  <2>2. ASSUME NEW h \in Handlers, tx'[h].op = "enroll"
        PROVE  /\ invite'[tx[h].invite].status = "issued"
               /\ invite'[tx[h].invite].consumed = 0 /\ ~invite'[tx[h].invite].revoked
    <3>1. /\ tx[h].invite \in Invites /\ invite[tx[h].invite].status = "issued"
          /\ invite[tx[h].invite].consumed = 0 /\ ~invite[tx[h].invite].revoked
          /\ tx[h].invite \in tx[h].locks
      BY <1>1, <2>2, TxFields DEF AccountsInv, EnrollInv
    <3>2. ~invite[tx[h].invite].old
      BY <3>1 DEF Cleanup
    <3>3. invite'[tx[h].invite] = invite[tx[h].invite]
      BY <1>3, <3>1, <3>2
    <3>4. QED
      BY <3>1, <3>3
  <2>3. QED
    BY <1>2, <2>1, <2>2, EnrollStays
<1>10. QED
  BY <1>5, <1>7, <1>8, <1>9 DEF AccountsInv

-----------------------------------------------------------------------------
(* Every step.                                                             *)

LEMMA AccountsNextKeeps == ASSUME AccountsInv, [AccountsNext]_accountVars PROVE AccountsInv'
<1>1. ASSUME NEW h \in Handlers, Beginning(h) PROVE AccountsInv'
  BY <1>1, BeginningKeeps
<1>2. ASSUME NEW h \in Handlers,
             LoginCommit(h) \/ ChangeCommit(h) \/ SetupCommit(h) \/ EnrollCommit(h)
      PROVE  AccountsInv'
  BY <1>2, LoginCommitKeeps, ChangeCommitKeeps, SetupCommitKeeps, EnrollCommitKeeps
<1>3. ASSUME NEW h \in Handlers, NEW role \in {"member", "admin"}, ProvisionCommit(h, role)
      PROVE  AccountsInv'
  BY <1>3, ProvisionCommitKeeps
<1>4. ASSUME NEW e \in Emails, NEW slug \in Slugs, Bootstrap(e, slug) PROVE AccountsInv'
  BY <1>4, BootstrapKeeps
<1>5. ASSUME NEW e \in Emails, DisableUser(e) PROVE AccountsInv'
  BY <1>5, DisableUserKeeps
<1>6. ASSUME NEW s \in Sessions, Logout(s) \/ ValidateDisabled(s) \/ SessionAges(s)
      PROVE  AccountsInv'
  BY <1>6, SessionStepKeeps
<1>7. ASSUME NEW i \in Invites, CreateInvite(i) \/ RevokeInvite(i) PROVE AccountsInv'
  BY <1>7, InviteStepKeeps
<1>8. CASE LinkAges \/ Cleanup
  BY <1>8, LinkAgesKeeps, CleanupKeeps
<1>9. CASE UNCHANGED accountVars
  <2>1. UNCHANGED <<user, session, token, invite, tx>>
    BY <1>9 DEF accountVars
  <2>2. TxShrinks
    BY <2>1 DEF TxShrinks
  <2>3. AccountsTypeInv'
    BY <2>1 DEF AccountsInv, AccountsTypeInv
  <2>4. PasswordInv' /\ SurvivorInv'
    BY <2>1, <2>2, SessionsShrink DEF Exists, IsSession
  <2>5. SetupInv' /\ EnrollInv'
    BY <2>1, <2>2, LinksUnchanged, InviteUnchanged
  <2>6. QED
    BY <2>3, <2>4, <2>5 DEF AccountsInv
<1>10. QED
  BY <1>1, <1>2, <1>3, <1>4, <1>5, <1>6, <1>7, <1>8, <1>9 DEF AccountsNext, Beginning

LEMMA AccountsInvariance == AccountsSpec => []AccountsInv
<1>1. QED
  BY AccountsInitHolds, AccountsNextKeeps, PTL DEF AccountsSpec

\* Whatever logins and password changes overlap, a live session for an older
\* password is that of the last change, or of a login that was under way then
\* (change_password, revoke_other_sessions).
THEOREM OnlyChangerTheorem == AccountsSpec => []OnlyChangerSurvives
<1>1. AccountsInv => OnlyChangerSurvives
  BY DEF AccountsInv, SurvivorInv, OnlyChangerSurvives, Live, Prompt
<1>2. QED
  BY <1>1, AccountsInvariance, PTL

\* However enrollments, revocations and the sweep interleave, an invite is spent
\* once (consume_founder_invite).
THEOREM InviteSpentOnceTheorem == AccountsSpec => []InviteSpentOnce
<1>1. AccountsInv => InviteSpentOnce
  BY DEF AccountsInv, EnrollInv
<1>2. QED
  BY <1>1, AccountsInvariance, PTL

\* The passwords of existing accounts are those of change_password: a setup link
\* (complete_account_setup_token), an enrollment or an invitation that races one
\* never replaces it.
THEOREM LinkNeverReplacesTheorem == AccountsSpec => LinkNeverReplaces
<1> DEFINE Step == \A e \in Emails :
             Exists(e) /\ user[e].pw > 0 /\ user'[e].pw # user[e].pw => Changing(e)
<1>1. ASSUME AccountsInv, [AccountsNext]_accountVars PROVE [Step]_accountVars
  <2> SUFFICES ASSUME NEW e \in Emails, Exists(e), user[e].pw > 0, user'[e].pw # user[e].pw
               PROVE  Changing(e)
    OBVIOUS
  <2>1. \/ \E h \in Handlers : \/ ChangeCommit(h) \/ SetupCommit(h) \/ EnrollCommit(h)
                               \/ \E role \in {"member", "admin"} : ProvisionCommit(h, role)
        \/ \E slug \in Slugs, f \in Emails : Bootstrap(f, slug)
        \/ \E f \in Emails : DisableUser(f)
    <3>1. ASSUME NEW h \in Handlers, Beginning(h) \/ LoginCommit(h) PROVE UNCHANGED user
      BY <1>1, <3>1, BeginningIs DEF LoginCommit
    <3>2. ASSUME NEW s \in Sessions, Logout(s) \/ ValidateDisabled(s) \/ SessionAges(s)
          PROVE  UNCHANGED user
      BY <3>2 DEF Logout, ValidateDisabled, SessionAges
    <3>3. ASSUME NEW i \in Invites, CreateInvite(i) \/ RevokeInvite(i) PROVE UNCHANGED user
      BY <3>3 DEF CreateInvite, RevokeInvite
    <3>4. ASSUME LinkAges \/ Cleanup \/ UNCHANGED accountVars PROVE UNCHANGED user
      BY <3>4 DEF LinkAges, Cleanup, accountVars
    <3>5. ~UNCHANGED user
      OBVIOUS
    <3>6. AccountsNext
      BY <1>1, <3>4, <3>5
    <3>7. QED
      BY <3>1, <3>2, <3>3, <3>4, <3>5, <3>6 DEF AccountsNext, Beginning
  <2>2. user \in [Emails -> UserRecords] /\ AccountsTypeInv
    BY <1>1 DEF AccountsInv, AccountsTypeInv
  <2>3. ASSUME NEW h \in Handlers, ChangeCommit(h) PROVE Changing(e)
    <3>1. tx[h].email = e
      BY <2>2, <2>3 DEF ChangeCommit
    <3>2. QED
      BY <2>3, <3>1 DEF ChangeCommit, Changing
  <2>4. ASSUME NEW h \in Handlers, SetupCommit(h) PROVE FALSE
    <3>1. tx[h].email = e
      BY <2>2, <2>4 DEF SetupCommit
    <3>2. QED
      BY <1>1, <2>4, <3>1 DEF SetupCommit, AccountsInv, SetupInv
  <2>5. ASSUME NEW h \in Handlers, EnrollCommit(h) PROVE FALSE
    BY <2>2, <2>5 DEF EnrollCommit, Rollback
  <2>6. ASSUME NEW h \in Handlers, NEW role, ProvisionCommit(h, role) PROVE FALSE
    BY <2>2, <2>6 DEF ProvisionCommit, Rollback
  <2>7. ASSUME NEW slug, NEW f \in Emails, Bootstrap(f, slug) PROVE FALSE
    BY <2>2, <2>7 DEF Bootstrap
  <2>8. ASSUME NEW f \in Emails, DisableUser(f) PROVE FALSE
    <3>1. f = e
      BY <2>2, <2>8 DEF DisableUser
    <3>2. user[e] \in [status : {"active", "disabled"}, pw : Nat, changer : Sessions \cup {None}]
      BY <2>2, UserFields
    <3>3. user'[e] = [user[e] EXCEPT !.status = "disabled"]
      BY <2>2, <2>8, <3>1 DEF DisableUser
    <3>4. QED
      BY <3>2, <3>3
  <2>9. QED
    BY <2>1, <2>3, <2>4, <2>5, <2>6, <2>7, <2>8
<1>2. QED
  BY <1>1, AccountsInvariance, PTL DEF AccountsSpec, LinkNeverReplaces

-----------------------------------------------------------------------------
(* The login gate.                                                         *)

\* The counter never falls behind the leases, unless the Redis key expired.
GateInv ==
    /\ backend \in {"process", "redis"}
    /\ lapsed \in BOOLEAN
    /\ inFlight \in Nat
    /\ inFlight <= MaxConcurrent
    /\ request = [r \in Requests |-> request[r]]
    /\ IsFiniteSet(Holding)
    /\ backend = "process" \/ ~lapsed => Cardinality(Holding) <= inFlight

LEMMA GateInitHolds == GateInit => GateInv
<1> SUFFICES ASSUME GateInit PROVE GateInv
  OBVIOUS
<1>1. Holding = {}
  BY DEF GateInit, Holding, Idle
<1>2. IsFiniteSet(Holding) /\ Cardinality(Holding) = 0
  BY <1>1, FS_EmptySet
<1>3. inFlight = 0 /\ MaxConcurrent \in Nat
  BY GateAssumption DEF GateInit
<1>4. backend \in {"process", "redis"} /\ lapsed \in BOOLEAN
  BY DEF GateInit
<1>5. request = [r \in Requests |-> request[r]]
  BY DEF GateInit
<1>6. QED
  BY <1>2, <1>3, <1>4, <1>5 DEF GateInv

\* Work under a lease goes on.
LEMMA GateWorkKeeps ==
    ASSUME GateInv, NEW r \in Requests, NEW x, request[r].pc # "idle", x.pc # "idle",
           request' = [request EXCEPT ![r] = x], UNCHANGED <<backend, inFlight, lapsed>>
    PROVE  GateInv'
<1>1. request' = [q \in Requests |-> IF q = r THEN x ELSE request[q]]
  BY DEF GateInv
<1>2. Holding' = Holding
  BY <1>1 DEF Holding
<1>3. request' = [q \in Requests |-> request'[q]]
  BY <1>1
<1>4. QED
  BY <1>2, <1>3 DEF GateInv

LEMMA GateAcquireKeeps ==
    ASSUME GateInv, NEW r \in Requests, NEW x, request[r] = Idle, x.pc # "idle",
           request' = [request EXCEPT ![r] = x], UNCHANGED <<backend, lapsed>>,
           inFlight < MaxConcurrent, inFlight' = inFlight + 1
    PROVE  GateInv'
<1>1. request' = [q \in Requests |-> IF q = r THEN x ELSE request[q]]
  BY DEF GateInv
<1>2. Holding' = Holding \cup {r} /\ r \notin Holding
  BY <1>1 DEF Holding, Idle
<1>3. IsFiniteSet(Holding') /\ Cardinality(Holding') = Cardinality(Holding) + 1
  BY <1>2, FS_AddElement DEF GateInv
<1>4. Cardinality(Holding) \in Nat
  BY FS_CardinalityType DEF GateInv
<1>5. inFlight' \in Nat /\ inFlight' <= MaxConcurrent
  BY GateAssumption DEF GateInv
<1>6. backend' = "process" \/ ~lapsed' => Cardinality(Holding') <= inFlight'
  BY <1>3, <1>4 DEF GateInv
<1>7. request' = [q \in Requests |-> request'[q]]
  BY <1>1
<1>8. QED
  BY <1>3, <1>5, <1>6, <1>7 DEF GateInv

LEMMA GateReleaseKeeps ==
    ASSUME GateInv, NEW r \in Requests, request[r].pc = "done",
           request' = [request EXCEPT ![r] = Idle], UNCHANGED <<backend, lapsed>>,
           inFlight' = inFlight \/ inFlight' = IF inFlight = 0 THEN 0 ELSE inFlight - 1
    PROVE  GateInv'
<1>1. request' = [q \in Requests |-> IF q = r THEN Idle ELSE request[q]]
  BY DEF GateInv
<1>2. Holding' = Holding \ {r} /\ r \in Holding
  BY <1>1 DEF Holding, Idle
<1>3. IsFiniteSet(Holding') /\ Cardinality(Holding') = Cardinality(Holding) - 1
  BY <1>2, FS_RemoveElement DEF GateInv
<1>4. Cardinality(Holding) \in Nat /\ Cardinality(Holding') \in Nat
  BY <1>3, FS_CardinalityType DEF GateInv
<1>5. inFlight' \in Nat /\ inFlight' <= MaxConcurrent
  BY GateAssumption DEF GateInv
<1>6. backend' = "process" \/ ~lapsed' => Cardinality(Holding') <= inFlight'
  BY <1>3, <1>4 DEF GateInv
<1>7. request' = [q \in Requests |-> request'[q]]
  BY <1>1
<1>8. QED
  BY <1>3, <1>5, <1>6, <1>7 DEF GateInv

LEMMA GateNextKeeps == ASSUME GateInv, [GateNext]_gateVars PROVE GateInv'
<1>1. ASSUME NEW r \in Requests, NEW c \in Clients, NEW kind, NEW e, Acquire(r, c, kind, e)
      PROVE  GateInv'
  <2> DEFINE x == [pc |-> "admitted", kind |-> kind, email |-> e]
  <2>1. /\ request[r] = Idle /\ request' = [request EXCEPT ![r] = x]
        /\ UNCHANGED <<backend, lapsed>>
        /\ inFlight < MaxConcurrent /\ inFlight' = inFlight + 1
    BY <1>1 DEF Acquire, ProcessAdmits, RedisAdmits, RunAcquireScript
  <2>2. x.pc # "idle"
    OBVIOUS
  <2> HIDE DEF x
  <2>3. QED
    BY <2>1, <2>2, GateAcquireKeeps
<1>2. ASSUME NEW c \in Clients, AcquireAnswerLost(c) PROVE GateInv'
  <2>1. /\ inFlight < MaxConcurrent /\ inFlight' = inFlight + 1
        /\ UNCHANGED <<backend, lapsed, request>>
    BY <1>2 DEF AcquireAnswerLost, RedisAdmits, RunAcquireScript
  <2>2. Holding' = Holding
    BY <2>1 DEF Holding
  <2>3. Cardinality(Holding) \in Nat
    BY FS_CardinalityType DEF GateInv
  <2>4. QED
    BY <2>1, <2>2, <2>3, GateAssumption DEF GateInv
<1>3. ASSUME NEW r \in Requests, ReadLock(r) \/ LoginFails(r) \/ LoginSucceeds(r) \/ OtherWork(r)
      PROVE  GateInv'
  <2>1. UNCHANGED <<backend, inFlight, lapsed>> /\ request[r].pc # "idle"
    BY <1>3 DEF ReadLock, LoginFails, LoginSucceeds, OtherWork
  <2>2. \E x : x.pc # "idle" /\ request' = [request EXCEPT ![r] = x]
    <3>1. CASE ReadLock(r)
      <4> DEFINE x == [pc |-> "verified", kind |-> "login", email |-> request[r].email,
                       locked |-> attempt[request[r].email].lock > 0]
      <4>1. request' = [request EXCEPT ![r] = x] /\ x.pc # "idle"
        BY <3>1 DEF ReadLock
      <4>2. QED
        BY <4>1
    <3>2. CASE LoginFails(r) \/ LoginSucceeds(r) \/ OtherWork(r)
      <4>1. request' = [request EXCEPT ![r] = [pc |-> "done"]]
        BY <3>2 DEF LoginFails, LoginSucceeds, OtherWork, EndWork
      <4>2. [pc |-> "done"].pc # "idle"
        OBVIOUS
      <4>3. QED
        BY <4>1, <4>2
    <3>3. QED
      BY <1>3, <3>1, <3>2
  <2>3. QED
    BY <2>1, <2>2, GateWorkKeeps
<1>4. ASSUME NEW r \in Requests, Release(r) \/ ReleaseFails(r) PROVE GateInv'
  <2>1. /\ request[r].pc = "done" /\ request' = [request EXCEPT ![r] = Idle]
        /\ UNCHANGED <<backend, lapsed>>
    BY <1>4 DEF Release, ReleaseFails
  <2>2. inFlight' = inFlight \/ inFlight' = IF inFlight = 0 THEN 0 ELSE inFlight - 1
    BY <1>4 DEF Release, ReleaseFails, RunReleaseScript, GateInv
  <2>3. QED
    BY <2>1, <2>2, GateReleaseKeeps
<1>5. CASE Crash
  <2>1. /\ request' = [r \in Requests |-> Idle] /\ UNCHANGED <<backend, lapsed>>
        /\ inFlight' = inFlight \/ inFlight' = 0
    BY <1>5 DEF Crash
  <2>2. Holding' = {}
    BY <2>1 DEF Holding, Idle
  <2>3. QED
    BY <2>1, <2>2, FS_EmptySet, GateAssumption DEF GateInv
<1>6. CASE Tick
  <2>1. UNCHANGED <<backend, request>>
    BY <1>6 DEF Tick
  <2>2. Holding' = Holding
    BY <2>1 DEF Holding
  <2>3. CASE UNCHANGED <<inFlight, lapsed>>
    BY <2>1, <2>2, <2>3 DEF GateInv
  <2>4. CASE backend = "redis" /\ inFlight' = 0 /\ lapsed' = (lapsed \/ Holding # {})
    <3>1. backend' # "process"
      BY <2>1, <2>4
    <3>2. ~lapsed' => Cardinality(Holding') <= inFlight'
      <4>1. ASSUME ~lapsed' PROVE Holding = {}
        BY <2>4, <4>1
      <4>2. QED
        BY <2>2, <2>4, <4>1, FS_EmptySet
    <3>3. lapsed' \in BOOLEAN
      BY <2>4
    <3>4. QED
      BY <2>1, <2>2, <2>4, <3>1, <3>2, <3>3, GateAssumption DEF GateInv
  <2>5. QED
    BY <1>6, <2>3, <2>4 DEF Tick
<1>7. CASE UNCHANGED gateVars
  <2>1. UNCHANGED <<backend, inFlight, request, lapsed>>
    BY <1>7 DEF gateVars
  <2>2. Holding' = Holding
    BY <2>1 DEF Holding
  <2>3. QED
    BY <2>1, <2>2 DEF GateInv
<1>8. QED
  BY <1>1, <1>2, <1>3, <1>4, <1>5, <1>6, <1>7 DEF GateNext

\* The bound on concurrent password checks (login_rate_limit_service), for every
\* number of requests, clients and limits: lost answers, failed releases and
\* crashes only ever leave the counter above the leases that are held.
THEOREM ConcurrentWorkTheorem == GateSpec => []ConcurrentWorkBounded
<1>1. GateInv => ConcurrentWorkBounded
  <2> SUFFICES ASSUME GateInv, backend = "process" \/ ~lapsed
               PROVE  Cardinality(Holding) <= MaxConcurrent
    BY DEF ConcurrentWorkBounded
  <2>1. Cardinality(Holding) \in Nat
    BY FS_CardinalityType DEF GateInv
  <2>2. QED
    BY <2>1, GateAssumption DEF GateInv
<1>2. QED
  BY <1>1, GateInitHolds, GateNextKeeps, PTL DEF GateSpec

-----------------------------------------------------------------------------
(* The operator commands.                                                  *)

SomePid == Pids \cup {NoPid}

RuntimeStates ==
    [sup : Pids, supSig : Nat, back : Pids, backSig : Nat, front : SomePid, frontSig : Nat]

RuntimeRecords == RuntimeStates \cup {NoRecord, Invalid}

Revisions == {"none", "empty", "old", "head"}
Snapshots == Revisions \X Nat
Dumps == [rev : Revisions, rows : Nat, ver : Nat]

Steps ==
    BackupSteps \cup
    {"new", "done", "record", "stopping", "reconcile", "ports", "bports", "database", "precheck",
     "migrate", "spawn", "serving", "write1", "wait1", "write2", "wait2", "up", "closing", "release"}

CommandRecords ==
    [op : {"none", "run", "backend", "stop", "backup"}, pc : Steps, pid : SomePid, back : SomePid,
     front : SomePid, seen : RuntimeRecords, scan : Nat, dump : Dumps, snap : Snapshots]

RuntimeTypeInv ==
    /\ proc \in [Pids -> {"none", "backend", "frontend", "stranger"}]
    /\ sig \in [Pids -> Nat]
    /\ record \in RuntimeRecords
    /\ cmd \in [Commands -> CommandRecords]
    /\ db \in Dumps
    /\ raw \in Nat

\* A pid that was recorded with signature s has had no stranger with that signature.
Recorded(p, s) == s <= sig[p] /\ (s = sig[p] => proc[p] # "stranger")

RecordInv(r) ==
    IsState(r) => /\ Recorded(r.sup, r.supSig)
                  /\ Recorded(r.back, r.backSig)
                  /\ r.front # NoPid => Recorded(r.front, r.frontSig)

\* What a command that is under way knows of its own processes: their pids are
\* not free, so nobody else has them.
CommandInv(c) ==
    /\ RecordInv(cmd[c].seen)
    /\ cmd[c].pc \notin Ended /\ cmd[c].op = "run" => cmd[c].pid # NoPid
    /\ cmd[c].pc \notin Ended /\ cmd[c].pid # NoPid => proc[cmd[c].pid] = "none"
    /\ \A p \in {cmd[c].back, cmd[c].front} \ {NoPid} :
          cmd[c].pc \notin Reaped => proc[p] # "stranger"
    /\ cmd[c].pc \in {"write1", "wait1", "write2"} => cmd[c].op = "run" /\ cmd[c].back # NoPid
    /\ cmd[c].pc = "stopping" => IsState(cmd[c].seen)

OwnInv ==
    /\ RuntimeTypeInv
    /\ ~strayHit
    /\ RecordInv(record)
    /\ \A c \in Commands : CommandInv(c)

\* A dump was taken from the database when the raw storage held between what was
\* scanned first and what it holds now.
DumpMoment(c) ==
    \E x \in Nat :
        /\ cmd[c].scan <= x /\ x <= raw
        /\ [rev |-> cmd[c].dump.rev, rows |-> cmd[c].dump.rows, ver |-> cmd[c].dump.ver,
            raw |-> x] \in moments

Dumped == BackupSteps \ {"dump"}

\* Some bundle holds what the database holds.
Backed == \E b \in bundles : b.rev = "old" /\ b.ver = db.ver /\ b.rows = db.rows

\* What a command that backs up, or is about to migrate, can rely on.
PreparedInv(c) ==
    /\ cmd[c].pc \in BackupSteps => cmd[c].scan <= raw
    /\ cmd[c].pc \in Dumped => DumpMoment(c)
    /\ cmd[c].pc \in Dumped /\ db.rev = "old" => cmd[c].dump = db
    /\ cmd[c].pc = "migrate" /\ db.rev = "old" => Backed

BackupInv ==
    /\ RuntimeTypeInv
    /\ Content \in moments
    /\ bundles \subseteq moments
    /\ \A c \in Commands : PreparedInv(c)

LEMMA FreshIs ==
    /\ Fresh \in CommandRecords
    /\ Fresh.pc = "new" /\ Fresh.seen = NoRecord /\ Fresh.pid = NoPid
    /\ Fresh.back = NoPid /\ Fresh.front = NoPid
<1>1. NoRecord \in RuntimeRecords /\ NoPid \in SomePid
  BY DEF RuntimeRecords, SomePid
<1>2. NoDump \in Dumps
  BY DEF NoDump, Dumps, Revisions
<1>3. <<"none", 0>> \in Snapshots
  BY DEF Revisions, Snapshots
<1> DEFINE noSnap == <<"none", 0>>
<1>4. noSnap \in Snapshots
  BY <1>3
<1>5. Fresh = [op |-> "none", pc |-> "new", pid |-> NoPid, back |-> NoPid, front |-> NoPid,
               seen |-> NoRecord, scan |-> 0, dump |-> NoDump, snap |-> noSnap]
  BY DEF Fresh
<1> HIDE DEF noSnap
<1>6. Fresh \in CommandRecords
  BY <1>1, <1>2, <1>4, <1>5 DEF CommandRecords, Steps
<1>7. QED
  BY <1>5, <1>6

LEMMA RuntimeInitHolds == Init => OwnInv /\ BackupInv
<1> SUFFICES ASSUME Init PROVE OwnInv /\ BackupInv
  OBVIOUS
<1>1. Fresh \in CommandRecords
  BY FreshIs
<1>2. RuntimeTypeInv
  BY <1>1 DEF Init, RuntimeTypeInv, RuntimeRecords, Dumps, Revisions
<1>3. ~IsState(record)
  BY DEF Init, IsState
<1>4. ASSUME NEW c \in Commands PROVE cmd[c].pc = "new" /\ CommandInv(c)
  <2>1. cmd[c] = Fresh
    BY DEF Init
  <2>2. QED
    BY <2>1, FreshIs DEF CommandInv, RecordInv, IsState, Ended, Reaped
<1>5. OwnInv
  BY <1>2, <1>3, <1>4 DEF OwnInv, RecordInv, Init
<1>6. BackupInv
  BY <1>2, <1>4 DEF BackupInv, PreparedInv, Init, BackupSteps, Dumped
<1>7. QED
  BY <1>5, <1>6

-----------------------------------------------------------------------------
(* How commands go on.                                                     *)

Finished == [Fresh EXCEPT !.pc = "done"]

Recording == {"write1", "wait1", "write2"}

\* What a step that starts no process does to a command.
Follows(c) ==
    \/ cmd'[c] = cmd[c]
    \/ cmd'[c] = Finished
    \/ /\ cmd[c].pc \notin Reaped
       /\ cmd'[c].op = cmd[c].op /\ cmd'[c].pid = cmd[c].pid
       /\ cmd'[c].back = cmd[c].back /\ cmd'[c].front = cmd[c].front
       /\ cmd'[c].seen = cmd[c].seen \/ cmd'[c].seen = record
       /\ cmd'[c].pc \in Recording => cmd[c].pc \in Recording
       /\ cmd'[c].pc = "stopping" => IsState(cmd'[c].seen)

LEMMA FinishedIs ==
    /\ Finished \in CommandRecords
    /\ Finished.pc = "done" /\ Finished.pid = NoPid /\ Finished.back = NoPid
    /\ Finished.front = NoPid /\ Finished.seen = NoRecord
<1>1. Fresh \in CommandRecords
  BY FreshIs
<1>2. ASSUME NEW f \in CommandRecords, NEW x, x = [f EXCEPT !.pc = "done"]
      PROVE  /\ x \in CommandRecords /\ x.pc = "done"
             /\ x.pid = f.pid /\ x.back = f.back /\ x.front = f.front /\ x.seen = f.seen
  BY <1>2 DEF CommandRecords, Steps
<1>3. Finished = [Fresh EXCEPT !.pc = "done"]
  BY DEF Finished
<1>4. QED
  BY <1>1, <1>2, <1>3, FreshIs

LEMMA FinishFollows ==
    ASSUME RuntimeTypeInv, NEW c \in Commands, Finish(c)
    PROVE  /\ cmd' \in [Commands -> CommandRecords]
           /\ cmd'[c] = Finished
           /\ \A d \in Commands \ {c} : cmd'[d] = cmd[d]
           /\ \A d \in Commands : Follows(d)
<1>1. cmd' = [cmd EXCEPT ![c] = Finished]
  BY DEF Finish, Finished
<1>2. cmd' \in [Commands -> CommandRecords] /\ cmd'[c] = Finished
      /\ \A d \in Commands \ {c} : cmd'[d] = cmd[d]
  BY <1>1, FinishedIs DEF RuntimeTypeInv
<1>3. QED
  BY <1>2 DEF Follows

\* One command writes its own record.
LEMMA CommandWritten ==
    ASSUME RuntimeTypeInv, NEW c \in Commands, NEW x \in CommandRecords,
           cmd' = [cmd EXCEPT ![c] = x]
    PROVE  /\ cmd' \in [Commands -> CommandRecords]
           /\ cmd'[c] = x
           /\ \A d \in Commands \ {c} : cmd'[d] = cmd[d]
BY DEF RuntimeTypeInv

LEMMA GoIs ==
    ASSUME RuntimeTypeInv, NEW c \in Commands, NEW pc \in Steps, Go(c, pc)
    PROVE  /\ cmd' \in [Commands -> CommandRecords]
           /\ \A d \in Commands \ {c} : cmd'[d] = cmd[d]
           /\ cmd'[c].pc = pc
           /\ cmd'[c].op = cmd[c].op /\ cmd'[c].pid = cmd[c].pid
           /\ cmd'[c].back = cmd[c].back /\ cmd'[c].front = cmd[c].front
           /\ cmd'[c].seen = cmd[c].seen /\ cmd'[c].scan = cmd[c].scan
           /\ cmd'[c].dump = cmd[c].dump
<1> DEFINE x == [cmd[c] EXCEPT !.pc = pc]
<1>1. cmd[c] \in CommandRecords
  BY DEF RuntimeTypeInv
<1>2. /\ x \in CommandRecords /\ x.pc = pc /\ x.op = cmd[c].op /\ x.pid = cmd[c].pid
      /\ x.back = cmd[c].back /\ x.front = cmd[c].front /\ x.seen = cmd[c].seen
      /\ x.scan = cmd[c].scan /\ x.dump = cmd[c].dump
  BY <1>1 DEF CommandRecords
<1>3. cmd' = [cmd EXCEPT ![c] = x]
  BY DEF Go
<1> HIDE DEF x
<1>4. QED
  BY <1>2, <1>3, CommandWritten

LEMMA GoFollows ==
    ASSUME RuntimeTypeInv, NEW c \in Commands, NEW pc \in Steps, Go(c, pc),
           cmd[c].pc \notin Reaped, pc \in Recording => cmd[c].pc \in Recording, pc # "stopping"
    PROVE  \A d \in Commands : Follows(d)
BY GoIs DEF Follows

-----------------------------------------------------------------------------
(* No process of somebody else is signalled.                               *)

\* No process starts.
Quiet ==
    /\ \A p \in Pids : proc'[p] = proc[p] \/ proc'[p] = "none"
    /\ UNCHANGED sig
    /\ ~strayHit'

LEMMA QuietRecord ==
    ASSUME RuntimeTypeInv, Quiet, NEW r \in RuntimeRecords, RecordInv(r)
    PROVE  IsState(r) => /\ Recorded(r.sup, r.supSig)'
                         /\ Recorded(r.back, r.backSig)'
                         /\ r.front # NoPid => Recorded(r.front, r.frontSig)'
<1> SUFFICES ASSUME IsState(r)
             PROVE  /\ Recorded(r.sup, r.supSig)'
                    /\ Recorded(r.back, r.backSig)'
                    /\ r.front # NoPid => Recorded(r.front, r.frontSig)'
  OBVIOUS
<1>1. r \in RuntimeStates
  BY DEF RuntimeRecords, IsState
<1>2. r.sup \in Pids /\ r.back \in Pids /\ r.front \in SomePid
  BY <1>1 DEF RuntimeStates
<1>3. \A k : \A p \in Pids : Recorded(p, k) => Recorded(p, k)'
  BY DEF Quiet, Recorded
<1>4. QED
  BY <1>2, <1>3 DEF RecordInv, SomePid

LEMMA QuietKeeps ==
    ASSUME OwnInv, RuntimeTypeInv', Quiet, record' \in {record, NoRecord} \/ RecordInv(record)',
           \A c \in Commands : Follows(c)
    PROVE  OwnInv'
<1>1. RuntimeTypeInv
  BY DEF OwnInv
<1>2. RecordInv(record)'
  <2>1. CASE record' = NoRecord
    BY <2>1 DEF RecordInv, IsState
  <2>2. CASE record' = record
    BY <1>1, <2>2, QuietRecord DEF OwnInv, RecordInv, RuntimeTypeInv
  <2>3. QED
    BY <2>1, <2>2
<1>3. ASSUME NEW c \in Commands PROVE CommandInv(c)'
  <2>1. CommandInv(c) /\ cmd[c] \in CommandRecords /\ Follows(c)
    BY <1>1 DEF OwnInv, RuntimeTypeInv
  <2>2. CASE cmd'[c] = Finished
    BY <2>2, FinishedIs DEF CommandInv, RecordInv, IsState, Ended, Reaped
  <2>3. CASE cmd'[c] # Finished
    <3>1. /\ cmd'[c].op = cmd[c].op /\ cmd'[c].pid = cmd[c].pid
          /\ cmd'[c].back = cmd[c].back /\ cmd'[c].front = cmd[c].front
          /\ cmd'[c].seen = cmd[c].seen \/ cmd'[c].seen = record
          /\ cmd'[c].pc \in Recording => cmd[c].pc \in Recording
          /\ cmd'[c].pc = "stopping" => IsState(cmd'[c].seen)
          /\ cmd'[c].pc \notin Reaped => cmd[c].pc \notin Reaped
          /\ cmd'[c].pc \notin Ended => cmd[c].pc \notin Ended
      BY <2>1, <2>3 DEF Follows, CommandInv, Reaped
    <3>2. RecordInv(cmd[c].seen)'
      BY <1>1, <2>1, <3>1, QuietRecord DEF OwnInv, RecordInv, CommandInv, RuntimeTypeInv,
                                          CommandRecords
    <3>3. \A p \in Pids : /\ proc[p] = "none" => proc'[p] = "none"
                          /\ proc[p] # "stranger" => proc'[p] # "stranger"
      BY DEF Quiet
    <3>4. {cmd[c].pid, cmd[c].back, cmd[c].front} \subseteq Pids \cup {NoPid}
      BY <2>1 DEF CommandRecords, SomePid
    <3>5. QED
      BY <2>1, <3>1, <3>2, <3>3, <3>4 DEF CommandInv, Recording
  <2>4. QED
    BY <2>2, <2>3
<1>4. QED
  BY <1>2, <1>3 DEF OwnInv, Quiet

\* A step that only moves one command on, or ends it.
LEMMA PlainKeeps ==
    ASSUME OwnInv, NEW c \in Commands, UNCHANGED <<table, strayHit>>,
           record' \in {record, NoRecord}, db' \in Dumps, raw' \in Nat,
           \/ Finish(c)
           \/ /\ cmd[c].pc \notin Reaped
              /\ \E pc \in Steps \ (Recording \cup {"stopping"}) : Go(c, pc)
    PROVE  OwnInv'
<1>1. RuntimeTypeInv
  BY DEF OwnInv
<1>2. cmd' \in [Commands -> CommandRecords] /\ \A d \in Commands : Follows(d)
  <2>1. CASE Finish(c)
    BY <1>1, <2>1, FinishFollows
  <2>2. ASSUME cmd[c].pc \notin Reaped, NEW pc \in Steps \ (Recording \cup {"stopping"}), Go(c, pc)
        PROVE  cmd' \in [Commands -> CommandRecords] /\ \A d \in Commands : Follows(d)
    BY <1>1, <2>2, GoIs, GoFollows
  <2>3. QED
    BY <2>1, <2>2
<1>3. RuntimeTypeInv'
  BY <1>1, <1>2 DEF RuntimeTypeInv, RuntimeRecords, table
<1>4. Quiet
  BY <1>1 DEF Quiet, OwnInv, table
<1>5. QED
  BY <1>2, <1>3, <1>4, QuietKeeps

\* A backup step that notes what it read.
LEMMA NotedKeeps ==
    ASSUME OwnInv, NEW c \in Commands, UNCHANGED <<table, strayHit, record, store>>,
           BackupPorts(c) \/ PgDump(c) \/ SourceSnapshot(c)
    PROVE  OwnInv'
<1>1. RuntimeTypeInv /\ cmd[c] \in CommandRecords
  BY DEF OwnInv, RuntimeTypeInv
<1>2. PICK x \in CommandRecords :
        /\ cmd' = [cmd EXCEPT ![c] = x]
        /\ x.op = cmd[c].op /\ x.pid = cmd[c].pid /\ x.back = cmd[c].back
        /\ x.front = cmd[c].front /\ x.seen = cmd[c].seen
        /\ x.pc \in {"dump", "snapshot", "restore"}
  <2>1. CASE BackupPorts(c)
    <3> DEFINE x == [cmd[c] EXCEPT !.pc = "dump", !.scan = raw]
    <3>1. /\ x \in CommandRecords /\ x.op = cmd[c].op /\ x.pid = cmd[c].pid
          /\ x.back = cmd[c].back /\ x.front = cmd[c].front /\ x.seen = cmd[c].seen
          /\ x.pc = "dump"
      BY <1>1 DEF CommandRecords, Steps, BackupSteps, RuntimeTypeInv
    <3>2. cmd' = [cmd EXCEPT ![c] = x]
      BY <2>1 DEF BackupPorts
    <3> HIDE DEF x
    <3>3. QED
      BY <3>1, <3>2
  <2>2. CASE PgDump(c)
    <3> DEFINE x == [cmd[c] EXCEPT !.pc = "snapshot", !.dump = db]
    <3>1. /\ x \in CommandRecords /\ x.op = cmd[c].op /\ x.pid = cmd[c].pid
          /\ x.back = cmd[c].back /\ x.front = cmd[c].front /\ x.seen = cmd[c].seen
          /\ x.pc = "snapshot"
      BY <1>1 DEF CommandRecords, Steps, BackupSteps, RuntimeTypeInv
    <3>2. cmd' = [cmd EXCEPT ![c] = x]
      BY <2>2 DEF PgDump
    <3> HIDE DEF x
    <3>3. QED
      BY <3>1, <3>2
  <2>3. CASE SourceSnapshot(c)
    <3> DEFINE k == <<db.rev, db.rows>>
               x == [cmd[c] EXCEPT !.pc = "restore", !.snap = k]
    <3>1. k \in Snapshots
      BY <1>1 DEF RuntimeTypeInv, Dumps, Snapshots
    <3>2. cmd' = [cmd EXCEPT ![c] = x]
      BY <2>3 DEF SourceSnapshot
    <3> HIDE DEF k
    <3>3. /\ x \in CommandRecords /\ x.op = cmd[c].op /\ x.pid = cmd[c].pid
          /\ x.back = cmd[c].back /\ x.front = cmd[c].front /\ x.seen = cmd[c].seen
          /\ x.pc = "restore"
      BY <1>1, <3>1 DEF CommandRecords, Steps, BackupSteps, RuntimeTypeInv
    <3> HIDE DEF x
    <3>4. QED
      BY <3>2, <3>3
  <2>4. QED
    BY <2>1, <2>2, <2>3
<1>3. cmd[c].pc \notin Reaped
  BY DEF BackupPorts, PgDump, SourceSnapshot, Reaped, Ended
<1>4. cmd' \in [Commands -> CommandRecords] /\ cmd'[c] = x /\ \A d \in Commands \ {c} : cmd'[d] = cmd[d]
  BY <1>1, <1>2, CommandWritten
<1>5. \A d \in Commands : Follows(d)
  BY <1>2, <1>3, <1>4 DEF Follows, Recording
<1>6. RuntimeTypeInv'
  BY <1>1, <1>4 DEF RuntimeTypeInv, table, store
<1>7. Quiet
  BY <1>1 DEF Quiet, OwnInv, table
<1>8. QED
  BY <1>5, <1>6, <1>7, QuietKeeps

LEMMA PlainSteps ==
    ASSUME OwnInv, NEW c \in Commands,
           \/ ReconcileWait(c) \/ CheckPorts(c) \/ EnsureDatabase(c) \/ PreMigrationBackup(c)
           \/ StartCluster(c) \/ RestoreAndCompareDatabase(c) \/ ArchiveRawStorage(c)
           \/ RescanAndPromote(c) \/ BackupFails(c) \/ BackendOnlyEnds(c) \/ WebHealthy(c)
           \/ SuperviseEnds(c) \/ ReleaseRecord(c) \/ Kill(c) \/ ApplyMigrations(c)
    PROVE  OwnInv'
<1>1. db \in Dumps /\ raw \in Nat /\ [db EXCEPT !.rev = "head"] \in Dumps
  BY DEF OwnInv, RuntimeTypeInv, Dumps, Revisions
<1>2. CASE ReconcileWait(c)
  BY <1>1, <1>2, PlainKeeps DEF ReconcileWait, store, Reaped, Ended, Recording, Steps, BackupSteps
<1>3. CASE CheckPorts(c)
  BY <1>1, <1>3, PlainKeeps DEF CheckPorts, BackupFrame, store, Reaped, Ended, Recording, Steps
<1>4. CASE EnsureDatabase(c)
  BY <1>1, <1>4, PlainKeeps DEF EnsureDatabase, BackupFrame, store, Reaped, Ended, Recording, Steps
<1>5. CASE PreMigrationBackup(c)
  BY <1>1, <1>5, PlainKeeps DEF PreMigrationBackup, BackupFrame, store, Reaped, Ended, Recording, Steps
<1>6. CASE StartCluster(c) \/ RestoreAndCompareDatabase(c) \/ ArchiveRawStorage(c)
  BY <1>1, <1>6, PlainKeeps DEF StartCluster, RestoreAndCompareDatabase, ArchiveRawStorage,
       BackupFrame, store, Reaped, Ended, Recording, Steps, BackupSteps
<1>7. CASE RescanAndPromote(c)
  BY <1>1, <1>7, PlainKeeps DEF RescanAndPromote, BackupFrame, store, Reaped, Ended, Recording, Steps
<1>8. CASE BackupFails(c)
  BY <1>1, <1>8, PlainKeeps DEF BackupFails, BackupFrame, store
<1>9. CASE BackendOnlyEnds(c)
  BY <1>1, <1>9, PlainKeeps DEF BackendOnlyEnds, RunFrame, store
<1>10. CASE WebHealthy(c) \/ SuperviseEnds(c)
  BY <1>1, <1>10, PlainKeeps DEF WebHealthy, SuperviseEnds, RunFrame, store, Reaped, Ended,
       Recording, Steps
<1>11. CASE ReleaseRecord(c)
  BY <1>1, <1>11, PlainKeeps DEF ReleaseRecord, RunFrame, store
<1>12. CASE Kill(c)
  BY <1>1, <1>12, PlainKeeps DEF Kill, store
<1>13. CASE ApplyMigrations(c)
  BY <1>1, <1>13, PlainKeeps DEF ApplyMigrations, Reaped, Ended, Recording, Steps
<1>14. QED
  BY <1>2, <1>3, <1>4, <1>5, <1>6, <1>7, <1>8, <1>9, <1>10, <1>11, <1>12, <1>13

\* Processes end by themselves, and a supervisor ends its own.
LEMMA EndingKeeps ==
    ASSUME OwnInv,
           \/ \E p \in Pids : Exit(p) \/ \E q \in Ports : Listen(q, p)
           \/ \E q \in Ports : GroupGone(q)
           \/ \E c \in Commands : TerminateChildren(c)
    PROVE  OwnInv'
<1>1. RuntimeTypeInv
  BY DEF OwnInv
<1>2. proc' \in [Pids -> {"none", "backend", "frontend", "stranger"}]
      /\ \A p \in Pids : proc'[p] = proc[p] \/ proc'[p] = "none"
  <2>1. CASE \E p \in Pids : Exit(p) \/ \E q \in Ports : Listen(q, p)
    BY <1>1, <2>1 DEF Exit, Listen, RuntimeTypeInv
  <2>2. CASE \E q \in Ports : GroupGone(q)
    BY <1>1, <2>2 DEF GroupGone, RuntimeTypeInv
  <2>3. CASE \E c \in Commands : TerminateChildren(c)
    BY <1>1, <2>3 DEF TerminateChildren, RuntimeTypeInv
  <2>4. QED
    BY <2>1, <2>2, <2>3
<1>3. UNCHANGED <<sig, record, strayHit, db, raw>>
  BY DEF Exit, Listen, GroupGone, TerminateChildren, RunFrame, store
<1>4. cmd' \in [Commands -> CommandRecords] /\ \A d \in Commands : Follows(d)
  <2>1. CASE \E c \in Commands : TerminateChildren(c)
    <3>1. PICK c \in Commands : cmd[c].pc = "closing" /\ Go(c, "release")
      BY <2>1 DEF TerminateChildren
    <3>2. QED
      BY <1>1, <3>1, GoIs, GoFollows DEF Steps, Recording, Reaped, Ended
  <2>2. CASE ~\E c \in Commands : TerminateChildren(c)
    BY <1>1, <2>2 DEF Exit, Listen, GroupGone, Follows, RuntimeTypeInv
  <2>3. QED
    BY <2>1, <2>2
<1>5. RuntimeTypeInv'
  BY <1>1, <1>2, <1>3, <1>4 DEF RuntimeTypeInv
<1>6. Quiet
  BY <1>2, <1>3 DEF Quiet, OwnInv
<1>7. QED
  BY <1>3, <1>4, <1>5, <1>6, QuietKeeps

\* Only recorded processes are signalled, and what has a recorded signature is no stranger.
LEMMA OrphansAreOwn ==
    ASSUME RuntimeTypeInv, NEW r \in RuntimeStates, RecordInv(r), IsState(r),
           NEW p \in Children(r), RuntimeChildMatches(r, p)
    PROVE  proc[p] # "stranger"
<1>1. r.sup \in Pids /\ r.back \in Pids /\ r.front \in SomePid
  BY DEF RuntimeStates
<1>2. CASE p = r.back
  BY <1>1, <1>2 DEF RecordInv, RuntimeChildMatches, ChildSig, Recorded
<1>3. CASE p # r.back
  <2>1. p = r.front /\ r.front # NoPid
    BY <1>3 DEF Children
  <2>2. QED
    BY <1>3, <2>1 DEF RecordInv, RuntimeChildMatches, ChildSig, Recorded
<1>4. QED
  BY <1>2, <1>3

LEMMA SeenIs ==
    ASSUME RuntimeTypeInv, NEW c \in Commands, NEW r \in RuntimeRecords, NEW pc \in Steps,
           cmd' = [cmd EXCEPT ![c].pc = pc, ![c].seen = r]
    PROVE  /\ cmd' \in [Commands -> CommandRecords]
           /\ \A d \in Commands \ {c} : cmd'[d] = cmd[d]
           /\ cmd'[c].pc = pc /\ cmd'[c].seen = r
           /\ cmd'[c].op = cmd[c].op /\ cmd'[c].pid = cmd[c].pid
           /\ cmd'[c].back = cmd[c].back /\ cmd'[c].front = cmd[c].front
<1> DEFINE x == [cmd[c] EXCEPT !.pc = pc, !.seen = r]
<1>1. cmd[c] \in CommandRecords
  BY DEF RuntimeTypeInv
<1>2. /\ x \in CommandRecords /\ x.pc = pc /\ x.op = cmd[c].op /\ x.pid = cmd[c].pid
      /\ x.back = cmd[c].back /\ x.front = cmd[c].front /\ x.seen = r
  BY <1>1 DEF CommandRecords
<1>3. cmd' = [cmd EXCEPT ![c] = x]
  OBVIOUS
<1> HIDE DEF x
<1>4. QED
  BY <1>2, <1>3, CommandWritten

LEMMA ReconcileKeeps ==
    ASSUME OwnInv, NEW c \in Commands, NEW r, r = record \/ r = cmd[c].seen, IsState(r),
           cmd[c].pc \in {"record", "stopping"}, ReconcileDeadSupervisor(c, r),
           UNCHANGED <<record, store>>
    PROVE  OwnInv'
<1>1. RuntimeTypeInv /\ cmd[c] \in CommandRecords
  BY DEF OwnInv, RuntimeTypeInv
<1>2. r \in RuntimeStates /\ RecordInv(r)
  BY <1>1 DEF OwnInv, CommandInv, RuntimeTypeInv, CommandRecords, RuntimeRecords, IsState
<1>3. CASE Finish(c) /\ UNCHANGED <<proc, sig, port, strayHit>>
  BY <1>1, <1>3, PlainKeeps DEF RuntimeTypeInv, table, store
<1>4. CASE /\ \A p \in RecordedChildrenAlive(r) : RuntimeChildMatches(r, p)
           /\ SignalGroups(RecordedChildrenAlive(r))
           /\ cmd' = [cmd EXCEPT ![c].pc = "reconcile", ![c].seen = r]
  <2>1. \A p \in RecordedChildrenAlive(r) : proc[p] # "stranger"
    BY <1>1, <1>2, <1>4, OrphansAreOwn DEF RecordedChildrenAlive
  <2>2. ~strayHit'
    BY <1>4, <2>1 DEF SignalGroups, OwnInv
  <2>3. proc' \in [Pids -> {"none", "backend", "frontend", "stranger"}]
        /\ \A p \in Pids : proc'[p] = proc[p] \/ proc'[p] = "none"
    BY <1>1, <1>4 DEF SignalGroups, RuntimeTypeInv
  <2>4. sig' = sig
    BY <1>4 DEF SignalGroups
  <2>5. Quiet
    BY <2>2, <2>3, <2>4 DEF Quiet
  <2>6. r \in RuntimeRecords /\ "reconcile" \in Steps
    BY <1>2 DEF RuntimeRecords, Steps
  <2>7. /\ cmd' \in [Commands -> CommandRecords]
        /\ \A d \in Commands \ {c} : cmd'[d] = cmd[d]
        /\ cmd'[c].pc = "reconcile" /\ cmd'[c].seen = r
        /\ cmd'[c].op = cmd[c].op /\ cmd'[c].pid = cmd[c].pid
        /\ cmd'[c].back = cmd[c].back /\ cmd'[c].front = cmd[c].front
    BY <1>1, <1>4, <2>6, SeenIs
  <2>8. \A d \in Commands : Follows(d)
    BY <2>7 DEF Follows, Reaped, Ended, Recording
  <2>9. RuntimeTypeInv'
    BY <1>1, <2>3, <2>4, <2>7 DEF RuntimeTypeInv, store
  <2>10. QED
    BY <2>5, <2>8, <2>9, QuietKeeps
<1>5. QED
  BY <1>3, <1>4 DEF ReconcileDeadSupervisor

LEMMA RecordSteps ==
    ASSUME OwnInv, NEW c \in Commands,
           CheckRecordForRun(c) \/ StopRecordedRuntime(c) \/ StopWait(c)
    PROVE  OwnInv'
<1>1. RuntimeTypeInv /\ cmd[c] \in CommandRecords /\ CommandInv(c)
  BY DEF OwnInv, RuntimeTypeInv
<1>2. /\ UNCHANGED <<record, store>>
      /\ cmd[c].pc \in {"record", "stopping"}
  BY DEF CheckRecordForRun, StopRecordedRuntime, StopWait
<1>3. ASSUME Finish(c) \/ Go(c, "ports"), UNCHANGED <<table, strayHit>> PROVE OwnInv'
  BY <1>1, <1>2, <1>3, PlainKeeps DEF RuntimeTypeInv, store, Reaped, Ended, Steps, Recording
<1>4. CASE CheckRecordForRun(c)
  <2>1. CASE record = NoRecord
    BY <1>3, <1>4, <2>1 DEF CheckRecordForRun
  <2>2. CASE record # NoRecord /\ IsState(record) /\ ~Alive(record.sup)
    BY <1>2, <1>4, <2>2, ReconcileKeeps DEF CheckRecordForRun
  <2>3. CASE record # NoRecord /\ ~(IsState(record) /\ ~Alive(record.sup))
    BY <1>3, <1>4, <2>3 DEF CheckRecordForRun
  <2>4. QED
    BY <2>1, <2>2, <2>3
<1>5. CASE StopRecordedRuntime(c)
  <2>1. CASE ~IsState(record)
    BY <1>3, <1>5, <2>1 DEF StopRecordedRuntime
  <2>2. CASE IsState(record) /\ ~Alive(record.sup)
    BY <1>2, <1>5, <2>2, ReconcileKeeps DEF StopRecordedRuntime
  <2>3. CASE IsState(record) /\ Alive(record.sup) /\ ~RuntimeProcessMatches(record)
    BY <1>3, <1>5, <2>3 DEF StopRecordedRuntime
  <2>4. CASE IsState(record) /\ Alive(record.sup) /\ RuntimeProcessMatches(record)
    <3>1. /\ cmd' = [cmd EXCEPT ![c].pc = "stopping", ![c].seen = record]
          /\ strayHit' = (strayHit \/ Kind(record.sup) = "stranger")
          /\ UNCHANGED table
      BY <1>5, <2>4 DEF StopRecordedRuntime
    <3>2. Recorded(record.sup, record.supSig)
      BY <2>4 DEF OwnInv, RecordInv
    <3>3. Kind(record.sup) # "stranger"
      BY <2>4, <3>2 DEF Recorded, RuntimeProcessMatches, Kind
    <3>4. ~strayHit'
      BY <3>1, <3>3 DEF OwnInv
    <3>5. record \in RuntimeRecords /\ "stopping" \in Steps
      BY <1>1 DEF RuntimeTypeInv, Steps
    <3>6. /\ cmd' \in [Commands -> CommandRecords]
          /\ \A d \in Commands \ {c} : cmd'[d] = cmd[d]
          /\ cmd'[c].pc = "stopping" /\ cmd'[c].seen = record
          /\ cmd'[c].op = cmd[c].op /\ cmd'[c].pid = cmd[c].pid
          /\ cmd'[c].back = cmd[c].back /\ cmd'[c].front = cmd[c].front
      BY <1>1, <3>1, <3>5, SeenIs
    <3>7. \A d \in Commands : Follows(d)
      BY <1>2, <2>4, <3>6 DEF Follows, Reaped, Ended, Recording
    <3>8. Quiet
      BY <3>1, <3>4 DEF Quiet, table
    <3>9. RuntimeTypeInv'
      BY <1>1, <1>2, <3>1, <3>6 DEF RuntimeTypeInv, store, table
    <3>10. QED
      BY <1>2, <3>7, <3>8, <3>9, QuietKeeps
  <2>5. QED
    BY <2>1, <2>2, <2>3, <2>4
<1>6. CASE StopWait(c)
  <2>1. IsState(cmd[c].seen)
    BY <1>1, <1>6 DEF StopWait, CommandInv
  <2>2. QED
    BY <1>2, <1>3, <1>6, <2>1, ReconcileKeeps DEF StopWait
<1>7. QED
  BY <1>4, <1>5, <1>6

-----------------------------------------------------------------------------
(* A process starts at a free pid.                                         *)

LEMMA FreePidIs ==
    ASSUME NEW p \in FreePids
    PROVE  /\ p \in Pids /\ proc[p] = "none"
           /\ \A c \in Commands : /\ cmd[c].pc \notin Ended => cmd[c].pid # p
                                  /\ cmd[c].pc \notin Reaped => p # cmd[c].back /\ p # cmd[c].front
BY DEF FreePids, Active

\* The signature of a remembered pid changes, so what was recorded is still true.
LEMMA NewSignatureRecord ==
    ASSUME RuntimeTypeInv, NEW p \in Pids, NewSignature(p),
           \A q \in Pids \ {p} : proc'[q] = proc[q],
           NEW r \in RuntimeRecords, RecordInv(r), Pidsof(r) \subseteq Remembered
    PROVE  IsState(r) => /\ Recorded(r.sup, r.supSig)'
                         /\ Recorded(r.back, r.backSig)'
                         /\ r.front # NoPid => Recorded(r.front, r.frontSig)'
<1> SUFFICES ASSUME IsState(r)
             PROVE  /\ Recorded(r.sup, r.supSig)'
                    /\ Recorded(r.back, r.backSig)'
                    /\ r.front # NoPid => Recorded(r.front, r.frontSig)'
  OBVIOUS
<1>1. r \in RuntimeStates
  BY DEF RuntimeRecords, IsState
<1>2. r.sup \in Pids /\ r.back \in Pids /\ r.front \in SomePid
      /\ r.supSig \in Nat /\ r.backSig \in Nat /\ r.frontSig \in Nat
  BY <1>1 DEF RuntimeStates
<1>3. {r.sup, r.back, r.front} \subseteq Remembered
  BY DEF Pidsof
<1>4. \A q \in Pids : /\ sig[q] \in Nat
                      /\ q = p /\ q \in Remembered => sig'[q] = sig[q] + 1
                      /\ q # p => sig'[q] = sig[q] /\ proc'[q] = proc[q]
  BY DEF NewSignature, RuntimeTypeInv
<1>5. \A q \in Pids, k \in Nat : q \in Remembered /\ Recorded(q, k) => Recorded(q, k)'
  BY <1>4 DEF Recorded
<1>6. QED
  BY <1>2, <1>3, <1>5 DEF RecordInv, SomePid

LEMMA StartKeepsOthers ==
    ASSUME OwnInv, NEW p \in FreePids, NewSignature(p), record' = record,
           \A q \in Pids \ {p} : proc'[q] = proc[q]
    PROVE  /\ RecordInv(record)'
           /\ \A c \in Commands : cmd'[c].seen = cmd[c].seen => RecordInv(cmd[c].seen)'
           /\ \A c \in Commands : cmd'[c] = cmd[c] => CommandInv(c)'
<1>1. RuntimeTypeInv /\ p \in Pids
  BY FreePidIs DEF OwnInv
<1>2. RecordInv(record)'
  <2>1. Pidsof(record) \subseteq Remembered
    BY DEF Remembered
  <2>2. QED
    BY <1>1, <2>1, NewSignatureRecord DEF OwnInv, RecordInv, RuntimeTypeInv
<1>3. ASSUME NEW c \in Commands, cmd'[c].seen = cmd[c].seen PROVE RecordInv(cmd[c].seen)'
  <2>1. Pidsof(cmd[c].seen) \subseteq Remembered
    BY DEF Remembered
  <2>2. cmd[c].seen \in RuntimeRecords /\ RecordInv(cmd[c].seen)
    BY <1>1 DEF OwnInv, CommandInv, RuntimeTypeInv, CommandRecords
  <2>3. QED
    BY <1>1, <1>3, <2>1, <2>2, NewSignatureRecord DEF RecordInv
<1>4. ASSUME NEW c \in Commands, cmd'[c] = cmd[c] PROVE CommandInv(c)'
  <2>1. CommandInv(c) /\ cmd[c] \in CommandRecords
    BY <1>1 DEF OwnInv, RuntimeTypeInv
  <2>2. RecordInv(cmd[c].seen)'
    BY <1>3, <1>4
  <2>3. {cmd[c].pid, cmd[c].back, cmd[c].front} \subseteq Pids \cup {NoPid}
    BY <2>1 DEF CommandRecords, SomePid
  <2>4. QED
    BY <1>4, <2>1, <2>2, <2>3, FreePidIs DEF CommandInv
<1>5. QED
  BY <1>2, <1>3, <1>4

LEMMA StartSteps ==
    ASSUME OwnInv,
           \/ \E p \in Pids : Stranger(p)
           \/ \E c \in Commands : SpawnBackend(c) \/ BackendHealthy(c)
    PROVE  OwnInv'
<1>1. RuntimeTypeInv
  BY DEF OwnInv
<1>2. ASSUME NEW p, NEW kind \in {"backend", "frontend", "stranger"}, Spawned(p, kind),
             record' = record, UNCHANGED <<store, strayHit>>, cmd' \in [Commands -> CommandRecords]
      PROVE  /\ p \in FreePids /\ RuntimeTypeInv' /\ proc'[p] = kind
             /\ \A q \in Pids \ {p} : proc'[q] = proc[q]
             /\ RecordInv(record)'
             /\ \A c \in Commands : cmd'[c].seen = cmd[c].seen => RecordInv(cmd[c].seen)'
             /\ \A c \in Commands : cmd'[c] = cmd[c] => CommandInv(c)'
  <2>1. p \in FreePids /\ p \in Pids
    BY <1>2, FreePidIs DEF Spawned
  <2>2. /\ proc' \in [Pids -> {"none", "backend", "frontend", "stranger"}] /\ proc'[p] = kind
        /\ \A q \in Pids \ {p} : proc'[q] = proc[q]
    BY <1>1, <1>2, <2>1 DEF Spawned, RuntimeTypeInv
  <2>3. sig' \in [Pids -> Nat]
    <3>1. \A q \in Pids : sig[q] + 1 \in Nat
      BY <1>1 DEF RuntimeTypeInv
    <3>2. QED
      BY <1>1, <1>2, <2>1, <3>1 DEF Spawned, NewSignature, RuntimeTypeInv
  <2>4. RuntimeTypeInv'
    BY <1>1, <1>2, <2>2, <2>3 DEF RuntimeTypeInv, store
  <2>5. QED
    BY <1>2, <2>1, <2>2, <2>4, StartKeepsOthers DEF Spawned
<1>3. CASE \E p \in Pids : Stranger(p)
  <2>1. PICK p \in Pids : Stranger(p)
    BY <1>3
  <2>2. UNCHANGED <<record, cmd, store, strayHit>> /\ Spawned(p, "stranger")
    BY <2>1 DEF Stranger
  <2>3. cmd' \in [Commands -> CommandRecords]
    BY <1>1, <2>2 DEF RuntimeTypeInv
  <2>4. QED
    BY <1>2, <2>2, <2>3 DEF OwnInv
\* A command starts a process and keeps its pid.
<1>4. ASSUME NEW c \in Commands, NEW p, NEW kind \in {"backend", "frontend"}, Spawned(p, kind),
             NEW x \in CommandRecords, cmd' = [cmd EXCEPT ![c] = x],
             cmd[c].pc \notin Reaped, x.op = cmd[c].op, x.pid = cmd[c].pid, x.seen = cmd[c].seen,
             x.back \in {p, cmd[c].back}, x.front \in {p, cmd[c].front},
             x.pc \notin Ended, x.pc # "stopping",
             x.pc \in Recording => x.op = "run" /\ x.back # NoPid,
             record' = record, UNCHANGED <<store, strayHit>>
      PROVE  OwnInv'
  <2>1. cmd' \in [Commands -> CommandRecords] /\ cmd'[c] = x
        /\ \A d \in Commands \ {c} : cmd'[d] = cmd[d]
    BY <1>1, <1>4, CommandWritten
  <2>2. /\ p \in FreePids /\ RuntimeTypeInv' /\ proc'[p] = kind
        /\ \A q \in Pids \ {p} : proc'[q] = proc[q]
        /\ RecordInv(record)' /\ RecordInv(cmd[c].seen)'
        /\ \A d \in Commands \ {c} : CommandInv(d)'
    BY <1>2, <1>4, <2>1
  <2>3. cmd[c] \in CommandRecords /\ CommandInv(c)
    BY <1>1 DEF OwnInv, RuntimeTypeInv
  <2>4. {cmd[c].pid, cmd[c].back, cmd[c].front} \subseteq Pids \cup {NoPid}
    BY <2>3 DEF CommandRecords, SomePid
  <2>5. /\ p \in Pids /\ p # cmd[c].pid /\ cmd[c].pc \notin Ended
    BY <1>4, <2>2, FreePidIs DEF Reaped
  <2>6. x.op = "run" => x.pid # NoPid
    BY <1>4, <2>3, <2>5 DEF CommandInv
  <2>7. x.pid # NoPid => proc'[x.pid] = "none"
    BY <1>4, <2>2, <2>3, <2>4, <2>5 DEF CommandInv
  <2>8. \A b \in {x.back, x.front} \ {NoPid} : proc'[b] # "stranger"
    BY <1>4, <2>2, <2>3, <2>4, <2>5 DEF CommandInv
  <2>9. CommandInv(c)'
    BY <1>4, <2>1, <2>2, <2>6, <2>7, <2>8 DEF CommandInv, Recording
  <2>10. QED
    BY <1>4, <2>2, <2>9 DEF OwnInv
<1>5. ASSUME NEW c \in Commands, SpawnBackend(c) PROVE OwnInv'
  <2>1. PICK p \in Pids :
          /\ Spawned(p, "backend")
          /\ cmd' = [cmd EXCEPT ![c].back = p,
                                ![c].pc = IF cmd[c].op = "run" THEN "write1" ELSE "serving"]
    BY <1>5 DEF SpawnBackend
  <2>2. cmd[c] \in CommandRecords /\ cmd[c].pc = "spawn"
    BY <1>1, <1>5 DEF SpawnBackend, RuntimeTypeInv
  <2> DEFINE to == IF cmd[c].op = "run" THEN "write1" ELSE "serving"
             x == [cmd[c] EXCEPT !.back = p, !.pc = to]
  <2>3. to \in Steps \ Ended /\ to # "stopping" /\ (to \in Recording => cmd[c].op = "run")
    BY DEF Steps, Ended, Recording
  <2>4. cmd' = [cmd EXCEPT ![c] = x]
    BY <2>1
  <2> HIDE DEF to
  <2>5. /\ x \in CommandRecords /\ x.pc = to /\ x.op = cmd[c].op /\ x.pid = cmd[c].pid
        /\ x.back = p /\ x.front = cmd[c].front /\ x.seen = cmd[c].seen
    BY <2>2, <2>3 DEF CommandRecords, SomePid
  <2> HIDE DEF x
  <2>6. UNCHANGED <<record, store, strayHit>>
    BY <1>5 DEF SpawnBackend, RunFrame
  <2>7. p # NoPid /\ cmd[c].pc \notin Reaped
    BY <2>2, RuntimeAssumption DEF Reaped, Ended
  <2>8. Spawned(p, "backend") /\ x.back \in {p, cmd[c].back} /\ x.front \in {p, cmd[c].front}
    BY <2>1, <2>5
  <2>9. x.pc \notin Ended /\ x.pc # "stopping" /\ (x.pc \in Recording => x.op = "run" /\ x.back # NoPid)
    BY <2>3, <2>5, <2>7
  <2>10. record' = record /\ UNCHANGED <<store, strayHit>>
    BY <2>6
  <2>11. QED
    BY <1>4, <2>4, <2>5, <2>7, <2>8, <2>9, <2>10
<1>6. ASSUME NEW c \in Commands, BackendHealthy(c) PROVE OwnInv'
  <2>1. cmd[c] \in CommandRecords /\ cmd[c].pc = "wait1" /\ CommandInv(c)
    BY <1>1, <1>6 DEF BackendHealthy, RuntimeTypeInv, OwnInv
  <2>2. UNCHANGED <<record, store, strayHit>>
    BY <1>6 DEF BackendHealthy, RunFrame
  <2>3. CASE Go(c, "closing") /\ UNCHANGED table
    BY <1>1, <2>1, <2>2, <2>3, PlainKeeps DEF RuntimeTypeInv, store, Reaped, Ended, Steps, Recording
  <2>4. ASSUME NEW p \in Pids, Spawned(p, "frontend"),
               cmd' = [cmd EXCEPT ![c].front = p, ![c].pc = "write2"]
        PROVE  OwnInv'
    <3> DEFINE x == [cmd[c] EXCEPT !.front = p, !.pc = "write2"]
    <3>1. cmd' = [cmd EXCEPT ![c] = x]
      BY <2>4
    <3>2. /\ x \in CommandRecords /\ x.pc = "write2" /\ x.op = cmd[c].op /\ x.pid = cmd[c].pid
          /\ x.back = cmd[c].back /\ x.front = p /\ x.seen = cmd[c].seen
      BY <2>1 DEF CommandRecords, SomePid, Steps
    <3> HIDE DEF x
    <3>3. cmd[c].op = "run" /\ cmd[c].back # NoPid /\ cmd[c].pc \notin Reaped
      BY <2>1 DEF CommandInv, Reaped, Ended
    <3>4. x.pc \notin Ended /\ x.pc # "stopping" /\ (x.pc \in Recording => x.op = "run" /\ x.back # NoPid)
      BY <3>2, <3>3 DEF Ended
    <3>5. Spawned(p, "frontend") /\ x.back \in {p, cmd[c].back} /\ x.front \in {p, cmd[c].front}
      BY <2>4, <3>2
    <3>6. record' = record /\ UNCHANGED <<store, strayHit>>
      BY <2>2
    <3>7. QED
      BY <1>4, <3>1, <3>2, <3>3, <3>4, <3>5, <3>6
  <2>5. QED
    BY <1>6, <2>3, <2>4 DEF BackendHealthy
<1>7. QED
  BY <1>3, <1>5, <1>6

\* Every command begins; a supervisor takes a pid of its own.
LEMMA BeginIs ==
    ASSUME RuntimeTypeInv, NEW c \in Commands, NEW op \in {"run", "backend", "stop", "backup"},
           NEW first \in {"record", "ports"}, Begin(c, op, first)
    PROVE  \E x \in CommandRecords :
        /\ cmd' = [cmd EXCEPT ![c] = x]
        /\ x.op = op /\ x.pc = first
        /\ x.back = NoPid /\ x.front = NoPid /\ x.seen = NoRecord
        /\ \/ op = "run" /\ x.pid \in FreePids /\ NewSignature(x.pid)
           \/ op # "run" /\ x.pid = NoPid /\ sig' = sig
<1>a. ASSUME NEW f \in CommandRecords, NEW x, NEW p \in SomePid,
             \/ x = [f EXCEPT !.op = op, !.pc = first, !.pid = p]
             \/ x = [f EXCEPT !.op = op, !.pc = first] /\ p = f.pid
      PROVE  /\ x \in CommandRecords /\ x.op = op /\ x.pc = first /\ x.pid = p
             /\ x.back = f.back /\ x.front = f.front /\ x.seen = f.seen
  BY <1>a DEF CommandRecords, Steps
<1>1. CASE op = "run"
  <2>1. PICK p \in FreePids :
          /\ NewSignature(p)
          /\ cmd' = [cmd EXCEPT ![c] = [Fresh EXCEPT !.op = op, !.pc = first, !.pid = p]]
    BY <1>1 DEF Begin
  <2> DEFINE x == [Fresh EXCEPT !.op = op, !.pc = first, !.pid = p]
  <2>2. p \in SomePid
    BY FreePidIs DEF SomePid
  <2>3. /\ x \in CommandRecords /\ x.op = op /\ x.pc = first /\ x.pid = p
        /\ x.back = Fresh.back /\ x.front = Fresh.front /\ x.seen = Fresh.seen
    BY <1>a, <2>2, FreshIs
  <2>4. cmd' = [cmd EXCEPT ![c] = x]
    BY <2>1
  <2> HIDE DEF x
  <2>5. QED
    BY <1>1, <2>1, <2>3, <2>4, FreshIs
<1>2. CASE op # "run"
  <2> DEFINE x == [Fresh EXCEPT !.op = op, !.pc = first]
  <2>1. cmd' = [cmd EXCEPT ![c] = x] /\ sig' = sig
    BY <1>2 DEF Begin
  <2>2. NoPid \in SomePid
    BY DEF SomePid
  <2>3. /\ x \in CommandRecords /\ x.op = op /\ x.pc = first /\ x.pid = NoPid
        /\ x.back = Fresh.back /\ x.front = Fresh.front /\ x.seen = Fresh.seen
    BY ZenonT(40), <1>a, <2>2, FreshIs
  <2> HIDE DEF x
  <2>4. QED
    BY <1>2, <2>1, <2>3, FreshIs
<1>3. QED
  BY <1>1, <1>2

LEMMA BeginKeeps ==
    ASSUME OwnInv, NEW c \in Commands, NEW op \in {"run", "backend", "stop", "backup"},
           NEW first \in {"record", "ports"}, Begin(c, op, first)
    PROVE  OwnInv'
<1>1. RuntimeTypeInv /\ cmd[c] \in CommandRecords /\ cmd[c].pc = "new"
  BY DEF OwnInv, RuntimeTypeInv, Begin
<1>2. UNCHANGED <<proc, record, store, strayHit>>
  BY DEF Begin
<1>4. PICK x \in CommandRecords :
        /\ cmd' = [cmd EXCEPT ![c] = x]
        /\ x.op = op /\ x.pc = first
        /\ x.back = NoPid /\ x.front = NoPid /\ x.seen = NoRecord
        /\ \/ op = "run" /\ x.pid \in FreePids /\ NewSignature(x.pid)
           \/ op # "run" /\ x.pid = NoPid /\ sig' = sig
  BY <1>1, BeginIs
<1>5. cmd' \in [Commands -> CommandRecords] /\ cmd'[c] = x
      /\ \A d \in Commands \ {c} : cmd'[d] = cmd[d]
  BY <1>1, <1>4, CommandWritten
<1>6. sig' \in [Pids -> Nat] /\ RecordInv(record)' /\ \A d \in Commands \ {c} : CommandInv(d)'
  <2>1. CASE x.pid \in FreePids /\ NewSignature(x.pid)
    <3>1. \A q \in Pids : sig[q] + 1 \in Nat
      BY <1>1 DEF RuntimeTypeInv
    <3>2. sig' \in [Pids -> Nat]
      BY <1>1, <2>1, <3>1 DEF NewSignature, RuntimeTypeInv
    <3>3. QED
      BY <1>2, <1>5, <2>1, <3>2, StartKeepsOthers
  <2>2. CASE sig' = sig
    BY <1>1, <1>2, <1>5, <2>2 DEF OwnInv, RuntimeTypeInv, RecordInv, Recorded, CommandInv
  <2>3. QED
    BY <1>4, <2>1, <2>2
<1>7. RuntimeTypeInv'
  BY <1>1, <1>2, <1>5, <1>6 DEF RuntimeTypeInv, store
<1>8. CommandInv(c)'
  <2>1. ~IsState(cmd'[c].seen) /\ cmd'[c].pc \notin {"write1", "wait1", "write2", "stopping"}
    BY <1>4, <1>5 DEF IsState
  <2>2. cmd'[c].pid # NoPid => proc'[cmd'[c].pid] = "none"
    BY <1>2, <1>4, <1>5, FreePidIs
  <2>3. cmd'[c].op = "run" => cmd'[c].pid # NoPid
    BY <1>4, <1>5, FreePidIs, RuntimeAssumption
  <2>4. cmd'[c].back = NoPid /\ cmd'[c].front = NoPid
    BY <1>4, <1>5
  <2>5. QED
    BY <2>1, <2>2, <2>3, <2>4 DEF CommandInv, RecordInv
<1>9. QED
  BY <1>2, <1>5, <1>6, <1>7, <1>8 DEF OwnInv

LEMMA WriteKeeps ==
    ASSUME OwnInv, NEW c \in Commands, RecordBackend(c) \/ RecordFrontend(c)
    PROVE  OwnInv'
<1>1. RuntimeTypeInv /\ cmd[c] \in CommandRecords /\ CommandInv(c)
  BY DEF OwnInv, RuntimeTypeInv
<1>2. UNCHANGED <<table, store, strayHit>> /\ cmd[c].pc \in {"write1", "write2"}
  BY DEF RecordBackend, RecordFrontend, WriteRuntimeState, RunFrame
<1>3. CASE Go(c, "closing") /\ UNCHANGED record
  BY <1>1, <1>2, <1>3, PlainKeeps DEF RuntimeTypeInv, store, Reaped, Ended, Steps, Recording
<1>4. CASE /\ record' = RuntimeState(cmd[c].pid, cmd[c].back, cmd[c].front)
           /\ Go(c, "wait1") \/ Go(c, "wait2")
  <2>1. /\ cmd[c].pid \in Pids /\ cmd[c].back \in Pids /\ cmd[c].front \in SomePid
        /\ proc[cmd[c].pid] # "stranger" /\ proc[cmd[c].back] # "stranger"
        /\ cmd[c].front # NoPid => proc[cmd[c].front] # "stranger"
    BY <1>1, <1>2 DEF CommandInv, CommandRecords, SomePid, Ended, Reaped
  <2> DEFINE s == cmd[c].pid
             b == cmd[c].back
             f == cmd[c].front
             k == IF f = NoPid THEN 0 ELSE sig[f]
  <2>2. sig[s] \in Nat /\ sig[b] \in Nat /\ k \in Nat /\ (f # NoPid => k = sig[f])
    BY <1>1, <2>1 DEF RuntimeTypeInv, SomePid
  <2>3. record' = [sup |-> s, supSig |-> sig[s], back |-> b, backSig |-> sig[b],
                   front |-> f, frontSig |-> k]
    BY <1>4 DEF RuntimeState
  <2> HIDE DEF s, b, f, k
  <2>4. record' \in RuntimeStates
    BY <2>1, <2>2, <2>3 DEF RuntimeStates, s, b, f
  <2>5. RecordInv(record)'
    <3>1. sig' = sig /\ proc' = proc
      BY <1>2 DEF table
    <3>2. /\ record'.sup = s /\ record'.supSig = sig[s] /\ record'.back = b
          /\ record'.backSig = sig[b] /\ record'.front = f /\ record'.frontSig = k
      BY <2>3
    <3>3. proc[s] # "stranger" /\ proc[b] # "stranger" /\ (f # NoPid => proc[f] # "stranger")
      BY <2>1 DEF s, b, f
    <3>4. QED
      BY <2>2, <3>1, <3>2, <3>3 DEF RecordInv, Recorded
  <2>6. cmd' \in [Commands -> CommandRecords] /\ \A d \in Commands : Follows(d)
    BY <1>1, <1>2, <1>4, GoIs, GoFollows DEF Steps, Recording, Reaped, Ended
  <2>7. RuntimeTypeInv'
    BY <1>1, <1>2, <2>4, <2>6 DEF RuntimeTypeInv, RuntimeRecords, table, store
  <2>8. Quiet
    BY <1>2 DEF Quiet, OwnInv, table
  <2>9. QED
    BY <2>5, <2>6, <2>7, <2>8, QuietKeeps
<1>5. QED
  BY <1>3, <1>4 DEF RecordBackend, RecordFrontend, WriteRuntimeState

LEMMA OwnStep == OwnInv /\ [Next]_vars => OwnInv'
<1> SUFFICES ASSUME OwnInv, [Next]_vars PROVE OwnInv'
  OBVIOUS
<1>1. ASSUME NEW c \in Commands, CommandStep(c) PROVE OwnInv'
  <2>1. CASE MakeLocal(c) \/ MakeLocalBackend(c) \/ MakeLocalStop(c) \/ MakeLocalBackup(c)
    BY <2>1, BeginKeeps DEF MakeLocal, MakeLocalBackend, MakeLocalStop, MakeLocalBackup
  <2>2. CASE CheckRecordForRun(c) \/ StopRecordedRuntime(c) \/ StopWait(c)
    BY <2>2, RecordSteps
  <2>3. CASE BackupPorts(c) \/ PgDump(c) \/ SourceSnapshot(c)
    <3>1. UNCHANGED <<table, strayHit, record, store>>
      BY <2>3 DEF BackupPorts, PgDump, SourceSnapshot, BackupFrame
    <3>2. QED
      BY <2>3, <3>1, NotedKeeps
  <2>4. CASE SpawnBackend(c) \/ BackendHealthy(c)
    BY <2>4, StartSteps
  <2>5. CASE RecordBackend(c) \/ RecordFrontend(c)
    BY <2>5, WriteKeeps
  <2>6. CASE TerminateChildren(c)
    BY <2>6, EndingKeeps
  <2>7. QED
    BY <1>1, <2>1, <2>2, <2>3, <2>4, <2>5, <2>6, PlainSteps DEF CommandStep
<1>2. CASE AppWrites
  <2>1. RuntimeTypeInv
    BY DEF OwnInv
  <2>2. UNCHANGED <<proc, sig, record, cmd, strayHit>>
    BY <1>2 DEF AppWrites, table
  <2>3. db' \in Dumps /\ raw' \in Nat
    <3>1. PICK i \in {0, 1}, k \in {0, 1} :
            db' = [db EXCEPT !.ver = @ + 1, !.rows = @ + i] /\ raw' = raw + k
      BY <1>2 DEF AppWrites
    <3>2. db.rows \in Nat /\ db.ver \in Nat /\ db \in Dumps /\ raw \in Nat
      BY <2>1 DEF RuntimeTypeInv, Dumps
    <3>3. db.rows + i \in Nat /\ db.ver + 1 \in Nat /\ raw + k \in Nat
      BY <3>2
    <3>4. QED
      BY <3>1, <3>2, <3>3 DEF Dumps
  <2>4. RuntimeTypeInv'
    BY <2>1, <2>2, <2>3 DEF RuntimeTypeInv
  <2>5. Quiet /\ \A c \in Commands : Follows(c)
    BY <2>2 DEF Quiet, Follows, OwnInv
  <2>6. QED
    BY <2>2, <2>4, <2>5, QuietKeeps
<1>3. CASE UNCHANGED vars
  <2>1. Quiet /\ \A c \in Commands : Follows(c)
    BY <1>3 DEF Quiet, Follows, OwnInv, vars
  <2>2. RuntimeTypeInv' /\ record' = record
    BY <1>3 DEF RuntimeTypeInv, OwnInv, vars
  <2>3. QED
    BY <2>1, <2>2, QuietKeeps
<1>4. QED
  BY <1>1, <1>2, <1>3, StartSteps, EndingKeeps DEF Next

\* However pids are reused and commands interleave, only processes that this checkout
\* started are signalled (stop_recorded_runtime, _reconcile_dead_supervisor).
THEOREM OnlyOwnSignalledTheorem == Spec => []OnlyOwnSignalled
<1>1. Init => OwnInv
  BY RuntimeInitHolds
<1>2. OwnInv => OnlyOwnSignalled
  BY DEF OwnInv, OnlyOwnSignalled
<1>3. QED
  BY <1>1, <1>2, OwnStep, PTL DEF Spec

-----------------------------------------------------------------------------
(* A bundle is one moment, and an old database is migrated only with one.  *)

\* A step that takes a command no further into a backup or a migration.
Settles(c) ==
    /\ cmd'[c].pc \in BackupSteps => cmd[c].pc \in BackupSteps /\ cmd'[c].scan = cmd[c].scan
    /\ cmd'[c].pc \in Dumped => cmd[c].pc \in Dumped /\ cmd'[c].dump = cmd[c].dump
    /\ cmd'[c].pc = "migrate" => cmd[c].pc = "migrate" \/ db.rev # "old"

\* The history and the bundles only grow, and an old database does not change.
Grows ==
    /\ moments \subseteq moments' /\ bundles \subseteq bundles'
    /\ raw <= raw'
    /\ db' = db \/ db'.rev # "old"

LEMMA SettledKeeps ==
    ASSUME BackupInv, RuntimeTypeInv', Grows, NEW c \in Commands, Settles(c)
    PROVE  PreparedInv(c)'
<1>1. PreparedInv(c) /\ cmd[c] \in CommandRecords /\ cmd'[c] \in CommandRecords
      /\ raw \in Nat /\ raw' \in Nat
  BY DEF BackupInv, RuntimeTypeInv
<1>2. cmd[c].scan \in Nat /\ cmd'[c].scan \in Nat
  BY <1>1 DEF CommandRecords
<1>3. cmd'[c].pc \in BackupSteps => cmd'[c].scan <= raw'
  BY <1>1, <1>2 DEF Settles, Grows, PreparedInv
<1>4. ASSUME cmd'[c].pc \in Dumped PROVE DumpMoment(c)'
  <2>1. cmd'[c].scan = cmd[c].scan /\ cmd'[c].dump = cmd[c].dump /\ DumpMoment(c)
    BY <1>1, <1>4 DEF Settles, PreparedInv, Dumped
  <2>2. PICK x \in Nat :
          /\ cmd[c].scan <= x /\ x <= raw
          /\ [rev |-> cmd[c].dump.rev, rows |-> cmd[c].dump.rows, ver |-> cmd[c].dump.ver,
              raw |-> x] \in moments
    BY <2>1 DEF DumpMoment
  <2>3. x <= raw'
    BY <1>1, <2>2 DEF Grows
  <2>4. [rev |-> cmd'[c].dump.rev, rows |-> cmd'[c].dump.rows, ver |-> cmd'[c].dump.ver,
         raw |-> x] \in moments'
    BY <2>1, <2>2 DEF Grows
  <2>5. QED
    BY <2>1, <2>2, <2>3, <2>4 DEF DumpMoment
<1>5. ASSUME cmd'[c].pc \in Dumped, db'.rev = "old" PROVE cmd'[c].dump = db'
  BY <1>1, <1>5 DEF Settles, Grows, PreparedInv
<1>6. ASSUME cmd'[c].pc = "migrate", db'.rev = "old" PROVE Backed'
  <2>1. db' = db /\ Backed
    BY <1>1, <1>6 DEF Settles, Grows, PreparedInv
  <2>2. QED
    BY <2>1 DEF Backed, Grows
<1>7. QED
  BY <1>3, <1>4, <1>5, <1>6 DEF PreparedInv

\* Steps of the other processes and commands, and of a command outside its backup.
LEMMA SettledSteps ==
    ASSUME BackupInv, RuntimeTypeInv', UNCHANGED <<store, bundles>>, \A c \in Commands : Settles(c)
    PROVE  BackupInv'
<1>1. Grows
  BY DEF Grows, store, BackupInv, RuntimeTypeInv
<1>2. Content' \in moments' /\ bundles' \subseteq moments'
  BY DEF BackupInv, Content, store
<1>3. QED
  BY <1>1, <1>2, SettledKeeps DEF BackupInv

LEMMA OneSettles ==
    ASSUME RuntimeTypeInv, NEW c \in Commands,
           \/ Finish(c)
           \/ \E pc \in Steps :
                 /\ Go(c, pc)
                 /\ pc \in BackupSteps => cmd[c].pc \in BackupSteps
                 /\ pc \in Dumped => cmd[c].pc \in Dumped
                 /\ pc = "migrate" => db.rev # "old"
           \/ /\ cmd'[c].pc \notin BackupSteps \cup {"migrate"}
              /\ \A d \in Commands \ {c} : cmd'[d] = cmd[d]
    PROVE  \A d \in Commands : Settles(d)
<1>1. CASE Finish(c)
  BY <1>1, FinishFollows, FinishedIs DEF Settles, BackupSteps, Dumped
<1>2. ASSUME NEW pc \in Steps, Go(c, pc), pc \in BackupSteps => cmd[c].pc \in BackupSteps,
             pc \in Dumped => cmd[c].pc \in Dumped, pc = "migrate" => db.rev # "old"
      PROVE  \A d \in Commands : Settles(d)
  BY <1>2, GoIs DEF Settles
<1>3. CASE /\ cmd'[c].pc \notin BackupSteps \cup {"migrate"}
           /\ \A d \in Commands \ {c} : cmd'[d] = cmd[d]
  BY <1>3 DEF Settles, Dumped
<1>4. QED
  BY <1>1, <1>2, <1>3

LEMMA BackupSettles ==
    ASSUME BackupInv, RuntimeTypeInv', NEW c \in Commands,
           \/ ReconcileWait(c) \/ CheckPorts(c) \/ EnsureDatabase(c) \/ PreMigrationBackup(c)
           \/ StartCluster(c) \/ RestoreAndCompareDatabase(c) \/ ArchiveRawStorage(c)
           \/ BackupFails(c) \/ BackendOnlyEnds(c) \/ RecordBackend(c) \/ RecordFrontend(c)
           \/ WebHealthy(c) \/ SuperviseEnds(c) \/ TerminateChildren(c) \/ ReleaseRecord(c)
           \/ Kill(c)
    PROVE  BackupInv'
<1>1. RuntimeTypeInv
  BY DEF BackupInv
<1>2. UNCHANGED <<store, bundles>>
  BY DEF ReconcileWait, CheckPorts, EnsureDatabase, PreMigrationBackup, StartCluster,
         RestoreAndCompareDatabase, ArchiveRawStorage, BackupFails, BackendOnlyEnds, RecordBackend,
         RecordFrontend, WriteRuntimeState, WebHealthy, SuperviseEnds, TerminateChildren,
         ReleaseRecord, Kill, BackupFrame, RunFrame
<1>3. \A d \in Commands : Settles(d)
  <2>1. CASE ReconcileWait(c) \/ CheckPorts(c) \/ EnsureDatabase(c)
    BY <1>1, <2>1, OneSettles DEF ReconcileWait, CheckPorts, EnsureDatabase, Steps, BackupSteps, Dumped
  <2>2. CASE PreMigrationBackup(c)
    BY <1>1, <2>2, OneSettles DEF PreMigrationBackup, Steps, BackupSteps, Dumped
  <2>3. CASE StartCluster(c) \/ RestoreAndCompareDatabase(c) \/ ArchiveRawStorage(c)
    BY <1>1, <2>3, OneSettles DEF StartCluster, RestoreAndCompareDatabase, ArchiveRawStorage, Steps,
         BackupSteps, Dumped
  <2>4. CASE BackupFails(c) \/ BackendOnlyEnds(c) \/ ReleaseRecord(c) \/ Kill(c)
    BY <1>1, <2>4, OneSettles DEF BackupFails, BackendOnlyEnds, ReleaseRecord, Kill
  <2>5. CASE RecordBackend(c) \/ RecordFrontend(c) \/ WebHealthy(c) \/ SuperviseEnds(c)
             \/ TerminateChildren(c)
    BY <1>1, <2>5, OneSettles DEF RecordBackend, RecordFrontend, WriteRuntimeState, WebHealthy,
         SuperviseEnds, TerminateChildren, Steps, BackupSteps, Dumped
  <2>6. QED
    BY <2>1, <2>2, <2>3, <2>4, <2>5
<1>4. QED
  BY <1>2, <1>3, SettledSteps

\* Commands that begin, stop another, or start a process.
LEMMA OtherSettles ==
    ASSUME BackupInv, RuntimeTypeInv', NEW c \in Commands,
           \/ MakeLocal(c) \/ MakeLocalBackend(c) \/ MakeLocalStop(c) \/ MakeLocalBackup(c)
           \/ CheckRecordForRun(c) \/ StopRecordedRuntime(c) \/ StopWait(c)
           \/ SpawnBackend(c) \/ BackendHealthy(c)
    PROVE  BackupInv'
<1>1. RuntimeTypeInv /\ cmd[c] \in CommandRecords
  BY DEF BackupInv, RuntimeTypeInv
<1>2. UNCHANGED <<store, bundles>>
  BY DEF MakeLocal, MakeLocalBackend, MakeLocalStop, MakeLocalBackup, Begin, CheckRecordForRun,
         StopRecordedRuntime, StopWait, SpawnBackend, BackendHealthy, RunFrame
<1>3. ASSUME NEW op \in {"run", "backend", "stop", "backup"}, NEW first \in {"record", "ports"},
             Begin(c, op, first)
      PROVE  \A d \in Commands : Settles(d)
  <2>1. PICK x \in CommandRecords : cmd' = [cmd EXCEPT ![c] = x] /\ x.pc = first
    BY <1>1, <1>3, BeginIs
  <2>2. cmd'[c].pc = first /\ \A d \in Commands \ {c} : cmd'[d] = cmd[d]
    BY <1>1, <2>1, CommandWritten
  <2>3. QED
    BY <1>1, <2>2, OneSettles DEF BackupSteps
<1>4. ASSUME Finish(c) \/ Go(c, "ports") \/ Go(c, "closing") PROVE \A d \in Commands : Settles(d)
  BY <1>1, <1>4, OneSettles DEF Steps, BackupSteps, Dumped
<1>5. ASSUME NEW r, NEW pc \in {"reconcile", "stopping"}, r = record \/ r = cmd[c].seen,
             cmd' = [cmd EXCEPT ![c].pc = pc, ![c].seen = r]
      PROVE  \A d \in Commands : Settles(d)
  <2>1. r \in RuntimeRecords /\ pc \in Steps
    BY <1>1, <1>5 DEF RuntimeTypeInv, CommandRecords, Steps
  <2> DEFINE x == [cmd[c] EXCEPT !.pc = pc, !.seen = r]
  <2>2. x \in CommandRecords /\ x.pc = pc
    BY <1>1, <2>1 DEF CommandRecords
  <2>3. cmd' = [cmd EXCEPT ![c] = x]
    BY <1>5
  <2> HIDE DEF x
  <2>4. cmd'[c].pc = pc /\ \A d \in Commands \ {c} : cmd'[d] = cmd[d]
    BY <1>1, <2>2, <2>3, CommandWritten
  <2>5. QED
    BY <1>1, <2>4, OneSettles DEF BackupSteps
<1>6. CASE CheckRecordForRun(c) \/ StopRecordedRuntime(c) \/ StopWait(c)
  <2>1. \/ Finish(c) \/ Go(c, "ports")
        \/ \E pc \in {"reconcile", "stopping"}, r \in {record, cmd[c].seen} :
              cmd' = [cmd EXCEPT ![c].pc = pc, ![c].seen = r]
    <3>1. ASSUME NEW r \in {record, cmd[c].seen}, ReconcileDeadSupervisor(c, r)
          PROVE  Finish(c) \/ cmd' = [cmd EXCEPT ![c].pc = "reconcile", ![c].seen = r]
      BY <3>1 DEF ReconcileDeadSupervisor
    <3>2. \/ Finish(c) \/ Go(c, "ports")
          \/ \E r \in {record, cmd[c].seen} : ReconcileDeadSupervisor(c, r)
          \/ cmd' = [cmd EXCEPT ![c].pc = "stopping", ![c].seen = record]
      BY <1>6 DEF CheckRecordForRun, StopRecordedRuntime, StopWait
    <3>3. QED
      BY <3>1, <3>2
  <2>2. \A d \in Commands : Settles(d)
    BY <1>4, <1>5, <2>1
  <2>3. QED
    BY <1>2, <2>2, SettledSteps
<1>7. CASE SpawnBackend(c)
  <2>1. PICK p \in Pids, to \in {"write1", "serving"} :
          cmd' = [cmd EXCEPT ![c].back = p, ![c].pc = to]
    BY <1>7 DEF SpawnBackend
  <2> DEFINE x == [cmd[c] EXCEPT !.back = p, !.pc = to]
  <2>2. x \in CommandRecords /\ x.pc = to
    BY <1>1 DEF CommandRecords, SomePid, Steps
  <2>3. cmd' = [cmd EXCEPT ![c] = x]
    BY <2>1
  <2> HIDE DEF x
  <2>4. cmd'[c].pc = to /\ \A d \in Commands \ {c} : cmd'[d] = cmd[d]
    BY <1>1, <2>2, <2>3, CommandWritten
  <2>5. QED
    BY <1>1, <1>2, <2>4, OneSettles, SettledSteps DEF BackupSteps
<1>8. CASE BackendHealthy(c)
  <2>1. CASE Go(c, "closing")
    BY <1>2, <1>4, <2>1, SettledSteps
  <2>2. ASSUME NEW p \in Pids, cmd' = [cmd EXCEPT ![c].front = p, ![c].pc = "write2"] PROVE BackupInv'
    <3> DEFINE x == [cmd[c] EXCEPT !.front = p, !.pc = "write2"]
    <3>1. x \in CommandRecords /\ x.pc = "write2"
      BY <1>1 DEF CommandRecords, SomePid, Steps
    <3>2. cmd' = [cmd EXCEPT ![c] = x]
      BY <2>2
    <3> HIDE DEF x
    <3>3. cmd'[c].pc = "write2" /\ \A d \in Commands \ {c} : cmd'[d] = cmd[d]
      BY <1>1, <3>1, <3>2, CommandWritten
    <3>4. QED
      BY <1>1, <1>2, <3>3, OneSettles, SettledSteps DEF BackupSteps
  <2>3. QED
    BY <1>8, <2>1, <2>2 DEF BackendHealthy
<1>9. QED
  BY <1>2, <1>3, <1>6, <1>7, <1>8, SettledSteps
     DEF MakeLocal, MakeLocalBackend, MakeLocalStop, MakeLocalBackup

\* The backup notes the first scan, the dump and the counts.
LEMMA NotedBackup ==
    ASSUME BackupInv, RuntimeTypeInv', NEW c \in Commands,
           BackupPorts(c) \/ PgDump(c) \/ SourceSnapshot(c)
    PROVE  BackupInv'
<1>1. RuntimeTypeInv /\ cmd[c] \in CommandRecords /\ PreparedInv(c)
  BY DEF BackupInv, RuntimeTypeInv
<1>2. UNCHANGED <<store, bundles>>
  BY DEF BackupPorts, PgDump, SourceSnapshot, BackupFrame
<1>3. Grows /\ Content' \in moments' /\ bundles' \subseteq moments'
  BY <1>1, <1>2 DEF Grows, store, BackupInv, RuntimeTypeInv, Content
<1>4. ASSUME PreparedInv(c)', \A d \in Commands \ {c} : cmd'[d] = cmd[d] PROVE BackupInv'
  <2>1. ASSUME NEW d \in Commands \ {c} PROVE PreparedInv(d)'
    <3>1. Settles(d)
      BY <1>4 DEF Settles
    <3>2. QED
      BY <1>3, <3>1, SettledKeeps
  <2>2. QED
    BY <1>3, <1>4, <2>1 DEF BackupInv
<1>5. CASE BackupPorts(c)
  <2> DEFINE x == [cmd[c] EXCEPT !.pc = "dump", !.scan = raw]
  <2>1. x \in CommandRecords /\ x.pc = "dump" /\ x.scan = raw
    BY <1>1 DEF CommandRecords, Steps, BackupSteps, RuntimeTypeInv
  <2>2. cmd' = [cmd EXCEPT ![c] = x]
    BY <1>5 DEF BackupPorts
  <2> HIDE DEF x
  <2>3. cmd'[c] = x /\ \A d \in Commands \ {c} : cmd'[d] = cmd[d]
    BY <1>1, <2>1, <2>2, CommandWritten
  <2>4. raw' = raw /\ raw \in Nat
    BY <1>1, <1>2 DEF store, RuntimeTypeInv
  <2>5. PreparedInv(c)'
    BY <2>1, <2>3, <2>4 DEF PreparedInv, Dumped
  <2>6. QED
    BY <1>4, <2>3, <2>5
<1>6. CASE PgDump(c)
  <2> DEFINE x == [cmd[c] EXCEPT !.pc = "snapshot", !.dump = db]
  <2>1. x \in CommandRecords /\ x.pc = "snapshot" /\ x.scan = cmd[c].scan /\ x.dump = db
    BY <1>1 DEF CommandRecords, Steps, BackupSteps, RuntimeTypeInv
  <2>2. cmd' = [cmd EXCEPT ![c] = x]
    BY <1>6 DEF PgDump
  <2> HIDE DEF x
  <2>3. cmd'[c] = x /\ \A d \in Commands \ {c} : cmd'[d] = cmd[d]
    BY <1>1, <2>1, <2>2, CommandWritten
  <2>4. raw' = raw /\ raw \in Nat /\ db' = db /\ moments' = moments
    BY <1>1, <1>2 DEF store, RuntimeTypeInv
  <2>5. cmd[c].scan <= raw
    BY <1>1, <1>6 DEF PgDump, PreparedInv, BackupSteps
  <2>6. DumpMoment(c)'
    <3>1. [rev |-> db.rev, rows |-> db.rows, ver |-> db.ver, raw |-> raw] \in moments
      BY DEF BackupInv, Content
    <3>2. [rev |-> cmd'[c].dump.rev, rows |-> cmd'[c].dump.rows, ver |-> cmd'[c].dump.ver,
           raw |-> raw] \in moments'
      BY <2>1, <2>3, <2>4, <3>1
    <3>3. cmd'[c].scan <= raw /\ raw <= raw'
      BY <2>1, <2>3, <2>4, <2>5
    <3>4. QED
      BY <2>4, <3>2, <3>3 DEF DumpMoment
  <2>7. PreparedInv(c)'
    BY <2>1, <2>3, <2>4, <2>5, <2>6 DEF PreparedInv
  <2>8. QED
    BY <1>4, <2>3, <2>7
<1>7. CASE SourceSnapshot(c)
  <2> DEFINE k == <<db.rev, db.rows>>
             x == [cmd[c] EXCEPT !.pc = "restore", !.snap = k]
  <2>1. k \in Snapshots
    BY <1>1 DEF RuntimeTypeInv, Dumps, Snapshots
  <2>2. cmd' = [cmd EXCEPT ![c] = x]
    BY <1>7 DEF SourceSnapshot
  <2> HIDE DEF k
  <2>3. x \in CommandRecords /\ x.pc = "restore" /\ x.scan = cmd[c].scan /\ x.dump = cmd[c].dump
    BY <1>1, <2>1 DEF CommandRecords, Steps, BackupSteps
  <2> HIDE DEF x
  <2>4. cmd'[c] = x /\ \A d \in Commands \ {c} : cmd'[d] = cmd[d]
    BY <1>1, <2>2, <2>3, CommandWritten
  <2>5. cmd[c].pc = "snapshot"
    BY <1>7 DEF SourceSnapshot
  <2>6. Settles(c)
    BY <2>3, <2>4, <2>5 DEF Settles, BackupSteps, Dumped
  <2>7. QED
    BY <1>3, <1>4, <2>4, <2>6, SettledKeeps
<1>8. QED
  BY <1>5, <1>6, <1>7

\* The raw storage is what was scanned first, so the dump's moment is the scan's.
LEMMA PromotedBackup ==
    ASSUME BackupInv, RuntimeTypeInv', NEW c \in Commands, RescanAndPromote(c)
    PROVE  BackupInv'
<1>1. RuntimeTypeInv /\ cmd[c] \in CommandRecords /\ PreparedInv(c)
  BY DEF BackupInv, RuntimeTypeInv
<1>2. /\ UNCHANGED store /\ bundles' = bundles \cup {Bundle(c)}
      /\ cmd[c].pc = "rescan" /\ raw = cmd[c].scan
  BY DEF RescanAndPromote, BackupFrame
<1>3. Bundle(c) \in moments
  <2>1. DumpMoment(c)
    BY <1>1, <1>2 DEF PreparedInv, Dumped, BackupSteps
  <2>2. PICK x \in Nat :
          /\ cmd[c].scan <= x /\ x <= raw
          /\ [rev |-> cmd[c].dump.rev, rows |-> cmd[c].dump.rows, ver |-> cmd[c].dump.ver,
              raw |-> x] \in moments
    BY <2>1 DEF DumpMoment
  <2>3. x = cmd[c].scan
    BY <1>1, <1>2, <2>2 DEF RuntimeTypeInv
  <2>4. QED
    BY <2>2, <2>3 DEF Bundle
<1>4. Grows /\ Content' \in moments' /\ bundles' \subseteq moments'
  <2>1. Grows
    BY <1>1, <1>2 DEF Grows, store, RuntimeTypeInv
  <2>2. Content' \in moments'
    BY <1>2 DEF store, BackupInv, Content
  <2>3. bundles' \subseteq moments'
    BY <1>2, <1>3 DEF store, BackupInv
  <2>4. QED
    BY <2>1, <2>2, <2>3
<1>5. \A d \in Commands \ {c} : cmd'[d] = cmd[d]
  BY <1>1, FinishFollows, GoIs DEF RescanAndPromote, Steps
<1>6. PreparedInv(c)'
  <2>1. CASE Finish(c)
    <3>1. cmd'[c].pc = "done"
      BY <1>1, <2>1, FinishFollows, FinishedIs
    <3>2. QED
      BY <3>1 DEF PreparedInv, Dumped, BackupSteps
  <2>2. CASE Go(c, "migrate")
    <3>1. cmd'[c].pc = "migrate"
      BY <1>1, <2>2, GoIs DEF Steps
    <3>2. ASSUME db'.rev = "old" PROVE Backed'
      <4>1. db' = db /\ cmd[c].dump = db
        BY <1>1, <1>2, <3>2 DEF store, PreparedInv, Dumped, BackupSteps
      <4>2. Bundle(c).rev = "old" /\ Bundle(c).ver = db'.ver /\ Bundle(c).rows = db'.rows
        BY <3>2, <4>1 DEF Bundle
      <4>3. QED
        BY <1>2, <4>2 DEF Backed
    <3>3. QED
      BY <3>1, <3>2 DEF PreparedInv, Dumped, BackupSteps
  <2>3. QED
    BY <2>1, <2>2 DEF RescanAndPromote
<1>7. ASSUME NEW d \in Commands \ {c} PROVE PreparedInv(d)'
  <2>1. Settles(d)
    BY <1>5 DEF Settles
  <2>2. QED
    BY <1>4, <2>1, SettledKeeps
<1>8. QED
  BY <1>4, <1>6, <1>7 DEF BackupInv

\* The application writes, or the migration runs: the history has the new content.
LEMMA WritesBackup ==
    ASSUME BackupInv, RuntimeTypeInv', AppWrites \/ \E c \in Commands : ApplyMigrations(c)
    PROVE  BackupInv'
<1>1. RuntimeTypeInv /\ raw \in Nat /\ raw' \in Nat
  BY DEF BackupInv, RuntimeTypeInv
<1>2. CASE AppWrites
  <2>1. PICK i \in {0, 1}, k \in {0, 1} :
          db' = [db EXCEPT !.ver = @ + 1, !.rows = @ + i] /\ raw' = raw + k
    BY <1>2 DEF AppWrites
  <2>2. db'.rev = "head"
    BY <1>1, <1>2, <2>1 DEF AppWrites, RuntimeTypeInv, Dumps
  <2>3. /\ moments' = moments \cup {Content'} /\ bundles' = bundles /\ cmd' = cmd
    BY <1>2 DEF AppWrites, Content
  <2>4. Grows /\ \A c \in Commands : Settles(c)
    BY <1>1, <2>1, <2>2, <2>3 DEF Grows, Settles
  <2>5. Content' \in moments' /\ bundles' \subseteq moments'
    BY <2>3 DEF BackupInv
  <2>6. QED
    BY <2>4, <2>5, SettledKeeps DEF BackupInv
<1>3. ASSUME NEW c \in Commands, ApplyMigrations(c) PROVE BackupInv'
  <2>1. CASE Finish(c) /\ UNCHANGED <<db, moments>>
    BY <1>1, <1>3, <2>1, OneSettles, SettledSteps DEF ApplyMigrations, store
  <2>2. CASE /\ db' = [db EXCEPT !.rev = "head"]
             /\ moments' = moments \cup {[Content EXCEPT !.rev = "head"]}
             /\ Go(c, "spawn")
    <3>1. db'.rev = "head" /\ db'.rows = db.rows /\ db'.ver = db.ver /\ raw' = raw /\ bundles' = bundles
      BY <1>1, <1>3, <2>2 DEF ApplyMigrations, RuntimeTypeInv, Dumps
    <3>2. Content' = [Content EXCEPT !.rev = "head"]
      BY <3>1 DEF Content
    <3>3. Grows /\ \A d \in Commands : Settles(d)
      BY <1>1, <2>2, <3>1, OneSettles DEF Grows, Steps, BackupSteps, Dumped
    <3>4. Content' \in moments' /\ bundles' \subseteq moments'
      BY <2>2, <3>1, <3>2 DEF BackupInv
    <3>5. QED
      BY <3>3, <3>4, SettledKeeps DEF BackupInv
  <2>3. QED
    BY <1>3, <2>1, <2>2 DEF ApplyMigrations
<1>4. QED
  BY <1>2, <1>3

LEMMA BackupStep == BackupInv /\ OwnInv' /\ [Next]_vars => BackupInv'
<1> SUFFICES ASSUME BackupInv, OwnInv', [Next]_vars PROVE BackupInv'
  OBVIOUS
<1>1. RuntimeTypeInv'
  BY DEF OwnInv
<1>2. ASSUME NEW c \in Commands, CommandStep(c) PROVE BackupInv'
  BY <1>1, <1>2, BackupSettles, OtherSettles, NotedBackup, PromotedBackup, WritesBackup DEF CommandStep
<1>3. ASSUME UNCHANGED <<cmd, store, bundles>> PROVE BackupInv'
  BY <1>1, <1>3, SettledSteps DEF Settles
<1>4. QED
  BY <1>1, <1>2, <1>3, WritesBackup DEF Next, Exit, Stranger, Listen, GroupGone, vars, store

\* The dump and the raw archive of a promoted bundle are from one moment, although the
\* application may have been started during the backup (create_verified_backup).
THEOREM BundleIsOneMomentTheorem == Spec => []BundleIsOneMoment
<1>1. Init => OwnInv /\ BackupInv
  BY RuntimeInitHolds
<1>2. BackupInv => BundleIsOneMoment
  BY DEF BackupInv, BundleIsOneMoment
<1>3. QED
  BY <1>1, <1>2, OwnStep, BackupStep, PTL DEF Spec

\* A database that is behind is migrated only when a verified bundle holds exactly what
\* it holds (prepare_backend: backup_before_migration, then apply_migrations).
THEOREM MigrationIsBackedTheorem == Spec => MigrationIsBacked
<1>1. Init => OwnInv /\ BackupInv
  BY RuntimeInitHolds
<1>2. ASSUME BackupInv, [Next]_vars
      PROVE  [db.rev = "old" /\ db'.rev = "head" =>
                \E b \in bundles : b.rev = "old" /\ b.ver = db.ver /\ b.rows = db.rows]_vars
  <2> SUFFICES ASSUME db.rev = "old", db'.rev = "head"
               PROVE  \E b \in bundles : b.rev = "old" /\ b.ver = db.ver /\ b.rows = db.rows
    OBVIOUS
  <2>1. db' # db
    OBVIOUS
  <2>2. PICK c \in Commands : ApplyMigrations(c)
    <3>1. ASSUME NEW c \in Commands, CommandStep(c) PROVE ApplyMigrations(c)
      BY <1>2, <2>1, <3>1 DEF CommandStep, MakeLocal, MakeLocalBackend, MakeLocalStop, MakeLocalBackup,
           Begin, CheckRecordForRun, StopRecordedRuntime, StopWait, ReconcileWait, CheckPorts,
           EnsureDatabase, PreMigrationBackup, BackupPorts, PgDump, SourceSnapshot, StartCluster,
           RestoreAndCompareDatabase, ArchiveRawStorage, RescanAndPromote, BackupFails, SpawnBackend,
           BackendOnlyEnds, RecordBackend, RecordFrontend, WriteRuntimeState, BackendHealthy,
           WebHealthy, SuperviseEnds, TerminateChildren, ReleaseRecord, Kill, BackupFrame, RunFrame,
           store
    <3>2. ~AppWrites
      BY DEF AppWrites
    <3>3. QED
      BY <1>2, <2>1, <3>1, <3>2 DEF Next, Exit, Stranger, Listen, GroupGone, vars, store
  <2>3. cmd[c].pc = "migrate" /\ PreparedInv(c)
    BY <1>2, <2>2 DEF ApplyMigrations, BackupInv
  <2>4. QED
    BY <2>3 DEF PreparedInv, Backed
<1>3. QED
  BY <1>1, <1>2, OwnStep, BackupStep, PTL DEF Spec, MigrationIsBacked

-----------------------------------------------------------------------------
(* Offsite backups.                                                        *)

Copies == [bundle : Nat, at : Nat]

\* Copies are told apart by their bundles, and none is from the future.
CopyInv ==
    /\ day \in Nat /\ local \in Int /\ local <= day
    /\ receipt \subseteq Copies /\ IsFiniteSet(receipt)
    /\ \A r \in receipt : r.at <= day /\ r.bundle <= local
    /\ \A r, s \in receipt : r.bundle = s.bundle => r = s

\* The last completed export is the newest copy.
LastInv ==
    IF last = NoCopy THEN receipt = {}
    ELSE /\ last \in receipt /\ last.bundle \in artifact
         /\ \A r \in receipt \ {last} : Newer(last, r)

Exports == [op : {"encrypt", "verify"}, bundle : Nat]
Prunes == [op : {"unlink"}, policy : Policies, left : SUBSET Copies]
Unlinks == [op : {"unlinkReceipt"}, policy : Policies, left : SUBSET Copies, item : Copies]

\* The copies that a prune has still to take away.
Going == IF task.op = "unlink" THEN task.left ELSE task.left \cup {task.item}

\* K has a copy of each day, and of each week, that the policy promises and S has.
KeepsDays(policy, S, K) ==
    \A r \in S : day - r.at < policy.daily => \E s \in K : s.at = r.at

KeepsWeeks(policy, S, K) ==
    \A r \in S : WeekOf(day) - WeekOf(r.at) < policy.weekly =>
        \E s \in K : WeekOf(s.at) = WeekOf(r.at)

\* An export is of a bundle without a receipt; a prune takes away copies but not
\* the last export.
TaskInv ==
    \/ task = NoTask
    \/ /\ task \in Exports /\ task.bundle = local /\ \A r \in receipt : r.bundle # local
       /\ task.op = "verify" => local \in artifact
    \/ task \in Prunes /\ task.left \subseteq receipt /\ last \notin task.left
    \/ /\ task \in Unlinks /\ task.left \cup {task.item} \subseteq receipt
       /\ task.item \notin task.left /\ last \notin task.left /\ last # task.item

\* What a prune leaves alone is complete, and as much as its policy promises.
PruneInv ==
    Pruning =>
        /\ \A r \in receipt \ Going : r.bundle \in artifact
        /\ KeepsDays(task.policy, receipt, receipt \ Going)
        /\ KeepsWeeks(task.policy, receipt, receipt \ Going)

OffsiteInv == CopyInv /\ LastInv /\ TaskInv /\ PruneInv

-----------------------------------------------------------------------------
(* Retention: what one prune keeps.                                        *)

\* Of any copies one is the newest.
LEMMA NewestIs ==
    ASSUME CopyInv, NEW S \in SUBSET receipt, S # {}
    PROVE  Newest(S) \in S /\ \A r \in S \ {Newest(S)} : Newer(Newest(S), r)
<1>1. /\ day \in Nat /\ local \in Int /\ \A r \in S : r \in Copies /\ r.at <= day /\ r.bundle <= local
      /\ \A r, s \in S : r.bundle = s.bundle => r = s
  BY DEF CopyInv
<1> DEFINE DaysAgo == {day - r.at : r \in S}
<1>2. DaysAgo \subseteq Nat /\ DaysAgo # {}
  BY <1>1 DEF Copies
<1>3. PICK a \in DaysAgo : \A b \in DaysAgo : a <= b
  <2> HIDE DEF DaysAgo
  <2>1. QED
    BY <1>2, LeastNumber
<1> DEFINE Gaps == {local - r.bundle : r \in {r \in S : day - r.at = a}}
<1>4. Gaps \subseteq Nat /\ Gaps # {}
  BY <1>1, <1>3 DEF Copies
<1>5. PICK g \in Gaps : \A h \in Gaps : g <= h
  <2> HIDE DEF Gaps
  <2>1. QED
    BY <1>4, LeastNumber
<1>6. PICK n \in S : day - n.at = a /\ local - n.bundle = g
  BY <1>5
<1>7. ASSUME NEW r \in S, r # n PROVE Newer(n, r)
  <2>1. a <= day - r.at
    BY <1>3
  <2>2. day - r.at = a => g <= local - r.bundle
    BY <1>5
  <2>3. n.bundle # r.bundle
    BY <1>1, <1>7
  <2>4. /\ n.at \in Nat /\ r.at \in Nat /\ n.bundle \in Nat /\ r.bundle \in Nat
    BY <1>1 DEF Copies
  <2>5. QED
    BY <1>1, <1>6, <2>1, <2>2, <2>3, <2>4 DEF Newer
<1>8. QED
  BY <1>6, <1>7 DEF Newest

\* Weeks follow each other.
LEMMA WeeksAre ==
    ASSUME NEW d \in Nat, NEW e \in Nat, d <= e
    PROVE  /\ WeekOf(d) \in Nat /\ WeekOf(d) <= WeekOf(e)
           /\ \A k \in Nat : WeekOf(e) - WeekOf(d) < k => e - d <= k * WeekDays
<1>1. WeekDays \in Nat \ {0}
  BY OffsiteAssumption
<1> DEFINE w == d \div WeekDays
           x == e \div WeekDays
<1>2. /\ w \in Nat /\ w * WeekDays <= d /\ d < (w + 1) * WeekDays
      /\ x \in Nat /\ x * WeekDays <= e /\ e < (x + 1) * WeekDays
  BY <1>1
<1> HIDE DEF w, x
<1>3. w <= x
  <2>1. ASSUME x + 1 <= w PROVE FALSE
    <3>1. (x + 1) * WeekDays <= w * WeekDays
      BY <1>1, <1>2, <2>1
    <3>2. QED
      BY <1>1, <1>2, <3>1
  <2>2. QED
    BY <1>2, <2>1
<1>4. ASSUME NEW k \in Nat, x - w < k PROVE e - d <= k * WeekDays
  <2>1. x + 1 <= w + k
    BY <1>2, <1>4
  <2>2. (x + 1) * WeekDays <= (w + k) * WeekDays
    BY <1>1, <1>2, <2>1
  <2>3. (w + k) * WeekDays = w * WeekDays + k * WeekDays
    BY <1>1, <1>2
  <2>4. w * WeekDays \in Nat /\ k * WeekDays \in Nat /\ (x + 1) * WeekDays \in Nat
    BY <1>1, <1>2
  <2>5. QED
    BY <1>2, <2>2, <2>3, <2>4
<1>5. QED
  BY <1>2, <1>3, <1>4 DEF w, x, WeekOf

TierSets(S) == [keep : SUBSET S, daily : SUBSET Nat, weekly : SUBSET Nat, monthly : SUBSET Nat]

\* What the tiers have taken of the copies in S is what they promise of them.
TierInv(t, policy, S) ==
    /\ t \in TierSets(S)
    /\ \A d \in t.daily : \E s \in t.keep : s.at = d
    /\ \A w \in t.weekly : \E s \in t.keep : WeekOf(s.at) = w
    /\ KeepsDays(policy, S, t.keep) /\ KeepsWeeks(policy, S, t.keep)

LEMMA PolicyIs ==
    ASSUME NEW policy \in Policies
    PROVE  /\ policy.daily \in Nat /\ policy.weekly \in Nat /\ policy.monthly \in Nat
           /\ policy.daily + policy.weekly * WeekDays \in Nat
<1>1. /\ policy.daily \in Nat /\ policy.weekly \in Nat /\ policy.monthly \in Nat
      /\ WeekDays \in Nat
  BY OffsiteAssumption
<1>2. QED
  BY <1>1

LEMMA AtLeastOne ==
    ASSUME NEW n \in Nat
    PROVE  Max({n, 1}) \in Nat /\ n <= Max({n, 1})
<1>1. \E x \in {n, 1} : \A y \in {n, 1} : x >= y
  OBVIOUS
<1>2. QED
  BY <1>1 DEF Max

\* The periods of newer copies that are later than w, and no later than now.
LEMMA RoomIsLeft ==
    ASSUME NEW T, NEW w \in Nat, NEW now \in Nat, NEW room \in Nat,
           \A p \in T : p \in Nat /\ w < p /\ p <= now, w <= now, now - w < room
    PROVE  Cardinality(T) < room
<1>1. T \subseteq (w + 1)..now
  OBVIOUS
<1>2. IsFiniteSet((w + 1)..now) /\ Cardinality((w + 1)..now) = IF w + 1 > now THEN 0 ELSE now - (w + 1) + 1
  BY FS_Interval
<1>3. Cardinality(T) <= Cardinality((w + 1)..now) /\ Cardinality(T) \in Nat
  BY <1>1, <1>2, FS_Subset, FS_CardinalityType
<1>4. QED
  BY <1>2, <1>3

\* A copy that is older than those in S is offered.
LEMMA VisitKeeps ==
    ASSUME CopyInv, NEW policy \in Policies, NEW S \in SUBSET receipt, NEW item \in receipt,
           \A r \in S : item.at <= r.at, NEW t, TierInv(t, policy, S)
    PROVE  TierInv(Visit(t, item, day, policy), policy, S \cup {item})
<1> DEFINE V == S \cup {item}
           d == item.at
           a == Visit(t, item, day, policy)
<1>1. /\ day \in Nat /\ d \in Nat /\ d <= day /\ \A r \in V : r.at \in Nat /\ r.at <= day /\ d <= r.at
  BY DEF CopyInv, Copies
<1>2. /\ policy.daily \in Nat /\ policy.weekly \in Nat /\ policy.monthly \in Nat
  BY PolicyIs
<1>3. /\ WeekOf(d) \in Nat /\ MonthOf(d) \in Nat /\ WeekOf(day) \in Nat
      /\ \A r \in V : WeekOf(r.at) \in Nat /\ WeekOf(d) <= WeekOf(r.at) /\ WeekOf(r.at) <= WeekOf(day)
  <2>1. MonthOf(d) \in Nat
    BY <1>1, OffsiteAssumption DEF MonthOf
  <2>2. QED
    BY <1>1, <2>1, WeeksAre
<1>4. t \in TierSets(V) /\ t \in TierSets(S)
  BY DEF TierInv, TierSets
<1>5. /\ \A e \in t.daily : e \in Nat /\ d <= e /\ e <= day
      /\ \A w \in t.weekly : w \in Nat /\ WeekOf(d) <= w /\ w <= WeekOf(day)
  <2>1. t.keep \subseteq S
    BY <1>4 DEF TierSets
  <2>2. QED
    BY <1>1, <1>3, <2>1 DEF TierInv
\* What TierInv needs of what the copy was offered to.
<1>6. ASSUME NEW b \in TierSets(V), t.keep \subseteq b.keep,
             b.daily = t.daily \/ (b.daily = t.daily \cup {d} /\ item \in b.keep),
             b.weekly = t.weekly \/ (b.weekly = t.weekly \cup {WeekOf(d)} /\ item \in b.keep),
             d \in t.daily \/ item \in b.keep \/ policy.daily <= day - d,
             \/ d \in t.daily \/ WeekOf(d) \in t.weekly \/ item \in b.keep
             \/ policy.weekly <= WeekOf(day) - WeekOf(d)
      PROVE  TierInv(b, policy, V)
  <2>1. \A e \in b.daily : \E s \in b.keep : s.at = e
    BY <1>6 DEF TierInv
  <2>2. \A w \in b.weekly : \E s \in b.keep : WeekOf(s.at) = w
    BY <1>6 DEF TierInv
  <2>3. KeepsDays(policy, V, b.keep)
    <3>1. ASSUME day - d < policy.daily PROVE \E s \in b.keep : s.at = d
      BY <1>1, <1>2, <1>6, <3>1 DEF TierInv
    <3>2. QED
      BY <1>6, <3>1 DEF TierInv, KeepsDays
  <2>4. KeepsWeeks(policy, V, b.keep)
    <3>1. ASSUME WeekOf(day) - WeekOf(d) < policy.weekly
          PROVE \E s \in b.keep : WeekOf(s.at) = WeekOf(d)
      <4>1. ~(policy.weekly <= WeekOf(day) - WeekOf(d))
        BY <1>2, <1>3, <3>1
      <4>2. QED
        BY <1>6, <4>1 DEF TierInv
    <3>2. QED
      BY <1>6, <3>1 DEF TierInv, KeepsWeeks
  <2>5. QED
    BY <1>6, <2>1, <2>2, <2>3, <2>4 DEF TierInv
<1>7. ASSUME d \notin t.daily, day - d < policy.daily PROVE Cardinality(t.daily) < policy.daily
  <2>1. \A e \in t.daily : e \in Nat /\ d < e /\ e <= day
    BY <1>1, <1>5, <1>7
  <2>2. QED
    BY <1>1, <1>2, <1>7, <2>1, RoomIsLeft
<1>8. ASSUME WeekOf(d) \notin t.weekly, WeekOf(day) - WeekOf(d) < policy.weekly
      PROVE  Cardinality(t.weekly) < policy.weekly
  <2>1. \A w \in t.weekly : w \in Nat /\ WeekOf(d) < w /\ w <= WeekOf(day)
    BY <1>3, <1>5, <1>8
  <2>2. QED
    BY <1>2, <1>3, <1>8, <2>1, RoomIsLeft
<1>9. item \in V
  OBVIOUS
<1>10. CASE DailyTier(t, d, day, policy)
  <2> DEFINE b == Offer(t, "daily", d, policy.daily, item)
  <2>1. a = b
    BY <1>1, <1>10 DEF Visit
  <2>2. /\ b \in TierSets(V) /\ t.keep \subseteq b.keep /\ b.weekly = t.weekly
        /\ b = t \/ (b["daily"] = t["daily"] \cup {d} /\ item \in b.keep)
        /\ d \notin t["daily"] /\ Cardinality(t["daily"]) < policy.daily => item \in b.keep
    <3>1. b = Offer(t, "daily", d, policy.daily, item)
      OBVIOUS
    <3> HIDE DEF b, V
    <3>2. QED
      BY <1>1, <1>2, <1>4, <1>9, <3>1 DEF Offer, TierSets
  <2>3. d \in t.daily \/ Cardinality(t.daily) < policy.daily
    BY <1>10 DEF DailyTier
  <2>4. TierInv(b, policy, V)
    <3> HIDE DEF b, d, V
    <3>1. QED
      BY <1>6, <2>2, <2>3
  <2>5. QED
    BY <2>1, <2>4
<1>11. CASE ~DailyTier(t, d, day, policy)
  <2>1. d \notin t.daily => policy.daily <= day - d
    <3>1. policy.daily <= Max({policy.daily, 1}) /\ Max({policy.daily, 1}) \in Nat
      BY <1>2, AtLeastOne
    <3>2. QED
      BY <1>1, <1>2, <1>7, <1>11, <3>1 DEF DailyTier
  <2>2. CASE InWeeklyWindow(d, day, policy)
    <3> DEFINE b == Offer(t, "weekly", WeekOf(d), policy.weekly, item)
    <3>1. a = b
      BY <1>1, <1>11, <2>2 DEF Visit
    <3>2. /\ b \in TierSets(V) /\ t.keep \subseteq b.keep /\ b.daily = t.daily
          /\ b = t \/ (b["weekly"] = t["weekly"] \cup {WeekOf(d)} /\ item \in b.keep)
          /\ WeekOf(d) \notin t["weekly"] /\ Cardinality(t["weekly"]) < policy.weekly =>
                item \in b.keep
      <4>1. b = Offer(t, "weekly", WeekOf(d), policy.weekly, item)
        OBVIOUS
      <4> HIDE DEF b, V
      <4>2. QED
        BY <1>2, <1>3, <1>4, <1>9, <4>1 DEF Offer, TierSets
    <3>3. WeekOf(d) \in t.weekly \/ item \in b.keep \/ policy.weekly <= WeekOf(day) - WeekOf(d)
      BY <1>2, <1>3, <1>8, <3>2
    <3>4. TierInv(b, policy, V)
      <4> HIDE DEF b, d, V
      <4>1. QED
        BY <1>6, <2>1, <3>2, <3>3
    <3>5. QED
      BY <3>1, <3>4
  <2>3. CASE ~InWeeklyWindow(d, day, policy)
    <3> DEFINE b == Offer(t, "monthly", MonthOf(d), policy.monthly, item)
    <3>1. a = b
      BY <1>1, <1>11, <2>3 DEF Visit
    <3>2. /\ b \in TierSets(V) /\ t.keep \subseteq b.keep /\ b.daily = t.daily
          /\ b.weekly = t.weekly
      <4>1. b = Offer(t, "monthly", MonthOf(d), policy.monthly, item)
        OBVIOUS
      <4> HIDE DEF b, V
      <4>2. QED
        BY <1>2, <1>3, <1>4, <1>9, <4>1 DEF Offer, TierSets
    <3>3. policy.weekly <= WeekOf(day) - WeekOf(d)
      <4>1. ASSUME WeekOf(day) - WeekOf(d) < policy.weekly PROVE FALSE
        <5> DEFINE w == policy.weekly * WeekDays
        <5>1. day - d <= w
          BY <1>1, <1>2, <4>1, WeeksAre
        <5>2. policy.daily + w \in Nat /\ w \in Nat
          BY PolicyIs, <1>2, OffsiteAssumption
        <5>3. policy.daily + w <= Max({policy.daily + w, 1}) /\ Max({policy.daily + w, 1}) \in Nat
          BY <5>2, AtLeastOne
        <5>4. ~(day - d <= Max({policy.daily + w, 1}))
          BY <2>3 DEF InWeeklyWindow
        <5> HIDE DEF w
        <5>5. QED
          BY <1>1, <1>2, <5>1, <5>2, <5>3, <5>4
      <4>2. QED
        BY <1>2, <1>3, <4>1
    <3>4. TierInv(b, policy, V)
      <4> HIDE DEF b, d, V
      <4>1. QED
        BY <1>6, <2>1, <3>2, <3>3
    <3>5. QED
      BY <3>1, <3>4
  <2>4. QED
    BY <2>2, <2>3
<1>12. QED
  BY <1>10, <1>11

\* The copies offered so far are newer than those that are left.
RoundInv(policy, s) ==
    /\ s.left \subseteq receipt
    /\ \A r \in receipt \ s.left, i \in s.left : i.at <= r.at
    /\ TierInv(s.tiers, policy, receipt \ s.left)

LEMMA RoundKeeps ==
    ASSUME CopyInv, NEW policy \in Policies, NEW s, RoundInv(policy, s), s.left # {}
    PROVE  LET a == Round(s, policy, day) IN
           /\ RoundInv(policy, a)
           /\ a \in [tiers : TierSets(receipt), left : SUBSET receipt]
           /\ Cardinality(a.left) = Cardinality(s.left) - 1
<1> DEFINE new == Newest(s.left)
           a == Round(s, policy, day)
           S == receipt \ s.left
<1>1. s.left \in SUBSET receipt /\ TierInv(s.tiers, policy, S)
  BY DEF RoundInv
<1>2. new \in s.left /\ \A r \in s.left \ {new} : Newer(new, r)
  BY <1>1, NewestIs
<1>3. a.tiers = Visit(s.tiers, new, day, policy) /\ a.left = s.left \ {new}
  BY DEF Round
<1>4. a = [tiers |-> a.tiers, left |-> a.left]
  BY DEF Round
<1> HIDE DEF new, a
<1>5. \A r \in S : new.at <= r.at
  BY <1>2 DEF RoundInv
<1>6. new \in receipt /\ S \in SUBSET receipt /\ receipt \ a.left = S \cup {new}
  BY <1>1, <1>2, <1>3
<1> HIDE DEF S
<1>7. TierInv(a.tiers, policy, S \cup {new})
  BY <1>1, <1>3, <1>5, <1>6, VisitKeeps
<1>8. \A r \in S \cup {new}, i \in a.left : i.at <= r.at
  <2>1. ASSUME NEW i \in a.left PROVE i.at <= new.at
    <3>1. Newer(new, i) /\ i \in receipt
      BY <1>1, <1>2, <1>3
    <3>2. new.at \in Nat /\ i.at \in Nat
      BY <1>6, <3>1 DEF CopyInv, Copies
    <3>3. QED
      BY <3>1, <3>2 DEF Newer
  <2>2. \A r \in S, i \in a.left : i.at <= r.at
    BY <1>3 DEF RoundInv, S
  <2>3. QED
    BY <2>1, <2>2
<1>9. RoundInv(policy, a)
  BY <1>1, <1>3, <1>6, <1>7, <1>8 DEF RoundInv
<1>10. a \in [tiers : TierSets(receipt), left : SUBSET receipt]
  <2>1. a.tiers \in TierSets(receipt)
    BY <1>6, <1>7 DEF TierInv, TierSets
  <2>2. a.left \in SUBSET receipt
    BY <1>1, <1>3
  <2>3. QED
    BY <1>4, <2>1, <2>2
<1>11. Cardinality(a.left) = Cardinality(s.left) - 1
  <2>1. IsFiniteSet(s.left)
    BY <1>1, FS_Subset DEF CopyInv
  <2>2. QED
    BY <1>2, <1>3, <2>1, FS_RemoveElement
<1>12. QED
  BY <1>9, <1>10, <1>11 DEF a

\* The tiers keep copies, and a copy of each day and of each week that is promised.
LEMMA KeptIs ==
    ASSUME CopyInv, NEW policy \in Policies
    PROVE  LET kept == KeptByTiers(receipt, policy, day) IN
           /\ kept \subseteq receipt
           /\ KeepsDays(policy, receipt, kept) /\ KeepsWeeks(policy, receipt, kept)
<1> DEFINE n == Cardinality(receipt)
           start == [tiers |-> NoTiers, left |-> receipt]
           Next1(s) == Round(s, policy, day)
           Body(f) == [k \in 0..n |-> IF k = 0 THEN start ELSE Next1(f[k - 1])]
           F == CHOOSE f : f = Body(f)
           S == {s \in [tiers : TierSets(receipt), left : SUBSET receipt] : RoundInv(policy, s)}
<1>1. KeptByTiers(receipt, policy, day) = F[n].tiers.keep
  BY Zenon DEF KeptByTiers
<1>2. IsFiniteSet(receipt) /\ n \in Nat
  BY FS_CardinalityType DEF CopyInv
<1>3. start \in S /\ Cardinality(start.left) = n
  <2>1. NoTiers \in TierSets(receipt) /\ TierInv(NoTiers, policy, {})
    BY DEF NoTiers, TierSets, TierInv, KeepsDays, KeepsWeeks
  <2>2. start \in [tiers : TierSets(receipt), left : SUBSET receipt]
    BY <2>1
  <2>3. receipt \ start.left = {} /\ start.tiers = NoTiers
    OBVIOUS
  <2>4. QED
    BY <2>1, <2>2, <2>3 DEF RoundInv
<1>4. ASSUME NEW s \in S, s.left # {}
      PROVE  Next1(s) \in S /\ Cardinality(Next1(s).left) = Cardinality(s.left) - 1
  BY <1>4, RoundKeeps
<1> HIDE DEF Next1, start
<1> DEFINE step == [i \in 1..n |-> [s \in S |-> IF s.left = {} THEN s ELSE Next1(s)]]
<1>5. step \in [1..n -> [S -> S]]
  BY <1>4
<1>6. PICK f : Computes(f, n, S, start, step)
  <2> HIDE DEF step, n, S
  <2>1. QED
    BY <1>2, <1>3, <1>5, RecursionUpTo, Zenon
<1>7. /\ f \in [0..n -> S] /\ f[0] = start
      /\ \A i \in 1..n : f[i - 1] \in S /\ f[i] = IF f[i - 1].left = {} THEN f[i - 1] ELSE Next1(f[i - 1])
  <2>1. f \in [0..n -> S] /\ f[0] = start /\ \A i \in 1..n : f[i] = step[i][f[i - 1]]
    BY <1>6 DEF Computes
  <2>2. \A i \in 1..n : f[i - 1] \in S
    <3>1. \A i \in 1..n : i - 1 \in 0..n
      BY <1>2
    <3> HIDE DEF step, n, S
    <3>2. QED
      BY <2>1, <3>1
  <2> HIDE DEF S, n
  <2>3. QED
    BY <2>1, <2>2
<1> DEFINE G == {i \in 0..n : Cardinality(f[i].left) = n - i}
<1>8. 0 \in G
  BY <1>2, <1>3, <1>7
<1>9. ASSUME NEW i \in 1..n, i - 1 \in G PROVE i \in G /\ f[i] = Next1(f[i - 1])
  <2>1. i - 1 \in 0..n /\ i \in 0..n /\ Cardinality(f[i - 1].left) = n - i + 1
    BY <1>2, <1>9
  <2>2. f[i - 1] \in S /\ f[i - 1].left # {}
    <3>1. f[i - 1] \in S
      BY <1>7
    <3>2. n - i + 1 # 0
      BY <1>2
    <3> HIDE DEF n, S
    <3>3. QED
      BY <2>1, <3>1, <3>2, FS_EmptySet
  <2>3. f[i] = Next1(f[i - 1])
    BY <1>7, <2>2
  <2>4. Cardinality(f[i].left) = n - i
    BY <1>2, <1>4, <2>1, <2>2, <2>3
  <2>5. QED
    BY <2>1, <2>3, <2>4
<1>10. \A i \in 0..n : i \in G
  <2> HIDE DEF G, n
  <2>1. 0..n \subseteq G
    BY <1>2, <1>8, <1>9, InductionUpTo
  <2>2. QED
    BY <2>1
<1>11. f = Body(f)
  <2>1. ASSUME NEW i \in 1..n PROVE f[i] = Next1(f[i - 1])
    <3>1. i - 1 \in 0..n
      BY <1>2
    <3> HIDE DEF G
    <3>2. QED
      BY <1>9, <1>10, <3>1
  <2> HIDE DEF G, S
  <2>2. QED
    BY <1>2, <1>7, <2>1
<1>12. F = Body(F)
  BY <1>11
<1> HIDE DEF F
<1>13. F[0] = start /\ \A i \in 1..n : F[i] = Next1(F[i - 1])
  <2>1. \A i \in 0..n : F[i] = IF i = 0 THEN start ELSE Next1(F[i - 1])
    BY <1>12, Zenon
  <2>2. QED
    BY <1>2, <2>1
<1> DEFINE H == {i \in 0..n : F[i] \in S /\ Cardinality(F[i].left) = n - i}
<1>14. 0 \in H
  BY <1>2, <1>3, <1>13
<1>15. ASSUME NEW i \in 1..n, i - 1 \in H PROVE i \in H
  <2>1. i - 1 \in 0..n /\ i \in 0..n /\ Cardinality(F[i - 1].left) = n - i + 1 /\ F[i - 1] \in S
    BY <1>2, <1>15
  <2>2. F[i - 1].left # {}
    BY <1>2, <2>1, FS_EmptySet
  <2>3. F[i] \in S /\ Cardinality(F[i].left) = n - i
    BY <1>2, <1>4, <1>13, <2>1, <2>2
  <2>4. QED
    BY <2>1, <2>3
<1>16. F[n] \in S /\ F[n].left = {}
  <2>1. n \in H
    <3> HIDE DEF H, n
    <3>1. 0..n \subseteq H
      BY <1>2, <1>14, <1>15, InductionUpTo
    <3>2. QED
      BY <1>2, <3>1
  <2>2. F[n] \in S /\ Cardinality(F[n].left) = 0 /\ F[n].left \subseteq receipt
    BY <1>2, <2>1
  <2>3. QED
    BY <1>2, <2>2, FS_EmptySet, FS_Subset
<1>17. TierInv(F[n].tiers, policy, receipt)
  <2>1. TierInv(F[n].tiers, policy, receipt \ {})
    BY <1>16 DEF RoundInv
  <2>2. QED
    BY <2>1
<1> HIDE DEF n
<1>18. QED
  BY <1>1, <1>17 DEF TierInv, TierSets

-----------------------------------------------------------------------------
(* The commands.                                                           *)

LEMMA OffsiteInitHolds == OffsiteInit => OffsiteInv
<1> SUFFICES ASSUME OffsiteInit PROVE OffsiteInv
  OBVIOUS
<1>1. CopyInv /\ LastInv /\ TaskInv
  BY FS_EmptySet DEF OffsiteInit, CopyInv, LastInv, TaskInv, NoTask
<1>2. PruneInv
  BY DEF OffsiteInit, NoTask, PruneInv, Pruning
<1>3. QED
  BY <1>1, <1>2 DEF OffsiteInv

\* The backup that _retained_backup_paths starts from is the last export.
LEMMA NewestIsLast ==
    ASSUME CopyInv, LastInv, last # NoCopy
    PROVE  Newest(receipt) = last
<1>1. last \in receipt /\ \A j \in receipt \ {last} : Newer(last, j)
  BY DEF LastInv
<1>2. ASSUME NEW i \in receipt, \A j \in receipt \ {i} : Newer(i, j), i # last PROVE FALSE
  <2>1. Newer(i, last) /\ Newer(last, i)
    BY <1>1, <1>2
  <2>2. i \in [bundle : Int, at : Nat] /\ last \in [bundle : Int, at : Nat]
    BY <1>1 DEF CopyInv, Copies
  <2>3. QED
    BY <2>1, <2>2 DEF Newer
<1>3. QED
  BY <1>1, <1>2 DEF Newest

\* Commands that touch neither a copy nor the task, and the end of a command.
LEMMA NoCopyTouched ==
    ASSUME OffsiteInv, UNCHANGED <<artifact, receipt, last>>,
           \/ UNCHANGED <<task, local, day>>
           \/ UNCHANGED <<local, day>> /\ task' = NoTask
           \/ task' = NoTask /\ local' \in Int /\ day' \in Nat /\ local <= local' /\ day <= day' /\ local' <= day'
    PROVE  OffsiteInv'
<1>1. day \in Nat /\ local \in Int /\ local <= day
  BY DEF OffsiteInv, CopyInv
<1>2. day' \in Nat /\ local' \in Int /\ local <= local' /\ day <= day' /\ local' <= day'
  BY <1>1
<1>3. CopyInv'
  <2>1. ASSUME NEW r \in receipt PROVE r.at <= day' /\ r.bundle <= local'
    BY <1>1, <1>2 DEF OffsiteInv, CopyInv, Copies
  <2>2. QED
    BY <1>2, <2>1 DEF OffsiteInv, CopyInv
<1>4. LastInv'
  BY DEF OffsiteInv, LastInv
<1>5. TaskInv'
  BY DEF OffsiteInv, TaskInv
<1>6. PruneInv'
  <2>1. CASE UNCHANGED <<task, day>>
    BY <2>1 DEF OffsiteInv, PruneInv, Pruning, Going, KeepsDays, KeepsWeeks
  <2>2. CASE task' = NoTask
    BY <2>2 DEF NoTask, PruneInv, Pruning
  <2>3. QED
    BY <2>1, <2>2
<1>7. QED
  BY <1>3, <1>4, <1>5, <1>6 DEF OffsiteInv

LEMMA ExportKeeps ==
    ASSUME OffsiteInv, ExportBegin \/ ExportEncrypt \/ ExportVerified \/ ExportFails
    PROVE  OffsiteInv'
<1>1. CopyInv /\ LastInv /\ TaskInv
  BY DEF OffsiteInv
<1>2. UNCHANGED <<day, local>> /\ PruneInv'
  <2>1. UNCHANGED <<day, local>>
    BY DEF ExportBegin, ExportEncrypt, ExportVerified, ExportFails, Frame
  <2>2. CASE task' = NoTask \/ task' = [op |-> "encrypt", bundle |-> local]
    BY <2>1, <2>2 DEF NoTask, PruneInv, Pruning
  <2>3. CASE ExportEncrypt
    <3>1. task \in Exports /\ task' = [task EXCEPT !.op = "verify"]
      BY <1>1, <2>3 DEF ExportEncrypt, TaskInv, NoTask, Prunes, Unlinks
    <3>2. task'.op = "verify"
      BY <3>1 DEF Exports
    <3>3. QED
      BY <2>1, <3>2 DEF PruneInv, Pruning
  <2>4. QED
    BY <2>1, <2>2, <2>3 DEF ExportBegin, ExportVerified, ExportFails
<1>3. CASE ExportBegin
  <2>1. /\ task' = [op |-> "encrypt", bundle |-> local]
        /\ \A r \in receipt : r.bundle # local
        /\ UNCHANGED <<artifact, receipt, last>>
    BY <1>3 DEF ExportBegin, Frame
  <2>2. CopyInv' /\ LastInv'
    BY <1>1, <1>2, <2>1 DEF CopyInv, LastInv
  <2>3. TaskInv'
    BY <1>1, <1>2, <1>3, <2>1 DEF TaskInv, Exports, CopyInv, ExportBegin, LocalBundleVerified
  <2>4. QED
    BY <1>2, <2>2, <2>3 DEF OffsiteInv
<1>4. ASSUME task.op \in {"encrypt", "verify"}
      PROVE  /\ task \in Exports /\ task.bundle = local /\ \A r \in receipt : r.bundle # local
             /\ task.op = "verify" => local \in artifact
  BY <1>1, <1>4 DEF TaskInv, NoTask, Prunes, Unlinks
<1>5. CASE ExportEncrypt
  <2>1. /\ task.op = "encrypt" /\ task' = [task EXCEPT !.op = "verify"]
        /\ artifact' = artifact \cup {task.bundle} /\ UNCHANGED <<receipt, last>>
    BY <1>5 DEF ExportEncrypt, Frame
  <2>2. CopyInv' /\ LastInv'
    BY <1>1, <1>2, <2>1 DEF CopyInv, LastInv
  <2>3. task' \in Exports /\ task'.bundle = local
    BY <1>4, <2>1 DEF Exports
  <2>4. QED
    BY <1>2, <1>4, <2>1, <2>2, <2>3 DEF OffsiteInv, TaskInv
<1>6. CASE ExportFails
  <2>1. /\ task.op \in {"encrypt", "verify"} /\ task' = NoTask
        /\ artifact' = artifact \ {task.bundle} /\ UNCHANGED <<receipt, last>>
    BY <1>6 DEF ExportFails, Frame
  <2>2. LastInv'
    BY <1>1, <1>4, <2>1 DEF LastInv
  <2>3. CopyInv' /\ TaskInv'
    BY <1>1, <1>2, <2>1 DEF CopyInv, TaskInv
  <2>4. QED
    BY <1>2, <2>2, <2>3 DEF OffsiteInv
<1>7. CASE ExportVerified
  <2> DEFINE r == [bundle |-> local, at |-> day]
  <2>1. /\ task.op = "verify" /\ task' = NoTask /\ receipt' = receipt \cup {r}
        /\ last' = r /\ UNCHANGED artifact
    BY <1>4, <1>7 DEF ExportVerified, Frame
  <2>2. r \in Copies /\ r.at = day /\ r.bundle = local /\ r # NoCopy
    BY <1>1, <1>4, <2>1 DEF CopyInv, NoCopy, Copies, Exports
  <2> HIDE DEF r
  <2>3. ASSUME NEW s \in receipt PROVE Newer(r, s)
    BY <1>1, <1>4, <2>1, <2>2 DEF Newer, CopyInv, Copies
  <2>4. local \in artifact
    BY <2>1, <1>4
  <2>5. CopyInv'
    <3>1. IsFiniteSet(receipt')
      BY <1>1, <2>1, FS_AddElement DEF CopyInv
    <3>2. QED
      BY <1>1, <1>2, <1>4, <2>1, <2>2, <3>1 DEF CopyInv
  <2>6. LastInv'
    BY <2>1, <2>2, <2>3, <2>4 DEF LastInv, Newer
  <2>7. TaskInv'
    BY <2>1 DEF TaskInv
  <2>8. QED
    BY <1>2, <2>5, <2>6, <2>7 DEF OffsiteInv
<1>8. QED
  BY <1>3, <1>5, <1>6, <1>7

LEMMA PruneKeeps ==
    ASSUME OffsiteInv, (\E p \in Policies : PruneBegin(p)) \/ PruneArtifact \/ PruneReceipt
    PROVE  OffsiteInv'
<1>1. CopyInv /\ LastInv /\ TaskInv /\ PruneInv
  BY DEF OffsiteInv
<1>2. UNCHANGED <<day, local, last>>
  BY DEF PruneBegin, PruneArtifact, PruneReceipt, Frame
<1>3. NoCopy \notin receipt
  BY <1>1 DEF CopyInv, NoCopy, Copies
<1>4. CASE \E p \in Policies : PruneBegin(p)
  <2>1. PICK p \in Policies : PruneBegin(p)
    BY <1>4
  <2> DEFINE kept == RetainedBackupPaths(receipt, p, day)
             out == receipt \ kept
  <2>2. /\ out # {} /\ task' = [op |-> "unlink", policy |-> p, left |-> out]
        /\ UNCHANGED <<artifact, receipt>> /\ \A r \in receipt : r.bundle \in artifact
    BY <2>1 DEF PruneBegin, Loads, Frame
  <2>3. last # NoCopy => last \notin out
    BY <1>1, <2>2, NewestIsLast DEF RetainedBackupPaths
  <2>4. out \subseteq receipt
    OBVIOUS
  <2>5. KeepsDays(p, receipt, receipt \ out) /\ KeepsWeeks(p, receipt, receipt \ out)
    <3>1. KeptByTiers(receipt, p, day) \subseteq receipt \ out
      BY <1>1, <2>2, KeptIs DEF RetainedBackupPaths
    <3> HIDE DEF out
    <3>2. QED
      BY <1>1, <3>1, KeptIs DEF KeepsDays, KeepsWeeks
  <2> HIDE DEF out, kept
  <2>6. last \notin out
    BY <1>3, <2>3, <2>4
  <2>7. task' \in Prunes /\ task'.left = out /\ task'.policy = p /\ Going' = out
    BY <1>1, <2>2, <2>4 DEF Prunes, CopyInv, Going
  <2>8. CopyInv' /\ LastInv'
    BY <1>1, <1>2, <2>2 DEF CopyInv, LastInv
  <2>9. TaskInv'
    BY <1>2, <2>2, <2>4, <2>6, <2>7 DEF TaskInv
  <2>10. PruneInv'
    BY <1>2, <2>2, <2>5, <2>7 DEF PruneInv, KeepsDays, KeepsWeeks
  <2>11. QED
    BY <2>8, <2>9, <2>10 DEF OffsiteInv
<1>5. CASE PruneArtifact
  <2>1. /\ task \in Prunes /\ task.left \subseteq receipt /\ last \notin task.left
        /\ Pruning /\ Going = task.left
    BY <1>1, <1>5 DEF PruneArtifact, TaskInv, NoTask, Exports, Unlinks, Pruning, Going
  <2>2. PICK r \in task.left :
          /\ artifact' = artifact \ {r.bundle} /\ UNCHANGED receipt
          /\ task' = [op |-> "unlinkReceipt", policy |-> task.policy,
                      left |-> task.left \ {r}, item |-> r]
    BY <1>5 DEF PruneArtifact, Frame
  <2>3. LastInv'
    BY <1>1, <1>2, <2>1, <2>2 DEF LastInv, CopyInv
  <2>4. /\ task' \in Unlinks /\ task'.left = task.left \ {r} /\ task'.item = r
        /\ task'.policy = task.policy /\ task'.op = "unlinkReceipt"
    BY <2>1, <2>2 DEF Unlinks, Prunes
  <2>5. TaskInv'
    BY <1>2, <2>1, <2>2, <2>4 DEF TaskInv
  <2>6. CopyInv'
    BY <1>1, <1>2, <2>2 DEF CopyInv
  <2>7. Going' = Going
    BY <2>1, <2>2, <2>4 DEF Going
  <2>8. \A s \in receipt \ Going : s.bundle \in artifact'
    BY <1>1, <2>1, <2>2 DEF PruneInv, CopyInv
  <2>9. PruneInv'
    BY <1>1, <1>2, <2>1, <2>2, <2>4, <2>7, <2>8 DEF PruneInv, KeepsDays, KeepsWeeks
  <2>10. QED
    BY <2>3, <2>5, <2>6, <2>9 DEF OffsiteInv
<1>6. CASE PruneReceipt
  <2>1. /\ task \in Unlinks /\ task.left \cup {task.item} \subseteq receipt
        /\ task.item \notin task.left /\ last \notin task.left /\ last # task.item
        /\ Pruning /\ Going = task.left \cup {task.item}
    BY <1>1, <1>6 DEF PruneReceipt, TaskInv, NoTask, Exports, Prunes, Pruning, Going
  <2>2. /\ receipt' = receipt \ {task.item} /\ UNCHANGED artifact
        /\ task' = NoTask \/ task' = [op |-> "unlink", policy |-> task.policy, left |-> task.left]
    BY <1>6 DEF PruneReceipt, Frame
  <2>3. LastInv'
    BY <1>1, <1>2, <2>1, <2>2 DEF LastInv
  <2>4. ASSUME task' # NoTask
        PROVE  /\ task' \in Prunes /\ task'.left = task.left /\ task'.policy = task.policy
               /\ Going' = task.left
    BY <2>1, <2>2, <2>4 DEF Unlinks, Prunes, Going
  <2>5. TaskInv'
    BY <1>2, <2>1, <2>2, <2>4 DEF TaskInv
  <2>6. CopyInv'
    <3>1. IsFiniteSet(receipt')
      BY <1>1, <2>2, FS_RemoveElement DEF CopyInv
    <3>2. QED
      BY <1>1, <1>2, <2>2, <3>1 DEF CopyInv
  <2>7. PruneInv'
    <3>1. CASE task' = NoTask
      BY <3>1 DEF NoTask, PruneInv, Pruning
    <3>2. CASE task' # NoTask
      <4>1. receipt' \ Going' = receipt \ Going /\ task'.policy = task.policy
        BY <2>1, <2>2, <2>4, <3>2
      <4>2. receipt' \subseteq receipt
        BY <2>2
      <4>3. QED
        BY <1>1, <1>2, <2>1, <2>2, <4>1, <4>2 DEF PruneInv, KeepsDays, KeepsWeeks
    <3>3. QED
      BY <3>1, <3>2
  <2>8. QED
    BY <2>3, <2>5, <2>6, <2>7 DEF OffsiteInv
<1>7. QED
  BY <1>4, <1>5, <1>6

LEMMA OffsiteStep == OffsiteInv /\ [OffsiteNext]_offsiteVars => OffsiteInv'
<1> SUFFICES ASSUME OffsiteInv, [OffsiteNext]_offsiteVars PROVE OffsiteInv'
  OBVIOUS
<1>1. day \in Nat /\ local \in Int /\ local <= day
  BY DEF OffsiteInv, CopyInv
<1>2. CASE NextDay
  <2>1. day' = day + 1 /\ task' = NoTask /\ UNCHANGED <<local, artifact, receipt, last>>
    BY <1>2 DEF NextDay
  <2>2. QED
    BY <1>1, <2>1, NoCopyTouched
<1>3. CASE LocalBackup
  <2>1. local' = day /\ task' = NoTask /\ UNCHANGED <<day, artifact, receipt, last>>
    BY <1>3 DEF LocalBackup
  <2>2. QED
    BY <1>1, <2>1, NoCopyTouched
<1>4. CASE InitializeTarget \/ Drill \/ UNCHANGED offsiteVars
  BY <1>4, NoCopyTouched DEF InitializeTarget, Drill, Frame, offsiteVars
<1>5. CASE Interrupted
  BY <1>5, NoCopyTouched DEF Interrupted, Frame
<1>6. QED
  BY <1>2, <1>3, <1>4, <1>5, ExportKeeps, PruneKeeps DEF OffsiteNext

\* The newest copy whose export completed is on the target, its artifact and its
\* receipt, for every policy an operator prunes with, every calendar and every
\* point at which an export or a prune is killed.
THEOREM NewestSurvivesTheorem == OffsiteSpec => []NewestSurvives
<1>1. OffsiteInv => NewestSurvives
  BY DEF OffsiteInv, LastInv, NewestSurvives
<1>2. QED
  BY <1>1, OffsiteInitHolds, OffsiteStep, PTL DEF OffsiteSpec

-----------------------------------------------------------------------------
(* Recovery points.                                                        *)

\* Only a prune takes a complete copy away, and one that its policy can spare.
LEMMA PointsStep ==
    ASSUME OffsiteInv, [OffsiteNext]_offsiteVars
    PROVE  \/ Complete \subseteq Complete'
           \/ Pruning /\ receipt \ Going \subseteq Complete'
<1>1. CopyInv /\ TaskInv /\ PruneInv
  BY DEF OffsiteInv
<1>2. CASE receipt \subseteq receipt' /\ artifact \subseteq artifact'
  BY <1>2 DEF Complete
<1>3. CASE ExportFails
  <2>1. task.bundle = local /\ \A r \in receipt : r.bundle # local
    BY <1>1, <1>3 DEF ExportFails, TaskInv, NoTask, Prunes, Unlinks
  <2>2. QED
    BY <1>3, <2>1 DEF ExportFails, Frame, Complete
<1>4. CASE PruneArtifact
  <2>1. task.left \subseteq receipt /\ Pruning /\ Going = task.left
    BY <1>1, <1>4 DEF PruneArtifact, TaskInv, NoTask, Exports, Unlinks, Pruning, Going
  <2>2. PICK r \in task.left : artifact' = artifact \ {r.bundle} /\ UNCHANGED receipt
    BY <1>4 DEF PruneArtifact, Frame
  <2>3. QED
    BY <1>1, <2>1, <2>2 DEF PruneInv, CopyInv, Complete
<1>5. CASE PruneReceipt
  <2>1. Pruning /\ task.item \in Going /\ receipt' = receipt \ {task.item} /\ UNCHANGED artifact
    BY <1>5 DEF PruneReceipt, Frame, Pruning, Going
  <2>2. QED
    BY <1>1, <2>1 DEF PruneInv, Complete
<1>6. QED
  BY <1>2, <1>3, <1>4, <1>5
  DEF OffsiteNext, NextDay, InitializeTarget, LocalBackup, ExportBegin, ExportEncrypt,
      ExportVerified, Drill, PruneBegin, Interrupted, Frame, offsiteVars

\* No command loses the newest copy, nor the last complete copy of a day or of a week
\* that every prune's policy promises: for all policies, calendars and sets of copies,
\* and every point at which a command is killed.
THEOREM RecoveryPointsKeptTheorem == OffsiteSpec => RecoveryPointsKept
<1>1. OffsiteInv /\ [OffsiteNext]_offsiteVars =>
        [\A r \in Complete : NewestKept(r) /\ DayKept(r) /\ WeekKept(r)]_offsiteVars
  <2> SUFFICES ASSUME OffsiteInv, [OffsiteNext]_offsiteVars, NEW r \in Complete
               PROVE  NewestKept(r) /\ DayKept(r) /\ WeekKept(r)
    OBVIOUS
  <2>1. CASE Complete \subseteq Complete'
    BY <2>1 DEF NewestKept, DayKept, WeekKept
  <2>2. CASE Pruning /\ receipt \ Going \subseteq Complete'
    <3>1. NewestKept(r)
      <4>1. r \in receipt /\ last \in receipt /\ (r = last \/ Newer(last, r))
        BY DEF OffsiteInv, LastInv, Complete
      <4>2. last \notin Going
        BY <2>2 DEF OffsiteInv, TaskInv, Going, Pruning, NoTask, Exports, Prunes, Unlinks
      <4>3. QED
        BY <2>2, <4>1, <4>2 DEF NewestKept
    <3>2. DayKept(r) /\ WeekKept(r)
      BY <2>2 DEF OffsiteInv, PruneInv, KeepsDays, KeepsWeeks, Complete, DayKept, WeekKept
    <3>3. QED
      BY <3>1, <3>2
  <2>3. QED
    BY <2>1, <2>2, PointsStep
<1>2. QED
  BY <1>1, OffsiteInitHolds, OffsiteStep, PTL DEF OffsiteSpec, RecoveryPointsKept
=============================================================================
