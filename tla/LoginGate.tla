----------------------------- MODULE LoginGate -----------------------------
(***************************************************************************)
(* The two guards in front of a password check.  Admission control         *)
(* (login_rate_limit_service) bounds attempts per client, attempts overall  *)
(* and concurrent work before the hash is computed; it keeps its counters   *)
(* in one process or in Redis.  The throttle (login_throttle_service) locks *)
(* an e-mail address after repeated failures.                               *)
(*                                                                         *)
(* Time is relative: every expiry is the time it has left and Tick lowers   *)
(* them all, so the state space is finite without a bound on the clock.     *)
(* What a successful request does to accounts and sessions is in Accounts.  *)
(***************************************************************************)
EXTENDS Integers, FiniteSets, FiniteSetsExt, TLC

CONSTANTS
    Requests,       \* public authentication requests handled at a time
    Clients,        \* client addresses
    Addresses,         \* e-mail addresses that are tried
    PerClient,      \* login_rate_limit_per_ip
    Global,         \* login_rate_limit_global
    MaxConcurrent,  \* login_max_concurrent_attempts
    Window,         \* login_rate_limit_window_seconds, in ticks
    LeaseTtl,       \* max(window, 60), in ticks
    Threshold,      \* login_max_failed_attempts
    Lockout         \* login_lockout_minutes, in ticks

ASSUME GateAssumption ==
    /\ {PerClient, Global, MaxConcurrent, Window, Threshold, Lockout} \subseteq Nat \ {0}
    /\ LeaseTtl \in Nat /\ LeaseTtl >= Window

VARIABLES
    backend,    \* login_rate_limit_backend: "process" or "redis"
    inFlight,   \* the in-flight counter
    flightTtl,  \* Redis only: time the in-flight key has left, 0 when there is none
    counter,    \* Redis only: the global and client counters, [n, ttl]
    recent,     \* recent[c][a]: attempts of client c accepted a ticks ago
    request,    \* what each request is doing
    attempt,    \* login_attempts: [n |-> failed_count, lock |-> time left]
    lapsed      \* history: an expiry or a lost answer made the counter forget a lease

gateVars ==
    <<backend, inFlight, flightTtl, counter, recent, request, attempt, lapsed>>

Idle == [pc |-> "idle"]
Ages == 0..(Window - 1)
GlobalKey == "global"

\* locked_until: null, passed, or the time it has left.
NoLock == -1
Expired == 0
NoAttempts == [n |-> 0, lock |-> NoLock]

\* Requests that hold an admission lease.
Holding == {r \in Requests : request[r].pc # "idle"}

AttemptsOf(c) == MapThenSumSet(LAMBDA a : recent[c][a], Ages)
AllAttempts == MapThenSumSet(AttemptsOf, Clients)

GateInit ==
    /\ backend \in {"process", "redis"}
    /\ inFlight = 0
    /\ flightTtl = 0
    /\ counter = [k \in Clients \cup {GlobalKey} |-> [n |-> 0, ttl |-> 0]]
    /\ recent = [c \in Clients |-> [a \in Ages |-> 0]]
    /\ request = [r \in Requests |-> Idle]
    /\ attempt = [e \in Addresses |-> NoAttempts]
    /\ lapsed = FALSE

----------------------------------------------------------------------------
(***************************************************************************)
(* Admission.  The process backend counts the attempts inside the sliding  *)
(* window; the Redis script counts in fixed windows whose expiry is set by  *)
(* the first increment, and gives the in-flight key an expiry when the      *)
(* counter becomes one.                                                    *)
(***************************************************************************)
ProcessAdmits(c) ==
    /\ AttemptsOf(c) < PerClient
    /\ AllAttempts < Global
    /\ inFlight < MaxConcurrent

\* Mutant: the work in flight is not compared with its limit.
RedisAdmitsUnbounded(c) ==
    /\ counter[GlobalKey].n < Global
    /\ counter[c].n < PerClient

RedisAdmits(c) ==
    /\ counter[GlobalKey].n < Global
    /\ counter[c].n < PerClient
    /\ inFlight < MaxConcurrent

\* INCR, and EXPIRE when the key was just created.
Incremented(k, ttl) == [n |-> k.n + 1, ttl |-> IF k.n = 0 THEN ttl ELSE k.ttl]

RunAcquireScript(c) ==
    /\ counter' = [counter EXCEPT ![GlobalKey] = Incremented(@, Window),
                                  ![c] = Incremented(@, Window)]
    /\ inFlight' = inFlight + 1
    /\ flightTtl' = IF inFlight = 0 THEN LeaseTtl ELSE flightTtl
    /\ recent' = [recent EXCEPT ![c][0] = @ + 1]

RunReleaseScript ==
    /\ inFlight' = IF inFlight <= 1 THEN 0 ELSE inFlight - 1
    /\ flightTtl' = IF inFlight <= 1 THEN 0 ELSE flightTtl

\* The request is let in and holds a lease; a refused one (429) changes nothing.
Acquire(r, c, kind, e) ==
    /\ request[r] = Idle
    /\ \/ /\ backend = "process"
          /\ ProcessAdmits(c)
          /\ recent' = [recent EXCEPT ![c][0] = @ + 1]
          /\ inFlight' = inFlight + 1
          /\ UNCHANGED <<flightTtl, counter>>
       \/ /\ backend = "redis"
          /\ RedisAdmits(c)
          /\ RunAcquireScript(c)
    /\ request' = [request EXCEPT ![r] = [pc |-> "admitted", kind |-> kind, email |-> e]]
    /\ UNCHANGED <<backend, attempt, lapsed>>

\* The script ran but its answer was lost: the request ends with 503 and the
\* slot it took stays taken until the key expires.  (When the script did not
\* run either, nothing changes.)
AcquireAnswerLost(c) ==
    /\ backend = "redis"
    /\ RedisAdmits(c)
    /\ RunAcquireScript(c)
    /\ UNCHANGED <<backend, request, attempt, lapsed>>

----------------------------------------------------------------------------
(***************************************************************************)
(* The login handler between acquire and release.                          *)
(***************************************************************************)
\* locked_until: read once, before the password is verified.
ReadLock(r) ==
    /\ request[r].pc = "admitted"
    /\ request[r].kind = "login"
    /\ request' = [request EXCEPT ![r] =
            [pc |-> "verified", kind |-> "login", email |-> @.email,
             locked |-> attempt[@.email].lock > 0]]
    /\ UNCHANGED <<backend, inFlight, flightTtl, counter, recent, attempt, lapsed>>

\* The case expressions of record_failure: an expired lock starts a new count, a
\* standing lock is kept as it is, a full count sets a lock.
RecordFailure(a) ==
    LET n == IF a.lock = Expired THEN 1 ELSE a.n + 1
    IN  [n |-> n,
         lock |-> CASE a.lock > 0 -> a.lock
                    [] a.lock <= 0 /\ n >= Threshold -> Lockout
                    [] OTHER -> NoLock]

\* A failure may first delete the rows nobody failed on for the retention
\* period, which is longer than a lock.
Forget(stale) == [e \in Addresses |-> IF e \in stale THEN NoAttempts ELSE attempt[e]]

EndWork(r) == request' = [request EXCEPT ![r] = [pc |-> "done"]]

\* A wrong password: refused without counting when the address was locked.
LoginFails(r) ==
    /\ request[r].pc = "verified"
    /\ \/ request[r].locked /\ UNCHANGED attempt
       \/ /\ ~request[r].locked
          /\ \E stale \in SUBSET {e \in Addresses : attempt[e].lock <= 0} :
                attempt' = [Forget(stale) EXCEPT ![request[r].email] = RecordFailure(@)]
    /\ EndWork(r)
    /\ UNCHANGED <<backend, inFlight, flightTtl, counter, recent, lapsed>>

\* The right password succeeds even while the address is locked, and resets it.
LoginSucceeds(r) ==
    /\ request[r].pc = "verified"
    /\ attempt' = [attempt EXCEPT ![request[r].email] = NoAttempts]
    /\ EndWork(r)
    /\ UNCHANGED <<backend, inFlight, flightTtl, counter, recent, lapsed>>

\* Enrollment and password setup do their work under a lease, without the throttle.
OtherWork(r) ==
    /\ request[r].pc = "admitted"
    /\ request[r].kind = "other"
    /\ EndWork(r)
    /\ UNCHANGED <<backend, inFlight, flightTtl, counter, recent, attempt, lapsed>>

----------------------------------------------------------------------------
\* The finally clause: the lease is released once, whatever the handler did.
Release(r) ==
    /\ request[r].pc = "done"
    /\ request' = [request EXCEPT ![r] = Idle]
    /\ \/ /\ backend = "process"
          /\ inFlight' = IF inFlight = 0 THEN 0 ELSE inFlight - 1
          /\ UNCHANGED flightTtl
       \/ /\ backend = "redis"
          /\ RunReleaseScript
    /\ UNCHANGED <<backend, counter, recent, attempt, lapsed>>

\* Redis cannot be reached: the failure is logged, the slot stays taken.
ReleaseFails(r) ==
    /\ backend = "redis"
    /\ request[r].pc = "done"
    /\ request' = [request EXCEPT ![r] = Idle]
    /\ UNCHANGED <<backend, inFlight, flightTtl, counter, recent, attempt, lapsed>>

\* The server process ends: its requests and its own counters are gone, the
\* counters in Redis stay.
Crash ==
    /\ \E r \in Requests : request[r].pc # "idle"
    /\ request' = [r \in Requests |-> Idle]
    /\ IF backend = "process"
       THEN /\ inFlight' = 0
            /\ recent' = [c \in Clients |-> [a \in Ages |-> 0]]
       ELSE UNCHANGED <<inFlight, recent>>
    /\ UNCHANGED <<backend, flightTtl, counter, attempt, lapsed>>

\* Expiries.  A counter whose key expires starts again at zero.
Aged(k) == IF k.ttl <= 1 THEN [n |-> 0, ttl |-> 0] ELSE [n |-> k.n, ttl |-> k.ttl - 1]

Tick ==
    /\ counter' = [k \in DOMAIN counter |-> Aged(counter[k])]
    /\ recent' = [c \in Clients |->
                    [a \in Ages |-> IF a = 0 THEN 0 ELSE recent[c][a - 1]]]
    /\ attempt' = [e \in Addresses |->
                    [attempt[e] EXCEPT !.lock = IF @ > 0 THEN @ - 1 ELSE @]]
    /\ IF backend = "redis" /\ flightTtl = 1
       THEN /\ inFlight' = 0
            /\ flightTtl' = 0
            /\ lapsed' = (lapsed \/ Holding # {})
       ELSE /\ flightTtl' = IF flightTtl = 0 THEN 0 ELSE flightTtl - 1
            /\ UNCHANGED <<inFlight, lapsed>>
    /\ UNCHANGED <<backend, request>>

GateNext ==
    \/ \E r \in Requests, c \in Clients :
          \/ \E e \in Addresses : Acquire(r, c, "login", e)
          \/ Acquire(r, c, "other", "none")
    \/ \E c \in Clients : AcquireAnswerLost(c)
    \/ \E r \in Requests :
          \/ ReadLock(r) \/ LoginFails(r) \/ LoginSucceeds(r) \/ OtherWork(r)
          \/ Release(r) \/ ReleaseFails(r)
    \/ Crash
    \/ Tick

GateSpec == GateInit /\ [][GateNext]_gateVars

----------------------------------------------------------------------------
(***************************************************************************)
(* "Bounded concurrent work" (login_rate_limit_service.py:5): as long as no *)
(* lease has outlived the expiry of the Redis counter, no more requests     *)
(* than login_max_concurrent_attempts compute a password hash, whatever     *)
(* answers are lost, releases fail and servers crash.  In one process the   *)
(* bound has no exception.                                                 *)
(***************************************************************************)
ConcurrentWorkBounded ==
    (backend = "process" \/ ~lapsed) => Cardinality(Holding) <= MaxConcurrent
=============================================================================
