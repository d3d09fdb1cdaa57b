------------------------------- MODULE SignIn -------------------------------
(***************************************************************************)
(* Logins and registrations of one client, throttled by sliding windows    *)
(* (core/auth/rate_limit.py), and the registration code they use up.       *)
(*                                                                         *)
(* Logins and registrations have windows of their own that never meet, so  *)
(* a behaviour has requests of one kind. Redis has the window that all     *)
(* processes share; each process also keeps its own, and goes by that one  *)
(* for ever once a command to Redis has failed. A registration is recorded *)
(* before the work; a login after it, if it failed, and one that succeeds  *)
(* clears the window. A check and a record are two commands. A window is   *)
(* the number of its attempts, each of which leaves it some time.          *)
(* Passwords and sessions are left out.                                    *)
(***************************************************************************)
EXTENDS Integers, FiniteSets

CONSTANTS
    SignIns,      \* requests of the client in flight
    ProcessOf,    \* the API process of a thread
    MaxAttempts,  \* max_login_attempts, max_registration_attempts
    MaxUses,      \* max_uses of the registration code
    Emails        \* addresses used for registration, a bound

ASSUME SignInConstants ==
    /\ IsFiniteSet(SignIns) /\ SignIns # {}
    /\ DOMAIN ProcessOf = SignIns
    /\ MaxAttempts \in Nat \ {0} /\ MaxUses \in Nat \ {0}
    /\ IsFiniteSet(Emails)

VARIABLES
    kind,          \* of the requests
    shared,        \* attempts in the window in Redis
    own,           \* attempts in the window of each process
    degraded,      \* processes that gave Redis up
    request,       \* the requests
    used,          \* used_count of the registration code
    accountsMade  \* email addresses of the accounts made with the code

signInVars == <<kind, shared, own, degraded, request, used, accountsMade>>

Kinds == {"login", "register"}
ApiProcesses == {ProcessOf[t] : t \in SignIns}

(* A window never needs to count further than this.                        *)
Cap == MaxAttempts + Cardinality(SignIns)

At(stage) == [stage |-> stage]

SignInRequests ==
    [stage : {"idle", "checked", "admitted", "failed", "passed"}] \cup
    [stage : {"writing"}, email : Emails, read : 0..MaxUses]

SignInTypeOK ==
    /\ kind \in Kinds
    /\ shared \in 0..Cap
    /\ own \in [ApiProcesses -> 0..Cap]
    /\ degraded \subseteq ApiProcesses
    /\ request \in [SignIns -> SignInRequests]
    /\ used \in 0..MaxUses
    /\ accountsMade \subseteq Emails

SignInInit ==
    /\ kind \in Kinds
    /\ shared = 0
    /\ own = [p \in ApiProcesses |-> 0]
    /\ degraded = {}
    /\ request = [t \in SignIns |-> At("idle")]
    /\ used = 0
    /\ accountsMade = {}

-----------------------------------------------------------------------------
Counted(n) == IF n < Cap THEN n + 1 ELSE n
Stage(t) == request[t].stage
Becomes(t, stage) == request' = [request EXCEPT ![t] = At(stage)]

(* What check looks at: Redis, or the window of the process without it.    *)
InWindow(p) == IF p \in degraded THEN own[p] ELSE shared

AllowedOnceMore(p) == InWindow(p) <= MaxAttempts   \* mutant: off by one

MayAttempt(p) == InWindow(p) < MaxAttempts

(* A command that fails is the last one this process sends.                *)
RedisFails(p) ==
    /\ p \notin degraded
    /\ degraded' = degraded \cup {p}
    /\ UNCHANGED <<kind, shared, own, request, used, accountsMade>>

(* check: a request that is not allowed ends without a trace.              *)
Check(t) ==
    /\ Stage(t) = "idle"
    /\ MayAttempt(ProcessOf[t])
    /\ Becomes(t, IF kind = "login" THEN "admitted" ELSE "checked")
    /\ UNCHANGED <<kind, shared, own, degraded, used, accountsMade>>

(* record: in memory, then in Redis.                                       *)
Record(t, then) ==
    /\ own' = [own EXCEPT ![ProcessOf[t]] = Counted(@)]
    /\ shared' = IF ProcessOf[t] \in degraded THEN shared ELSE Counted(shared)
    /\ Becomes(t, then)
    /\ UNCHANGED <<kind, degraded, used, accountsMade>>

(* clear_key after a successful login.                                     *)
Clear(t) ==
    /\ own' = [own EXCEPT ![ProcessOf[t]] = 0]
    /\ shared' = IF ProcessOf[t] \in degraded THEN shared ELSE 0
    /\ Becomes(t, "idle")
    /\ UNCHANGED <<kind, degraded, used, accountsMade>>

RecordRegistration(t) == Stage(t) = "checked" /\ Record(t, "admitted")

(* login verifies the password, and the route counts what came of it.      *)
Login(t) ==
    /\ kind = "login"
    /\ \/ /\ Stage(t) = "admitted"
          /\ \E outcome \in {"failed", "passed"} : Becomes(t, outcome)
          /\ UNCHANGED <<kind, shared, own, degraded, used, accountsMade>>
       \/ Stage(t) = "failed" /\ Record(t, "idle")
       \/ Stage(t) = "passed" /\ Clear(t)

(* register reads the code and looks for the address, or raises.           *)
ReadCode(t) ==
    /\ kind = "register" /\ Stage(t) = "admitted"
    /\ \/ /\ used < MaxUses
          /\ \E email \in Emails \ accountsMade :
                request' = [request EXCEPT ![t] =
                    [stage |-> "writing", email |-> email, read |-> used]]
       \/ /\ used >= MaxUses \/ accountsMade # {}
          /\ Becomes(t, "idle")
    /\ UNCHANGED <<kind, shared, own, degraded, used, accountsMade>>

(* The account and the count are written together; the unique index on the *)
(* address undoes both.                                                    *)
AddUser(t) ==
    /\ Stage(t) = "writing"
    /\ IF request[t].email \in accountsMade
       THEN UNCHANGED <<used, accountsMade>>
       ELSE /\ accountsMade' = accountsMade \cup {request[t].email}
            /\ used' = request[t].read + 1
    /\ Becomes(t, "idle")
    /\ UNCHANGED <<kind, shared, own, degraded>>

(* An attempt leaves a window, in Redis or in a process.                   *)
LeaveWindow ==
    \/ /\ shared > 0
       /\ shared' = shared - 1
       /\ UNCHANGED <<kind, own, degraded, request, used, accountsMade>>
    \/ \E p \in ApiProcesses :
          /\ own[p] > 0
          /\ own' = [own EXCEPT ![p] = @ - 1]
          /\ UNCHANGED <<kind, shared, degraded, request, used, accountsMade>>

SignInNext ==
    \/ \E t \in SignIns : Check(t) \/ RecordRegistration(t) \/ Login(t) \/ ReadCode(t) \/ AddUser(t)
    \/ \E p \in ApiProcesses : RedisFails(p)
    \/ LeaveWindow

SignInSpec == SignInInit /\ [][SignInNext]_signInVars

-----------------------------------------------------------------------------
(* SignInRequests that passed the check and may still be recorded in Redis.*)
OnTheirWay ==
    {t \in SignIns :
        /\ ProcessOf[t] \notin degraded
        /\ Stage(t) \in IF kind = "login" THEN {"admitted", "failed"} ELSE {"checked"}}

(* rate_limit.py 1-9: "Redis owns the shared counters". Although checks    *)
(* and records of different requests interleave, a window exceeds its      *)
(* limit by no more than the requests that were in flight together.        *)
AttemptsBounded ==
    shared + Cardinality(OnTheirWay) <= MaxAttempts + Cardinality(SignIns) - 1
=============================================================================
