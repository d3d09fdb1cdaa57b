-------------------------- MODULE ProviderLimiter --------------------------
(***************************************************************************)
(* The slots of one concurrency key: how many provider calls may be in     *)
(* flight. With Redis a call holds a lease in a set all processes share,   *)
(* and takes a token of a shared bucket; when Redis fails a process goes   *)
(* back to a semaphore of its own, and tries Redis again later.            *)
(*                                                                         *)
(* A lease is what is left of its TTL, in ticks; nothing renews it.        *)
(***************************************************************************)
EXTENDS Integers, FiniteSets, Functions

CONSTANTS
    Processes, Workers,  \* a thread is a worker of a process
    MaxInflight, MaxQps,
    TTL,                 \* lease_ttl_seconds, in ticks
    Faults               \* what the environment may do

(* redis_error  a command fails, before or after Redis executed it         *)
(* crash        a process dies                                             *)
(* long_calls   a provider call lasts longer than a lease                  *)
AllFaults == {"redis_error", "crash", "long_calls"}

ASSUME LimiterConstants ==
    /\ MaxInflight \in Nat \ {0} /\ MaxQps \in Nat \ {0} /\ TTL \in Nat \ {0}
    /\ IsFiniteSet(Processes) /\ IsFiniteSet(Workers)
    /\ Faults \subseteq AllFaults

Threads == Processes \X Workers
ThreadsOf(p) == {p} \X Workers

VARIABLES
    at,         \* where every thread is
    connected,  \* whether a process has a Redis client
    lease,      \* what is left of the lease of a thread, 0 for none
    orphans,    \* how many leases with so much left belong to nobody
    tokens      \* the bucket

limiterVars == <<at, connected, lease, orphans, tokens>>

Place == {"idle", "polling", "queueing", "redis", "local"}
InFlight == {t \in Threads : at[t] \in {"redis", "local"}}
Through(place, S) == Cardinality({t \in S : at[t] = place})

LimiterTypeOK ==
    /\ at \in [Threads -> Place]
    /\ connected \in [Processes -> BOOLEAN]
    /\ lease \in [Threads -> 0..TTL]
    /\ orphans \in [1..TTL -> 0..MaxInflight]
    /\ tokens \in 0..MaxQps

LimiterInit ==
    /\ at = [t \in Threads |-> "idle"]
    /\ connected = [p \in Processes |-> TRUE]
    /\ lease = [t \in Threads |-> 0]
    /\ orphans = [n \in 1..TTL |-> 0]
    /\ tokens = MaxQps

-----------------------------------------------------------------------------
(* ZCARD, after ZREMRANGEBYSCORE took the expired leases away.             *)
Leases == Cardinality({t \in Threads : lease[t] > 0}) + SumFunctionOnSet(orphans, 1..TTL)

AdmitsOneMore == Leases <= MaxInflight /\ tokens >= 1   \* mutant: an off-by-one

(* _ACQUIRE_SCRIPT                                                         *)
Admits == Leases < MaxInflight /\ tokens >= 1

(* The lease of a thread, whatever is left of it, belongs to nobody now.   *)
Orphaned(S) ==
    [n \in 1..TTL |-> orphans[n] + Cardinality({t \in S : lease[t] = n})]

(* slot(): a process without a client tries again once the cooldown is over.*)
Enter(t) ==
    /\ at[t] = "idle"
    /\ connected' \in {connected, [connected EXCEPT ![t[1]] = TRUE]}
    /\ at' = [at EXCEPT ![t] = IF connected'[t[1]] THEN "polling" ELSE "queueing"]
    /\ UNCHANGED <<lease, orphans, tokens>>

Acquire(t) ==
    /\ at[t] = "polling" /\ connected[t[1]]
    /\ Admits
    /\ at' = [at EXCEPT ![t] = "redis"]
    /\ lease' = [lease EXCEPT ![t] = TTL]
    /\ tokens' = tokens - 1
    /\ UNCHANGED <<connected, orphans>>

(* The script failed, or ran and its answer was lost.                      *)
AcquireFails(t) ==
    /\ "redis_error" \in Faults
    /\ at[t] = "polling" /\ connected[t[1]]
    /\ \/ UNCHANGED <<orphans, tokens>>
       \/ Admits /\ orphans' = [orphans EXCEPT ![TTL] = @ + 1] /\ tokens' = tokens - 1
    /\ connected' = [connected EXCEPT ![t[1]] = FALSE]
    /\ at' = [at EXCEPT ![t] = "queueing"]
    /\ UNCHANGED lease

(* Another thread has set the client to None: that is an error like another.*)
FallBack(t) ==
    /\ at[t] = "polling" /\ ~connected[t[1]]
    /\ at' = [at EXCEPT ![t] = "queueing"]
    /\ UNCHANGED <<connected, lease, orphans, tokens>>

AcquireFreely(t) ==   \* mutant: the fallback has no semaphore
    /\ at[t] = "queueing"
    /\ at' = [at EXCEPT ![t] = "local"]
    /\ UNCHANGED <<connected, lease, orphans, tokens>>

(* _local_slot                                                             *)
AcquireLocal(t) ==
    /\ at[t] = "queueing"
    /\ Through("local", ThreadsOf(t[1])) < MaxInflight
    /\ at' = [at EXCEPT ![t] = "local"]
    /\ UNCHANGED <<connected, lease, orphans, tokens>>

(* The call is over. ZREM needs a client; without it the lease stays.      *)
Release(t) ==
    /\ at[t] \in {"redis", "local"}
    /\ at' = [at EXCEPT ![t] = "idle"]
    /\ lease' = [lease EXCEPT ![t] = 0]
    /\ \/ /\ connected[t[1]] \/ at[t] = "local"
          /\ UNCHANGED <<connected, orphans>>
       \/ /\ at[t] = "redis" /\ ~connected[t[1]]
          /\ orphans' = Orphaned({t})
          /\ UNCHANGED connected
       \/ /\ at[t] = "redis" /\ connected[t[1]] /\ "redis_error" \in Faults
          /\ orphans' \in {orphans, Orphaned({t})}
          /\ connected' = [connected EXCEPT ![t[1]] = FALSE]
    /\ UNCHANGED tokens

CrashProcess(p) ==
    /\ "crash" \in Faults
    /\ at' = [t \in Threads |-> IF t[1] = p THEN "idle" ELSE at[t]]
    /\ lease' = [t \in Threads |-> IF t[1] = p THEN 0 ELSE lease[t]]
    /\ orphans' = Orphaned(ThreadsOf(p))
    /\ connected' = [connected EXCEPT ![p] = TRUE]
    /\ UNCHANGED tokens

OrphansForever == [n \in 1..TTL |-> orphans[n]]   \* mutant: they do not expire

OrphansLater == [n \in 1..TTL |-> IF n < TTL THEN orphans[n + 1] ELSE 0]

LessLeft(n) == n - 1   \* mutant: nothing stops it at 0

OneLess(n) == IF n > 0 THEN n - 1 ELSE 0

(* Time: leases run out, the bucket fills up.                              *)
Tick ==
    /\ "long_calls" \in Faults \/ \A t \in Threads : at[t] = "redis" => lease[t] > 1
    /\ lease' = [t \in Threads |-> OneLess(lease[t])]
    /\ orphans' = OrphansLater
    /\ tokens' = MaxQps
    /\ UNCHANGED <<at, connected>>

LimiterNext ==
    \/ \E t \in Threads :
          \/ Enter(t) \/ Acquire(t) \/ AcquireFails(t) \/ FallBack(t)
          \/ AcquireLocal(t) \/ Release(t)
    \/ \E p \in Processes : CrashProcess(p)
    \/ Tick

LimiterSpec == LimiterInit /\ [][LimiterNext]_limiterVars

(* Waiting threads poll, provider calls end, time passes. Nothing orders   *)
(* the threads that wait, so none of them is promised its turn.            *)
LimiterFairness ==
    /\ \A t \in Threads :
          /\ WF_limiterVars(Acquire(t)) /\ WF_limiterVars(FallBack(t))
          /\ WF_limiterVars(AcquireLocal(t)) /\ WF_limiterVars(Release(t))
    /\ WF_limiterVars(Tick)

LimiterFairSpec == LimiterSpec /\ LimiterFairness

-----------------------------------------------------------------------------
(* Properties                                                              *)

(* The calls that go through Redis are bounded over all processes, also    *)
(* when commands fail and leases are left behind ("enforces a bounded      *)
(* number of in-flight provider calls per key", provider_limiter.py 4-6).  *)
(* Without Redis the limit is not given up: however often processes lose   *)
(* Redis and find it again, each adds one limit of its own to the shared   *)
(* one ("intentionally not fail-open", provider_limiter.py 12-13).         *)
CapacityBounded ==
    /\ Through("redis", Threads) <= MaxInflight
    /\ Cardinality(InFlight) <= MaxInflight * (Cardinality(Processes) + 1)

(* No capacity is lost for good to processes that died with their leases or*)
(* lost the answer that granted one: once no process loses Redis any more, *)
(* a thread never polls for ever while no call is in flight at all.        *)
CapacityComesBack ==
    (\A p \in Processes : <>[]connected[p])
        => \A t \in Threads : []<>(at[t] # "polling" \/ InFlight # {})
=============================================================================
