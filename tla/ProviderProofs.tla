-------------------------- MODULE ProviderProofs ----------------------------
(***************************************************************************)
(* Proofs about the calls of providers: ProviderLimiter and ProviderCalls, *)
(* for every number of processes, threads, leases, nodes and calls, and    *)
(* every limit.                                                            *)
(***************************************************************************)
EXTENDS ProviderLimiter, ProviderCalls, FiniteSums

-----------------------------------------------------------------------------
(* ProviderLimiter: the limit holds, with Redis and without                *)

(* A call that goes through Redis holds a lease, and there are never more  *)
(* leases than calls allowed; without Redis, each process keeps to the     *)
(* limit by itself.                                                        *)
CallsHoldLeases == \A t \in Threads : at[t] = "redis" => lease[t] > 0
LeasesBounded == Leases <= MaxInflight
LocalBounded == \A p \in Processes : Through("local", ThreadsOf(p)) <= MaxInflight

LimiterShape ==
    /\ at \in [Threads -> Place] /\ connected \in [Processes -> BOOLEAN]
    /\ lease \in [Threads -> 0..TTL] /\ orphans \in [1..TTL -> Nat]

LimiterInv == LimiterShape /\ CallsHoldLeases /\ LeasesBounded /\ LocalBounded

-----------------------------------------------------------------------------
Held(l) == {t \in Threads : l[t] > 0}

LEMMA ThreadsFinite ==
    /\ IsFiniteSet(Threads) /\ \A S \in SUBSET Threads : IsFiniteSet(S) /\ Cardinality(S) \in Nat
    /\ \A p \in Processes : ThreadsOf(p) \in SUBSET Threads
    /\ \A t \in Threads : t[1] \in Processes /\ t \in ThreadsOf(t[1])
    /\ \A p, q \in Processes : \A t \in ThreadsOf(p) : t \in ThreadsOf(q) => p = q
    /\ \A p \in Processes : \A t \in Threads : t[1] = p => t \in ThreadsOf(p)
<1>1. IsFiniteSet(Threads)
  BY LimiterConstants, FS_Product DEF Threads
<1>2. \A S \in SUBSET Threads : IsFiniteSet(S) /\ Cardinality(S) \in Nat
  BY ONLY <1>1, FS_Subset, FS_CardinalityType
<1>3. \A p \in Processes : ThreadsOf(p) \in SUBSET Threads
  BY DEF Threads, ThreadsOf
<1>4. \A t \in Threads : t[1] \in Processes /\ t \in ThreadsOf(t[1])
  BY DEF Threads, ThreadsOf
<1>5. \A p, q \in Processes : \A t \in ThreadsOf(p) : t \in ThreadsOf(q) => p = q
  BY DEF ThreadsOf
<1>6. \A p \in Processes : \A t \in Threads : t[1] = p => t \in ThreadsOf(p)
  BY <1>4
<1> QED BY <1>1, <1>2, <1>3, <1>4, <1>5, <1>6

LEMMA LeasesAre ==
    ASSUME LimiterShape
    PROVE  /\ Leases = Cardinality(Held(lease)) + Total(orphans, 1..TTL)
           /\ Cardinality(Held(lease)) \in Nat /\ Total(orphans, 1..TTL) \in Nat
           /\ IsFiniteSet(1..TTL) /\ TTL \in 1..TTL /\ \A n \in 1..TTL : orphans[n] \in Nat
<1>1. IsFiniteSet(1..TTL) /\ TTL \in 1..TTL
  BY LimiterConstants, FS_Interval
<1>2. \A n \in 1..TTL : orphans[n] \in Nat
  BY DEF LimiterShape
<1>3. Total(orphans, 1..TTL) \in Nat
  BY ONLY <1>1, <1>2, TotalNat
<1>4. Cardinality(Held(lease)) \in Nat
  BY ThreadsFinite DEF Held
<1> QED BY <1>1, <1>2, <1>3, <1>4 DEF Leases, Held, Total

(* Leases whose holders are gone are counted among the orphans.            *)
LEMMA OrphanedCount ==
    ASSUME LimiterShape, NEW S \in SUBSET Threads
    PROVE  /\ Orphaned(S) \in [1..TTL -> Nat]
           /\ Total(Orphaned(S), 1..TTL)
                  = Total(orphans, 1..TTL) + Cardinality({t \in S : lease[t] > 0})
<1>1. /\ IsFiniteSet(S) /\ \A n \in 1..TTL : /\ {t \in S : lease[t] = n} \in SUBSET Threads
                                             /\ Cardinality({t \in S : lease[t] = n}) \in Nat
  BY ThreadsFinite
<1>2. IsFiniteSet(1..TTL) /\ \A n \in 1..TTL : orphans[n] \in Int
  BY LeasesAre
<1>3. \A n \in 1..TTL : Orphaned(S)[n] = orphans[n] + Cardinality({t \in S : lease[t] = n})
  BY DEF Orphaned
<1>4. Total(Orphaned(S), 1..TTL) = Total(orphans, 1..TTL) + Cardinality({t \in S : lease[t] \in 1..TTL})
  <2> DEFINE V == 1..TTL
             g == Orphaned(S)
  <2>1. /\ IsFiniteSet(V) /\ \A n \in V : orphans[n] \in Int
        /\ \A n \in V : g[n] = orphans[n] + Cardinality({t \in S : lease[t] = n})
    BY <1>2, <1>3
  <2> HIDE DEF V, g
  <2>2. Total(g, V) = Total(orphans, V) + Cardinality({t \in S : lease[t] \in V})
    <3> DEFINE key == lease
    <3>1. \A n \in V : g[n] = orphans[n] + Cardinality({t \in S : key[t] = n})
      BY <2>1
    <3>2. IsFiniteSet(S)
      BY <1>1
    <3> HIDE DEF key
    <3>3. Total(g, V) = Total(orphans, V) + Cardinality({t \in S : key[t] \in V})
      BY ONLY <2>1, <3>1, <3>2, CountByValue
    <3> QED BY <3>3 DEF key
  <2> QED BY <2>2 DEF V, g
<1>5. {t \in S : lease[t] \in 1..TTL} = {t \in S : lease[t] > 0}
  <2>1. \A t \in S : lease[t] \in 0..TTL
    BY DEF LimiterShape
  <2> QED BY <2>1, LimiterConstants
<1>6. Orphaned(S) \in [1..TTL -> Nat]
  <2>1. Orphaned(S) = [n \in 1..TTL |-> orphans[n] + Cardinality({t \in S : lease[t] = n})]
    BY DEF Orphaned
  <2>2. \A n \in 1..TTL : orphans[n] + Cardinality({t \in S : lease[t] = n}) \in Nat
    <3>1. \A n \in 1..TTL : orphans[n] \in Nat
      BY LeasesAre
    <3> QED BY <1>1, <3>1
  <2> QED BY <2>1, <2>2
<1> QED BY <1>4, <1>5, <1>6

(* What leaves "local" does not hurt, and what enters it has looked.        *)
LEMMA LocalShrinks ==
    ASSUME LimiterInv, \A t \in Threads : at'[t] = "local" => at[t] = "local"
    PROVE  LocalBounded'
<1> SUFFICES ASSUME NEW p \in Processes
             PROVE  Cardinality({t \in ThreadsOf(p) : at'[t] = "local"}) <= MaxInflight
  BY DEF LocalBounded, Through
<1> DEFINE Now == {t \in ThreadsOf(p) : at[t] = "local"}
           Then == {t \in ThreadsOf(p) : at'[t] = "local"}
<1>1. Now \in SUBSET Threads /\ Then \subseteq Now /\ Then \in SUBSET Threads
  BY ThreadsFinite
<1>2. Cardinality(Now) <= MaxInflight
  BY DEF LimiterInv, LocalBounded, Through
<1> HIDE DEF Now, Then
<1>3. /\ IsFiniteSet(Now) /\ Cardinality(Now) \in Nat /\ Cardinality(Then) \in Nat
      /\ Cardinality(Then) <= Cardinality(Now)
  BY <1>1, ThreadsFinite, FS_Subset
<1>4. Cardinality(Then) <= MaxInflight
  BY <1>2, <1>3, LimiterConstants
<1> QED BY <1>4 DEF Then

(* A step that leaves the leases alone.                                    *)
LEMMA NoLease ==
    ASSUME LimiterInv, UNCHANGED <<lease, orphans>>,
           at' \in [Threads -> Place], connected' \in [Processes -> BOOLEAN],
           \A t \in Threads : at'[t] = "redis" => at[t] = "redis",
           \A t \in Threads : at'[t] = "local" => at[t] = "local"
    PROVE  LimiterInv'
<1>1. LimiterShape' /\ CallsHoldLeases' /\ LeasesBounded'
  BY DEF LimiterInv, LimiterShape, CallsHoldLeases, LeasesBounded, Leases
<1> QED BY <1>1, LocalShrinks DEF LimiterInv

LEMMA EnterKeeps ==
    ASSUME LimiterInv, NEW t \in Threads, Enter(t) \/ FallBack(t)
    PROVE  LimiterInv'
<1>1. t[1] \in Processes /\ at \in [Threads -> Place] /\ connected \in [Processes -> BOOLEAN]
  BY ThreadsFinite DEF LimiterInv, LimiterShape
<1>2. PICK place \in {"polling", "queueing"} : at' = [at EXCEPT ![t] = place]
  BY DEF Enter, FallBack
<1>3. at' \in [Threads -> Place] /\ \A u \in Threads : at'[u] \in {"redis", "local"} => at'[u] = at[u]
  BY <1>1, <1>2 DEF Place
<1>4. connected' \in [Processes -> BOOLEAN]
  BY <1>1 DEF Enter, FallBack
<1> QED BY <1>3, <1>4, NoLease DEF Enter, FallBack

LEMMA AcquireKeeps ==
    ASSUME LimiterInv, NEW t \in Threads, Acquire(t)
    PROVE  LimiterInv'
<1>0. LimiterShape /\ at' = [at EXCEPT ![t] = "redis"] /\ lease' = [lease EXCEPT ![t] = TTL]
  BY DEF Acquire, LimiterInv
<1>1. LimiterShape'
  BY <1>0, LimiterConstants DEF Acquire, LimiterShape, Place
<1>2. CallsHoldLeases'
  BY <1>0, LimiterConstants DEF LimiterShape, LimiterInv, CallsHoldLeases
<1>3. LeasesBounded'
  <2>1. Held(lease') \subseteq Held(lease) \cup {t}
    BY <1>0 DEF Held, LimiterShape
  <2>2. IsFiniteSet(Held(lease)) /\ Held(lease') \in SUBSET Threads
    BY ThreadsFinite DEF Held
  <2>3. Cardinality(Held(lease')) <= Cardinality(Held(lease)) + 1
    <3>1. /\ IsFiniteSet(Held(lease) \cup {t})
          /\ Cardinality(Held(lease) \cup {t}) <= Cardinality(Held(lease)) + 1
      <4> DEFINE H == Held(lease)
      <4>1. IsFiniteSet(H) /\ Cardinality(H) \in Nat
        BY <1>0, <2>2, LeasesAre
      <4> HIDE DEF H
      <4>2. IsFiniteSet(H \cup {t}) /\ Cardinality(H \cup {t}) <= Cardinality(H) + 1
        BY <4>1, FS_AddElement
      <4> QED BY <4>2 DEF H
    <3>2. Cardinality(Held(lease')) <= Cardinality(Held(lease) \cup {t})
      BY <2>1, <3>1, FS_Subset
    <3>3. Cardinality(Held(lease) \cup {t}) \in Nat /\ Cardinality(Held(lease')) \in Nat
      BY <2>2, <3>1, FS_CardinalityType, ThreadsFinite
    <3> QED BY <1>0, <3>1, <3>2, <3>3, LeasesAre
  <2>4. Leases' = Cardinality(Held(lease')) + Total(orphans, 1..TTL)
    BY DEF Acquire, Leases, Held, Total
  <2>5. Leases < MaxInflight
    BY DEF Acquire, Admits
  <2>6. Cardinality(Held(lease')) \in Nat
    BY <2>2, ThreadsFinite
  <2> QED BY <1>0, <2>3, <2>4, <2>5, <2>6, LeasesAre, LimiterConstants DEF LeasesBounded
<1>4. LocalBounded'
  BY <1>0, LocalShrinks DEF LimiterShape
<1> QED BY <1>1, <1>2, <1>3, <1>4 DEF LimiterInv

LEMMA AcquireFailsKeeps ==
    ASSUME LimiterInv, NEW t \in Threads, AcquireFails(t)
    PROVE  LimiterInv'
<1>0. LimiterShape /\ at' = [at EXCEPT ![t] = "queueing"] /\ lease' = lease
  BY DEF AcquireFails, LimiterInv
<1>1. /\ at' \in [Threads -> Place] /\ connected' \in [Processes -> BOOLEAN]
      /\ \A u \in Threads : at'[u] \in {"redis", "local"} => at'[u] = at[u]
  BY <1>0 DEF AcquireFails, LimiterShape, Place
<1>2. CASE UNCHANGED orphans
  BY <1>0, <1>1, <1>2, NoLease
<1>3. CASE Admits /\ orphans' = [orphans EXCEPT ![TTL] = @ + 1]
  <2>1. orphans' \in [1..TTL -> Nat]
    BY <1>0, <1>3, LeasesAre DEF LimiterShape
  <2>2. Total(orphans', 1..TTL) = Total(orphans, 1..TTL) + 1
    <3> DEFINE V == 1..TTL
               g == orphans'
    <3>1. /\ IsFiniteSet(V) /\ TTL \in V /\ 1 \in Int /\ \A n \in V : orphans[n] \in Int
          /\ \A n \in V : g[n] = IF n = TTL THEN orphans[n] + 1 ELSE orphans[n]
      BY <1>0, <1>3, LeasesAre DEF LimiterShape
    <3> HIDE DEF V, g
    <3>2. Total(g, V) = Total(orphans, V) + 1
      BY ONLY <3>1, TotalBump
    <3> QED BY <3>2 DEF V, g
  <2>3. Leases' = Cardinality(Held(lease)) + Total(orphans', 1..TTL)
    BY <1>0 DEF Leases, Held, Total
  <2>4. LeasesBounded'
    BY <1>0, <1>3, <2>2, <2>3, LeasesAre, LimiterConstants DEF Admits, LeasesBounded
  <2>5. LimiterShape' /\ CallsHoldLeases'
    BY <1>0, <1>1, <2>1 DEF LimiterShape, LimiterInv, CallsHoldLeases
  <2>6. LocalBounded'
    BY <1>1, LocalShrinks
  <2> QED BY <2>4, <2>5, <2>6 DEF LimiterInv
<1> QED BY <1>2, <1>3 DEF AcquireFails

LEMMA AcquireLocalKeeps ==
    ASSUME LimiterInv, NEW t \in Threads, AcquireLocal(t)
    PROVE  LimiterInv'
<1>0. LimiterShape /\ at' = [at EXCEPT ![t] = "local"] /\ UNCHANGED <<connected, lease, orphans>>
  BY DEF AcquireLocal, LimiterInv
<1>1. LimiterShape' /\ CallsHoldLeases' /\ LeasesBounded'
  BY <1>0 DEF LimiterInv, LimiterShape, CallsHoldLeases, LeasesBounded, Leases, Place
<1>2. ASSUME NEW p \in Processes
      PROVE  Cardinality({u \in ThreadsOf(p) : at'[u] = "local"}) <= MaxInflight
  <2> DEFINE Now == {u \in ThreadsOf(p) : at[u] = "local"}
             Then == {u \in ThreadsOf(p) : at'[u] = "local"}
  <2>1. Now \in SUBSET Threads /\ IsFiniteSet(Now) /\ Cardinality(Now) \in Nat
    BY ThreadsFinite
  <2>2. Cardinality(Now) <= MaxInflight
    BY DEF LimiterInv, LocalBounded, Through
  <2>3. CASE t \in ThreadsOf(p)
    <3>1. Then = Now \cup {t}
      BY <1>0, <2>3, ThreadsFinite DEF LimiterShape
    <3>2. p = t[1]
      BY <2>3, ThreadsFinite
    <3>3. Cardinality(Now) < MaxInflight
      BY <3>2 DEF AcquireLocal, Through
    <3> HIDE DEF Now, Then
    <3>4. Cardinality(Then) <= Cardinality(Now) + 1 /\ Cardinality(Then) \in Nat
      <4>1. IsFiniteSet(Now) /\ Cardinality(Now) \in Nat
        BY <2>1
      <4>2. IsFiniteSet(Now \cup {t}) /\ Cardinality(Now \cup {t}) <= Cardinality(Now) + 1
        <5>1. Cardinality(Now \cup {t}) = IF t \in Now THEN Cardinality(Now) ELSE Cardinality(Now) + 1
          BY <4>1, FS_AddElement
        <5>2. IsFiniteSet(Now \cup {t})
          BY <4>1, FS_AddElement
        <5> QED BY <4>1, <5>1, <5>2
      <4> QED BY <3>1, <4>2, FS_CardinalityType
    <3>5. Cardinality(Then) <= MaxInflight
      BY <2>1, <3>3, <3>4, LimiterConstants
    <3> QED BY <3>5 DEF Then
  <2>4. CASE t \notin ThreadsOf(p)
    <3>1. Then = Now
      BY <1>0, <2>4, ThreadsFinite DEF LimiterShape
    <3> QED BY <2>2, <3>1
  <2> QED BY <2>3, <2>4
<1> QED BY <1>1, <1>2 DEF LimiterInv, LocalBounded, Through

(* Threads that give up their calls leave their leases, or some of them.    *)
LEMMA GiveUpKeeps ==
    ASSUME LimiterInv, NEW S \in SUBSET Threads,
           at' = [t \in Threads |-> IF t \in S THEN "idle" ELSE at[t]],
           lease' = [t \in Threads |-> IF t \in S THEN 0 ELSE lease[t]],
           orphans' \in {orphans, Orphaned(S)}, connected' \in [Processes -> BOOLEAN]
    PROVE  LimiterInv'
<1>0. LimiterShape
  BY DEF LimiterInv
<1>1. LimiterShape'
  <2>1. at' \in [Threads -> Place]
    BY <1>0 DEF LimiterShape, Place
  <2>2. lease' \in [Threads -> 0..TTL]
    BY <1>0, LimiterConstants DEF LimiterShape
  <2>3. orphans' \in [1..TTL -> Nat]
    BY <1>0, OrphanedCount DEF LimiterShape
  <2> QED BY <2>1, <2>2, <2>3 DEF LimiterShape
<1>2. CallsHoldLeases'
  BY DEF LimiterInv, CallsHoldLeases
<1>3. LocalBounded'
  BY LocalShrinks
<1>4. LeasesBounded'
  <2> DEFINE Lost == {t \in S : lease[t] > 0}
  <2>1. Held(lease') = Held(lease) \ Lost /\ Lost \subseteq Held(lease) /\ Held(lease) \in SUBSET Threads
    BY <1>0 DEF Held, LimiterShape
  <2>2. Total(orphans', 1..TTL) \in {Total(orphans, 1..TTL), Total(orphans, 1..TTL) + Cardinality(Lost)}
    BY <1>0, OrphanedCount
  <2> HIDE DEF Lost
  <2>3. /\ Cardinality(Held(lease')) = Cardinality(Held(lease)) - Cardinality(Lost)
        /\ Cardinality(Lost) \in Nat
    <3>1. IsFiniteSet(Held(lease)) /\ Held(lease) \cap Lost = Lost /\ IsFiniteSet(Lost)
      BY <2>1, ThreadsFinite
    <3> QED BY <2>1, <3>1, FS_Difference, FS_CardinalityType
  <2>4. Leases' = Cardinality(Held(lease')) + Total(orphans', 1..TTL)
    BY DEF Leases, Held, Total
  <2>5. Leases = Cardinality(Held(lease)) + Total(orphans, 1..TTL) /\ Leases <= MaxInflight
    BY <1>0, LeasesAre DEF LimiterInv, LeasesBounded
  <2> QED BY <1>0, <2>2, <2>3, <2>4, <2>5, LeasesAre, LimiterConstants DEF LeasesBounded
<1> QED BY <1>1, <1>2, <1>3, <1>4 DEF LimiterInv

LEMMA ReleaseKeeps ==
    ASSUME LimiterInv, NEW t \in Threads, Release(t)
    PROVE  LimiterInv'
<1>0. LimiterShape /\ t[1] \in Processes
  BY ThreadsFinite DEF LimiterInv
<1>1. at' = [u \in Threads |-> IF u \in {t} THEN "idle" ELSE at[u]]
  BY <1>0 DEF Release, LimiterShape
<1>2. lease' = [u \in Threads |-> IF u \in {t} THEN 0 ELSE lease[u]]
  BY <1>0 DEF Release, LimiterShape
<1>3. orphans' \in {orphans, Orphaned({t})} /\ connected' \in [Processes -> BOOLEAN]
  BY <1>0 DEF Release, LimiterShape
<1>4. {t} \in SUBSET Threads
  OBVIOUS
<1> QED BY <1>1, <1>2, <1>3, <1>4, GiveUpKeeps

LEMMA CrashKeeps ==
    ASSUME LimiterInv, NEW p \in Processes, CrashProcess(p)
    PROVE  LimiterInv'
<1>0. LimiterShape
  BY DEF LimiterInv
<1>1. \A t \in Threads : t[1] = p <=> t \in ThreadsOf(p)
  BY ThreadsFinite
<1>2. at' = [t \in Threads |-> IF t \in ThreadsOf(p) THEN "idle" ELSE at[t]]
  BY <1>1 DEF CrashProcess
<1>3. lease' = [t \in Threads |-> IF t \in ThreadsOf(p) THEN 0 ELSE lease[t]]
  BY <1>1 DEF CrashProcess
<1>4. orphans' = Orphaned(ThreadsOf(p)) /\ connected' \in [Processes -> BOOLEAN]
  BY <1>0 DEF CrashProcess, LimiterShape
<1>5. ThreadsOf(p) \in SUBSET Threads
  BY ThreadsFinite
<1> QED BY <1>2, <1>3, <1>4, <1>5, GiveUpKeeps

(* Time takes leases away, and adds none.                                  *)
LEMMA TickKeeps ==
    ASSUME "long_calls" \notin Faults, LimiterInv, Tick
    PROVE  LimiterInv'
<1>0. LimiterShape
  BY DEF LimiterInv
<1>1. \A t \in Threads : lease[t] \in 0..TTL /\ OneLess(lease[t]) \in 0..TTL
                            /\ (OneLess(lease[t]) > 0 => lease[t] > 0) /\ (lease[t] > 1 => OneLess(lease[t]) > 0)
  BY <1>0, LimiterConstants DEF LimiterShape, OneLess
<1>2. \A n \in 1..TTL : OrphansLater[n] \in Nat /\ (n < TTL => n + 1 \in 1..TTL)
  BY <1>0, LimiterConstants DEF LimiterShape, OrphansLater
<1>3. LimiterShape'
  <2>1. lease' \in [Threads -> 0..TTL]
    BY <1>1 DEF Tick
  <2>2. orphans' \in [1..TTL -> Nat]
    BY <1>2 DEF Tick, OrphansLater
  <2> QED BY <1>0, <2>1, <2>2 DEF LimiterShape, Tick
<1>4. CallsHoldLeases'
  BY <1>1 DEF Tick, CallsHoldLeases
<1>5. LocalBounded'
  BY LocalShrinks DEF Tick
<1>6. Held(lease') \subseteq Held(lease) /\ Held(lease) \in SUBSET Threads
  BY <1>1 DEF Tick, Held
<1>7. Cardinality(Held(lease')) <= Cardinality(Held(lease)) /\ Cardinality(Held(lease')) \in Nat
  BY <1>6, ThreadsFinite, FS_Subset
<1>8. Total(orphans', 1..TTL) <= Total(orphans, 1..TTL) /\ Total(orphans', 1..TTL) \in Nat
  <2> DEFINE S == 1..(TTL - 1)
             T == 1..TTL
             g == orphans'
             h == [n \in S |-> n + 1]
  <2>1. /\ IsFiniteSet(S) /\ IsFiniteSet(T) /\ T = S \cup {TTL} /\ TTL \notin S
    BY LimiterConstants, FS_Interval
  <2>2. /\ \A n \in S : h[n] \in T /\ g[n] \in Nat /\ g[n] <= orphans[h[n]]
        /\ \A m, n \in S : h[m] = h[n] => m = n
        /\ \A n \in T : orphans[n] \in Nat
        /\ \A n \in T : g[n] \in Int
        /\ g[TTL] = 0
    BY <1>0, <1>2, LimiterConstants DEF LimiterShape, Tick, OrphansLater
  <2> HIDE DEF S, T, g, h
  <2>3. Total(g, S) <= Total(orphans, T)
    BY ONLY <2>1, <2>2, TotalInjects
  <2>4. Total(g, T) = Total(g, S) + g[TTL]
    BY <2>1, <2>2, TotalAdd
  <2>5. Total(g, S) \in Nat
    BY <2>1, <2>2, TotalNat
  <2>6. Total(g, T) = Total(g, S)
    BY <2>2, <2>4, <2>5
  <2> QED BY <2>3, <2>5, <2>6 DEF T, g
<1>9. LeasesBounded'
  <2>1. Leases' = Cardinality(Held(lease')) + Total(orphans', 1..TTL)
    BY DEF Leases, Held, Total
  <2>2. Leases = Cardinality(Held(lease)) + Total(orphans, 1..TTL) /\ Leases <= MaxInflight
    BY <1>0, LeasesAre DEF LimiterInv, LeasesBounded
  <2> QED BY <1>0, <1>7, <1>8, <2>1, <2>2, LeasesAre, LimiterConstants DEF LeasesBounded
<1> QED BY <1>3, <1>4, <1>5, <1>9 DEF LimiterInv

LEMMA LimiterInitial == LimiterInit => LimiterInv
<1> SUFFICES ASSUME LimiterInit PROVE LimiterInv
  OBVIOUS
<1>1. LimiterShape /\ CallsHoldLeases
  BY LimiterConstants DEF LimiterInit, LimiterShape, CallsHoldLeases, Place
<1>2. Held(lease) = {} /\ \A p \in Processes : {t \in ThreadsOf(p) : at[t] = "local"} = {}
  BY ThreadsFinite DEF LimiterInit, Held
<1>3. Total(orphans, 1..TTL) = 0
  <2> DEFINE V == 1..TTL
  <2>1. IsFiniteSet(V) /\ \A n \in V : orphans[n] = 0
    BY LimiterConstants, FS_Interval DEF LimiterInit
  <2>2. Total(orphans, V) = 0
    <3> HIDE DEF V
    <3> QED BY <2>1, TotalZero
  <2> QED BY <2>2
<1>4. Leases = 0
  BY <1>1, <1>2, <1>3, LeasesAre, FS_EmptySet
<1>5. LocalBounded
  BY <1>2, LimiterConstants, FS_EmptySet DEF LocalBounded, Through
<1> QED BY <1>1, <1>4, <1>5, LimiterConstants DEF LimiterInv, LeasesBounded

LEMMA LimiterStep ==
    ASSUME "long_calls" \notin Faults
    PROVE  LimiterInv /\ [LimiterNext]_limiterVars => LimiterInv'
<1> SUFFICES ASSUME LimiterInv, [LimiterNext]_limiterVars PROVE LimiterInv'
  OBVIOUS
<1>1. ASSUME NEW t \in Threads, Enter(t) \/ FallBack(t) PROVE LimiterInv'
  BY <1>1, EnterKeeps
<1>2. ASSUME NEW t \in Threads, Acquire(t) PROVE LimiterInv'
  BY <1>2, AcquireKeeps
<1>3. ASSUME NEW t \in Threads, AcquireFails(t) PROVE LimiterInv'
  BY <1>3, AcquireFailsKeeps
<1>4. ASSUME NEW t \in Threads, AcquireLocal(t) PROVE LimiterInv'
  BY <1>4, AcquireLocalKeeps
<1>5. ASSUME NEW t \in Threads, Release(t) PROVE LimiterInv'
  BY <1>5, ReleaseKeeps
<1>6. ASSUME NEW p \in Processes, CrashProcess(p) PROVE LimiterInv'
  BY <1>6, CrashKeeps
<1>7. CASE Tick
  BY <1>7, TickKeeps
<1>8. CASE UNCHANGED limiterVars
  BY <1>8 DEF limiterVars, LimiterInv, LimiterShape, CallsHoldLeases, LeasesBounded, Leases, LocalBounded, Through
<1> QED BY <1>1, <1>2, <1>3, <1>4, <1>5, <1>6, <1>7, <1>8 DEF LimiterNext

-----------------------------------------------------------------------------
(* The processes' own limits add up.                                       *)
LEMMA LocalTogether ==
    ASSUME LimiterInv
    PROVE  Through("local", Threads) <= MaxInflight * Cardinality(Processes)
<1> DEFINE Of(P) == {t \in P \X Workers : at[t] = "local"}
           Few(P) == Cardinality(Of(P)) <= MaxInflight * Cardinality(P)
           F == {P \in SUBSET Processes : ~Few(P)}
<1>0. IsFiniteSet(Processes) /\ MaxInflight \in Nat
  BY LimiterConstants
<1>1. \A P \in SUBSET Processes : Of(P) \in SUBSET Threads /\ IsFiniteSet(Of(P)) /\ Cardinality(Of(P)) \in Nat
  <2>1. \A P \in SUBSET Processes : Of(P) \in SUBSET Threads
    BY DEF Threads
  <2> HIDE DEF Of
  <2> QED BY <2>1, ThreadsFinite
<1>2. ASSUME NEW P \in SUBSET Processes, NEW p \in P
      PROVE  Of(P) = Of(P \ {p}) \cup Of({p})
  OBVIOUS
<1>3. \A p \in Processes : Cardinality(Of({p})) <= MaxInflight
  BY DEF LimiterInv, LocalBounded, Through, ThreadsOf
<1>4. Of({}) = {}
  OBVIOUS
<1>5. Of(Processes) = {t \in Threads : at[t] = "local"}
  BY DEF Threads
<1> HIDE DEF Of
<1>6. ASSUME F # {} PROVE FALSE
  <2>1. F \in SUBSET SUBSET Processes
    OBVIOUS
  <2> HIDE DEF F
  <2>2. PICK P \in F : \A Q \in F : Q \subseteq P => Q = P
    BY ONLY <1>0, <2>1, <1>6, SmallestSet
  <2>3. P \in SUBSET Processes /\ ~Few(P) /\ IsFiniteSet(P)
    BY <1>0, <2>2, FS_Subset DEF F
  <2>4. P # {}
    <3>1. MaxInflight * 0 = 0 /\ Cardinality({}) = 0
      BY <1>0, FS_EmptySet
    <3> QED BY <1>4, <2>3, <3>1
  <2>5. PICK p \in P : TRUE
    BY <2>4
  <2> DEFINE Q == P \ {p}
  <2>6. Q \in SUBSET Processes /\ {p} \in SUBSET Processes /\ p \in Processes /\ Q # P /\ Q \subseteq P
    BY <2>3, <2>5
  <2>7. Few(Q)
    BY <2>2, <2>6 DEF F
  <2>8. Cardinality(P) = Cardinality(Q) + 1 /\ Cardinality(Q) \in Nat
    <3>1. IsFiniteSet(P) /\ p \in P /\ Cardinality(P) \in Nat
      BY <2>3, <2>5, FS_CardinalityType
    <3>2. IsFiniteSet(P \ {p}) /\ Cardinality(P \ {p}) = Cardinality(P) - 1
      BY ONLY <3>1, FS_RemoveElement
    <3>3. Cardinality(P \ {p}) \in Nat
      BY ONLY <3>2, FS_CardinalityType
    <3> QED BY <3>1, <3>2, <3>3
  <2>9. Of(P) = Of(Q) \cup Of({p})
    BY <1>2, <2>3
  <2> HIDE DEF Q
  <2>10. Cardinality(Of(P)) <= Cardinality(Of(Q)) + Cardinality(Of({p}))
    <3>1. /\ IsFiniteSet(Of(Q)) /\ IsFiniteSet(Of({p})) /\ Cardinality(Of(Q)) \in Nat /\ Cardinality(Of({p})) \in Nat
          /\ IsFiniteSet(Of(Q) \cap Of({p}))
      BY <1>1, <2>6, FS_Intersection
    <3>2. Cardinality(Of(Q) \cap Of({p})) \in Nat
      BY <3>1, FS_CardinalityType
    <3>3. Cardinality(Of(P)) = Cardinality(Of(Q)) + Cardinality(Of({p})) - Cardinality(Of(Q) \cap Of({p}))
      BY <2>9, <3>1, FS_Union
    <3> QED BY <3>1, <3>2, <3>3
  <2> DEFINE m == MaxInflight
             k == Cardinality(Q)
  <2>11. m * (k + 1) = m * k + m /\ m * k \in Nat
    BY <1>0, <2>8
  <2>12. /\ Cardinality(Of(Q)) <= m * k /\ Cardinality(Of({p})) <= m
         /\ Cardinality(Of(Q)) \in Nat /\ Cardinality(Of({p})) \in Nat /\ Cardinality(Of(P)) \in Nat
    BY <1>1, <1>3, <2>3, <2>6, <2>7
  <2>13. Cardinality(Of(P)) <= m * k + m
    <3> DEFINE mk == m * k
    <3>1. mk \in Nat
      BY <2>11
    <3>2. Cardinality(Of(Q)) <= mk
      BY <2>12
    <3> HIDE DEF mk
    <3>3. Cardinality(Of(P)) <= mk + m
      BY <1>0, <2>10, <2>12, <3>1, <3>2
    <3> QED BY <3>3 DEF mk
  <2>14. Few(P)
    BY <2>8, <2>11, <2>13
  <2> QED BY <2>3, <2>14
<1>7. Few(Processes)
  BY <1>6
<1> QED BY <1>5, <1>7 DEF Through

LEMMA InvBoundsCapacity == LimiterInv => CapacityBounded
<1> SUFFICES ASSUME LimiterInv PROVE CapacityBounded
  OBVIOUS
<1> DEFINE R == {t \in Threads : at[t] = "redis"}
           L == {t \in Threads : at[t] = "local"}
<1>0. /\ IsFiniteSet(R) /\ IsFiniteSet(L) /\ Cardinality(R) \in Nat /\ Cardinality(L) \in Nat
      /\ IsFiniteSet(Held(lease)) /\ Cardinality(Held(lease)) \in Nat
  <2>1. R \in SUBSET Threads /\ L \in SUBSET Threads /\ Held(lease) \in SUBSET Threads
    BY DEF Held
  <2> HIDE DEF R, L
  <2> QED BY <2>1, ThreadsFinite
<1>1. R \subseteq Held(lease)
  BY DEF LimiterInv, CallsHoldLeases, Held
<1>2. InFlight = R \cup L /\ R \cap L = {}
  BY DEF InFlight
<1>3. Cardinality(L) <= MaxInflight * Cardinality(Processes)
  BY LocalTogether DEF Through
<1>4. Through("redis", Threads) = Cardinality(R)
  BY DEF Through
<1> HIDE DEF R, L
<1>5. Cardinality(R) <= MaxInflight
  <2>1. Cardinality(R) <= Cardinality(Held(lease))
    BY <1>0, <1>1, FS_Subset
  <2>2. Cardinality(Held(lease)) <= Leases /\ Leases <= MaxInflight /\ Leases \in Nat
    BY LeasesAre DEF LimiterInv, LeasesBounded
  <2> QED BY <1>0, <2>1, <2>2, LimiterConstants
<1>6. Cardinality(InFlight) = Cardinality(R) + Cardinality(L)
  BY <1>0, <1>2, FS_Union, FS_EmptySet
<1> DEFINE m == MaxInflight
           k == Cardinality(Processes)
<1>7. m \in Nat /\ k \in Nat /\ m * (k + 1) = m * k + m /\ m * k \in Nat
  BY LimiterConstants, FS_CardinalityType
<1>8. Cardinality(InFlight) <= m * (k + 1)
  <2> DEFINE mk == m * k
  <2>1. mk \in Nat /\ Cardinality(L) <= mk /\ m * (k + 1) = mk + m
    BY <1>3, <1>7
  <2> HIDE DEF mk
  <2> QED BY <1>0, <1>5, <1>6, <1>7, <2>1
<1> QED BY <1>4, <1>5, <1>8 DEF CapacityBounded

(* However many processes, threads and leases there are, and whatever fails *)
(* of Redis and of the processes: no more calls are in flight than the      *)
(* limit allows, through Redis and altogether, as long as no call outlasts  *)
(* its lease.                                                              *)
THEOREM CapacityAlwaysBounded ==
    ASSUME "long_calls" \notin Faults
    PROVE  LimiterSpec => []CapacityBounded
<1> QED BY LimiterInitial, LimiterStep, InvBoundsCapacity, PTL DEF LimiterSpec

-----------------------------------------------------------------------------
(* ProviderCalls: the budget is exceeded by what nobody sees, no more      *)

LEMMA TotalRestrict ==
    ASSUME NEW R, IsFiniteSet(R), NEW f, \A r \in R : f[r] \in Int
    PROVE  SumFunction([r \in R |-> f[r]]) = Total(f, R)
<1> DEFINE g == [r \in R |-> f[r]]
<1>1. DOMAIN g = R /\ \A r \in R : g[r] \in Int /\ g[r] = f[r]
  OBVIOUS
<1> HIDE DEF g
<1>2. Total(g, R) = Total(f, R)
  BY <1>1, TotalEqual
<1>3. SumFunction(g) = Total(g, R)
  BY <1>1 DEF SumFunction, Total
<1> QED BY <1>2, <1>3 DEF g

(* A call that the budget has let on may be paid, until it fails or its     *)
(* node syncs or is lost. The budget has seen nothing of the calls that may *)
(* be paid, but each node has only so many.                                *)
Stages == {"idle", "profile", "budget", "circuit", "plugin", "ended"}
Statuses == {"prepared", "submitted", "polling", "succeeded", "failed", "timed_out"}
Errors == {"none", "config", "budget", "circuit", "provider"}
CallRecord == [stage : Stages, mine : Seq(Invocation)]

MayBePaid(c) ==
    {k \in DOMAIN c.mine :
        /\ c.mine[k].inPeriod
        /\ c.mine[k].status = "succeeded" \/ (k = Len(c.mine) /\ c.stage \in {"circuit", "plugin"})}
Unseen == [n \in Nodes |-> Cardinality(MayBePaid(call[n]))]
Most == Limit - 1 + Cardinality(Nodes) * CallsPerNode
Budgeted == setting = "budget" /\ Limit > 0

CallShape ==
    /\ rows \in [DOMAIN rows -> Nat] /\ IsFiniteSet(DOMAIN rows) /\ DOMAIN rows \subseteq Invocation
    /\ call \in [Nodes -> CallRecord] /\ \A n \in Nodes : Len(call[n].mine) <= CallsPerNode

UnseenFits == Budgeted => Spend + Total(Unseen, Nodes) <= Most

CallInv == CallShape /\ UnseenFits

-----------------------------------------------------------------------------
LEMMA CallTypes ==
    ASSUME NEW c \in CallRecord, Len(c.mine) <= CallsPerNode
    PROVE  /\ MayBePaid(c) \subseteq 1..Len(c.mine) /\ DOMAIN c.mine = 1..Len(c.mine) /\ Len(c.mine) \in Nat
           /\ IsFiniteSet(MayBePaid(c)) /\ IsFiniteSet(DOMAIN c.mine)
           /\ Cardinality(MayBePaid(c)) \in Nat /\ Cardinality(MayBePaid(c)) <= CallsPerNode
<1>1. c.mine \in Seq(Invocation)
  BY DEF CallRecord
<1>2. Len(c.mine) \in Nat /\ DOMAIN c.mine = 1..Len(c.mine)
  BY <1>1
<1>3. MayBePaid(c) \subseteq 1..Len(c.mine)
  BY <1>2 DEF MayBePaid
<1>4. IsFiniteSet(1..Len(c.mine)) /\ Cardinality(1..Len(c.mine)) = Len(c.mine)
  <2>1. 1 \in Int /\ Len(c.mine) \in Int /\ (1 > Len(c.mine) => Len(c.mine) = 0)
    BY <1>2
  <2> QED BY <2>1, FS_Interval
<1>5. /\ IsFiniteSet(MayBePaid(c)) /\ Cardinality(MayBePaid(c)) <= Len(c.mine)
      /\ Cardinality(MayBePaid(c)) \in Nat
  BY <1>3, <1>4, FS_Subset, FS_CardinalityType
<1> QED BY <1>2, <1>3, <1>4, <1>5, ProviderConstants

SpendFacts ==
    /\ Spend = Total(rows, {r \in DOMAIN rows : Paid(r)}) /\ Spend \in Nat
    /\ IsFiniteSet(Nodes) /\ IsFiniteSet(DOMAIN rows)
    /\ \A n \in Nodes : Unseen[n] \in Nat /\ Unseen[n] <= CallsPerNode
    /\ Total(Unseen, Nodes) \in Nat
    /\ Total(Unseen, Nodes) <= Cardinality(Nodes) * CallsPerNode
    /\ Cardinality(Nodes) * CallsPerNode \in Nat /\ Limit \in Nat

LEMMA SpendShape == CallShape => SpendFacts
<1> SUFFICES ASSUME CallShape PROVE SpendFacts
  OBVIOUS
<1> DEFINE R == {r \in DOMAIN rows : Paid(r)}
<1>1. R \subseteq DOMAIN rows /\ IsFiniteSet(DOMAIN rows) /\ \A r \in DOMAIN rows : rows[r] \in Nat
  BY DEF CallShape
<1>2. Spend = SumFunction([r \in R |-> rows[r]])
  BY DEF Spend, Those, BagToSet
<1> HIDE DEF R
<1>3. IsFiniteSet(R) /\ \A r \in R : rows[r] \in Nat
  BY <1>1, FS_Subset
<1>4. SumFunction([r \in R |-> rows[r]]) = Total(rows, R)
  <2>1. \A r \in R : rows[r] \in Int
    BY <1>3
  <2> QED BY ONLY <1>3, <2>1, TotalRestrict
<1>5. Total(rows, R) \in Nat
  BY ONLY <1>3, TotalNat
<1>6. IsFiniteSet(Nodes) /\ Cardinality(Nodes) \in Nat /\ CallsPerNode \in Nat /\ Limit \in Nat
  BY ProviderConstants, FS_CardinalityType
<1>7. \A n \in Nodes : Unseen[n] \in Nat /\ Unseen[n] <= CallsPerNode
  BY CallTypes DEF CallShape, Unseen
<1>8. Total(Unseen, Nodes) \in Nat
  <2>1. \A n \in Nodes : Unseen[n] \in Nat
    BY <1>7
  <2> QED BY ONLY <1>6, <2>1, TotalNat
<1>9. Total(Unseen, Nodes) <= Cardinality(Nodes) * CallsPerNode
  <2>1. \A n \in Nodes : Unseen[n] \in Int /\ Unseen[n] <= CallsPerNode
    BY <1>7
  <2> QED BY ONLY <1>6, <2>1, TotalBounded
<1>10. Cardinality(Nodes) * CallsPerNode \in Nat
  BY <1>6
<1> QED BY <1>1, <1>2, <1>4, <1>5, <1>6, <1>7, <1>8, <1>9, <1>10 DEF R, SpendFacts

LEMMA SpendIs == (CallShape => SpendFacts) /\ (CallShape' => SpendFacts')
<1>1. CallShape' => SpendFacts'
  BY SpendShape, PTL
<1> QED BY <1>1, SpendShape

LEMMA InvBoundsSpend == CallInv => SpendBounded
<1> SUFFICES ASSUME CallInv, Budgeted PROVE Spend <= Most
  BY DEF SpendBounded, Budgeted, Most
<1>1. Spend + Total(Unseen, Nodes) <= Most
  BY DEF CallInv, UnseenFits
<1> DEFINE all == Cardinality(Nodes) * CallsPerNode
<1>2. Spend \in Nat /\ Total(Unseen, Nodes) \in Nat /\ all \in Nat /\ Limit \in Nat
  BY SpendIs DEF CallInv, SpendFacts
<1> HIDE DEF all
<1>3. Most \in Int
  BY <1>2 DEF Most, all
<1> QED BY <1>1, <1>2, <1>3

(* A step of one node that stores nothing: what may be paid does not grow,  *)
(* or the budget has just been looked at.                                  *)
LEMMA NodeStep ==
    ASSUME CallInv, NEW n \in Nodes, NEW c \in CallRecord, Len(c.mine) <= CallsPerNode,
           call' = [call EXCEPT ![n] = c], UNCHANGED <<setting, rows>>,
           MayBePaid(c) \subseteq MayBePaid(call[n]) \/ (Budgeted => Spend <= Limit - 1)
    PROVE  CallInv'
<1>0. CallShape
  BY DEF CallInv
<1>1. CallShape'
  <2>1. call' \in [Nodes -> CallRecord] /\ \A m \in Nodes : Len(call'[m].mine) <= CallsPerNode
    BY <1>0 DEF CallShape
  <2> QED BY <1>0, <2>1 DEF CallShape
<1>2. Spend' = Spend
  BY DEF Spend
<1> DEFINE all == Cardinality(Nodes) * CallsPerNode
<1>3. /\ Spend \in Nat /\ Total(Unseen, Nodes) \in Nat /\ Limit \in Nat /\ all \in Nat /\ Most = Limit - 1 + all
  BY <1>0, SpendIs DEF Most, SpendFacts
<1>4. Total(Unseen', Nodes) \in Nat /\ Total(Unseen', Nodes) <= all
  BY <1>1, SpendIs DEF SpendFacts
<1> HIDE DEF all
<1>5. CASE MayBePaid(c) \subseteq MayBePaid(call[n])
  <2> DEFINE f == Unseen'
             g == Unseen
  <2>1. Cardinality(MayBePaid(c)) <= Cardinality(MayBePaid(call[n]))
    <3>1. IsFiniteSet(MayBePaid(call[n]))
      BY <1>0, CallTypes DEF CallShape
    <3> QED BY <1>5, <3>1, FS_Subset
  <2>2. \A m \in Nodes : f[m] \in Int /\ g[m] \in Int
    BY <1>0, <1>1, SpendIs DEF SpendFacts
  <2>3. \A m \in Nodes : f[m] <= g[m]
    BY <1>0, <2>1, <2>2 DEF CallShape, Unseen
  <2>4. IsFiniteSet(Nodes)
    BY <1>0, SpendIs DEF SpendFacts
  <2> HIDE DEF f, g
  <2>5. Total(f, Nodes) <= Total(g, Nodes)
    BY ONLY <2>2, <2>3, <2>4, TotalMonotone
  <2>6. Budgeted' => Spend' + Total(f, Nodes) <= Most
    BY <1>2, <1>3, <1>4, <2>5 DEF CallInv, UnseenFits, Budgeted, f, g
  <2> QED BY <1>1, <2>6 DEF CallInv, UnseenFits, f, Most
<1>6. CASE Budgeted => Spend <= Limit - 1
  <2>1. Budgeted' => Spend' + Total(Unseen', Nodes) <= Most
    BY <1>2, <1>3, <1>4, <1>6 DEF Budgeted
  <2> QED BY <1>1, <2>1 DEF CallInv, UnseenFits, Most
<1> QED BY <1>5, <1>6

LEMMA CallRecords == \A s \in Stages : \A q \in Seq(Invocation) : [stage |-> s, mine |-> q] \in CallRecord
BY DEF CallRecord

(* The last invocation of a node changes its status.                       *)
LEMMA MovesKeep ==
    ASSUME CallInv, NEW n \in Nodes, NEW status \in Statuses, NEW error \in Errors, NEW stage \in Stages,
           Moves(n, status, error, stage),
           status = "succeeded" \/ stage \in {"circuit", "plugin"}
               => call[n].stage \in {"circuit", "plugin"}
    PROVE  CallInv'
<1> DEFINE mine == call[n].mine
           k == Len(mine)
           last == [mine[k] EXCEPT !.status = status, !.error = error]
           new == [mine EXCEPT ![k] = last]
           c == [stage |-> stage, mine |-> new]
<1>0. call \in [Nodes -> CallRecord] /\ call[n] \in CallRecord /\ k <= CallsPerNode
  BY DEF CallInv, CallShape
<1>1. mine \in Seq(Invocation) /\ k \in Nat /\ DOMAIN mine = 1..k /\ mine \in [1..k -> Invocation]
  BY <1>0 DEF CallRecord
<1>2. call' = [call EXCEPT ![n] = c]
  BY <1>0 DEF Moves
<1>3. k \in 1..k => last \in Invocation /\ last.inPeriod = mine[k].inPeriod /\ last.status = status
  <2> SUFFICES ASSUME k \in 1..k PROVE last \in Invocation /\ last.inPeriod = mine[k].inPeriod /\ last.status = status
    OBVIOUS
  <2>1. mine[k] \in Invocation
    BY <1>1
  <2> QED BY <2>1 DEF Invocation, Statuses, Errors
<1>4. DOMAIN new = 1..k /\ \A i \in 1..k : new[i] = IF i = k THEN last ELSE mine[i]
  BY <1>1
<1> HIDE DEF last, k, mine
<1>5. new \in [1..k -> Invocation]
  <2>1. \A i \in 1..k : new[i] \in Invocation
    BY <1>1, <1>3, <1>4
  <2> QED BY <1>1, <2>1
<1>6. new \in Seq(Invocation) /\ Len(new) = k
  BY <1>1, <1>4, <1>5
<1> HIDE DEF new
<1>7. c \in CallRecord /\ Len(c.mine) <= CallsPerNode /\ c.mine = new /\ c.stage = stage
  BY <1>0, <1>6, CallRecords
<1>8. MayBePaid(c) \subseteq MayBePaid(call[n])
  <2> SUFFICES ASSUME NEW i \in MayBePaid(c) PROVE i \in MayBePaid(call[n])
    OBVIOUS
  <2>1. /\ i \in 1..k /\ new[i].inPeriod
        /\ new[i].status = "succeeded" \/ (i = k /\ stage \in {"circuit", "plugin"})
    BY <1>4, <1>6, <1>7 DEF MayBePaid
  <2>2. CASE i # k
    BY <1>1, <1>4, <2>1, <2>2 DEF MayBePaid, mine
  <2>3. CASE i = k
    <3>1. mine[i].inPeriod /\ (status = "succeeded" \/ stage \in {"circuit", "plugin"})
      BY <1>3, <1>4, <2>1, <2>3
    <3> QED BY <1>1, <2>1, <2>3, <3>1 DEF MayBePaid, mine, k
  <2> QED BY <2>2, <2>3
<1> HIDE DEF c
<1> QED BY <1>2, <1>7, <1>8, NodeStep DEF Moves

LEMMA ReturnKeeps ==
    ASSUME CallInv, NEW n \in Nodes, NEW status \in Statuses, NEW error \in Errors,
           Return(n, status, error), status = "succeeded" => call[n].stage = "plugin"
    PROVE  CallInv'
<1>1. PICK stage \in {"idle", "ended"} : Moves(n, status, error, stage)
  BY DEF Return
<1>2. stage \in Stages /\ stage \notin {"circuit", "plugin"}
  BY DEF Stages
<1> QED BY <1>1, <1>2, MovesKeep

(* A check that lets a call on.                                            *)
LEMMA GoesOn ==
    ASSUME CallInv, NEW n \in Nodes, NEW stage \in Stages,
           call' = [call EXCEPT ![n].stage = stage], UNCHANGED <<setting, rows>>,
           \/ stage \notin {"circuit", "plugin"}
           \/ Budgeted => Spend <= Limit - 1
    PROVE  CallInv'
<1> DEFINE c == [stage |-> stage, mine |-> call[n].mine]
<1>1. call \in [Nodes -> CallRecord] /\ call[n] \in CallRecord /\ Len(call[n].mine) <= CallsPerNode
  BY DEF CallInv, CallShape
<1>2. call' = [call EXCEPT ![n] = c]
  <2>1. [call[n] EXCEPT !.stage = stage] = c
    BY <1>1 DEF CallRecord
  <2> QED BY <1>1, <2>1
<1>3. c \in CallRecord /\ Len(c.mine) <= CallsPerNode
  BY <1>1, CallRecords DEF CallRecord
<1>4. stage \notin {"circuit", "plugin"} => MayBePaid(c) \subseteq MayBePaid(call[n])
  BY DEF MayBePaid
<1> HIDE DEF c
<1> QED BY <1>2, <1>3, <1>4, NodeStep

LEMMA InvokeKeeps ==
    ASSUME CallInv, NEW n \in Nodes, Invoke(n)
    PROVE  CallInv'
<1> DEFINE mine == call[n].mine
           new == Append(mine, Prepared)
           c == [stage |-> "profile", mine |-> new]
<1>1. call[n] \in CallRecord /\ mine \in Seq(Invocation) /\ Len(mine) \in Nat /\ Len(mine) < CallsPerNode
      /\ call \in [Nodes -> CallRecord]
  BY DEF CallInv, CallShape, CallRecord, Invoke
<1>2. Prepared \in Invocation /\ Prepared.status = "prepared"
  BY ProviderConstants DEF Prepared, Invocation
<1>3. /\ new \in Seq(Invocation) /\ Len(new) = Len(mine) + 1 /\ DOMAIN new = 1..(Len(mine) + 1)
      /\ DOMAIN mine = 1..Len(mine)
      /\ \A k \in 1..Len(mine) : new[k] = mine[k]
      /\ new[Len(mine) + 1] = Prepared
  BY <1>1, <1>2
<1>4. call' = [call EXCEPT ![n] = c] /\ UNCHANGED <<setting, rows>>
  BY <1>1 DEF Invoke
<1>5. \A k \in 1..(Len(mine) + 1) : k \in 1..Len(mine) \/ k = Len(mine) + 1
  BY <1>1
<1> HIDE DEF new, mine
<1>6. c \in CallRecord /\ Len(c.mine) <= CallsPerNode /\ c.mine = new /\ c.stage = "profile"
  <2>1. "profile" \in Stages
    BY DEF Stages
  <2> QED BY <1>1, <1>3, <2>1, CallRecords, ProviderConstants
<1>7. MayBePaid(c) \subseteq MayBePaid(call[n])
  <2> SUFFICES ASSUME NEW k \in MayBePaid(c) PROVE k \in MayBePaid(call[n])
    OBVIOUS
  <2>1. k \in 1..(Len(mine) + 1) /\ new[k].inPeriod /\ new[k].status = "succeeded"
    BY <1>3, <1>6 DEF MayBePaid
  <2>2. k # Len(mine) + 1
    BY <1>2, <1>3, <2>1
  <2> QED BY <1>3, <1>5, <2>1, <2>2 DEF MayBePaid, mine
<1> HIDE DEF c
<1> QED BY <1>4, <1>6, <1>7, NodeStep

LEMMA NoCallEmpty ==
    NoCall \in CallRecord /\ Len(NoCall.mine) <= CallsPerNode /\ MayBePaid(NoCall) = {}
<1>1. <<>> \in Seq(Invocation) /\ Len(<<>>) = 0 /\ DOMAIN <<>> = {} /\ "idle" \in Stages
  BY DEF Stages
<1>2. NoCall = [stage |-> "idle", mine |-> <<>>] /\ NoCall.mine = <<>>
  BY DEF NoCall
<1>3. NoCall \in CallRecord
  BY <1>1, <1>2, CallRecords
<1>4. 0 <= CallsPerNode
  BY ProviderConstants
<1>5. MayBePaid(NoCall) = {}
  BY <1>1, <1>2 DEF MayBePaid
<1> QED BY <1>1, <1>2, <1>3, <1>4, <1>5

LEMMA LoseKeeps ==
    ASSUME CallInv, NEW n \in Nodes, LoseNode(n)
    PROVE  CallInv'
BY NoCallEmpty, NodeStep DEF LoseNode

-----------------------------------------------------------------------------
(* A node that syncs: what may be paid becomes what is paid.                *)
LEMMA SyncKeeps ==
    ASSUME CallInv, NEW n \in Nodes, SyncNode(n)
    PROVE  CallInv'
<1> DEFINE mine == call[n].mine
           D == DOMAIN mine
           New == {mine[k] : k \in D}
           new == [r \in New |-> Cardinality({k \in D : mine[k] = r})]
           sum == rows (+) new
           hot == MayBePaid(call[n])
<1>0. CallShape /\ CallShape /\ call[n] \in CallRecord /\ Len(mine) <= CallsPerNode
  BY DEF CallInv, CallShape
<1>1. /\ IsFiniteSet(D) /\ \A k \in D : mine[k] \in Invocation
      /\ \A r : IsFiniteSet({k \in D : mine[k] = r}) /\ Cardinality({k \in D : mine[k] = r}) \in Nat
  <2>1. mine \in Seq(Invocation) /\ IsFiniteSet(D)
    BY <1>0, CallTypes DEF CallRecord
  <2>2. \A r : {k \in D : mine[k] = r} \in SUBSET D
    OBVIOUS
  <2>3. \A S \in SUBSET D : IsFiniteSet(S) /\ Cardinality(S) \in Nat
    BY <2>1, FS_Subset, FS_CardinalityType
  <2> QED BY <2>1, <2>2, <2>3
<1>2. New \subseteq Invocation /\ IsFiniteSet(New)
  <2>1. New \subseteq Invocation
    BY <1>1
  <2>2. [k \in D |-> mine[k]] \in Surjection(D, New)
    BY DEF Surjection
  <2> HIDE DEF New, D
  <2>3. IsFiniteSet(New)
    BY <1>1, <2>2, FS_Surjection
  <2> QED BY <2>1, <2>3
<1>3. /\ rows \in [DOMAIN rows -> Nat] /\ IsFiniteSet(DOMAIN rows) /\ DOMAIN rows \subseteq Invocation
  BY <1>0 DEF CallShape
<1>4. /\ DOMAIN sum = DOMAIN rows \cup New
      /\ \A r \in DOMAIN sum :
            sum[r] = (IF r \in DOMAIN rows THEN rows[r] ELSE 0)
                         + (IF r \in New THEN new[r] ELSE 0)
  BY DEF (+)
<1>5. \A r : (IF r \in New THEN new[r] ELSE 0) = Cardinality({k \in D : mine[k] = r})
  <2> SUFFICES ASSUME NEW r PROVE (IF r \in New THEN new[r] ELSE 0) = Cardinality({k \in D : mine[k] = r})
    OBVIOUS
  <2>1. CASE r \in New
    BY <2>1
  <2>2. CASE r \notin New
    <3>1. {k \in D : mine[k] = r} = {}
      BY <2>2
    <3> QED BY <2>2, <3>1, FS_EmptySet
  <2> QED BY <2>1, <2>2
<1> DEFINE W == {r \in DOMAIN sum : Visible(r)}
<1>6. rows' = [r \in W |-> sum[r]] /\ call' = [call EXCEPT ![n] = NoCall] /\ setting' = setting
  BY DEF SyncNode, Those, BagToSet
<1> DEFINE base == [r \in DOMAIN sum |-> IF r \in DOMAIN rows THEN rows[r] ELSE 0]
<1>7. \A r \in DOMAIN sum : /\ base[r] \in Nat /\ base[r] \in Int /\ sum[r] \in Nat
                            /\ sum[r] = base[r] + Cardinality({k \in D : mine[k] = r})
  <2> SUFFICES ASSUME NEW r \in DOMAIN sum
               PROVE  /\ base[r] \in Nat /\ base[r] \in Int /\ sum[r] \in Nat
                      /\ sum[r] = base[r] + Cardinality({k \in D : mine[k] = r})
    OBVIOUS
  <2> DEFINE count == Cardinality({k \in D : mine[k] = r})
  <2>1. count \in Nat
    BY <1>1
  <2>2. base[r] \in Nat
    BY <1>3
  <2>3. sum[r] = base[r] + count
    BY <1>4, <1>5
  <2> HIDE DEF base, count, sum
  <2>4. sum[r] \in Nat
    BY <2>1, <2>2, <2>3
  <2> QED BY <2>2, <2>3, <2>4 DEF count
<1>8. /\ \A r \in DOMAIN sum \ DOMAIN rows : base[r] = 0
      /\ \A r \in DOMAIN rows : r \in DOMAIN sum /\ base[r] = rows[r]
  BY <1>4
<1>9. IsFiniteSet(DOMAIN sum) /\ DOMAIN sum \subseteq Invocation
  <2> HIDE DEF New, sum
  <2> QED BY <1>2, <1>3, <1>4, FS_Union
<1> HIDE DEF base, sum, new, New
<1>10. CallShape'
  <2>1. W \subseteq DOMAIN sum /\ IsFiniteSet(W)
    BY <1>9, FS_Subset
  <2>2. rows' \in [DOMAIN rows' -> Nat] /\ DOMAIN rows' = W
    BY <1>6, <1>7
  <2>3. NoCall \in CallRecord /\ Len(NoCall.mine) <= CallsPerNode
    BY NoCallEmpty
  <2>4. call' \in [Nodes -> CallRecord] /\ \A m \in Nodes : Len(call'[m].mine) <= CallsPerNode
    BY <1>0, <1>6, <2>3 DEF CallShape
  <2> QED BY <1>9, <2>1, <2>2, <2>4 DEF CallShape
<1>11. ASSUME Budgeted PROVE Spend' <= Spend + Cardinality(hot)
  <2> DEFINE V == {r \in DOMAIN sum : Paid(r)}
             U == {r \in DOMAIN rows : Paid(r)}
  <2>1. V = {r \in DOMAIN rows' : Paid(r)}
    BY <1>6, <1>11 DEF Paid, Visible, Budgeted
  <2>2. V \subseteq DOMAIN sum /\ IsFiniteSet(V) /\ U \subseteq V
    BY <1>8, <1>9, FS_Subset
  <2>3. \A r \in V : rows'[r] = sum[r]
    BY <1>6, <2>1
  <2>4. Spend' = Total(rows', V)
    BY <1>10, <2>1, SpendIs DEF SpendFacts
  <2>5. \A r \in V : /\ base[r] \in Int
                     /\ rows'[r] = base[r] + Cardinality({k \in D : mine[k] = r})
    BY <1>7, <2>2, <2>3
  <2>6. \A r \in V \ U : base[r] = 0
    BY <1>8
  <2>7. {k \in D : mine[k] \in V} \subseteq hot
    BY DEF MayBePaid, Paid
  <2>8. \A r \in U : base[r] \in Int /\ base[r] = rows[r]
    BY <1>7, <1>8
  <2>9. Spend = Total(rows, U)
    BY <1>0, SpendIs DEF SpendFacts
  <2> DEFINE g == rows'
             key == mine
  <2>10. \A r \in V : g[r] = base[r] + Cardinality({k \in D : key[k] = r})
    BY <2>5
  <2> HIDE DEF V, U, g, key, D
  <2>11. Total(g, V) = Total(base, V) + Cardinality({k \in D : key[k] \in V})
    <3>1. \A r \in V : base[r] \in Int
      BY <2>5
    <3>2. IsFiniteSet(D) /\ IsFiniteSet(V)
      BY <1>1, <2>2
    <3> QED BY ONLY <2>10, <3>1, <3>2, CountByValue
  <2>12. Total(base, V) = Total(base, U)
    <3>1. U \in SUBSET V /\ \A r \in V : base[r] \in Int
      BY <2>2, <2>5
    <3> QED BY ONLY <2>2, <2>6, <3>1, TotalSupport
  <2>13. Total(base, U) = Total(rows, U)
    <3>1. IsFiniteSet(U)
      BY <2>2, FS_Subset
    <3> QED BY ONLY <2>8, <3>1, TotalEqual
  <2>14. Cardinality({k \in D : key[k] \in V}) <= Cardinality(hot) /\ Cardinality({k \in D : key[k] \in V}) \in Nat
    <3>1. IsFiniteSet(hot) /\ {k \in D : key[k] \in V} \subseteq hot
      BY <1>0, <2>7, CallTypes DEF key
    <3> HIDE DEF hot
    <3> QED BY <3>1, FS_Subset, FS_CardinalityType
  <2>15. Cardinality(hot) \in Nat /\ Spend \in Nat
    BY <1>0, CallTypes, SpendIs DEF SpendFacts
  <2> HIDE DEF hot
  <2> QED BY <2>4, <2>9, <2>11, <2>12, <2>13, <2>14, <2>15 DEF g
<1>12. Total(Unseen', Nodes) = Total(Unseen, Nodes) - Cardinality(hot) /\ Cardinality(hot) \in Nat
  <2> DEFINE f == Unseen
             g == Unseen'
             d == 0 - Cardinality(hot)
  <2>1. MayBePaid(NoCall) = {}
    BY NoCallEmpty
  <2>2. Cardinality(hot) \in Nat
    BY <1>0, CallTypes
  <2>3. \A m \in Nodes : f[m] \in Int /\ f[m] = Cardinality(MayBePaid(call[m])) /\ g[m] = Cardinality(MayBePaid(call'[m]))
    BY <1>0, SpendIs DEF Unseen, SpendFacts
  <2>4. \A m \in Nodes : call'[m] = IF m = n THEN NoCall ELSE call[m]
    BY <1>0, <1>6 DEF CallShape
  <2>5. \A m \in Nodes : g[m] = IF m = n THEN f[m] + d ELSE f[m]
    <3>1. Cardinality({}) = 0 /\ f[n] = Cardinality(hot)
      BY <2>3, FS_EmptySet
    <3>2. g[n] = 0
      BY <2>1, <2>3, <2>4, <3>1
    <3>3. \A m \in Nodes : m # n => g[m] = f[m]
      BY <2>3, <2>4
    <3> HIDE DEF f, g, hot
    <3> QED BY <2>2, <3>1, <3>2, <3>3
  <2>6. d \in Int /\ IsFiniteSet(Nodes)
    BY <1>0, <2>2, SpendIs DEF SpendFacts
  <2>7. \A m \in Nodes : f[m] \in Int
    BY <2>3
  <2> HIDE DEF f, g, d
  <2>8. Total(g, Nodes) = Total(f, Nodes) + d
    BY ONLY <2>5, <2>6, <2>7, n \in Nodes, TotalBump
  <2>9. Total(f, Nodes) \in Nat
    BY <1>0, SpendIs DEF f, SpendFacts
  <2> QED BY <2>2, <2>8, <2>9 DEF f, g, d
<1> HIDE DEF hot
<1>13. Budgeted' => Spend' + Total(Unseen', Nodes) <= Most
  <2> DEFINE all == Cardinality(Nodes) * CallsPerNode
  <2>1. /\ Spend \in Nat /\ Spend' \in Nat /\ Total(Unseen, Nodes) \in Nat /\ Total(Unseen', Nodes) \in Nat
        /\ Limit \in Nat /\ all \in Nat /\ Most = Limit - 1 + all
    BY <1>0, <1>10, SpendIs DEF Most, SpendFacts
  <2>2. Budgeted' => Budgeted
    BY <1>6 DEF Budgeted
  <2> HIDE DEF all
  <2> QED BY <1>11, <1>12, <2>1, <2>2 DEF CallInv, UnseenFits
<1> QED BY <1>10, <1>13 DEF CallInv, UnseenFits, Most

-----------------------------------------------------------------------------
(* Time: an invocation becomes another of the same status, and never gets   *)
(* into a period that it was not in.                                       *)
LEMMA AgedKeeps ==
    ASSUME CallInv, NEW later \in [Invocation -> Invocation],
           \A r \in Invocation : later[r].status = r.status /\ (later[r].inPeriod => r.inPeriod),
           NEW seen \in SUBSET DOMAIN rows,
           rows' = [s \in {later[r] : r \in seen} |-> Total(rows, {r \in DOMAIN rows : later[r] = s})],
           call' = [n \in Nodes |-> [call[n] EXCEPT !.mine = [k \in DOMAIN @ |-> later[@[k]]]]],
           setting' = setting
    PROVE  CallInv'
<1> DEFINE V == {later[r] : r \in seen}
<1>0. CallShape
  BY DEF CallInv
<1>1. /\ rows \in [DOMAIN rows -> Nat] /\ IsFiniteSet(DOMAIN rows) /\ DOMAIN rows \subseteq Invocation
      /\ IsFiniteSet(seen)
  BY <1>0, FS_Subset DEF CallShape
<1>2. V \subseteq Invocation /\ IsFiniteSet(V) /\ DOMAIN rows' = V
  <2>1. V \subseteq Invocation /\ DOMAIN rows' = V
    BY <1>1
  <2>2. [r \in seen |-> later[r]] \in Surjection(seen, V)
    BY DEF Surjection
  <2> HIDE DEF V
  <2>3. IsFiniteSet(V)
    BY <1>1, <2>2, FS_Surjection
  <2> QED BY <2>1, <2>3
<1> HIDE DEF V
<1>3. \A s : /\ IsFiniteSet({r \in DOMAIN rows : later[r] = s})
             /\ Total(rows, {r \in DOMAIN rows : later[r] = s}) \in Nat
  <2> SUFFICES ASSUME NEW s PROVE /\ IsFiniteSet({r \in DOMAIN rows : later[r] = s})
                                  /\ Total(rows, {r \in DOMAIN rows : later[r] = s}) \in Nat
    OBVIOUS
  <2> DEFINE R == {r \in DOMAIN rows : later[r] = s}
  <2>1. R \subseteq DOMAIN rows /\ \A r \in R : rows[r] \in Nat
    BY <1>1
  <2> HIDE DEF R
  <2>2. IsFiniteSet(R)
    BY <1>1, <2>1, FS_Subset
  <2>3. Total(rows, R) \in Nat
    BY ONLY <2>1, <2>2, TotalNat
  <2> QED BY <2>2, <2>3 DEF R
<1>4. rows' = [s \in V |-> Total(rows, {r \in DOMAIN rows : later[r] = s})]
  BY DEF V
<1>5. rows' \in [DOMAIN rows' -> Nat]
  BY <1>2, <1>3, <1>4
<1>6. ASSUME NEW n \in Nodes
      PROVE  /\ call'[n] \in CallRecord /\ Len(call'[n].mine) <= CallsPerNode
             /\ MayBePaid(call'[n]) \subseteq MayBePaid(call[n])
  <2> DEFINE mine == call[n].mine
             new == [k \in DOMAIN mine |-> later[mine[k]]]
  <2>1. call[n] \in CallRecord /\ Len(mine) <= CallsPerNode
    BY <1>0 DEF CallShape
  <2>2. mine \in Seq(Invocation) /\ DOMAIN mine = 1..Len(mine) /\ Len(mine) \in Nat /\ call[n].stage \in Stages
    BY <2>1 DEF CallRecord
  <2>3. \A k \in 1..Len(mine) : mine[k] \in Invocation
    BY <2>2
  <2>4. new \in [1..Len(mine) -> Invocation] /\ DOMAIN new = 1..Len(mine)
    BY <2>2, <2>3
  <2>5. new \in Seq(Invocation) /\ Len(new) = Len(mine)
    BY <2>2, <2>4
  <2>6. call'[n] = [stage |-> call[n].stage, mine |-> new]
    BY <2>1 DEF CallRecord
  <2>7. \A k \in 1..Len(mine) : new[k].status = mine[k].status /\ (new[k].inPeriod => mine[k].inPeriod)
    BY <2>2, <2>3
  <2> HIDE DEF new
  <2>8. call'[n] \in CallRecord
    BY <2>2, <2>5, <2>6, CallRecords
  <2>9. call'[n].mine = new /\ call'[n].stage = call[n].stage
    BY <2>6
  <2> QED BY <2>1, <2>2, <2>4, <2>5, <2>7, <2>8, <2>9 DEF MayBePaid
<1>7. CallShape'
  <2>1. call' = [n \in Nodes |-> call'[n]]
    OBVIOUS
  <2>2. call' \in [Nodes -> CallRecord]
    BY <1>6, <2>1
  <2> QED BY <1>2, <1>5, <1>6, <2>2 DEF CallShape
<1>8. Spend' <= Spend
  <2> DEFINE P == {s \in V : Paid(s)}
             U == {r \in DOMAIN rows : Paid(r)}
             key == later
             S == DOMAIN rows
             g == rows'
  <2>1. Spend' = Total(g, P)
    BY <1>2, <1>7, SpendIs DEF SpendFacts
  <2>2. Spend = Total(rows, U)
    BY <1>0, SpendIs DEF SpendFacts
  <2>3. P \subseteq V /\ U \subseteq S /\ IsFiniteSet(P) /\ IsFiniteSet(U) /\ IsFiniteSet(S)
    BY <1>1, <1>2, FS_Subset
  <2>4. \A s \in P : g[s] = Total(rows, {r \in S : key[r] = s})
    BY <1>4
  <2>5. {r \in S : key[r] \in P} \in SUBSET U
    BY <1>1 DEF Paid
  <2>6. (\A r \in S : rows[r] \in Int) /\ \A r \in U : rows[r] \in Nat
    BY <1>1
  <2> HIDE DEF P, U, key, S, g
  <2> DEFINE Q == {r \in S : key[r] \in P}
             part == [s \in P |-> {r \in S : key[r] = s}]
             w == rows
  <2>7. /\ Q \in SUBSET U /\ IsFiniteSet(Q)
        /\ \A r \in Q : w[r] \in Int /\ key[r] \in P
        /\ \A s \in P : part[s] \subseteq Q /\ \A r \in Q : r \in part[s] <=> key[r] = s
        /\ \A s \in P : g[s] = Total(w, part[s])
    BY <2>3, <2>4, <2>5, <2>6, FS_Subset
  <2> HIDE DEF Q, part, w
  <2>8. Total(g, P) = Total(w, Q)
    BY ONLY <2>3, <2>7, TotalByValue
  <2>9. Total(w, Q) <= Total(w, U)
    <3>1. \A r \in U : w[r] \in Nat
      BY <2>6 DEF w
    <3> QED BY ONLY <2>3, <2>7, <3>1, TotalSubset
  <2> QED BY <2>1, <2>2, <2>8, <2>9 DEF w
<1>9. Total(Unseen', Nodes) <= Total(Unseen, Nodes)
  <2> DEFINE f == Unseen'
             g == Unseen
  <2>1. \A n \in Nodes : f[n] \in Int /\ g[n] \in Int
    BY <1>0, <1>7, SpendIs DEF SpendFacts
  <2>2. \A n \in Nodes : f[n] <= g[n]
    <3>1. \A n \in Nodes : IsFiniteSet(MayBePaid(call[n]))
      BY <1>0, CallTypes DEF CallShape
    <3>2. \A n \in Nodes : Cardinality(MayBePaid(call'[n])) <= Cardinality(MayBePaid(call[n]))
      BY <1>6, <3>1, FS_Subset
    <3> QED BY <3>2 DEF Unseen
  <2>3. IsFiniteSet(Nodes)
    BY ProviderConstants
  <2> HIDE DEF f, g
  <2>4. Total(f, Nodes) <= Total(g, Nodes)
    BY ONLY <2>1, <2>2, <2>3, TotalMonotone
  <2> QED BY <2>4 DEF f, g
<1>10. Budgeted' => Spend' + Total(Unseen', Nodes) <= Most
  <2> DEFINE all == Cardinality(Nodes) * CallsPerNode
  <2>1. /\ Spend \in Nat /\ Spend' \in Nat /\ Total(Unseen, Nodes) \in Nat /\ Total(Unseen', Nodes) \in Nat
        /\ Limit \in Nat /\ all \in Nat /\ Most = Limit - 1 + all
    BY <1>0, <1>7, SpendIs DEF Most, SpendFacts
  <2>2. Budgeted' => Budgeted
    BY DEF Budgeted
  <2> HIDE DEF all
  <2> QED BY <1>8, <1>9, <2>1, <2>2 DEF CallInv, UnseenFits
<1> QED BY <1>7, <1>10 DEF CallInv, UnseenFits, Most

(* Rows of the same later invocation are added up.                         *)
LEMMA TimeKeeps ==
    ASSUME CallInv, WindowPasses \/ PeriodBegins
    PROVE  CallInv'
<1>0. /\ rows \in [DOMAIN rows -> Nat] /\ IsFiniteSet(DOMAIN rows) /\ DOMAIN rows \subseteq Invocation
      /\ call \in [Nodes -> CallRecord]
  BY DEF CallInv, CallShape
<1>1. ASSUME NEW s, NEW later
      PROVE  SumFunction([r \in {x \in DOMAIN rows : later[x] = s} |-> rows[r]])
                 = Total(rows, {r \in DOMAIN rows : later[r] = s})
  <2> DEFINE R == {x \in DOMAIN rows : later[x] = s}
  <2>1. R \subseteq DOMAIN rows /\ \A r \in R : rows[r] \in Int
    BY <1>0
  <2> HIDE DEF R
  <2>2. IsFiniteSet(R)
    BY <1>0, <2>1, FS_Subset
  <2>3. SumFunction([r \in R |-> rows[r]]) = Total(rows, R)
    BY ONLY <2>1, <2>2, TotalRestrict
  <2> QED BY <2>3 DEF R
<1>2. \A n \in Nodes : \A k \in DOMAIN call[n].mine : call[n].mine[k] \in Invocation
  <2>1. \A n \in Nodes : call[n].mine \in Seq(Invocation)
    BY <1>0 DEF CallRecord
  <2> QED BY <2>1
<1>3. CASE WindowPasses
  <2> DEFINE Older(r) == IF r.age <= Window THEN [r EXCEPT !.age = @ + 1] ELSE r
             later == [r \in Invocation |-> Older(r)]
             seen == {r \in DOMAIN rows : Visible(Older(r))}
  <2>1. \A r \in Invocation : /\ Older(r) \in Invocation /\ Older(r).status = r.status
                              /\ Older(r).inPeriod = r.inPeriod
    BY ProviderConstants DEF Invocation
  <2>2. /\ rows' = [s \in {Older(r) : r \in seen} |->
                        SumFunction([r \in {x \in DOMAIN rows : Older(x) = s} |-> rows[r]])]
        /\ call' = [n \in Nodes |-> [call[n] EXCEPT !.mine = [k \in DOMAIN @ |-> Older(@[k])]]]
        /\ setting' = setting
    BY <1>3 DEF WindowPasses, Aged, Those, BagToSet
  <2>3. later \in [Invocation -> Invocation] /\ \A r \in Invocation : later[r] = Older(r)
    BY <2>1
  <2> HIDE DEF Older
  <2>4. seen \in SUBSET DOMAIN rows
    OBVIOUS
  <2>5. rows' = [s \in {later[r] : r \in seen} |-> Total(rows, {r \in DOMAIN rows : later[r] = s})]
    <3>1. {Older(r) : r \in seen} = {later[r] : r \in seen}
      BY <1>0, <2>3
    <3>2. \A s : {x \in DOMAIN rows : Older(x) = s} = {x \in DOMAIN rows : later[x] = s}
      BY <1>0, <2>3
    <3> HIDE DEF later, seen
    <3>3. rows' = [s \in {later[r] : r \in seen} |->
                      SumFunction([r \in {x \in DOMAIN rows : later[x] = s} |-> rows[r]])]
      BY <2>2, <3>1, <3>2
    <3> QED BY ZenonT(60), <1>1, <3>3
  <2>6. call' = [n \in Nodes |-> [call[n] EXCEPT !.mine = [k \in DOMAIN @ |-> later[@[k]]]]]
    <3>1. \A n \in Nodes : [k \in DOMAIN call[n].mine |-> Older(call[n].mine[k])]
                             = [k \in DOMAIN call[n].mine |-> later[call[n].mine[k]]]
      BY <1>2, <2>3
    <3> HIDE DEF later
    <3> QED BY <2>2, <3>1
  <2>7. \A r \in Invocation : later[r].status = r.status /\ (later[r].inPeriod => r.inPeriod)
    BY <2>1, <2>3
  <2> HIDE DEF later, seen
  <2> QED BY <2>2, <2>3, <2>4, <2>5, <2>6, <2>7, AgedKeeps
<1>4. CASE PeriodBegins
  <2> DEFINE Older(r) == [r EXCEPT !.inPeriod = FALSE]
             later == [r \in Invocation |-> Older(r)]
             seen == {r \in DOMAIN rows : Visible(Older(r))}
  <2>1. \A r \in Invocation : /\ Older(r) \in Invocation /\ Older(r).status = r.status
                              /\ ~Older(r).inPeriod
    BY DEF Invocation
  <2>2. /\ rows' = [s \in {Older(r) : r \in seen} |->
                        SumFunction([r \in {x \in DOMAIN rows : Older(x) = s} |-> rows[r]])]
        /\ call' = [n \in Nodes |-> [call[n] EXCEPT !.mine = [k \in DOMAIN @ |-> Older(@[k])]]]
        /\ setting' = setting
    BY <1>4 DEF PeriodBegins, Aged, Those, BagToSet
  <2>3. later \in [Invocation -> Invocation] /\ \A r \in Invocation : later[r] = Older(r)
    BY <2>1
  <2> HIDE DEF Older
  <2>4. seen \in SUBSET DOMAIN rows
    OBVIOUS
  <2>5. rows' = [s \in {later[r] : r \in seen} |-> Total(rows, {r \in DOMAIN rows : later[r] = s})]
    <3>1. {Older(r) : r \in seen} = {later[r] : r \in seen}
      BY <1>0, <2>3
    <3>2. \A s : {x \in DOMAIN rows : Older(x) = s} = {x \in DOMAIN rows : later[x] = s}
      BY <1>0, <2>3
    <3> HIDE DEF later, seen
    <3>3. rows' = [s \in {later[r] : r \in seen} |->
                      SumFunction([r \in {x \in DOMAIN rows : later[x] = s} |-> rows[r]])]
      BY <2>2, <3>1, <3>2
    <3> QED BY ZenonT(60), <1>1, <3>3
  <2>6. call' = [n \in Nodes |-> [call[n] EXCEPT !.mine = [k \in DOMAIN @ |-> later[@[k]]]]]
    <3>1. \A n \in Nodes : [k \in DOMAIN call[n].mine |-> Older(call[n].mine[k])]
                             = [k \in DOMAIN call[n].mine |-> later[call[n].mine[k]]]
      BY <1>2, <2>3
    <3> HIDE DEF later
    <3> QED BY <2>2, <3>1
  <2>7. \A r \in Invocation : later[r].status = r.status /\ (later[r].inPeriod => r.inPeriod)
    BY <2>1, <2>3
  <2> HIDE DEF later, seen
  <2> QED BY <2>2, <2>3, <2>4, <2>5, <2>6, <2>7, AgedKeeps
<1> QED BY <1>3, <1>4

LEMMA ProviderInitial == ProviderInit => CallInv
<1> SUFFICES ASSUME ProviderInit PROVE CallInv
  OBVIOUS
<1>1. rows = [r \in {} |-> 1] /\ DOMAIN rows = {}
  BY DEF ProviderInit, EmptyBag, SetToBag
<1>2. NoCall \in CallRecord /\ Len(NoCall.mine) <= CallsPerNode /\ MayBePaid(NoCall) = {}
  BY NoCallEmpty
<1>3. CallShape
  BY <1>1, <1>2, FS_EmptySet DEF CallShape, ProviderInit
<1>4. Spend = 0
  <2>1. {r \in DOMAIN rows : Paid(r)} = {}
    BY <1>1
  <2> QED BY <1>3, <2>1, SpendIs, TotalEmpty DEF SpendFacts
<1>5. \A n \in Nodes : Unseen[n] = 0
  BY <1>2, FS_EmptySet DEF Unseen, ProviderInit
<1>6. Total(Unseen, Nodes) = 0
  <2> DEFINE f == Unseen
  <2>1. IsFiniteSet(Nodes) /\ \A n \in Nodes : f[n] = 0
    BY <1>5, ProviderConstants
  <2> HIDE DEF f
  <2>2. Total(f, Nodes) = 0
    BY ONLY <2>1, TotalZero
  <2> QED BY <2>2 DEF f
<1> DEFINE all == Cardinality(Nodes) * CallsPerNode
<1>7. all \in Nat /\ Limit \in Nat
  BY <1>3, SpendIs DEF SpendFacts
<1>8. Budgeted => 0 <= Limit - 1 + all
  <2> HIDE DEF all
  <2> QED BY <1>7 DEF Budgeted
<1> QED BY <1>3, <1>4, <1>6, <1>8 DEF CallInv, UnseenFits, Most

LEMMA ProviderStep == CallInv /\ [ProviderNext]_providerVars => CallInv'
<1> SUFFICES ASSUME CallInv, [ProviderNext]_providerVars PROVE CallInv'
  OBVIOUS
<1> USE DEF Stages, Statuses, Errors
<1>1. ASSUME NEW n \in Nodes, Invoke(n) PROVE CallInv'
  BY <1>1, InvokeKeeps
<1>2. ASSUME NEW n \in Nodes, ValidateProfile(n) PROVE CallInv'
  <2>1. CASE Return(n, "failed", "config")
    BY <2>1, ReturnKeeps
  <2>2. CASE call' = [call EXCEPT ![n].stage = "budget"] /\ UNCHANGED <<setting, rows>>
    BY <2>2, GoesOn
  <2> QED BY <1>2, <2>1, <2>2 DEF ValidateProfile
<1>3. ASSUME NEW n \in Nodes, BudgetGuard(n) PROVE CallInv'
  <2>1. CASE Return(n, "failed", "budget")
    BY <2>1, ReturnKeeps
  <2>2. CASE /\ ~(setting = "budget" /\ Exceeded)
             /\ call' = [call EXCEPT ![n].stage = "circuit"] /\ UNCHANGED <<setting, rows>>
    <3>1. Spend \in Nat /\ Limit \in Nat
      BY SpendIs DEF CallInv, SpendFacts
    <3>2. Budgeted => Spend <= Limit - 1
      BY <2>2, <3>1 DEF Budgeted, Exceeded
    <3> QED BY <2>2, <3>2, GoesOn
  <2> QED BY <1>3, <2>1, <2>2 DEF BudgetGuard
<1>4. ASSUME NEW n \in Nodes, CircuitBreaker(n) PROVE CallInv'
  <2>1. CASE Return(n, "failed", "circuit")
    BY <2>1, ReturnKeeps
  <2>2. CASE Moves(n, "submitted", "none", "plugin")
    BY <1>4, <2>2, MovesKeep DEF CircuitBreaker
  <2> QED BY <1>4, <2>1, <2>2 DEF CircuitBreaker
<1>5. ASSUME NEW n \in Nodes, MarkPolling(n) PROVE CallInv'
  BY <1>5, MovesKeep DEF MarkPolling
<1>6. ASSUME NEW n \in Nodes, PluginEnds(n) PROVE CallInv'
  <2>1. CASE Return(n, "succeeded", "none")
    BY <1>6, <2>1, ReturnKeeps DEF PluginEnds
  <2>2. CASE \E status \in {"failed", "timed_out"} : Return(n, status, "provider")
    BY <2>2, ReturnKeeps
  <2> QED BY <1>6, <2>1, <2>2 DEF PluginEnds
<1>7. ASSUME NEW n \in Nodes, PluginRaises(n) PROVE CallInv'
  BY <1>7, GoesOn DEF PluginRaises
<1>8. ASSUME NEW n \in Nodes, SyncNode(n) PROVE CallInv'
  BY <1>8, SyncKeeps
<1>9. ASSUME NEW n \in Nodes, LoseNode(n) PROVE CallInv'
  BY <1>9, LoseKeeps
<1>10. CASE WindowPasses \/ PeriodBegins
  BY <1>10, TimeKeeps
<1>11. CASE UNCHANGED providerVars
  BY <1>11 DEF providerVars, CallInv, CallShape, UnseenFits, Budgeted, Spend, Unseen, Most
<1> QED
  BY <1>1, <1>2, <1>3, <1>4, <1>5, <1>6, <1>7, <1>8, <1>9, <1>10, <1>11 DEF ProviderNext

(* For any number of nodes and any budget: what is spent exceeds the limit  *)
(* by no more than what all nodes together may have called unseen.         *)
THEOREM SpendAlwaysBounded == ProviderSpec => []SpendBounded
<1> QED BY ProviderInitial, ProviderStep, InvBoundsSpend, PTL DEF ProviderSpec
=============================================================================
