---------------------------- MODULE ProviderCalls ----------------------------
(***************************************************************************)
(* Calls that nodes make through ProviderGateway.invoke to one provider    *)
(* profile, past its checks: profile, budget, circuit breaker.             *)
(*                                                                         *)
(* An invocation lives in the memory of its node and becomes a row when    *)
(* the node syncs. The budget and the circuit breaker look at rows only.   *)
(* A call costs one unit. Rows that neither the period of the budget nor   *)
(* the window of the circuit breaker can see are left out.                 *)
(***************************************************************************)
EXTENDS Integers, FiniteSets, Sequences, Bags, Functions

CONSTANTS
    Nodes,         \* node executions that call the provider
    CallsPerNode,  \* calls of a node before it syncs, a bound
    MaxRows,       \* invocations that matter at a time, a bound
    Settings,      \* what the profile and the budget may be like
    Limit,         \* of the budget, where one is enforced
    Window         \* of the circuit breaker, in ticks

(* plain          nothing but the provider and the circuit fails a call    *)
(* budget         a budget is enforced                                     *)
(* misconfigured  the profile does not pass _validate_profile              *)
AllSettings == {"plain", "budget", "misconfigured"}

ASSUME ProviderConstants ==
    /\ IsFiniteSet(Nodes)
    /\ CallsPerNode \in Nat \ {0} /\ MaxRows \in Nat
    /\ Limit \in Nat /\ Window \in Nat
    /\ Settings \subseteq AllSettings

VARIABLES
    setting,   \* the one of a behaviour
    rows,      \* the stored invocations, a bag
    call       \* the nodes: what each waits for, and its invocations so far

providerVars == <<setting, rows, call>>

(* PROVIDER_TRANSITIONS, without "cancelled", which nothing assigns.       *)
ProviderMoves ==
    {<<"prepared", "submitted">>, <<"prepared", "failed">>,
     <<"submitted", "polling">>, <<"submitted", "succeeded">>,
     <<"submitted", "failed">>, <<"submitted", "timed_out">>,
     <<"polling", "succeeded">>, <<"polling", "failed">>, <<"polling", "timed_out">>}

(* age counts from the start of the call, and stops outside the window.    *)
Invocation ==
    [status : {"prepared", "submitted", "polling", "succeeded", "failed", "timed_out"},
     error : {"none", "config", "budget", "circuit", "provider"},
     age : 0..(Window + 1), inPeriod : BOOLEAN]

Prepared == [status |-> "prepared", error |-> "none", age |-> 0, inPeriod |-> TRUE]

NoCall == [stage |-> "idle", mine |-> <<>>]

ProviderTypeOK ==
    /\ setting \in Settings
    /\ IsABag(rows) /\ BagToSet(rows) \subseteq Invocation /\ SumFunction(rows) <= MaxRows
    /\ \A n \in Nodes :
          /\ call[n].stage \in {"idle", "profile", "budget", "circuit", "plugin", "ended"}
          /\ call[n].mine \in Seq(Invocation) /\ Len(call[n].mine) <= CallsPerNode

ProviderInit ==
    /\ setting \in Settings
    /\ rows = EmptyBag
    /\ call = [n \in Nodes |-> NoCall]

-----------------------------------------------------------------------------
(* The part of a bag that passes a test. SumFunction says how many a bag has. *)
Those(B, Test(_)) == [r \in {x \in BagToSet(B) : Test(x)} |-> B[r]]

Paid(r) == r.inPeriod /\ r.status = "succeeded"

Spend == SumFunction(Those(rows, Paid))

ExceededBeyond == Limit > 0 /\ Spend > Limit   \* mutant: the limit itself is allowed

(* evaluate_budget: nothing exceeds a limit of zero.                       *)
Exceeded == Limit > 0 /\ Spend >= Limit

CountsWithBlocks(r) == r.age <= Window   \* mutant: the breaker's own blocks count

(* The rows that count for the health of the profile.                      *)
Counts(r) == r.age <= Window /\ r.error # "circuit"

Fails(r) == Counts(r) /\ r.status \in {"failed", "timed_out"}

(* circuit_open, for an error rate threshold of one half.                  *)
CircuitOpen == 2 * SumFunction(Those(rows, Fails)) > SumFunction(Those(rows, Counts))

-----------------------------------------------------------------------------
(* assert_transition guards every change of the status of the open call.   *)
Moves(n, status, error, stage) ==
    LET k == Len(call[n].mine) IN
    /\ <<call[n].mine[k].status, status>> \in ProviderMoves
    /\ call' = [call EXCEPT ![n] =
                  [stage |-> stage, mine |-> [@.mine EXCEPT ![k].status = status, ![k].error = error]]]
    /\ UNCHANGED <<setting, rows>>

(* When invoke returns, its node goes on or ends.                          *)
Return(n, status, error) ==
    \E stage \in {"idle", "ended"} : Moves(n, status, error, stage)

Pending == {n \in Nodes : call[n].mine # <<>>}

Invoke(n) ==
    /\ call[n].stage = "idle" /\ Len(call[n].mine) < CallsPerNode
    /\ SumFunction(rows) + CallsPerNode * Cardinality(Pending \cup {n}) <= MaxRows
    /\ call' = [call EXCEPT ![n] = [stage |-> "profile", mine |-> Append(@.mine, Prepared)]]
    /\ UNCHANGED <<setting, rows>>

(* A check lets the call on, or fails its invocation.                      *)
ValidateProfile(n) ==
    /\ call[n].stage = "profile"
    /\ IF setting = "misconfigured" THEN Return(n, "failed", "config")
       ELSE call' = [call EXCEPT ![n].stage = "budget"] /\ UNCHANGED <<setting, rows>>

BudgetGuard(n) ==
    /\ call[n].stage = "budget"
    /\ IF setting = "budget" /\ Exceeded THEN Return(n, "failed", "budget")
       ELSE call' = [call EXCEPT ![n].stage = "circuit"] /\ UNCHANGED <<setting, rows>>

CircuitBreaker(n) ==
    /\ call[n].stage = "circuit"
    /\ IF CircuitOpen THEN Return(n, "failed", "circuit")
       ELSE Moves(n, "submitted", "none", "plugin")

(* mark_polling, by plugins that submit a job and ask for it.              *)
MarkPolling(n) ==
    call[n].stage = "plugin" /\ Moves(n, "polling", "none", "plugin")

(* The plugin returns, or raises ProviderRuntimeError.                     *)
PluginEnds(n) ==
    /\ call[n].stage = "plugin"
    /\ \/ Return(n, "succeeded", "none")
       \/ \E status \in {"failed", "timed_out"} : Return(n, status, "provider")

(* Any other exception passes through invoke and ends the node.            *)
PluginRaises(n) ==
    /\ call[n].stage = "plugin"
    /\ call' = [call EXCEPT ![n].stage = "ended"]
    /\ UNCHANGED <<setting, rows>>

Visible(r) == r.age <= Window \/ (setting = "budget" /\ r.inPeriod)

(* sync_workflow_snapshot at the end of the node.                          *)
SyncNode(n) ==
    /\ call[n].stage \in {"idle", "ended"} /\ call[n].mine # <<>>
    /\ LET mine == call[n].mine
           new == [r \in {mine[k] : k \in DOMAIN mine} |->
                     Cardinality({k \in DOMAIN mine : mine[k] = r})]
       IN  rows' = Those(rows (+) new, Visible)
    /\ call' = [call EXCEPT ![n] = NoCall]
    /\ UNCHANGED setting

(* The worker dies, and with it what the node remembers of its calls.      *)
LoseNode(n) ==
    /\ call[n].mine # <<>>
    /\ call' = [call EXCEPT ![n] = NoCall]
    /\ UNCHANGED <<setting, rows>>

(* What time does to an invocation, stored or not.                         *)
Aged(Later(_)) ==
    /\ LET seen == {r \in BagToSet(rows) : Visible(Later(r))}
       IN  rows' = [s \in {Later(r) : r \in seen} |->
                      SumFunction(Those(rows, LAMBDA r : Later(r) = s))]
    /\ call' = [n \in Nodes |->
          [call[n] EXCEPT !.mine = [k \in DOMAIN @ |-> Later(@[k])]]]
    /\ UNCHANGED setting

WindowPasses ==
    Aged(LAMBDA r : IF r.age <= Window THEN [r EXCEPT !.age = @ + 1] ELSE r)

(* Only a budget looks at its period.                                      *)
PeriodBegins == setting = "budget" /\ Aged(LAMBDA r : [r EXCEPT !.inPeriod = FALSE])

ProviderNext ==
    \/ \E n \in Nodes :
          \/ Invoke(n)
          \/ ValidateProfile(n) \/ BudgetGuard(n) \/ CircuitBreaker(n)
          \/ MarkPolling(n) \/ PluginEnds(n) \/ PluginRaises(n)
          \/ SyncNode(n) \/ LoseNode(n)
    \/ WindowPasses
    \/ PeriodBegins

(* Time passes; nobody has to call, or to sync.                            *)
ProviderFairness == WF_providerVars(WindowPasses)

ProviderSpec == ProviderInit /\ [][ProviderNext]_providerVars /\ ProviderFairness

-----------------------------------------------------------------------------
(* The budget stops calls once rows exceed it. Until a node syncs, nobody  *)
(* sees what its calls cost, so the rows pass the limit by what all nodes  *)
(* together can have called before.                                        *)
SpendBounded ==
    setting = "budget" /\ Limit > 0 =>
        Spend <= Limit - 1 + Cardinality(Nodes) * CallsPerNode

(* "otherwise the breaker's blocks keep error_rate pinned high and the     *)
(* circuit can never recover" (provider_usage_metrics.py 115-116): an open *)
(* circuit closes, however often it refuses calls meanwhile.               *)
CircuitRecovers == (setting = "plain" /\ CircuitOpen) ~> ~CircuitOpen

(* "so a provider's health reflects only real calls" (line 114): an open   *)
(* circuit has seen a failure of the provider.                             *)
OnlyRealCallsTrip ==
    CircuitOpen => \E r \in BagToSet(Those(rows, Counts)) : r.error = "provider"
=============================================================================
