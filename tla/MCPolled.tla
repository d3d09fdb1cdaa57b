------------------------------ MODULE MCPolled ------------------------------
(***************************************************************************)
(* The components of which something polls, retries or waits, with the      *)
(* fairness of what drives each. As in MCServices one of them moves in each *)
(* behaviour, and the others rest.                                         *)
(***************************************************************************)
EXTENDS ProviderCalls, ProviderLimiter, PublishBatch, DesktopLogin, EventStream

VARIABLE part     \* the one that moves

Parts == {"provider", "limiter", "publishing", "login", "events"}

Rests(p, state) == part # p => state

PolledInit ==
    /\ part \in Parts
    /\ ProviderInit
    /\ LimiterInit
    /\ BatchInit
    /\ Rests("login", bound = [a \in PublishAccounts |-> NoAppUid])
    /\ Rests("login", inApp = [u \in AppUids |-> "out"]) /\ LoginInit
    /\ StreamInit

(* The step of a part in its turn.                                         *)
Turn(p, Action, vars) == IF part = p THEN Action ELSE UNCHANGED vars

PolledNext ==
    /\ UNCHANGED part
    /\ Turn("provider", ProviderNext, providerVars)
    /\ Turn("limiter", LimiterNext, limiterVars)
    /\ Turn("publishing", BatchNext, batchVars)
    /\ Turn("login", LoginNext, loginVars)
    /\ Turn("events", StreamNext, streamVars)

polledVars == <<part, providerVars, limiterVars, batchVars, loginVars, streamVars>>

(* A part that rests owes no step: only the dispatchers of the stream have  *)
(* something to do from the start.                                         *)
PolledSpec ==
    /\ PolledInit /\ [][PolledNext]_polledVars
    /\ ProviderFairness /\ LimiterFairness /\ LoginFairness
    /\ part = "events" => StreamFairness

-----------------------------------------------------------------------------
(* Values for TLC.                                                         *)
Plain == {"plain"}
Failing == {"redis_error", "crash"}
InTurn == {"dry_run"}
EveryStreamFault == AllStreamFaults
=============================================================================
