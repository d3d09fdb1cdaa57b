----------------------- MODULE SelectionReservations -----------------------
(***************************************************************************)
(* Reservations of media assets by the runs of one case, for one medium.   *)
(*                                                                         *)
(* Material planning takes a lease with a TTL on each asset it shortlists; *)
(* the last node commits what was shipped and releases the rest; failure   *)
(* and cancellation release. Nothing of this is done in the database: an   *)
(* activity loads the live leases of the case into a fresh Repository when *)
(* it starts, changes them there, and writes the ones of its own run back  *)
(* when it ends, however long that takes. The two unique constraints of    *)
(* the table are what decides between two runs.                            *)
(*                                                                         *)
(* Time is the ticks a lease has left, so a row needs no date.             *)
(***************************************************************************)
EXTENDS Integers, FiniteSets

CONSTANTS
    Runs, Assets,
    Nobody,       \* the holder of an asset without a lease
    TTL,          \* SELECTION_RESERVATION_TTL_SECONDS, in ticks
    MaxAttempts,  \* max_attempts of MaterialPackPlanning; other nodes have one
    Faults        \* what may happen to each run

(* worker_loss  an activity is lost, before or after its write             *)
(* zombie       Temporal gives an activity up while its thread lives on    *)
(* force        a run is terminated, and its activity lives on             *)
(* api          the API writes the leases it once loaded, when it cancels  *)
AllFaults == {"worker_loss", "zombie", "force", "api"}

ASSUME ReservationConstants ==
    /\ TTL \in Nat \ {0}
    /\ MaxAttempts \in Nat \ {0}
    /\ Faults \in [Runs -> SUBSET AllFaults]

VARIABLES
    row,      \* selection_reservations: the row of every run and asset
    stage,    \* the activity the workflow of every run is at
    try,      \* its attempt
    act,      \* the attempt that executes, with its Repository
    zombies,  \* executions whose workflow has moved on
    pack,     \* the reservations the material pack of every run lists
    api,      \* the leases the Repository of the API holds
    syncs     \* cancel requests whose write is still to come

apiVars == <<api, syncs>>
vars == <<row, stage, try, act, zombies, pack, apiVars>>

Status == {"none", "reserved", "committed", "released", "expired"}

(* id stands for the generated key: the attempt that made the row.         *)
Row == [status : Status, left : 0..TTL, id : 0..MaxAttempts]

NoRow == [status |-> "none", left |-> 0, id |-> 0]

Kind == {"plan", "work", "finalize", "release"}
Stage == Kind \cup {"queued", "ended"}

Memory == [Assets -> Row]
NoMemory == [a \in Assets |-> NoRow]

Execution == [run : Runs, kind : Kind, mem : Memory, pack : SUBSET Assets]

TypeOK ==
    /\ row \in [Runs -> Memory]
    /\ stage \in [Runs -> Stage]
    /\ try \in [Runs -> 1..MaxAttempts]
    /\ act \in [Runs -> [busy : BOOLEAN, mem : Memory, pack : SUBSET Assets]]
    /\ zombies \subseteq Execution
    /\ pack \in [Runs -> SUBSET Assets]
    /\ api \in [Runs -> Memory]
    /\ syncs \subseteq Runs

Idle == [busy |-> FALSE, mem |-> NoMemory, pack |-> {}]

Init ==
    /\ row = [r \in Runs |-> NoMemory]
    /\ stage = [r \in Runs |-> "queued"]
    /\ try = [r \in Runs |-> 1]
    /\ act = [r \in Runs |-> Idle]
    /\ zombies = {}
    /\ pack = [r \in Runs |-> {}]
    /\ api = [r \in Runs |-> NoMemory]
    /\ syncs = {}

-----------------------------------------------------------------------------
(* Loading, reserving                                                      *)

(* is_active: a lease blocks other runs until its TTL elapses.             *)
Live(w) == w.status = "reserved" /\ w.left > 0

(* hydrate_workflow_runtime_snapshot loads the live leases of the case.    *)
Loaded(r) == [a \in Assets |-> IF Live(row[r][a]) THEN row[r][a] ELSE NoRow]

(* active_selection_reservations, without the run's own.                   *)
Blocked(r) == {a \in Assets : \E q \in Runs \ {r} : Live(row[q][a])}

(* reserve_selections over a shortlist: an asset the run has a lease on     *)
(* keeps it, and any other gets a new row.                                 *)
Reserve(r, shortlist) ==
    [a \in Assets |->
        IF Loaded(r)[a].status = "none" /\ a \in shortlist
        THEN [status |-> "reserved", left |-> TTL, id |-> try[r]]
        ELSE Loaded(r)[a]]

Begin(r) ==
    /\ stage[r] = "queued"
    /\ stage' = [stage EXCEPT ![r] = "plan"]
    /\ UNCHANGED <<row, try, act, zombies, pack, apiVars>>

(* Which assets are shortlisted is a matter of scores: any set that is free *)
(* of the leases of other runs.                                            *)
StartPlanning(r) ==
    /\ stage[r] = "plan" /\ ~act[r].busy
    /\ \E shortlist \in SUBSET (Assets \ Blocked(r)) :
          act' = [act EXCEPT ![r] = [busy |-> TRUE, mem |-> Reserve(r, shortlist),
                                     pack |-> shortlist]]
    /\ UNCHANGED <<row, stage, try, zombies, pack, apiVars>>

StartNode(r) ==
    /\ stage[r] \in Kind \ {"plan"} /\ ~act[r].busy
    /\ act' = [act EXCEPT ![r] = [busy |-> TRUE, mem |-> Loaded(r), pack |-> {}]]
    /\ UNCHANGED <<row, stage, try, zombies, pack, apiVars>>

-----------------------------------------------------------------------------
(* Writing                                                                 *)

ReleaseNothing(mem) == mem   \* mutant: failure and cancellation keep leases

(* release_run_reservations(only_uncommitted=True)                         *)
ReleaseAll(mem) ==
    [a \in Assets |-> IF mem[a].status = "reserved"
                      THEN [mem[a] EXCEPT !.status = "released"] ELSE mem[a]]

(* FinalizeRunReport: what was shipped is committed, the rest is released. *)
Finalize(mem, shipped) ==
    ReleaseAll([a \in Assets |-> IF a \in shipped /\ mem[a].status = "reserved"
                                 THEN [mem[a] EXCEPT !.status = "committed"]
                                 ELSE mem[a]])

(* What the activity leaves in its Repository when its node succeeds.      *)
Results(e) ==
    CASE e.kind = "finalize" -> {Finalize(e.mem, s) : s \in SUBSET Assets}
      [] e.kind = "release" -> {ReleaseAll(e.mem)}
      [] OTHER -> {e.mem}

SweepAll(table) ==   \* mutant: the TTL is not looked at
    [r \in Runs |-> [a \in Assets |->
        IF table[r][a].status = "reserved"
        THEN [table[r][a] EXCEPT !.status = "expired"] ELSE table[r][a]]]

(* _expire_stale_selection_reservations, of every case, in each write.     *)
Sweep(table) ==
    [r \in Runs |-> [a \in Assets |->
        IF table[r][a].status = "reserved" /\ table[r][a].left = 0
        THEN [table[r][a] EXCEPT !.status = "expired"] ELSE table[r][a]]]

AcceptsAnyRun(table, r, mem) ==   \* mutant: no unique index on active slots
    \A a \in Assets : mem[a].status # "none" =>
        table[r][a].status = "none" \/ table[r][a].id = mem[a].id

(* The constraints of the table: one row for a run and an asset, and one    *)
(* reserved row for an asset.                                              *)
Accepts(table, r, mem) ==
    \A a \in Assets :
        /\ mem[a].status # "none" =>
              table[r][a].status = "none" \/ table[r][a].id = mem[a].id
        /\ mem[a].status = "reserved" =>
              \A q \in Runs \ {r} : table[q][a].status # "reserved"

(* The rows after session.merge of the run's reservations.                 *)
Merged(table, r, mem) ==
    [table EXCEPT ![r] =
        [a \in Assets |-> IF mem[a].status = "none" THEN @[a] ELSE mem[a]]]

Write(r, mem) ==
    /\ Accepts(Sweep(row), r, mem)
    /\ row' = Merged(Sweep(row), r, mem)

Current(r) == [run |-> r, kind |-> stage[r], mem |-> act[r].mem, pack |-> act[r].pack]

(* The node succeeded and its write was accepted. Several nodes lie between *)
(* planning and the last one.                                              *)
Succeed(r) ==
    /\ act[r].busy
    /\ \E mem \in Results(Current(r)) : Write(r, mem)
    /\ \/ stage[r] \in {"plan", "work"} /\ stage' = [stage EXCEPT ![r] = "work"]
       \/ stage[r] \in {"plan", "work"} /\ stage' = [stage EXCEPT ![r] = "finalize"]
       \/ stage[r] \in {"finalize", "release"} /\ stage' = [stage EXCEPT ![r] = "ended"]
    /\ pack' = [pack EXCEPT ![r] = IF stage[r] = "plan" THEN act[r].pack ELSE @]
    /\ act' = [act EXCEPT ![r] = Idle]
    /\ UNCHANGED <<try, zombies, apiVars>>

(* The node raised: _execute_node releases, and the run has failed.        *)
Fail(r) ==
    /\ act[r].busy
    /\ stage[r] \in {"plan", "work", "finalize"}
    /\ Write(r, ReleaseAll(act[r].mem))
    /\ stage' = [stage EXCEPT ![r] = "ended"]
    /\ act' = [act EXCEPT ![r] = Idle]
    /\ UNCHANGED <<try, zombies, pack, apiVars>>

(* The attempt failed: planning has more attempts, any other node sends the *)
(* workflow to mark_run_failed, whose own attempts are not counted here.   *)
AttemptLost(r) ==
    IF stage[r] = "plan" /\ try[r] < MaxAttempts
    THEN try' = [try EXCEPT ![r] = @ + 1] /\ UNCHANGED stage
    ELSE stage' = [stage EXCEPT ![r] = "release"] /\ UNCHANGED try

(* The write violates a constraint: the transaction is rolled back, and the *)
(* activity raises "Active selection reservation conflict".                *)
Conflict(r) ==
    /\ act[r].busy
    /\ \E mem \in Results(Current(r)) : ~Accepts(Sweep(row), r, mem)
    /\ AttemptLost(r)
    /\ act' = [act EXCEPT ![r] = Idle]
    /\ UNCHANGED <<row, zombies, pack, apiVars>>

-----------------------------------------------------------------------------
(* Cancelling, faults, time                                                *)

(* Between two activities the workflow sees a cancel request.              *)
Cancel(r) ==
    /\ stage[r] \in {"plan", "work", "finalize"} /\ ~act[r].busy
    /\ stage' = [stage EXCEPT ![r] = "release"]
    /\ UNCHANGED <<row, try, act, zombies, pack, apiVars>>

Lose(r) ==
    /\ "worker_loss" \in Faults[r]
    /\ act[r].busy
    /\ \/ \E mem \in Results(Current(r)) : Write(r, mem)
       \/ UNCHANGED row
    /\ AttemptLost(r)
    /\ act' = [act EXCEPT ![r] = Idle]
    /\ UNCHANGED <<zombies, pack, apiVars>>

Abandon(r) ==
    /\ "zombie" \in Faults[r]
    /\ act[r].busy /\ zombies = {}
    /\ AttemptLost(r)
    /\ zombies' = {Current(r)}
    /\ act' = [act EXCEPT ![r] = Idle]
    /\ UNCHANGED <<row, pack, apiVars>>

(* cancel_run(force=True) releases nothing.                                *)
Terminate(r) ==
    /\ "force" \in Faults[r]
    /\ stage[r] \in Kind
    /\ act[r].busy => zombies = {}
    /\ stage' = [stage EXCEPT ![r] = "ended"]
    /\ zombies' = IF act[r].busy THEN {Current(r)} ELSE zombies
    /\ act' = [act EXCEPT ![r] = Idle]
    /\ UNCHANGED <<row, try, pack, apiVars>>

FinishZombie(e) ==
    /\ zombies' = zombies \ {e}
    /\ \/ \E mem \in Results(e) \cup {ReleaseAll(e.mem)} : Write(e.run, mem)
       \/ UNCHANGED row
    /\ UNCHANGED <<stage, try, act, pack, apiVars>>

(* The API loads the case of a run it does not know: the leases of all its  *)
(* runs come along, and what it held before stays.                         *)
HydrateApi ==
    /\ \E r \in Runs : "api" \in Faults[r]
    /\ api' = [r \in Runs |-> [a \in Assets |->
                  IF Live(row[r][a]) THEN row[r][a] ELSE api[r][a]]]
    /\ UNCHANGED <<row, stage, try, act, zombies, pack, syncs>>

(* cancel_run signals an open workflow ...                                 *)
RequestCancel(r) ==
    /\ "api" \in Faults[r]
    /\ stage[r] \in Kind
    /\ syncs' = syncs \cup {r}
    /\ UNCHANGED <<row, stage, try, act, zombies, pack, api>>

(* ... and then writes the run, its leases as the API knows them included. *)
CancelSync(r) ==
    /\ \/ Write(r, api[r])
       \/ ~Accepts(Sweep(row), r, api[r]) /\ UNCHANGED row
    /\ syncs' = syncs \ {r}
    /\ UNCHANGED <<stage, try, act, zombies, pack, api>>

Older(w) == [w EXCEPT !.left = IF @ > 0 THEN @ - 1 ELSE 0]

OlderMemory(mem) == [a \in Assets |-> Older(mem[a])]

Tick ==
    /\ row' = [r \in Runs |-> OlderMemory(row[r])]
    /\ act' = [r \in Runs |-> [act[r] EXCEPT !.mem = OlderMemory(@)]]
    /\ zombies' = {[e EXCEPT !.mem = OlderMemory(@)] : e \in zombies}
    /\ api' = [r \in Runs |-> OlderMemory(api[r])]
    /\ UNCHANGED <<stage, try, pack, syncs>>

-----------------------------------------------------------------------------
RunStep(r) ==
    \/ Begin(r)
    \/ StartPlanning(r)
    \/ StartNode(r)
    \/ Succeed(r)
    \/ Fail(r)
    \/ Conflict(r)
    \/ Cancel(r)
    \/ Lose(r)
    \/ Abandon(r)
    \/ Terminate(r)
    \/ RequestCancel(r)

Next ==
    \/ \E r \in Runs : RunStep(r)
    \/ \E e \in zombies : FinishZombie(e)
    \/ \E r \in syncs : CancelSync(r)
    \/ HydrateApi
    \/ Tick

Spec == Init /\ [][Next]_vars

-----------------------------------------------------------------------------
(* Properties                                                              *)

(* Two runs never hold leases on the same asset: whatever each had loaded   *)
(* when it planned, only one of the writes is accepted                     *)
(* (uq_selection_reservations_active_slot).                                *)
LeasesDisjoint ==
    \A a \in Assets : \A r, q \in Runs :
        Live(row[r][a]) /\ Live(row[q][a]) => r = q

(* The leases implement a lock on each asset.                              *)
Holder ==
    [a \in Assets |->
        IF \E r \in Runs : Live(row[r][a])
        THEN CHOOSE r \in Runs : Live(row[r][a]) ELSE Nobody]

Lock == INSTANCE SlotLock WITH holder <- Holder
ImplementsSlotLock == Lock!Spec

(* Runs whose own writes are on time, though their workers may die.        *)
OnTime == {r \in Runs : Faults[r] \subseteq {"worker_loss"}}

(* While a run executes, each reservation its material pack lists is still  *)
(* its own, until the TTL elapses: no write of another run takes it,       *)
(* however late it comes (material_pack_planning.py 240-245, "the          *)
(* reservation ids surfaced here are the ones THIS run owns").             *)
PackIsBacked ==
    \A r \in OnTime : stage[r] \in {"work", "finalize"} =>
        \A a \in pack[r] : row[r][a].left > 0 => Live(row[r][a])

(* A run that ended, in any way, holds no lease, whichever of its workers   *)
(* died before or after a write ("cancel/failure releases it", media.py    *)
(* 196-198).                                                               *)
EndedHoldsNothing ==
    \A r \in OnTime : stage[r] = "ended" => \A a \in Assets : ~Live(row[r][a])
=============================================================================
