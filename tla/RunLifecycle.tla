---------------------------- MODULE RunLifecycle ----------------------------
(***************************************************************************)
(* The life of the runs of one job under the Temporal runtime.             *)
(*                                                                         *)
(* Three actors share the state of a run:                                  *)
(*   - the API process, which keeps its own in-memory Repository (memJob,  *)
(*     memRun, memRetry) and writes whole rows of it to PostgreSQL;        *)
(*   - the database rows themselves (dbJob, dbRun, dbNode, dbRetry);       *)
(*   - one Temporal workflow per run (wf), whose activities run on a       *)
(*     worker: each loads a snapshot of the rows (act[r].snap), works on   *)
(*     it in memory, and writes the snapshot back in one transaction.      *)
(*                                                                         *)
(* Nothing locks a row between the read and the write, so every write may  *)
(* be computed from rows that have changed since.                          *)
(*                                                                         *)
(* A node is its position in the template's topological order. The output  *)
(* of a node is the run that owns its artifact: a resumed run points at    *)
(* the artifacts of the run it resumes.                                    *)
(***************************************************************************)
EXTENDS Integers, FiniteSets, StateMachines

CONSTANTS
    Runs,          \* identifiers for the runs of the job
    NoRun,         \* "no run": a node without output, a run that resumes none
    N,             \* number of nodes of the template
    NeverReuse,    \* nodes whose reuse_policy is "never"
    MaxAttempts,   \* max_attempts of every node's retry policy
    MaxReconcile,  \* maximum_attempts of mark_run_failed
    MaxLosses,     \* bound on the activities lost by workers
    Ops,           \* the requests users make
    Faults         \* what the environment may do

Node == 1..N

(* Requests that may be enabled. "new" starts a run, "retry" and "resume"  *)
(* start one from an earlier run, the others ask a run to stop. Without    *)
(* "concurrent" users wait for the runs they started before starting one.  *)
AllOps == {"new", "retry", "resume", "cancel", "force_cancel", "concurrent"}

(* unreachable   a start call fails and no workflow exists                 *)
(* call_timeout  a call to Temporal times out, its effect unknown          *)
(* slow_api      workers may act before the API's write that follows a     *)
(*               call to Temporal                                          *)
(* worker_loss   a worker dies, or an exception leaves an activity, before *)
(*               or after its write                                        *)
(* zombie        Temporal gives an activity up while its thread lives on   *)
(* api_restart   the API process restarts and loses its memory             *)
AllFaults == {"unreachable", "call_timeout", "slow_api", "worker_loss",
              "zombie", "api_restart"}

ASSUME ConstantsAssumption ==
    /\ NoRun \notin Runs
    /\ N \in Nat \ {0}
    /\ NeverReuse \subseteq Node
    /\ MaxAttempts \in [Node -> Nat \ {0}]
    /\ MaxReconcile \in Nat \ {0}
    /\ MaxLosses \in Nat
    /\ Ops \subseteq AllOps
    /\ Faults \subseteq AllFaults

VARIABLES
    memJob, memRun, memRetry,       \* the API's Repository
    dbJob, dbRun, dbNode, dbRetry,  \* rows of jobs, workflow_runs, node_runs
    src,                            \* resume_from_run_id of every run
    plan,                           \* how many nodes its reuse plan keeps
    req,                            \* progress of the request that starts it
    cancelSync,                     \* runs whose cancel request must still write
    wf,                             \* the workflow of every run
    act,                            \* the activity its workflow waits for
    zombies,                        \* executions Temporal no longer waits for
    losses                          \* activities lost so far

memVars == <<memJob, memRun, memRetry>>
dbVars == <<dbJob, dbRun, dbNode, dbRetry>>
reqVars == <<src, plan, req, cancelSync>>
wfVars == <<wf, act, zombies, losses>>
vars == <<memVars, dbVars, reqVars, wfVars>>

-----------------------------------------------------------------------------
(* Types                                                                   *)

RunOrNone == Runs \cup {NoRun}
Outputs == [Node -> RunOrNone]

Snapshot == [job : JobState, run : RunState, node : Outputs, base : Outputs]

ActivityKind == {"reuse", "node", "reconcile", "cancel"}

Workflow == [pc : {"none", "begin", "closed"} \cup ActivityKind,
             next : 1..(N + 1), try : Nat, cancel : BOOLEAN]

Activity == [phase : {"idle", "scheduled", "working", "reported"},
             result : RunState \cup {"error"}, snap : Snapshot]

Execution == [run : Runs, kind : ActivityKind, node : 1..(N + 1),
              snap : Snapshot]

RequestState ==
    {"none", "admitted", "persisted", "planned", "started", "failing", "done"}

TypeOK ==
    /\ memJob \in JobState
    /\ memRun \in [Runs -> RunState]
    /\ memRetry \in [Runs -> BOOLEAN]
    /\ dbJob \in JobState
    /\ dbRun \in [Runs -> RunState]
    /\ dbNode \in [Runs -> Outputs]
    /\ dbRetry \in [Runs -> BOOLEAN]
    /\ src \in [Runs -> RunOrNone]
    /\ plan \in [Runs -> 0..N]
    /\ req \in [Runs -> RequestState]
    /\ cancelSync \subseteq Runs
    /\ wf \in [Runs -> Workflow]
    /\ act \in [Runs -> Activity]
    /\ zombies \subseteq Execution
    /\ losses \in 0..MaxLosses

-----------------------------------------------------------------------------
NoOutputs == [i \in Node |-> NoRun]

EmptySnapshot ==
    [job |-> Absent, run |-> Absent, node |-> NoOutputs, base |-> NoOutputs]

IdleActivity == [phase |-> "idle", result |-> Absent, snap |-> EmptySnapshot]

Report(result) ==
    [phase |-> "reported", result |-> result, snap |-> EmptySnapshot]

(* The job is created in memory as a draft; its row follows with the first *)
(* run.                                                                    *)
Init ==
    /\ memJob = "draft"
    /\ memRun = [r \in Runs |-> Absent]
    /\ memRetry = [r \in Runs |-> FALSE]
    /\ dbJob = Absent
    /\ dbRun = [r \in Runs |-> Absent]
    /\ dbNode = [r \in Runs |-> NoOutputs]
    /\ dbRetry = [r \in Runs |-> FALSE]
    /\ src = [r \in Runs |-> NoRun]
    /\ plan = [r \in Runs |-> 0]
    /\ req = [r \in Runs |-> "none"]
    /\ cancelSync = {}
    /\ wf = [r \in Runs |->
                [pc |-> "none", next |-> 1, try |-> 1, cancel |-> FALSE]]
    /\ act = [r \in Runs |-> IdleActivity]
    /\ zombies = {}
    /\ losses = 0

-----------------------------------------------------------------------------
(* The API process: memory                                                 *)

(* hydrate_workflow_runtime_snapshot(r) into the API's Repository: the row *)
(* of the job, of the run, and of the run it resumes.                      *)
HydrateMemory(r) ==
    LET loaded == {r} \cup {q \in Runs : q = src[r] /\ dbRun[q] # Absent} IN
    /\ memJob' = dbJob
    /\ memRun' = [q \in Runs |-> IF q \in loaded THEN dbRun[q] ELSE memRun[q]]
    /\ memRetry' =
         [q \in Runs |-> IF q \in loaded THEN dbRetry[q] ELSE memRetry[q]]

(* _runtime_run: a request about a run the memory does not hold loads it;  *)
(* a run the memory holds is never loaded again.                           *)
RuntimeRun(r) ==
    /\ memRun[r] = Absent
    /\ dbRun[r] # Absent
    /\ HydrateMemory(r)
    /\ UNCHANGED <<dbVars, reqVars, wfVars>>

(* The branch of _admit_run that accepts the request; any other status of  *)
(* the job makes assert_transition raise.                                  *)
Requeues(mode, s) ==
    \/ memJob = "draft"
    \/ memJob = "succeeded" /\ mode = "resume" /\ memRun[s] = "succeeded"
    \/ memJob = "failed" /\ mode = "retry" /\ memRun[s] = "failed"
    \/ memJob = "failed" /\ mode = "resume" /\ memRun[s] = "failed" /\ memRetry[s]

Admissible(mode, s) == Requeues(mode, s) \/ memJob \in {"queued", "running"}

(* A run nothing drives any more.                                          *)
AtRest(r) ==
    /\ req[r] \in {"none", "done"}
    /\ wf[r].pc \in {"none", "closed"}

(* _admit_run: a new run, admitted in memory only.                         *)
AdmitRun(r, mode, s) ==
    /\ req[r] = "none"
    /\ mode \in Ops
    /\ "concurrent" \in Ops \/ \A q \in Runs : AtRest(q)
    /\ \/ mode = "new" /\ s = NoRun
       \/ mode # "new" /\ s \in Runs /\ memRun[s] # Absent
    /\ Admissible(mode, s)
    /\ memJob' = IF Requeues(mode, s) THEN "queued" ELSE memJob
    /\ memRun' = [memRun EXCEPT ![r] = "admitted"]
    /\ src' = [src EXCEPT ![r] = IF mode = "resume" THEN s ELSE NoRun]
    /\ req' = [req EXCEPT ![r] = "admitted"]
    /\ UNCHANGED <<memRetry, plan, cancelSync, dbVars, wfVars>>

(* sync_workflow_snapshot by the API: the whole rows of the job and of the *)
(* run are replaced by what its memory holds, whatever they hold now.      *)
SyncFromMemory(r, job, run) ==
    /\ dbJob' = job
    /\ dbRun' = [dbRun EXCEPT ![r] = run]
    /\ UNCHANGED <<dbNode, dbRetry>>

-----------------------------------------------------------------------------
(* The API process: starting a run                                         *)

PersistAdmitted(r) ==
    /\ req[r] = "admitted"
    /\ SyncFromMemory(r, memJob, memRun[r])
    /\ req' = [req EXCEPT ![r] = "persisted"]
    /\ UNCHANGED <<memVars, src, plan, cancelSync, wfVars>>

HasOutput(out, i) == out[i] # NoRun

(* The outputs whose artifacts are loaded: those of the runs in owners.     *)
Visible(out, owners) ==
    [i \in Node |-> IF out[i] \in owners THEN out[i] ELSE NoRun]

(* compute_reuse_plan keeps a prefix of the template whose nodes all have   *)
(* reusable outputs. Which artifacts still pass the checks on their files   *)
(* is left open: any such prefix. A source without a row makes it raise.    *)
ReusePrefixes(s) ==
    {k \in 0..N : \A i \in 1..k : i \notin NeverReuse /\ HasOutput(dbNode[s], i)}

PlanReuse(r) ==
    /\ req[r] = "persisted"
    /\ src[r] # NoRun
    /\ IF dbRun[src[r]] = Absent
       THEN /\ req' = [req EXCEPT ![r] = "failing"]
            /\ UNCHANGED <<memVars, plan>>
       ELSE /\ HydrateMemory(src[r])
            /\ \E k \in ReusePrefixes(src[r]) : plan' = [plan EXCEPT ![r] = k]
            /\ req' = [req EXCEPT ![r] = "planned"]
    /\ UNCHANGED <<src, cancelSync, dbVars, wfVars>>

(* start_workflow reached Temporal, and its answer reached the API unless   *)
(* the call timed out.                                                     *)
CallStart(r) ==
    /\ req[r] = IF src[r] = NoRun THEN "persisted" ELSE "planned"
    /\ \/ /\ req' = [req EXCEPT ![r] = "started"]
          /\ wf' = [wf EXCEPT ![r].pc = "begin"]
       \/ /\ "call_timeout" \in Faults
          /\ req' = [req EXCEPT ![r] = "failing"]
          /\ wf' = [wf EXCEPT ![r].pc = "begin"]
       \/ /\ Faults \cap {"call_timeout", "unreachable"} # {}
          /\ req' = [req EXCEPT ![r] = "failing"]
          /\ UNCHANGED wf
    /\ UNCHANGED <<memVars, dbVars, src, plan, cancelSync, act, zombies, losses>>

(* The write that ends _start_submitted_run: the memory of the API again,   *)
(* after the workflow was started.                                         *)
PostStartSync(r) ==
    /\ req[r] = "started"
    /\ SyncFromMemory(r, memJob, memRun[r])
    /\ req' = [req EXCEPT ![r] = "done"]
    /\ UNCHANGED <<memVars, src, plan, cancelSync, wfVars>>

(* _compensate_failed_start: the run and its job fail, in memory and in the *)
(* database, if their tables let them.                                     *)
Compensate(r) ==
    /\ req[r] = "failing"
    /\ req' = [req EXCEPT ![r] = "done"]
    /\ IF "failed" \in RunTransitions[memRun[r]]
       THEN LET job == IF memJob # Absent /\ "failed" \in JobTransitions[memJob]
                       THEN "failed" ELSE memJob IN
            /\ memJob' = job
            /\ memRun' = [memRun EXCEPT ![r] = "failed"]
            /\ SyncFromMemory(r, job, "failed")
       ELSE UNCHANGED <<memJob, memRun, dbVars>>
    /\ UNCHANGED <<memRetry, src, plan, cancelSync, wfVars>>

-----------------------------------------------------------------------------
(* The API process: cancelling a run, and restarting                       *)

WorkflowOpen(r) == wf[r].pc \notin {"none", "closed"}

Abandoned(r) ==
    [run |-> r, kind |-> wf[r].pc, node |-> wf[r].next, snap |-> act[r].snap]

(* cancel_run(force=False): signal the workflow. A closed or missing        *)
(* workflow makes the RPC fail and the request end without effect.         *)
SignalCancel(r) ==
    /\ "cancel" \in Ops
    /\ memRun[r] # Absent /\ r \notin cancelSync
    /\ WorkflowOpen(r)
    /\ wf' = [wf EXCEPT ![r].cancel = TRUE]
    /\ \/ cancelSync' = cancelSync \cup {r}
       \/ "call_timeout" \in Faults /\ UNCHANGED cancelSync
    /\ UNCHANGED <<memVars, dbVars, src, plan, req, act, zombies, losses>>

(* cancel_run(force=True): terminate the workflow and mark run and job      *)
(* cancelled in memory (_mark_local_force_cancelled). The thread of an      *)
(* activity that is executing is not stopped by the termination.           *)
Terminate(r) ==
    /\ "force_cancel" \in Ops
    /\ memRun[r] # Absent /\ r \notin cancelSync
    /\ WorkflowOpen(r)
    /\ wf' = [wf EXCEPT ![r].pc = "closed"]
    /\ act' = [act EXCEPT ![r] = IdleActivity]
    /\ zombies' = IF act[r].phase = "working"
                  THEN zombies \cup {Abandoned(r)} ELSE zombies
    /\ \/ /\ memRun' = [memRun EXCEPT ![r] =
                            IF @ \in RunTerminal THEN @ ELSE "cancelled"]
          /\ memJob' = IF memJob \in {Absent, "succeeded", "failed", "archived"}
                       THEN memJob ELSE "cancelled"
          /\ cancelSync' = cancelSync \cup {r}
       \/ /\ "call_timeout" \in Faults
          /\ UNCHANGED <<memJob, memRun, cancelSync>>
    /\ UNCHANGED <<memRetry, dbVars, src, plan, req, losses>>

(* The write that ends cancel_run.                                         *)
CancelSync(r) ==
    /\ r \in cancelSync
    /\ SyncFromMemory(r, memJob, memRun[r])
    /\ cancelSync' = cancelSync \ {r}
    /\ UNCHANGED <<memVars, src, plan, req, wfVars>>

RestartApi ==
    /\ "api_restart" \in Faults
    /\ memJob' = Absent
    /\ memRun' = [r \in Runs |-> Absent]
    /\ memRetry' = [r \in Runs |-> FALSE]
    /\ req' = [r \in Runs |-> IF req[r] = "none" THEN "none" ELSE "done"]
    /\ cancelSync' = {}
    /\ UNCHANGED <<src, plan, dbVars, wfVars>>

-----------------------------------------------------------------------------
(* The workflow: what it awaits next                                       *)

Await(w, pc, next, try) == [w EXCEPT !.pc = pc, !.next = next, !.try = try]

AwaitNodeDeaf(w, i) ==   \* mutant: the loop does not look at cancel requests
    IF i > N THEN Await(w, "closed", N + 1, 1) ELSE Await(w, "node", i, 1)

(* The head of the node loop: a cancel request is seen between two nodes.  *)
AwaitNode(w, i) ==
    IF i > N THEN Await(w, "closed", N + 1, 1)
    ELSE IF w.cancel THEN Await(w, "cancel", i, 1)
    ELSE Await(w, "node", i, 1)

BeginEager(r, w) ==   \* mutant: the nodes do not wait for the reused prefix
    AwaitNode(w, plan[r] + 1)

Begin(r, w) ==
    IF src[r] = NoRun THEN AwaitNode(w, 1)
    ELSE IF w.cancel THEN Await(w, "cancel", 1, 1)
    ELSE Await(w, "reuse", 1, 1)

(* An activity answered with the status of the run.                        *)
OnResult(r, w, result) ==
    CASE w.pc = "reuse" -> AwaitNode(w, plan[r] + 1)
      [] w.pc = "node" ->
            IF result \in RunTerminal THEN Await(w, "closed", w.next, 1)
                                      ELSE AwaitNode(w, w.next + 1)
      [] OTHER -> Await(w, "closed", w.next, 1)

MoreAttemptsByOne(w) == w.try <= MaxAttempts[w.next]   \* mutant: off by one
MoreAttempts(w) == w.try < MaxAttempts[w.next]

NodeLostSkips(w) == AwaitNode(w, w.next + 1)   \* mutant: the next node follows
NodeLostSilent(w) == Await(w, "closed", w.next, 1)   \* mutant: nothing is done
NodeLost(w) == Await(w, "reconcile", w.next, 1)

(* An attempt failed. run_node has the attempts of its node, then the       *)
(* workflow reconciles the run; mark_run_failed has MaxReconcile, then the  *)
(* workflow fails; the other two have no retry policy and Temporal retries  *)
(* them for ever.                                                          *)
OnError(w) ==
    CASE w.pc = "node" ->
            IF MoreAttempts(w) THEN Await(w, "node", w.next, w.try + 1)
                               ELSE NodeLost(w)
      [] w.pc = "reconcile" ->
            IF w.try < MaxReconcile THEN Await(w, "reconcile", w.next, w.try + 1)
                                    ELSE Await(w, "closed", w.next, 1)
      [] OTHER -> w

Follow(r, w) ==
    /\ wf' = [wf EXCEPT ![r] = w]
    /\ act' = [act EXCEPT ![r] =
                 IF w.pc = "closed" THEN IdleActivity
                 ELSE [IdleActivity EXCEPT !.phase = "scheduled"]]
    /\ UNCHANGED <<memVars, dbVars, reqVars, zombies, losses>>

(* Without slow_api, the write the API issues right after a call to         *)
(* Temporal returns is in the database before the worker touches the run.  *)
ApiWrote(r) ==
    "slow_api" \in Faults \/ (req[r] # "started" /\ r \notin cancelSync)

WorkflowStep(r) ==
    /\ ApiWrote(r)
    /\ \/ wf[r].pc = "begin" /\ Follow(r, Begin(r, wf[r]))
       \/ /\ act[r].phase = "reported"
          /\ IF act[r].result = "error"
             THEN Follow(r, OnError(wf[r]))
             ELSE Follow(r, OnResult(r, wf[r], act[r].result))

-----------------------------------------------------------------------------
(* The worker: activities                                                  *)

(* hydrate_workflow_runtime_snapshot into a fresh Repository.              *)
ActivitySnapshot(r) ==
    [job |-> dbJob, run |-> dbRun[r], node |-> dbNode[r],
     base |-> IF src[r] = NoRun THEN NoOutputs
              ELSE Visible(dbNode[src[r]], {r, src[r]})]

StartActivity(r) ==
    /\ ApiWrote(r)
    /\ act[r].phase = "scheduled"
    /\ act' = [act EXCEPT ![r].phase = "working", ![r].snap = ActivitySnapshot(r)]
    /\ UNCHANGED <<memVars, dbVars, reqVars, wf, zombies, losses>>

(* The activity raises instead of returning: an assert_transition on the    *)
(* snapshot, or an artifact to reuse that was not loaded.                  *)
Raises(r, kind, s) ==
    CASE kind = "node" -> ~Allowed(JobTransitions, s.job, "running")
      [] kind = "reuse" -> \E i \in 1..plan[r] : ~HasOutput(s.base, i)
      [] kind = "cancel" ->
            \/ s.run \notin {"created", "admitted", "running"}
            \/ ~Allowed(JobTransitions, s.job, "cancelled")
      [] kind = "reconcile" -> FALSE

Outcome(job, run, node, retry) ==
    [job |-> job, run |-> run, node |-> node, retry |-> retry]

(* run_node_activity on node i: nothing is executed for a run that is no    *)
(* longer admitted or running, though its job is set running all the same. *)
NodeOutcomes(r, i, s) ==
    IF s.run \notin {"admitted", "running"}
    THEN {Outcome("running", s.run, s.node, FALSE)}
    ELSE LET out == [s.node EXCEPT ![i] = r] IN
         {IF i = N THEN Outcome("succeeded", "succeeded", out, FALSE)
                   ELSE Outcome("running", "running", out, FALSE)}
         \cup {Outcome("failed", "failed", s.node, b) : b \in BOOLEAN}

(* apply_reuse_plan: the kept prefix points at the artifacts of the source. *)
ReuseOutcome(r, s) ==
    Outcome(s.job, s.run,
            [i \in Node |-> IF i <= plan[r] THEN s.base[i] ELSE s.node[i]],
            FALSE)

(* mark_run_cancelled                                                      *)
CancelOutcome(s) == Outcome("cancelled", "cancelled", s.node, FALSE)

ReconcileOutcomeBlind(s) ==   \* mutant: a terminal run is failed as well
    Outcome(IF s.job = "running" THEN "failed" ELSE s.job, "failed", s.node,
            \E i \in Node : ~HasOutput(s.node, i))

ReconcileOutcomeBare(s) ==   \* mutant: no failed node is recorded
    IF s.run \in RunTerminal
    THEN Outcome(s.job, s.run, s.node, FALSE)
    ELSE Outcome(IF s.job = "running" THEN "failed" ELSE s.job, "failed", s.node,
                 FALSE)

(* mark_run_failed: a terminal run is left alone; otherwise the run fails   *)
(* and the next unfinished node, if any, is recorded as a retryable failure. *)
ReconcileOutcome(s) ==
    IF s.run \in RunTerminal
    THEN Outcome(s.job, s.run, s.node, FALSE)
    ELSE Outcome(IF s.job = "running" THEN "failed" ELSE s.job, "failed", s.node,
                 \E i \in Node : ~HasOutput(s.node, i))

Outcomes(e) ==
    CASE e.kind = "node" -> NodeOutcomes(e.run, e.node, e.snap)
      [] e.kind = "reuse" -> {ReuseOutcome(e.run, e.snap)}
      [] e.kind = "cancel" -> {CancelOutcome(e.snap)}
      [] e.kind = "reconcile" -> {ReconcileOutcome(e.snap)}

SyncFromWorkerReplaces(r, o) ==   \* mutant: node rows are replaced
    /\ dbJob' = o.job
    /\ dbRun' = [dbRun EXCEPT ![r] = o.run]
    /\ dbNode' = [dbNode EXCEPT ![r] = o.node]
    /\ dbRetry' = [dbRetry EXCEPT ![r] = @ \/ o.retry]

(* sync_workflow_snapshot by a worker: rows of the job and of the run are   *)
(* replaced; node rows, which have fresh identifiers, are added.           *)
SyncFromWorker(r, o) ==
    /\ dbJob' = o.job
    /\ dbRun' = [dbRun EXCEPT ![r] = o.run]
    /\ dbNode' = [dbNode EXCEPT ![r] =
                    [i \in Node |-> IF HasOutput(o.node, i) THEN o.node[i] ELSE @[i]]]
    /\ dbRetry' = [dbRetry EXCEPT ![r] = @ \/ o.retry]

(* The execution the workflow of r waits for.                              *)
Current(r) == Abandoned(r)

FinishActivity(r) ==
    /\ ApiWrote(r)
    /\ act[r].phase = "working"
    /\ IF Raises(r, wf[r].pc, act[r].snap)
       THEN /\ act' = [act EXCEPT ![r] = Report("error")]
            /\ UNCHANGED dbVars
       ELSE \E o \in Outcomes(Current(r)) :
              /\ SyncFromWorker(r, o)
              /\ act' = [act EXCEPT ![r] = Report(o.run)]
    /\ UNCHANGED <<memVars, reqVars, wf, zombies, losses>>

(* A worker dies or an exception leaves the activity: Temporal learns of a  *)
(* failed attempt, whether or not the write was made.                      *)
LoseActivity(r) ==
    /\ "worker_loss" \in Faults
    /\ losses < MaxLosses
    /\ act[r].phase \in {"working", "reported"}
    /\ act' = [act EXCEPT ![r] = Report("error")]
    /\ losses' = losses + 1
    /\ UNCHANGED <<memVars, dbVars, reqVars, wf, zombies>>

(* Heartbeats stop reaching Temporal, or the attempt outlives its timeout,  *)
(* while the thread of the activity goes on.                               *)
TimeOutActivity(r) ==
    /\ "zombie" \in Faults
    /\ losses < MaxLosses
    /\ act[r].phase = "working"
    /\ zombies' = zombies \cup {Current(r)}
    /\ act' = [act EXCEPT ![r] = Report("error")]
    /\ losses' = losses + 1
    /\ UNCHANGED <<memVars, dbVars, reqVars, wf>>

FinishZombie(e) ==
    /\ zombies' = zombies \ {e}
    /\ IF Raises(e.run, e.kind, e.snap)
       THEN UNCHANGED dbVars
       ELSE \E o \in Outcomes(e) : SyncFromWorker(e.run, o)
    /\ UNCHANGED <<memVars, reqVars, wf, act, losses>>

-----------------------------------------------------------------------------
RequestStep(r) ==
    \/ PersistAdmitted(r)
    \/ PlanReuse(r)
    \/ CallStart(r)
    \/ PostStartSync(r)
    \/ Compensate(r)
    \/ CancelSync(r)

WorkerStep(r) ==
    \/ WorkflowStep(r)
    \/ StartActivity(r)
    \/ FinishActivity(r)

UserStep(r) ==
    \/ RuntimeRun(r)
    \/ \E mode \in {"new", "retry", "resume"}, s \in RunOrNone : AdmitRun(r, mode, s)
    \/ SignalCancel(r)
    \/ Terminate(r)

FaultStep(r) ==
    \/ LoseActivity(r)
    \/ TimeOutActivity(r)

Next ==
    \/ \E r \in Runs :
         \/ RequestStep(r)
         \/ WorkerStep(r)
         \/ UserStep(r)
         \/ FaultStep(r)
    \/ \E e \in zombies : FinishZombie(e)
    \/ RestartApi

(* The thread that serves a request runs to its end; Temporal keeps the     *)
(* workflow moving and some worker takes its activities; an activity ends,  *)
(* each of its calls being bounded by a timeout. Users, faults and zombies  *)
(* owe nothing.                                                            *)
Fairness == \A r \in Runs : WF_vars(RequestStep(r)) /\ WF_vars(WorkerStep(r))

Spec == Init /\ [][Next]_vars
FairSpec == Spec /\ Fairness

-----------------------------------------------------------------------------
(* Safety                                                                  *)

(* The outputs a run has in the database are those of a prefix of the      *)
(* template: whatever is lost, retried or written late, no node's output   *)
(* is there without those of every node before it                          *)
(* (node_sequence.py, "which upstream node must finish before a node may   *)
(* run").                                                                  *)
NodePrefix ==
    \A r \in Runs : \A i \in Node : \A j \in 1..i :
        HasOutput(dbNode[r], i) => HasOutput(dbNode[r], j)

(* A run whose row says succeeded has the outputs of all its nodes:        *)
(* _complete_run is reached by the last node only, and no stale write of   *)
(* the API or of a zombie puts "succeeded" on an unfinished run.           *)
SuccessIsComplete ==
    \A r \in Runs :
        dbRun[r] = "succeeded" => \A i \in Node : HasOutput(dbNode[r], i)

(* Every output a run points at belongs to the run itself or to the run it *)
(* resumes: the only two runs whose artifacts its activities load          *)
(* (hydrate_workflow_runtime_snapshot goes one resume_from_run_id back).   *)
OutputsAreLoadable ==
    \A r \in Runs : \A i \in Node : dbNode[r][i] \in {NoRun, r, src[r]}

Executions ==
    {Current(r) : r \in {q \in Runs : act[q].phase = "working"}} \cup zombies

(* A node that is executing, in a live attempt or in a zombie, was given   *)
(* the outputs of every node before it.                                    *)
UpstreamLoaded ==
    \A e \in Executions :
        e.kind = "node" => \A j \in 1..(e.node - 1) : HasOutput(e.snap.node, j)

(* A node with a single attempt (every node that pays a provider) is never *)
(* executed twice at once within a run, even when Temporal gave the first  *)
(* execution up while its thread lived on.                                 *)
SingleAttemptRunsOnce ==
    \A r \in Runs :
        /\ wf[r].pc = "node" /\ MaxAttempts[wf[r].next] = 1
        /\ act[r].phase \in {"scheduled", "working"}
        =>
            \A e \in zombies :
                ~(e.run = r /\ e.kind = "node" /\ e.node = wf[r].next)

(* Once a cancel signal is accepted, the workflow begins no further node:  *)
(* only the node it awaits may be attempted again (temporal_adapter.py     *)
(* 160-162, the check at the head of the node loop).                       *)
NoNodeAfterCancel ==
    [][\A r \in Runs :
          wf[r].cancel /\ wf'[r].pc = "node" =>
              wf[r].pc = "node" /\ wf'[r].next = wf[r].next]_wf

(* A run that reconciliation turns to failed can be resumed by an API that *)
(* knows only the database: the write that fails the run also leaves its   *)
(* job in a status, and the run with a retryable node error, that          *)
(* _admit_run accepts (mark_run_failed: "the run lands in failed with a    *)
(* retryable error so an operator can resume it"). Another run of the job  *)
(* that succeeds meanwhile may leave the job succeeded, which refuses it.  *)
Reconciles(r) ==
    /\ wf[r].pc = "reconcile" /\ act[r].phase = "working"
    /\ act'[r].phase = "reported"
    /\ dbRun[r] # "failed" /\ dbRun'[r] = "failed"

OthersFailed(r) == \A q \in Runs \ {r} : dbRun[q] \in {Absent, "failed"}

ReconciledIsResumable ==
    [][\A r \in Runs :
          Reconciles(r) /\ OthersFailed(r) =>
              \/ dbJob' \in {"queued", "running"}
              \/ dbJob' = "failed" /\ dbRetry'[r]]_<<wf, act, dbVars>>

(* The durable status of every run implements RunOutcome.                  *)
RunContract == INSTANCE RunOutcome WITH status <- dbRun
ImplementsRunOutcome == RunContract!Spec

-----------------------------------------------------------------------------
(* Liveness                                                                *)

(* Every run whose row is persisted reaches a terminal status, and keeps   *)
(* one: a run is never left admitted or running with nobody to drive it.   *)
EveryRunSettles ==
    \A r \in Runs : dbRun[r] # Absent ~> [](dbRun[r] \in RunTerminal)
=============================================================================
