------------------------- MODULE RunLifecycleProofs -------------------------
(***************************************************************************)
(* Proofs about RunLifecycle, for every number of runs and nodes, every     *)
(* retry policy and every set of requests and faults.                      *)
(***************************************************************************)
EXTENDS RunLifecycle, TLAPS

-----------------------------------------------------------------------------
(* Type correctness                                                        *)

(* Beside the types: only an awaited activity exists, and the workflow of  *)
(* a run does not exist before its start call.                             *)
ActivityAwaited == \A r \in Runs : act[r].phase # "idle" => wf[r].pc \in ActivityKind

NotStarted(r) == req[r] \in {"none", "admitted", "persisted", "planned"}

StartedByCall == \A r \in Runs : NotStarted(r) => wf[r].pc = "none"

TypeInv == TypeOK /\ ActivityAwaited /\ StartedByCall

OutcomeType == [job : JobState, run : RunState, node : Outputs, retry : BOOLEAN]

(* What the workflow awaits next is an activity or nothing.                *)
NextWorkflow ==
    {w \in Workflow : w.pc \in ActivityKind \cup {"closed"}}

(* Await returns a workflow that waits for the activity it is given.       *)
LEMMA AwaitType ==
    ASSUME NEW w \in Workflow, NEW pc \in ActivityKind \cup {"closed"},
           NEW next \in 1..(N + 1), NEW try \in Nat
    PROVE  Await(w, pc, next, try) \in NextWorkflow
BY DEF Await, NextWorkflow, Workflow

(* The head of the node loop: a node, the end, or the cancel activity.     *)
LEMMA AwaitNodeType ==
    ASSUME NEW w \in Workflow, NEW i \in 1..(N + 2)
    PROVE  AwaitNode(w, i) \in NextWorkflow
<1> USE ConstantsAssumption
<1>1. CASE i > N
  <2>1. N + 1 \in 1..(N + 1)
    OBVIOUS
  <2> QED BY <1>1, <2>1, AwaitType DEF AwaitNode
<1>2. CASE i <= N
  <2>1. i \in 1..(N + 1)
    BY <1>2
  <2> QED BY <1>2, <2>1, AwaitType DEF AwaitNode, ActivityKind
<1> QED BY <1>1, <1>2

(* The first step of a workflow awaits an activity or closes.              *)
LEMMA BeginType ==
    ASSUME TypeOK, NEW r \in Runs
    PROVE  Begin(r, wf[r]) \in NextWorkflow
<1> USE ConstantsAssumption
<1>1. wf[r] \in Workflow /\ 1 \in 1..(N + 1) /\ 1 \in 1..(N + 2)
  BY DEF TypeOK
<1> QED BY <1>1, AwaitNodeType, AwaitType DEF Begin, ActivityKind

(* So does the step that takes the result of an activity.                  *)
LEMMA OnResultType ==
    ASSUME TypeOK, NEW r \in Runs, NEW result
    PROVE  OnResult(r, wf[r], result) \in NextWorkflow
<1> USE ConstantsAssumption
<1>1. /\ wf[r] \in Workflow
      /\ wf[r].next \in 1..(N + 1) /\ wf[r].next + 1 \in 1..(N + 2)
      /\ plan[r] + 1 \in 1..(N + 2)
  BY DEF TypeOK, Workflow
<1>2. Await(wf[r], "closed", wf[r].next, 1) \in NextWorkflow
  BY <1>1, AwaitType
<1>3. /\ AwaitNode(wf[r], plan[r] + 1) \in NextWorkflow
      /\ AwaitNode(wf[r], wf[r].next + 1) \in NextWorkflow
  BY <1>1, AwaitNodeType
<1> QED BY <1>2, <1>3 DEF OnResult

(* So does the step that takes an error.                                   *)
LEMMA OnErrorType ==
    ASSUME TypeOK, NEW r \in Runs, wf[r].pc \in ActivityKind
    PROVE  OnError(wf[r]) \in NextWorkflow
<1> USE ConstantsAssumption
<1>1. /\ wf[r] \in NextWorkflow /\ wf[r] \in Workflow
      /\ wf[r].next \in 1..(N + 1) /\ wf[r].try + 1 \in Nat
  BY DEF TypeOK, Workflow, NextWorkflow
<1>2. \A pc \in {"node", "reconcile", "closed"} :
        /\ Await(wf[r], pc, wf[r].next, 1) \in NextWorkflow
        /\ Await(wf[r], pc, wf[r].next, wf[r].try + 1) \in NextWorkflow
  BY <1>1, AwaitType DEF ActivityKind
<1> QED BY <1>1, <1>2 DEF OnError, NodeLost

(* What an activity loads from the rows is a snapshot.                     *)
LEMMA SnapshotType ==
    ASSUME TypeOK, NEW r \in Runs
    PROVE  ActivitySnapshot(r) \in Snapshot
BY DEF TypeOK, ActivitySnapshot, Snapshot, Visible, NoOutputs, Outputs, RunOrNone

(* An outcome built from typed parts is an outcome.                        *)
LEMMA OutcomeIsTyped ==
    ASSUME NEW job \in JobState, NEW run \in RunState, NEW node \in Outputs,
           NEW retry \in BOOLEAN
    PROVE  Outcome(job, run, node, retry) \in OutcomeType
BY DEF Outcome, OutcomeType

(* Outcomes, one kind of activity at a time.                               *)
LEMMA OutcomesByKind ==
    ASSUME NEW e \in Execution
    PROVE  /\ e.kind = "node" => Outcomes(e) = NodeOutcomes(e.run, e.node, e.snap)
           /\ e.kind = "reuse" => Outcomes(e) = {ReuseOutcome(e.run, e.snap)}
           /\ e.kind = "cancel" => Outcomes(e) = {CancelOutcome(e.snap)}
           /\ e.kind = "reconcile" => Outcomes(e) = {ReconcileOutcome(e.snap)}
BY DEF Outcomes

(* Whatever an activity makes of a typed snapshot is typed.                *)
LEMMA OutcomesType ==
    ASSUME TypeOK, NEW e \in Execution, NEW o \in Outcomes(e)
    PROVE  o \in OutcomeType
<1>1. /\ e.snap.job \in JobState /\ e.snap.run \in RunState
      /\ e.snap.node \in Outputs /\ e.snap.base \in Outputs
      /\ e.run \in Runs /\ e.node \in 1..(N + 1) /\ e.kind \in ActivityKind
  BY DEF Execution, Snapshot
<1>2. /\ {"running", "succeeded", "failed", "cancelled"} \subseteq JobState
      /\ {"running", "succeeded", "failed", "cancelled"} \subseteq RunState
  BY DEF JobState, RunState, JobStatus, RunStatus
<1>3. CASE e.kind = "node"
  <2> DEFINE out == [e.snap.node EXCEPT ![e.node] = e.run]
  <2>1. out \in Outputs
    BY <1>1 DEF Outputs, RunOrNone
  <2>2. /\ Outcome("running", e.snap.run, e.snap.node, FALSE) \in OutcomeType
        /\ Outcome("succeeded", "succeeded", out, FALSE) \in OutcomeType
        /\ Outcome("running", "running", out, FALSE) \in OutcomeType
        /\ \A b \in BOOLEAN :
              Outcome("failed", "failed", e.snap.node, b) \in OutcomeType
    BY <1>1, <1>2, <2>1, OutcomeIsTyped
  <2>3. o \in NodeOutcomes(e.run, e.node, e.snap)
    BY <1>3, OutcomesByKind
  <2> HIDE DEF out
  <2> QED BY <2>2, <2>3 DEF NodeOutcomes, out
<1>4. CASE e.kind = "reuse"
  <2> DEFINE out == [i \in Node |-> IF i <= plan[e.run] THEN e.snap.base[i]
                                                       ELSE e.snap.node[i]]
  <2>1. out \in Outputs
    BY <1>1 DEF Outputs
  <2>2. o = Outcome(e.snap.job, e.snap.run, out, FALSE)
    BY <1>4, OutcomesByKind DEF ReuseOutcome
  <2> HIDE DEF out
  <2> QED BY <1>1, <2>1, <2>2, OutcomeIsTyped
<1>5. CASE e.kind = "cancel"
  <2>1. o = Outcome("cancelled", "cancelled", e.snap.node, FALSE)
    BY <1>5, OutcomesByKind DEF CancelOutcome
  <2> QED BY <1>1, <1>2, <2>1, OutcomeIsTyped
<1>6. CASE e.kind = "reconcile"
  <2> DEFINE job == IF e.snap.job = "running" THEN "failed" ELSE e.snap.job
             retry == \E i \in Node : ~HasOutput(e.snap.node, i)
  <2>1. retry \in BOOLEAN /\ job \in JobState
    BY <1>1, <1>2
  <2>2. \/ o = Outcome(e.snap.job, e.snap.run, e.snap.node, FALSE)
        \/ o = Outcome(job, "failed", e.snap.node, retry)
    BY <1>6, OutcomesByKind DEF ReconcileOutcome
  <2> HIDE DEF job, retry
  <2> QED BY <1>1, <1>2, <2>1, <2>2, OutcomeIsTyped
<1> QED BY <1>1, <1>3, <1>4, <1>5, <1>6 DEF ActivityKind

(* The awaited activity of a run, seen as an execution, is typed.          *)
LEMMA CurrentType ==
    ASSUME TypeOK, NEW r \in Runs, wf[r].pc \in ActivityKind
    PROVE  Current(r) \in Execution
BY DEF TypeOK, Current, Abandoned, Execution, Workflow, Activity

(* No activity is an activity.                                             *)
LEMMA IdleActivityType ==
    /\ IdleActivity \in Activity
    /\ [IdleActivity EXCEPT !.phase = "scheduled"] \in Activity
    /\ EmptySnapshot \in Snapshot
<1>1. NoOutputs \in Outputs
  BY DEF NoOutputs, Outputs, RunOrNone
<1>2. EmptySnapshot \in Snapshot
  BY <1>1 DEF EmptySnapshot, Snapshot, JobState, RunState
<1> QED BY <1>2 DEF IdleActivity, Activity, RunState

(* A reported result is an activity.                                       *)
LEMMA ReportType ==
    ASSUME NEW result \in RunState \cup {"error"}
    PROVE  Report(result) \in Activity
BY IdleActivityType DEF Report, Activity

(* The write of a worker keeps the types of the rows.                      *)
LEMMA SyncType ==
    ASSUME TypeOK, NEW r \in Runs, NEW o \in OutcomeType, SyncFromWorker(r, o)
    PROVE  /\ dbJob' \in JobState /\ dbRun' \in [Runs -> RunState]
           /\ dbNode' \in [Runs -> Outputs] /\ dbRetry' \in [Runs -> BOOLEAN]
BY DEF TypeOK, SyncFromWorker, OutcomeType, Outputs

(* The statuses that requests write are statuses.                          *)
LEMMA RequeuedType ==
    ASSUME TypeOK
    PROVE  /\ \A r \in Runs : memRun[r] \in RunState /\ dbRun[r] \in RunState
           /\ {"queued", "failed", "cancelled", Absent} \subseteq JobState
           /\ {"admitted", "failed", "cancelled", Absent} \subseteq RunState
BY DEF TypeOK, JobState, JobStatus, RunState, RunStatus

(* The initial states are typed.                                           *)
LEMMA TypeInit == ASSUME Init PROVE TypeInv
<1> USE ConstantsAssumption DEF Init
<1>1. TypeOK
  <2>1. "draft" \in JobState /\ Absent \in JobState /\ Absent \in RunState
    BY DEF JobState, JobStatus, RunState
  <2>2. NoOutputs \in Outputs
    BY DEF NoOutputs, Outputs, RunOrNone
  <2>3. IdleActivity \in Activity
    BY <2>1, <2>2 DEF IdleActivity, EmptySnapshot, Activity, Snapshot
  <2>4. [pc |-> "none", next |-> 1, try |-> 1, cancel |-> FALSE] \in Workflow
    BY DEF Workflow
  <2>5. /\ memJob \in JobState /\ memRun \in [Runs -> RunState]
        /\ dbJob \in JobState /\ dbRun \in [Runs -> RunState]
        /\ dbNode \in [Runs -> Outputs]
    BY <2>1, <2>2
  <2>6. wf \in [Runs -> Workflow] /\ act \in [Runs -> Activity]
    BY <2>3, <2>4
  <2>7. /\ memRetry \in [Runs -> BOOLEAN] /\ dbRetry \in [Runs -> BOOLEAN]
        /\ src \in [Runs -> RunOrNone] /\ req \in [Runs -> RequestState]
        /\ cancelSync \subseteq Runs /\ zombies \subseteq Execution
    BY DEF RunOrNone, RequestState
  <2>8. plan \in [Runs -> 0..N] /\ losses \in 0..MaxLosses
    OBVIOUS
  <2> QED BY <2>5, <2>6, <2>7, <2>8 DEF TypeOK
<1>2. ActivityAwaited
  BY DEF ActivityAwaited, IdleActivity
<1>3. StartedByCall
  BY DEF StartedByCall
<1> QED BY <1>1, <1>2, <1>3 DEF TypeInv

(* The steps of the API that leave the workflows and their activities.     *)
LEMMA TypeApi ==
    ASSUME TypeInv, NEW r \in Runs, NEW mode, NEW s \in RunOrNone,
           \/ RuntimeRun(r) \/ AdmitRun(r, mode, s) \/ PersistAdmitted(r)
           \/ PlanReuse(r) \/ PostStartSync(r) \/ Compensate(r)
           \/ CancelSync(r)
    PROVE  TypeInv'
<1> USE ConstantsAssumption, RequeuedType
        DEF TypeInv, TypeOK, ActivityAwaited, StartedByCall, NotStarted,
            RequestState, memVars, dbVars, reqVars, wfVars
<1>1. CASE RuntimeRun(r)
  BY <1>1 DEF RuntimeRun, HydrateMemory
<1>2. CASE AdmitRun(r, mode, s)
  BY <1>2 DEF AdmitRun, RunOrNone
<1>3. CASE PersistAdmitted(r)
  BY <1>3 DEF PersistAdmitted, SyncFromMemory
<1>4. CASE PlanReuse(r)
  <2>1. CASE dbRun[src[r]] = Absent
    BY <1>4, <2>1 DEF PlanReuse
  <2>2. CASE dbRun[src[r]] # Absent
    <3>1. PICK k \in 0..N : plan' = [plan EXCEPT ![r] = k]
      BY <1>4, <2>2 DEF PlanReuse, ReusePrefixes
    <3> QED BY <1>4, <2>2, <3>1 DEF PlanReuse, HydrateMemory
  <2> QED BY <2>1, <2>2
<1>5. CASE PostStartSync(r)
  BY <1>5 DEF PostStartSync, SyncFromMemory
<1>6. CASE Compensate(r)
  BY <1>6 DEF Compensate, SyncFromMemory
<1>7. CASE CancelSync(r)
  BY <1>7 DEF CancelSync, SyncFromMemory
<1> QED BY <1>1, <1>2, <1>3, <1>4, <1>5, <1>6, <1>7

(* A restart of the API keeps TypeInv.                                     *)
LEMMA TypeRestart == ASSUME TypeInv, RestartApi PROVE TypeInv'
BY RequeuedType DEF RestartApi, TypeInv, TypeOK, ActivityAwaited, StartedByCall,
   NotStarted, RequestState, dbVars, wfVars

(* The steps of workflows and activities, and the calls to Temporal.       *)
LEMMA TypeCallStart ==
    ASSUME TypeInv, NEW r \in Runs, CallStart(r)
    PROVE  TypeInv'
<1> USE DEF TypeInv, TypeOK, ActivityAwaited, StartedByCall, NotStarted,
            memVars, dbVars, reqVars, wfVars
<1>1. wf[r].pc = "none" /\ act[r].phase = "idle"
  BY DEF CallStart, ActivityKind
<1>2. /\ \E answer \in {"started", "failing"} : req' = [req EXCEPT ![r] = answer]
      /\ \/ wf' = [wf EXCEPT ![r].pc = "begin"] \/ wf' = wf
      /\ UNCHANGED <<memVars, dbVars, src, plan, cancelSync, act, zombies, losses>>
  BY DEF CallStart
<1>3. wf' \in [Runs -> Workflow]
  BY <1>2 DEF Workflow
<1>4. req' \in [Runs -> RequestState]
  BY <1>2 DEF RequestState
<1>5. TypeOK'
  BY <1>2, <1>3, <1>4
<1>6. ActivityAwaited'
  BY <1>1, <1>2, <1>3 DEF Workflow
<1>7. StartedByCall'
  BY <1>2, <1>3, <1>4 DEF Workflow
<1> QED BY <1>5, <1>6, <1>7

(* Cancel signals and terminations keep TypeInv.                           *)
LEMMA TypeStop ==
    ASSUME TypeInv, NEW r \in Runs, SignalCancel(r) \/ Terminate(r)
    PROVE  TypeInv'
<1> USE RequeuedType
        DEF TypeInv, TypeOK, ActivityAwaited, StartedByCall, NotStarted,
            memVars, dbVars, reqVars, wfVars
<1>1. CASE SignalCancel(r)
  <2>1. wf' = [wf EXCEPT ![r].cancel = TRUE] /\ cancelSync' \subseteq Runs
    BY <1>1 DEF SignalCancel
  <2>2. wf' \in [Runs -> Workflow]
    <3>1. wf[r] \in Workflow
      OBVIOUS
    <3>2. [wf[r] EXCEPT !.cancel = TRUE] \in Workflow
      BY <3>1 DEF Workflow
    <3> QED BY <2>1, <3>2
  <2>3. \A q \in Runs : wf'[q].pc = wf[q].pc
    BY <2>1 DEF Workflow
  <2> QED BY <1>1, <2>1, <2>2, <2>3 DEF SignalCancel
<1>2. CASE Terminate(r)
  <2>1. /\ wf' = [wf EXCEPT ![r].pc = "closed"]
        /\ act' = [act EXCEPT ![r] = IdleActivity]
        /\ wf[r].pc # "none"
        /\ UNCHANGED <<memRetry, dbVars, src, plan, req, losses>>
    BY <1>2 DEF Terminate, WorkflowOpen
  <2>2. wf' \in [Runs -> Workflow]
    BY <2>1 DEF Workflow
  <2>3. act' \in [Runs -> Activity]
    BY <2>1, IdleActivityType
  <2>4. zombies' \subseteq Execution
    BY <1>2, CurrentType DEF Terminate, Current
  <2>5. memJob' \in JobState /\ memRun' \in [Runs -> RunState]
    BY <1>2 DEF Terminate
  <2>6. cancelSync' \subseteq Runs
    BY <1>2 DEF Terminate
  <2>7. TypeOK'
    BY <2>1, <2>2, <2>3, <2>4, <2>5, <2>6
  <2>8. ActivityAwaited'
    BY <2>1, <2>2 DEF IdleActivity, Workflow
  <2>9. StartedByCall'
    BY <2>1, <2>2 DEF Workflow
  <2> QED BY <2>7, <2>8, <2>9
<1> QED BY <1>1, <1>2

(* The steps of workflows and of their activities keep TypeInv.            *)
LEMMA TypeWorker ==
    ASSUME TypeInv, NEW r \in Runs,
           \/ WorkflowStep(r) \/ StartActivity(r) \/ FinishActivity(r)
           \/ LoseActivity(r) \/ TimeOutActivity(r)
    PROVE  TypeInv'
<1> USE DEF TypeInv, TypeOK, ActivityAwaited, StartedByCall, NotStarted,
            memVars, dbVars, reqVars, wfVars
<1>1. CASE WorkflowStep(r)
  <2>1. PICK w \in NextWorkflow : Follow(r, w)
    <3>1. CASE wf[r].pc = "begin" /\ Follow(r, Begin(r, wf[r]))
      BY <3>1, BeginType
    <3>2. CASE act[r].phase = "reported" /\ Follow(r, OnError(wf[r]))
      <4>1. OnError(wf[r]) \in NextWorkflow
        BY <3>2, OnErrorType
      <4> QED BY <3>2, <4>1
    <3>3. CASE Follow(r, OnResult(r, wf[r], act[r].result))
      <4>1. OnResult(r, wf[r], act[r].result) \in NextWorkflow
        BY OnResultType
      <4> QED BY <3>3, <4>1
    <3> QED BY <1>1, <3>1, <3>2, <3>3 DEF WorkflowStep
  <2>2. wf[r].pc # "none"
    BY <1>1 DEF WorkflowStep, ActivityKind
  <2>3. act' \in [Runs -> Activity]
    BY <2>1, IdleActivityType DEF Follow, Activity
  <2>4. wf' \in [Runs -> Workflow] /\ wf' = [wf EXCEPT ![r] = w]
    BY <2>1 DEF Follow, NextWorkflow
  <2>5. TypeOK'
    BY <2>1, <2>3, <2>4 DEF Follow
  <2>6. ActivityAwaited'
    BY <2>1, <2>4 DEF Follow, NextWorkflow, IdleActivity
  <2>7. StartedByCall'
    BY <2>1, <2>2, <2>4 DEF Follow, NextWorkflow
  <2> QED BY <2>5, <2>6, <2>7
<1>2. CASE StartActivity(r)
  <2>1. act' \in [Runs -> Activity]
    BY ZenonT(60), <1>2, SnapshotType DEF StartActivity, Activity
  <2>2. \A q \in Runs : act'[q].phase # "idle" => act[q].phase # "idle"
    BY <1>2 DEF StartActivity, Activity
  <2> QED BY <1>2, <2>1, <2>2 DEF StartActivity
<1>3. CASE FinishActivity(r)
  <2>1. PICK result \in RunState \cup {"error"} :
          act' = [act EXCEPT ![r] = Report(result)]
    BY <1>3, CurrentType, OutcomesType DEF FinishActivity, OutcomeType
  <2>2. /\ dbJob' \in JobState /\ dbRun' \in [Runs -> RunState]
        /\ dbNode' \in [Runs -> Outputs] /\ dbRetry' \in [Runs -> BOOLEAN]
    <3>1. CASE Raises(r, wf[r].pc, act[r].snap)
      BY <1>3, <3>1 DEF FinishActivity
    <3>2. CASE ~Raises(r, wf[r].pc, act[r].snap)
      <4>1. PICK o \in Outcomes(Current(r)) : SyncFromWorker(r, o)
        BY <1>3, <3>2 DEF FinishActivity
      <4>2. o \in OutcomeType
        BY <1>3, CurrentType, OutcomesType DEF FinishActivity
      <4> QED BY <4>1, <4>2, SyncType
    <3> QED BY <3>1, <3>2
  <2>3. act' \in [Runs -> Activity]
    BY <2>1, ReportType
  <2>4. \A q \in Runs : act'[q].phase # "idle" => act[q].phase # "idle"
    BY <1>3, <2>1 DEF FinishActivity
  <2> QED BY <1>3, <2>2, <2>3, <2>4 DEF FinishActivity
<1>4. CASE LoseActivity(r) \/ TimeOutActivity(r)
  <2>1. /\ act' = [act EXCEPT ![r] = Report("error")]
        /\ act[r].phase # "idle"
        /\ losses' \in 0..MaxLosses
        /\ UNCHANGED <<memVars, dbVars, reqVars, wf>>
    BY <1>4, ConstantsAssumption DEF LoseActivity, TimeOutActivity
  <2>2. zombies' \subseteq Execution
    BY <1>4, CurrentType DEF LoseActivity, TimeOutActivity
  <2>3. act' \in [Runs -> Activity]
    BY <2>1, ReportType
  <2> QED BY <2>1, <2>2, <2>3
<1> QED BY <1>1, <1>2, <1>3, <1>4

(* The late write of an abandoned execution keeps TypeInv.                 *)
LEMMA TypeZombie ==
    ASSUME TypeInv, NEW e \in zombies, FinishZombie(e)
    PROVE  TypeInv'
<1> USE DEF TypeInv, TypeOK, ActivityAwaited, StartedByCall, NotStarted,
            memVars, dbVars, reqVars, wfVars
<1>1. e \in Execution
  OBVIOUS
<1>2. /\ dbJob' \in JobState /\ dbRun' \in [Runs -> RunState]
      /\ dbNode' \in [Runs -> Outputs] /\ dbRetry' \in [Runs -> BOOLEAN]
  <2>1. CASE Raises(e.run, e.kind, e.snap)
    BY <2>1 DEF FinishZombie
  <2>2. CASE ~Raises(e.run, e.kind, e.snap)
    <3>1. PICK o \in Outcomes(e) : SyncFromWorker(e.run, o)
      BY <2>2 DEF FinishZombie
    <3>2. o \in OutcomeType /\ e.run \in Runs
      BY <1>1, OutcomesType DEF Execution
    <3> QED BY <3>1, <3>2, SyncType
  <2> QED BY <2>1, <2>2
<1> QED BY <1>2 DEF FinishZombie

(* Every step keeps TypeInv.                                               *)
LEMMA TypeStep == TypeInv /\ [Next]_vars => TypeInv'
<1> SUFFICES ASSUME TypeInv, [Next]_vars PROVE TypeInv'
  OBVIOUS
<1>1. CASE UNCHANGED vars
  BY <1>1 DEF vars, memVars, dbVars, reqVars, wfVars, TypeInv, TypeOK,
              ActivityAwaited, StartedByCall, NotStarted
<1>2. ASSUME NEW r \in Runs, RequestStep(r) \/ UserStep(r)
      PROVE  TypeInv'
  <2> NoRun \in RunOrNone
    BY DEF RunOrNone
  <2> QED BY <1>2, TypeApi, TypeCallStart, TypeStop DEF RequestStep, UserStep
<1>3. ASSUME NEW r \in Runs, WorkerStep(r) \/ FaultStep(r)
      PROVE  TypeInv'
  BY <1>3, TypeWorker DEF WorkerStep, FaultStep
<1>4. ASSUME NEW e \in zombies, FinishZombie(e)
      PROVE  TypeInv'
  BY <1>4, TypeZombie
<1>5. CASE RestartApi
  BY <1>5, TypeRestart
<1> QED BY <1>1, <1>2, <1>3, <1>4, <1>5 DEF Next

(* Type correctness of every behaviour, with what it rests on: an activity *)
(* is awaited by its workflow, and no workflow exists before its call.     *)
THEOREM TypeCorrect == Spec => []TypeInv
<1>1. Init => TypeInv
  BY TypeInit
<1>2. TypeInv /\ [Next]_vars => TypeInv'
  BY TypeStep
<1> QED BY <1>1, <1>2, PTL DEF Spec

(* Every variable keeps its type in every behaviour.                       *)
THEOREM Typed == Spec => []TypeOK
<1>1. TypeInv => TypeOK
  BY DEF TypeInv
<1> QED BY <1>1, TypeCorrect, PTL

-----------------------------------------------------------------------------
(* The inductive invariant behind the safety invariants                    *)

Live == {"admitted", "running", "succeeded", "failed", "cancelled"}

ProvidesUpTo(out, k) == \A i \in 1..k : HasOutput(out, i)

IsPrefix(out) ==
    \A i \in Node : \A j \in 1..i : HasOutput(out, i) => HasOutput(out, j)

OwnedBy(r, out) == \A i \in Node : out[i] \in {NoRun, r, src[r]}

(* Rows: a prefix, owned by the run or by its source, and complete once    *)
(* the run succeeded in the database or in the memory of the API.          *)
RowsSound(r) ==
    /\ IsPrefix(dbNode[r])
    /\ OwnedBy(r, dbNode[r])
    /\ "succeeded" \in {dbRun[r], memRun[r]} => ProvidesUpTo(dbNode[r], N)
    /\ req[r] = "none" => dbNode[r] = NoOutputs

(* A request knows its run, and a workflow has a row to load.              *)
StatusSound(r) ==
    /\ {dbRun[r], memRun[r]} \subseteq Live \cup {Absent}
    /\ req[r] \notin {"none", "done"} \/ r \in cancelSync => memRun[r] # Absent
    /\ req[r] \in {"persisted", "planned"} \/ wf[r].pc # "none"
         => dbRun[r] # Absent

(* The workflow is at a node whose upstream outputs are in the database.   *)
FlowSound(r) ==
    /\ wf[r].try >= 1
    /\ wf[r].pc = "node" =>
          /\ wf[r].next \in Node
          /\ wf[r].try <= MaxAttempts[wf[r].next]
          /\ ProvidesUpTo(dbNode[r], wf[r].next - 1)
    /\ act[r].phase = "reported" /\ act[r].result # "error" =>
          /\ wf[r].pc = "reuse" => ProvidesUpTo(dbNode[r], plan[r])
          /\ wf[r].pc = "node" /\ act[r].result \notin RunTerminal =>
                ProvidesUpTo(dbNode[r], wf[r].next)

(* What an execution holds in memory, however old: a sound copy of rows,   *)
(* with the outputs its node reads.                                        *)
ExecutionSound(e) ==
    /\ e.snap.run \in Live
    /\ IsPrefix(e.snap.node)
    /\ OwnedBy(e.run, e.snap.node) /\ OwnedBy(e.run, e.snap.base)
    /\ e.snap.run = "succeeded" => ProvidesUpTo(e.snap.node, N)
    /\ e.kind = "node" => e.node \in Node /\ ProvidesUpTo(e.snap.node, e.node - 1)

(* A zombie belongs to a workflow that has moved on: past the node, or to  *)
(* a further attempt of it.                                                *)
ZombieSound(e) ==
    /\ wf[e.run].pc # "none"
    /\ e.kind = "node" =>
          /\ wf[e.run].pc \notin {"begin", "reuse"}
          /\ wf[e.run].pc = "node" => e.node <= wf[e.run].next
          /\ wf[e.run].pc = "node" /\ e.node = wf[e.run].next =>
                \/ wf[e.run].try >= 2
                \/ act[e.run].phase = "reported" /\ act[e.run].result = "error"

IInv ==
    /\ TypeInv
    /\ \A r \in Runs : RowsSound(r) /\ StatusSound(r) /\ FlowSound(r)
    /\ \A r \in Runs : act[r].phase = "working" => ExecutionSound(Current(r))
    /\ \A e \in zombies : ExecutionSound(e) /\ ZombieSound(e)

(* The initial states satisfy the inductive invariant.                     *)
LEMMA InvInit == ASSUME Init PROVE IInv
<1> USE ConstantsAssumption
<1>1. TypeInv
  BY TypeInit
<1>2. ASSUME NEW r \in Runs PROVE RowsSound(r)
  BY DEF Init, RowsSound, IsPrefix, OwnedBy, NoOutputs, HasOutput, Absent
<1>3. ASSUME NEW r \in Runs PROVE StatusSound(r)
  BY DEF Init, StatusSound
<1>4. ASSUME NEW r \in Runs PROVE FlowSound(r)
  BY DEF Init, FlowSound, IdleActivity
<1>5. zombies = {} /\ \A r \in Runs : act[r].phase = "idle"
  BY DEF Init, IdleActivity
<1> QED BY <1>1, <1>2, <1>3, <1>4, <1>5 DEF IInv

(* What steps that leave the workflows, the activities and the node rows   *)
(* preserve.                                                               *)
RunsSound == \A r \in Runs : RowsSound(r) /\ StatusSound(r) /\ FlowSound(r)

ExecutionsSound ==
    /\ \A r \in Runs : act[r].phase = "working" => ExecutionSound(Current(r))
    /\ \A e \in zombies : ExecutionSound(e) /\ ZombieSound(e)

(* A step that leaves workflows, activities and outputs alone, and the      *)
(* source and plan of every run with a workflow, keeps executions sound.   *)
LEMMA ApiFrame ==
    ASSUME IInv, UNCHANGED <<dbNode, wf, act, zombies>>,
           \A r \in Runs : wf[r].pc # "none" => src'[r] = src[r] /\ plan'[r] = plan[r]
    PROVE  (\A r \in Runs : FlowSound(r))' /\ ExecutionsSound'
<1>1. ASSUME NEW r \in Runs PROVE FlowSound(r)'
  <2>1. FlowSound(r) /\ (act[r].phase = "reported" => wf[r].pc # "none")
    BY DEF IInv, TypeInv, ActivityAwaited, ActivityKind
  <2> QED BY <2>1 DEF FlowSound, ProvidesUpTo
<1>2. ASSUME NEW r \in Runs, act'[r].phase = "working"
      PROVE  ExecutionSound(Current(r))'
  <2>1. ExecutionSound(Current(r)) /\ wf[r].pc # "none"
    BY <1>2 DEF IInv, TypeInv, ActivityAwaited, ActivityKind
  <2>2. Current(r)' = Current(r) /\ Current(r).run = r
    BY DEF Current, Abandoned
  <2>3. src'[r] = src[r]
    BY <2>1
  <2> QED BY <2>1, <2>2, <2>3 DEF ExecutionSound, OwnedBy
<1>3. ASSUME NEW e \in zombies' PROVE (ExecutionSound(e) /\ ZombieSound(e))'
  <2>1. ExecutionSound(e) /\ ZombieSound(e) /\ e.run \in Runs
    BY DEF IInv, TypeInv, TypeOK, Execution
  <2>2. src'[e.run] = src[e.run]
    BY <2>1 DEF ZombieSound
  <2> QED BY <2>1, <2>2 DEF ExecutionSound, OwnedBy, ZombieSound
<1> QED BY <1>1, <1>2, <1>3 DEF ExecutionsSound

(* Loading the database into memory takes statuses from rows.              *)
LEMMA HydrateFrame ==
    ASSUME IInv, NEW r \in Runs, HydrateMemory(r), dbRun[r] # Absent
    PROVE  \A q \in Runs : /\ memRun'[q] \in {memRun[q], dbRun[q]}
                           /\ memRun[q] # Absent => memRun'[q] # Absent
BY DEF HydrateMemory, IInv, TypeInv, TypeOK

(* Rows and memory after a step of the API, one run at a time.             *)
LEMMA ApiRows ==
    ASSUME IInv, NEW r \in Runs, RowsSound(r), StatusSound(r),
           UNCHANGED dbNode, src'[r] = src[r],
           memRun'[r] \in {memRun[r], dbRun[r], "admitted", "failed", "cancelled", Absent},
           dbRun'[r] \in {memRun[r], dbRun[r], "failed"},
           req'[r] = "none" => req[r] = "none"
    PROVE  RowsSound(r)' /\ {dbRun'[r], memRun'[r]} \subseteq Live \cup {Absent}
BY DEF RowsSound, StatusSound, OwnedBy, IsPrefix, ProvidesUpTo, Live, Absent

(* The steps of a request, but for its call to Temporal.                   *)
LEMMA InvApi ==
    ASSUME IInv, NEW r \in Runs,
           \/ RuntimeRun(r) \/ PersistAdmitted(r) \/ PlanReuse(r)
           \/ PostStartSync(r) \/ Compensate(r) \/ CancelSync(r)
    PROVE  RunsSound' /\ ExecutionsSound'
<1> USE DEF memVars, dbVars, reqVars, wfVars
<1>1. UNCHANGED <<dbNode, wf, act, zombies, src>>
  BY DEF RuntimeRun, PersistAdmitted, PlanReuse, PostStartSync, Compensate,
         CancelSync, SyncFromMemory
<1>2. \A q \in Runs : wf[q].pc # "none" => plan'[q] = plan[q]
  <2>1. CASE PlanReuse(r)
    <3>1. wf[r].pc = "none"
      BY <2>1 DEF PlanReuse, IInv, TypeInv, StartedByCall, NotStarted
    <3>2. \A q \in Runs : q # r => plan'[q] = plan[q]
      BY <2>1 DEF PlanReuse, IInv, TypeInv, TypeOK
    <3> QED BY <3>1, <3>2
  <2> QED BY <2>1 DEF RuntimeRun, PersistAdmitted, PostStartSync, Compensate, CancelSync
<1>3. \A q \in Runs : RowsSound(q) /\ StatusSound(q)
  BY DEF IInv
<1>4. ASSUME NEW q \in Runs PROVE RowsSound(q)' /\ StatusSound(q)'
  <2> USE <1>3 DEF IInv, TypeInv, TypeOK
  <2>1. CASE RuntimeRun(r)
    <3>1. /\ memRun'[q] \in {memRun[q], dbRun[q]}
          /\ memRun[q] # Absent => memRun'[q] # Absent
          /\ UNCHANGED <<dbRun, req, cancelSync>>
      BY <2>1, HydrateFrame DEF RuntimeRun
    <3> QED BY <1>1, <3>1, ApiRows DEF StatusSound
  <2>2. CASE PersistAdmitted(r)
    <3>1. /\ UNCHANGED <<memRun, cancelSync>> /\ req[r] = "admitted"
          /\ req' = [req EXCEPT ![r] = "persisted"]
          /\ dbRun' = [dbRun EXCEPT ![r] = memRun[r]]
      BY <2>2 DEF PersistAdmitted, SyncFromMemory
    <3> QED BY <1>1, <3>1, ApiRows DEF StatusSound
  <2>3. CASE PlanReuse(r)
    <3>1. CASE dbRun[src[r]] = Absent
      <4>1. /\ UNCHANGED <<memRun, dbRun, cancelSync>> /\ req[r] = "persisted"
            /\ req' = [req EXCEPT ![r] = "failing"]
        BY <2>3, <3>1 DEF PlanReuse
      <4> QED BY <1>1, <4>1, ApiRows DEF StatusSound
    <3>2. CASE dbRun[src[r]] # Absent
      <4>1. /\ UNCHANGED <<dbRun, cancelSync>> /\ req[r] = "persisted"
            /\ req' = [req EXCEPT ![r] = "planned"]
            /\ src[r] \in Runs /\ HydrateMemory(src[r])
        BY <2>3, <3>2 DEF PlanReuse, RunOrNone
      <4>2. /\ memRun'[q] \in {memRun[q], dbRun[q]}
            /\ memRun[q] # Absent => memRun'[q] # Absent
        BY <3>2, <4>1, HydrateFrame
      <4> QED BY <1>1, <4>1, <4>2, ApiRows DEF StatusSound
    <3> QED BY <3>1, <3>2
  <2>4. CASE PostStartSync(r)
    <3>1. /\ UNCHANGED <<memRun, cancelSync>> /\ req[r] = "started"
          /\ req' = [req EXCEPT ![r] = "done"]
          /\ dbRun' = [dbRun EXCEPT ![r] = memRun[r]]
      BY <2>4 DEF PostStartSync, SyncFromMemory
    <3> QED BY <1>1, <3>1, ApiRows DEF StatusSound
  <2>5. CASE Compensate(r)
    <3>1. /\ UNCHANGED cancelSync /\ req[r] = "failing"
          /\ req' = [req EXCEPT ![r] = "done"]
          /\ \/ /\ dbRun' = [dbRun EXCEPT ![r] = "failed"]
                /\ memRun' = [memRun EXCEPT ![r] = "failed"]
             \/ UNCHANGED <<dbRun, memRun>>
      BY <2>5 DEF Compensate, SyncFromMemory
    <3> QED BY <1>1, <3>1, ApiRows DEF StatusSound, Absent
  <2>6. CASE CancelSync(r)
    <3>1. /\ UNCHANGED <<memRun, req>> /\ r \in cancelSync
          /\ cancelSync' = cancelSync \ {r}
          /\ dbRun' = [dbRun EXCEPT ![r] = memRun[r]]
      BY <2>6 DEF CancelSync, SyncFromMemory
    <3> QED BY <1>1, <3>1, ApiRows DEF StatusSound
  <2> QED BY <2>1, <2>2, <2>3, <2>4, <2>5, <2>6
<1> QED BY <1>1, <1>2, <1>4, ApiFrame DEF RunsSound

(* A new run has no row, no output and no workflow.                        *)
LEMMA InvAdmit ==
    ASSUME IInv, NEW r \in Runs, NEW mode, NEW s \in RunOrNone, AdmitRun(r, mode, s)
    PROVE  RunsSound' /\ ExecutionsSound'
<1> USE DEF IInv, TypeInv, TypeOK, dbVars, wfVars
<1>1. /\ req[r] = "none" /\ wf[r].pc = "none"
      /\ UNCHANGED <<dbNode, dbRun, wf, act, zombies, plan, cancelSync>>
      /\ memRun' = [memRun EXCEPT ![r] = "admitted"]
      /\ req' = [req EXCEPT ![r] = "admitted"]
      /\ \A q \in Runs : q # r => src'[q] = src[q]
  BY DEF AdmitRun, StartedByCall, NotStarted
<1>2. \A q \in Runs : RowsSound(q) /\ StatusSound(q)
  OBVIOUS
<1>3. ASSUME NEW q \in Runs PROVE RowsSound(q)'
  <2>1. CASE q = r
    BY <1>1, <1>2, <2>1, ConstantsAssumption
       DEF RowsSound, NoOutputs, OwnedBy, IsPrefix, HasOutput, StatusSound, ProvidesUpTo
  <2>2. CASE q # r
    BY <1>1, <1>2, <2>2 DEF RowsSound, OwnedBy
  <2> QED BY <2>1, <2>2
<1>4. ASSUME NEW q \in Runs PROVE StatusSound(q)'
  BY <1>1, <1>2 DEF StatusSound, Live, Absent
<1> QED BY <1>1, <1>3, <1>4, ApiFrame DEF RunsSound

(* What the API loads after a restart is sound because the rows are.       *)
LEMMA InvRestart ==
    ASSUME IInv, RestartApi
    PROVE  RunsSound' /\ ExecutionsSound'
<1> USE DEF IInv, TypeInv, TypeOK, dbVars, wfVars
<1>1. /\ UNCHANGED <<dbNode, dbRun, wf, act, zombies, plan, src>>
      /\ cancelSync' = {}
      /\ \A q \in Runs : /\ memRun'[q] = Absent
                         /\ req'[q] \in {"none", "done"}
                         /\ req'[q] = "none" => req[q] = "none"
  BY DEF RestartApi
<1>2. ASSUME NEW q \in Runs PROVE RowsSound(q)' /\ StatusSound(q)'
  <2>1. RowsSound(q) /\ StatusSound(q)
    OBVIOUS
  <2> QED BY <1>1, <2>1, ApiRows DEF StatusSound
<1> QED BY <1>1, <1>2, ApiFrame DEF RunsSound

(* A start call creates the workflow, or not, whatever its answer.         *)
LEMMA InvCallStart ==
    ASSUME IInv, NEW r \in Runs, CallStart(r)
    PROVE  RunsSound' /\ ExecutionsSound'
<1> USE DEF IInv, TypeInv, TypeOK, memVars, dbVars
<1>1. /\ req[r] \in {"persisted", "planned"} /\ wf[r].pc = "none"
      /\ act[r].phase = "idle"
      /\ UNCHANGED <<memRun, dbNode, dbRun, act, zombies, plan, src, cancelSync>>
      /\ \/ wf' = wf \/ wf' = [wf EXCEPT ![r].pc = "begin"]
      /\ \E answer \in {"started", "failing"} : req' = [req EXCEPT ![r] = answer]
  BY DEF CallStart, StartedByCall, NotStarted, ActivityAwaited, ActivityKind
<1>2. /\ wf'[r].pc \in {"none", "begin"} /\ wf'[r].try = wf[r].try
      /\ \A q \in Runs : q # r => wf'[q] = wf[q]
  BY <1>1 DEF Workflow
<1>3. ASSUME NEW q \in Runs PROVE RowsSound(q)' /\ StatusSound(q)'
  <2>1. RowsSound(q) /\ StatusSound(q)
    OBVIOUS
  <2> QED BY <1>1, <1>2, <2>1 DEF StatusSound, RowsSound, OwnedBy
<1>4. ASSUME NEW q \in Runs PROVE FlowSound(q)'
  <2>1. FlowSound(q)
    OBVIOUS
  <2> QED BY <1>1, <1>2, <2>1 DEF FlowSound
<1>5. ASSUME NEW q \in Runs, act'[q].phase = "working"
      PROVE  ExecutionSound(Current(q))'
  <2>1. q # r /\ act[q].phase = "working"
    BY <1>1, <1>5
  <2>2. Current(q)' = Current(q)
    BY <1>1, <1>2, <2>1 DEF Current, Abandoned
  <2> QED BY <1>1, <2>1, <2>2 DEF ExecutionSound, OwnedBy
<1>6. ASSUME NEW e \in zombies' PROVE (ExecutionSound(e) /\ ZombieSound(e))'
  <2>1. ExecutionSound(e) /\ ZombieSound(e) /\ e.run \in Runs
    BY <1>1 DEF Execution
  <2>2. e.run # r
    BY <1>1, <2>1 DEF ZombieSound
  <2> QED BY <1>1, <1>2, <2>1, <2>2 DEF ExecutionSound, OwnedBy, ZombieSound
<1> QED BY <1>3, <1>4, <1>5, <1>6 DEF RunsSound, ExecutionsSound

(* A cancel signal changes one flag of one workflow.                       *)
LEMMA InvSignalCancel ==
    ASSUME IInv, NEW r \in Runs, SignalCancel(r)
    PROVE  RunsSound' /\ ExecutionsSound'
<1> USE DEF IInv, TypeInv, TypeOK, memVars, dbVars
<1>1. /\ UNCHANGED <<memRun, dbNode, dbRun, act, zombies, plan, src, req>>
      /\ memRun[r] # Absent
      /\ cancelSync' \in {cancelSync, cancelSync \cup {r}}
      /\ wf' = [wf EXCEPT ![r].cancel = TRUE]
  BY DEF SignalCancel
<1>2. \A q \in Runs : /\ wf'[q].pc = wf[q].pc /\ wf'[q].next = wf[q].next
                     /\ wf'[q].try = wf[q].try
  BY <1>1 DEF Workflow
<1>3. ASSUME NEW q \in Runs PROVE RowsSound(q)' /\ StatusSound(q)' /\ FlowSound(q)'
  <2>1. RowsSound(q) /\ StatusSound(q) /\ FlowSound(q)
    OBVIOUS
  <2> QED BY <1>1, <1>2, <2>1 DEF StatusSound, RowsSound, OwnedBy, FlowSound
<1>4. ASSUME NEW q \in Runs, act'[q].phase = "working"
      PROVE  ExecutionSound(Current(q))'
  <2>1. Current(q)' = Current(q)
    BY <1>1, <1>2 DEF Current, Abandoned
  <2> QED BY <1>1, <1>4, <2>1 DEF ExecutionSound, OwnedBy
<1>5. ASSUME NEW e \in zombies' PROVE (ExecutionSound(e) /\ ZombieSound(e))'
  <2>1. ExecutionSound(e) /\ ZombieSound(e) /\ e.run \in Runs
    BY <1>1 DEF Execution
  <2> QED BY <1>1, <1>2, <2>1 DEF ExecutionSound, OwnedBy, ZombieSound
<1> QED BY <1>3, <1>4, <1>5 DEF RunsSound, ExecutionsSound

(* A termination turns the awaited activity into a zombie.                 *)
LEMMA InvTerminate ==
    ASSUME IInv, NEW r \in Runs, Terminate(r)
    PROVE  RunsSound' /\ ExecutionsSound'
<1> USE DEF IInv, TypeInv, TypeOK, memVars, dbVars
<1>1. /\ UNCHANGED <<dbNode, dbRun, plan, src, req>>
      /\ memRun[r] # Absent
      /\ wf[r].pc # "none"
      /\ cancelSync' \in {cancelSync, cancelSync \cup {r}}
      /\ wf' = [wf EXCEPT ![r].pc = "closed"]
      /\ act' = [act EXCEPT ![r] = IdleActivity]
      /\ zombies' = IF act[r].phase = "working"
                    THEN zombies \cup {Abandoned(r)} ELSE zombies
      /\ \A q \in Runs : /\ memRun'[q] \in {memRun[q], "cancelled"}
                         /\ memRun[q] # Absent => memRun'[q] # Absent
  BY DEF Terminate, WorkflowOpen, Absent
<1>2. /\ wf'[r].pc = "closed" /\ wf'[r].try = wf[r].try
      /\ act'[r].phase = "idle"
      /\ \A q \in Runs : q # r => wf'[q] = wf[q] /\ act'[q] = act[q]
  BY <1>1 DEF Workflow, IdleActivity
<1>3. ASSUME NEW q \in Runs PROVE RowsSound(q)' /\ StatusSound(q)' /\ FlowSound(q)'
  <2>1. RowsSound(q) /\ StatusSound(q) /\ FlowSound(q)
    OBVIOUS
  <2>2. RowsSound(q)' /\ {dbRun'[q], memRun'[q]} \subseteq Live \cup {Absent}
    BY <1>1, <2>1, ApiRows
  <2>3. StatusSound(q)'
    BY <1>1, <1>2, <2>1, <2>2 DEF StatusSound
  <2>4. FlowSound(q)'
    BY <1>1, <1>2, <2>1 DEF FlowSound
  <2> QED BY <2>2, <2>3, <2>4
<1>4. ASSUME NEW q \in Runs, act'[q].phase = "working"
      PROVE  ExecutionSound(Current(q))'
  <2>1. q # r /\ act[q].phase = "working"
    BY <1>2, <1>4
  <2>2. Current(q)' = Current(q)
    BY <1>2, <2>1 DEF Current, Abandoned
  <2> QED BY <1>1, <2>1, <2>2 DEF ExecutionSound, OwnedBy
<1>5. ASSUME NEW e \in zombies' PROVE (ExecutionSound(e) /\ ZombieSound(e))'
  <2>1. CASE e \in zombies
    <3>1. ExecutionSound(e) /\ ZombieSound(e) /\ e.run \in Runs
      BY <2>1 DEF Execution
    <3> QED BY <1>1, <1>2, <3>1 DEF ExecutionSound, OwnedBy, ZombieSound
  <2>2. CASE e \notin zombies
    <3>1. e = Current(r) /\ act[r].phase = "working" /\ e.run = r
      BY <1>1, <2>2 DEF Current, Abandoned
    <3>2. ExecutionSound(e)
      BY <3>1
    <3> QED BY <1>1, <1>2, <3>1, <3>2 DEF ExecutionSound, OwnedBy, ZombieSound
  <2> QED BY <2>1, <2>2
<1> QED BY <1>3, <1>4, <1>5 DEF RunsSound, ExecutionsSound

(* What an execution is about to write, computed from its snapshot.        *)
OutcomeSound(e, o) ==
    /\ o.run \in Live
    /\ IsPrefix(o.node) /\ OwnedBy(e.run, o.node)
    /\ o.run = "succeeded" => ProvidesUpTo(o.node, N)
    /\ e.kind = "reuse" => ProvidesUpTo(o.node, plan[e.run])
    /\ e.kind = "node" /\ o.run \notin RunTerminal => ProvidesUpTo(o.node, e.node)

(* An activity that loaded a sound snapshot produces a sound outcome.      *)
LEMMA OutcomesSound ==
    ASSUME IInv, NEW e \in Execution, ExecutionSound(e),
           ~Raises(e.run, e.kind, e.snap), NEW o \in Outcomes(e)
    PROVE  OutcomeSound(e, o)
<1> USE ConstantsAssumption DEF ExecutionSound
<1>1. /\ e.run \in Runs /\ e.snap.node \in Outputs /\ e.snap.base \in Outputs
      /\ e.kind \in ActivityKind /\ plan[e.run] \in 0..N
  BY DEF IInv, TypeInv, TypeOK, Execution, Snapshot
<1>2. CASE e.kind = "node"
  <2> DEFINE out == [e.snap.node EXCEPT ![e.node] = e.run]
  <2>1. \/ /\ e.snap.run \notin {"admitted", "running"}
           /\ o = Outcome("running", e.snap.run, e.snap.node, FALSE)
        \/ e.node = N /\ o = Outcome("succeeded", "succeeded", out, FALSE)
        \/ o = Outcome("running", "running", out, FALSE)
        \/ \E b \in BOOLEAN : o = Outcome("failed", "failed", e.snap.node, b)
    <3>1. o \in NodeOutcomes(e.run, e.node, e.snap)
      BY <1>2, OutcomesByKind
    <3>2. CASE e.snap.run \notin {"admitted", "running"}
      BY <3>1, <3>2 DEF NodeOutcomes
    <3>3. CASE e.snap.run \in {"admitted", "running"}
      <4>1. \/ o = IF e.node = N THEN Outcome("succeeded", "succeeded", out, FALSE)
                                ELSE Outcome("running", "running", out, FALSE)
            \/ \E b \in BOOLEAN : o = Outcome("failed", "failed", e.snap.node, b)
        BY <3>1, <3>3 DEF NodeOutcomes
      <4> QED BY <4>1
    <3> QED BY <3>2, <3>3
  <2>2. /\ e.node \in Node
        /\ \A i \in Node : out[i] = IF i = e.node THEN e.run ELSE e.snap.node[i]
    BY <1>1, <1>2 DEF Outputs
  <2>3. ProvidesUpTo(out, e.node)
    BY <1>1, <1>2, <2>2 DEF ProvidesUpTo, HasOutput, Node
  <2>4. IsPrefix(out)
    BY <1>1, <1>2, <2>2, <2>3 DEF IsPrefix, ProvidesUpTo, HasOutput, Node
  <2>5. OwnedBy(e.run, out)
    BY <2>2 DEF OwnedBy
  <2> HIDE DEF out
  <2> QED BY <1>2, <2>1, <2>3, <2>4, <2>5
          DEF OutcomeSound, Outcome, Live, RunTerminal
<1>3. CASE e.kind = "reuse"
  <2> DEFINE out == [i \in Node |-> IF i <= plan[e.run] THEN e.snap.base[i]
                                                       ELSE e.snap.node[i]]
  <2>1. o = Outcome(e.snap.job, e.snap.run, out, FALSE)
    BY <1>3, OutcomesByKind DEF ReuseOutcome
  <2>2. \A i \in Node : out[i] = IF i <= plan[e.run] THEN e.snap.base[i]
                                                    ELSE e.snap.node[i]
    OBVIOUS
  <2>3. \A i \in 1..plan[e.run] : i \in Node /\ HasOutput(e.snap.base, i)
    BY <1>1, <1>3 DEF Raises, Node
  <2> HIDE DEF out
  <2>4. ProvidesUpTo(out, plan[e.run])
    BY <1>1, <2>2, <2>3 DEF ProvidesUpTo, HasOutput
  <2>5. IsPrefix(out)
    BY <1>1, <2>2, <2>4 DEF IsPrefix, ProvidesUpTo, HasOutput, Node
  <2>6. OwnedBy(e.run, out)
    BY <2>2 DEF OwnedBy
  <2>7. e.snap.run = "succeeded" => ProvidesUpTo(out, N)
    BY <1>1, <2>2, <2>3 DEF ProvidesUpTo, HasOutput, Node
  <2> QED BY <1>3, <2>1, <2>4, <2>5, <2>6, <2>7 DEF OutcomeSound, Outcome
<1>4. CASE e.kind = "cancel"
  <2>1. o = Outcome("cancelled", "cancelled", e.snap.node, FALSE)
    BY <1>4, OutcomesByKind DEF CancelOutcome
  <2> QED BY <1>4, <2>1 DEF OutcomeSound, Outcome, Live
<1>5. CASE e.kind = "reconcile"
  <2>1. o.node = e.snap.node /\ o.run \in {e.snap.run, "failed"}
    BY <1>5, OutcomesByKind DEF ReconcileOutcome, Outcome
  <2> QED BY <1>5, <2>1 DEF OutcomeSound, Live
<1> QED BY <1>1, <1>2, <1>3, <1>4, <1>5 DEF ActivityKind

(* Writing a sound outcome adds outputs and takes none away.               *)
LEMMA MergeSound ==
    ASSUME IInv, NEW e \in Execution, wf[e.run].pc # "none",
           NEW o \in OutcomeType, OutcomeSound(e, o), SyncFromWorker(e.run, o),
           UNCHANGED <<memVars, reqVars>>
    PROVE  /\ \A q \in Runs : RowsSound(q)'
           /\ \A q \in Runs : dbRun'[q] \in Live \/ dbRun'[q] = dbRun[q]
           /\ \A q \in Runs, i \in Node :
                HasOutput(dbNode[q], i) => HasOutput(dbNode'[q], i)
           /\ \A i \in Node : HasOutput(o.node, i) => HasOutput(dbNode'[e.run], i)
<1> DEFINE r == e.run
<1> USE DEF memVars, reqVars, IInv, TypeInv, TypeOK
<1>1. r \in Runs /\ o.node \in Outputs
  BY DEF Execution, OutcomeType
<1>2. /\ \A i \in Node : dbNode'[r][i] = IF HasOutput(o.node, i) THEN o.node[i]
                                                               ELSE dbNode[r][i]
      /\ \A q \in Runs : q # r => dbNode'[q] = dbNode[q] /\ dbRun'[q] = dbRun[q]
      /\ dbRun'[r] = o.run
  BY <1>1 DEF SyncFromWorker
<1>3. \A q \in Runs, i \in Node : HasOutput(dbNode[q], i) => HasOutput(dbNode'[q], i)
  BY <1>1, <1>2 DEF HasOutput
<1>4. \A i \in Node : HasOutput(dbNode'[r], i) <=>
                       HasOutput(o.node, i) \/ HasOutput(dbNode[r], i)
  BY <1>2 DEF HasOutput
<1>5. RowsSound(r)'
  <2>1. RowsSound(r) /\ req[r] # "none"
    BY <1>1 DEF StartedByCall, NotStarted
  <2>2. IsPrefix(dbNode[r])'
    <3>1. IsPrefix(dbNode[r]) /\ IsPrefix(o.node)
      BY <2>1 DEF RowsSound, OutcomeSound
    <3>2. \A i \in Node : \A j \in 1..i : j \in Node
      BY ConstantsAssumption DEF Node
    <3>3. SUFFICES ASSUME NEW i \in Node, NEW j \in 1..i, HasOutput(dbNode'[r], i)
                   PROVE  HasOutput(dbNode'[r], j)
      BY DEF IsPrefix, HasOutput
    <3> QED BY <1>4, <3>1, <3>2, <3>3 DEF IsPrefix
  <2>3. OwnedBy(r, dbNode[r])'
    BY <1>2, <2>1 DEF OwnedBy, RowsSound, OutcomeSound
  <2>4. ("succeeded" \in {dbRun[r], memRun[r]} => ProvidesUpTo(dbNode[r], N))'
    BY <1>2, <1>4, <2>1 DEF RowsSound, OutcomeSound, ProvidesUpTo, Node
  <2> QED BY <2>1, <2>2, <2>3, <2>4 DEF RowsSound
<1>6. ASSUME NEW q \in Runs, q # r PROVE RowsSound(q)'
  <2>1. RowsSound(q)
    OBVIOUS
  <2> QED BY <1>2, <1>6, <2>1 DEF RowsSound, OwnedBy
<1> QED BY <1>2, <1>3, <1>4, <1>5, <1>6 DEF OutcomeSound

(* The workflow waits for a node once its upstream outputs are there, and   *)
(* its earlier executions are those of earlier attempts.                   *)
AwaitSound(r, w) ==
    /\ w.try >= 1
    /\ w.pc = "node" =>
          /\ w.next \in Node /\ w.try <= MaxAttempts[w.next]
          /\ ProvidesUpTo(dbNode[r], w.next - 1)
    /\ \A e \in zombies : e.run = r /\ e.kind = "node" =>
          /\ w.pc \notin {"begin", "reuse"}
          /\ w.pc = "node" =>
                e.node < w.next \/ (e.node = w.next /\ w.try >= 2)

(* The node loop moves on to a node only with all outputs before it.       *)
LEMMA AwaitNodeSound ==
    ASSUME IInv, NEW r \in Runs, NEW i \in 1..(N + 2),
           i <= N => ProvidesUpTo(dbNode[r], i - 1),
           \A e \in zombies : e.run = r /\ e.kind = "node" => e.node < i
    PROVE  AwaitSound(r, AwaitNode(wf[r], i))
<1> USE ConstantsAssumption
<1>1. wf[r] \in Workflow /\ (\A e \in zombies : e.node \in Int)
  BY DEF IInv, TypeInv, TypeOK, Execution
<1>2. CASE i > N
  BY <1>1, <1>2 DEF AwaitNode, Await, AwaitSound, Workflow
<1>3. CASE i <= N
  <2>1. i \in Node /\ MaxAttempts[i] \in Nat \ {0}
    BY <1>3 DEF Node
  <2> QED BY <1>1, <1>3, <2>1 DEF AwaitNode, Await, AwaitSound, Workflow
<1> QED BY <1>2, <1>3

(* A workflow that begins has no execution of a node behind it.            *)
LEMMA BeginSound ==
    ASSUME IInv, NEW r \in Runs, wf[r].pc = "begin"
    PROVE  AwaitSound(r, Begin(r, wf[r]))
<1> USE ConstantsAssumption
<1>1. wf[r] \in Workflow /\ \A e \in zombies : ~(e.run = r /\ e.kind = "node")
  BY DEF IInv, TypeInv, TypeOK, ZombieSound
<1>2. ProvidesUpTo(dbNode[r], 1 - 1)
  BY DEF ProvidesUpTo
<1>3. AwaitSound(r, AwaitNode(wf[r], 1))
  BY <1>1, <1>2, AwaitNodeSound
<1>4. ASSUME NEW pc \in {"cancel", "reuse"} PROVE AwaitSound(r, Await(wf[r], pc, 1, 1))
  BY <1>1, <1>4 DEF Await, AwaitSound, Workflow
<1> QED BY <1>3, <1>4 DEF Begin

(* A result that lets the loop go on was written before it was reported.   *)
LEMMA OnResultSound ==
    ASSUME IInv, NEW r \in Runs, act[r].phase = "reported", act[r].result # "error"
    PROVE  AwaitSound(r, OnResult(r, wf[r], act[r].result))
<1> USE ConstantsAssumption DEF IInv, TypeInv, TypeOK
<1>1. /\ wf[r] \in Workflow /\ wf[r].next \in 1..(N + 1) /\ plan[r] \in 0..N
      /\ wf[r].pc \in ActivityKind /\ FlowSound(r)
      /\ \A e \in zombies : ZombieSound(e) /\ e.node \in 1..(N + 1)
  BY DEF ActivityAwaited, Workflow, Execution
<1>2. AwaitSound(r, Await(wf[r], "closed", wf[r].next, 1))
  BY <1>1 DEF Await, AwaitSound, Workflow
<1>3. CASE wf[r].pc = "reuse"
  <2>1. ProvidesUpTo(dbNode[r], plan[r])
    BY <1>1, <1>3 DEF FlowSound
  <2>2. \A e \in zombies : ~(e.run = r /\ e.kind = "node")
    BY <1>1, <1>3 DEF ZombieSound
  <2>3. (plan[r] + 1) - 1 = plan[r] /\ plan[r] + 1 \in 1..(N + 2)
    BY <1>1
  <2>4. AwaitSound(r, AwaitNode(wf[r], plan[r] + 1))
    BY <2>1, <2>2, <2>3, AwaitNodeSound
  <2> QED BY <1>3, <2>4 DEF OnResult
<1>4. CASE wf[r].pc = "node" /\ act[r].result \notin RunTerminal
  <2>1. ProvidesUpTo(dbNode[r], wf[r].next)
    BY <1>1, <1>4 DEF FlowSound
  <2>2. \A e \in zombies : e.run = r /\ e.kind = "node" => e.node < wf[r].next + 1
    BY <1>1, <1>4 DEF ZombieSound
  <2>3. (wf[r].next + 1) - 1 = wf[r].next /\ wf[r].next + 1 \in 1..(N + 2)
    BY <1>1
  <2>4. AwaitSound(r, AwaitNode(wf[r], wf[r].next + 1))
    BY <2>1, <2>2, <2>3, AwaitNodeSound
  <2> QED BY <1>4, <2>4 DEF OnResult
<1> QED BY <1>1, <1>2, <1>3, <1>4 DEF OnResult, ActivityKind

(* After an error the loop stays where it is, or leaves for good.          *)
LEMMA OnErrorSound ==
    ASSUME IInv, NEW r \in Runs, act[r].phase = "reported", act[r].result = "error"
    PROVE  AwaitSound(r, OnError(wf[r]))
<1> USE ConstantsAssumption DEF IInv, TypeInv, TypeOK
<1>1. /\ wf[r] \in Workflow /\ wf[r].try \in Nat
      /\ wf[r].pc \in ActivityKind /\ FlowSound(r)
      /\ \A e \in zombies : ZombieSound(e) /\ e.node \in 1..(N + 1)
  BY DEF ActivityAwaited, Workflow, Execution
<1>2. ASSUME NEW pc \in {"closed", "reconcile"}, NEW try \in Nat \ {0}
      PROVE  AwaitSound(r, Await(wf[r], pc, wf[r].next, try))
  BY <1>1, <1>2 DEF Await, AwaitSound, Workflow
<1>3. CASE wf[r].pc = "node" /\ MoreAttempts(wf[r])
  <2>1. /\ wf[r].next \in Node /\ MaxAttempts[wf[r].next] \in Nat
        /\ ProvidesUpTo(dbNode[r], wf[r].next - 1)
    BY <1>1, <1>3 DEF FlowSound
  <2>2. \A e \in zombies : e.run = r /\ e.kind = "node" => e.node <= wf[r].next
    BY <1>1, <1>3 DEF ZombieSound
  <2>3. wf[r].try + 1 <= MaxAttempts[wf[r].next] /\ wf[r].try + 1 >= 2
    BY <1>1, <1>3, <2>1 DEF MoreAttempts, FlowSound
  <2>4. AwaitSound(r, Await(wf[r], "node", wf[r].next, wf[r].try + 1))
    BY <1>1, <2>1, <2>2, <2>3 DEF Await, AwaitSound, Workflow, Node
  <2> QED BY <1>3, <2>4 DEF OnError
<1>4. CASE wf[r].pc = "node" /\ ~MoreAttempts(wf[r])
  BY <1>2, <1>4 DEF OnError, NodeLost
<1>5. CASE wf[r].pc = "reconcile"
  BY <1>1, <1>2, <1>5 DEF OnError
<1>6. CASE wf[r].pc \in {"reuse", "cancel"}
  <2>1. AwaitSound(r, wf[r])
    BY <1>1, <1>6 DEF AwaitSound, ZombieSound, FlowSound
  <2> QED BY <1>6, <2>1 DEF OnError
<1> QED BY <1>1, <1>3, <1>4, <1>5, <1>6 DEF ActivityKind

(* The steps of a workflow keep the invariant.                             *)
LEMMA InvWorkflowStep ==
    ASSUME IInv, NEW r \in Runs, WorkflowStep(r)
    PROVE  RunsSound' /\ ExecutionsSound'
<1> USE DEF IInv, TypeInv, TypeOK
<1>1. PICK w \in NextWorkflow : Follow(r, w) /\ AwaitSound(r, w)
  <2>1. CASE wf[r].pc = "begin" /\ Follow(r, Begin(r, wf[r]))
    BY <2>1, BeginType, BeginSound
  <2>2. CASE /\ act[r].phase = "reported" /\ act[r].result = "error"
             /\ Follow(r, OnError(wf[r]))
    <3>1. wf[r].pc \in ActivityKind
      BY <2>2 DEF ActivityAwaited
    <3> QED BY <2>2, <3>1, OnErrorType, OnErrorSound
  <2>3. CASE /\ act[r].phase = "reported" /\ act[r].result # "error"
             /\ Follow(r, OnResult(r, wf[r], act[r].result))
    BY <2>3, OnResultType, OnResultSound
  <2> QED BY <2>1, <2>2, <2>3 DEF WorkflowStep
<1>2. /\ wf' = [wf EXCEPT ![r] = w]
      /\ \A q \in Runs : q # r => act'[q] = act[q] /\ wf'[q] = wf[q]
      /\ act'[r].phase \in {"idle", "scheduled"} /\ wf'[r] = w
      /\ UNCHANGED <<memRun, dbRun, dbNode, src, plan, req, cancelSync, zombies>>
  BY <1>1 DEF Follow, IdleActivity, memVars, dbVars, reqVars
<1>3. wf[r].pc # "none" /\ w.pc # "none"
  BY <1>1 DEF WorkflowStep, NextWorkflow, ActivityAwaited, ActivityKind
<1>4. ASSUME NEW q \in Runs PROVE RowsSound(q)' /\ StatusSound(q)'
  <2>1. RowsSound(q) /\ StatusSound(q)
    OBVIOUS
  <2> QED BY <1>2, <1>3, <2>1 DEF StatusSound, RowsSound, OwnedBy
<1>5. ASSUME NEW q \in Runs PROVE FlowSound(q)'
  <2>1. CASE q = r
    BY <1>1, <1>2, <2>1 DEF FlowSound, AwaitSound
  <2>2. CASE q # r
    <3>1. FlowSound(q)
      OBVIOUS
    <3> QED BY <1>2, <2>2, <3>1 DEF FlowSound
  <2> QED BY <2>1, <2>2
<1>6. ASSUME NEW q \in Runs, act'[q].phase = "working"
      PROVE  ExecutionSound(Current(q))'
  <2>1. q # r /\ act[q].phase = "working"
    BY <1>2, <1>6
  <2>2. Current(q)' = Current(q)
    BY <1>2, <2>1 DEF Current, Abandoned
  <2> QED BY <1>2, <2>1, <2>2 DEF ExecutionSound, OwnedBy
<1>7. ASSUME NEW e \in zombies' PROVE (ExecutionSound(e) /\ ZombieSound(e))'
  <2>1. /\ ExecutionSound(e) /\ ZombieSound(e) /\ e.run \in Runs
        /\ e \in zombies /\ e.node \in Int
    BY <1>2 DEF Execution
  <2>2. ExecutionSound(e)'
    BY <1>2, <2>1 DEF ExecutionSound, OwnedBy
  <2>3. CASE e.run = r
    <3>1. e.kind = "node" =>
            /\ w.pc \notin {"begin", "reuse"}
            /\ w.pc = "node" => e.node < w.next \/ (e.node = w.next /\ w.try >= 2)
      BY <1>1, <2>1, <2>3 DEF AwaitSound
    <3>2. w.next \in Int
      BY <1>1 DEF NextWorkflow, Workflow
    <3>3. ZombieSound(e)'
      BY <1>2, <1>3, <2>1, <2>3, <3>1, <3>2 DEF ZombieSound
    <3> QED BY <2>2, <3>3
  <2>4. CASE e.run # r
    BY <1>2, <2>1, <2>2, <2>4 DEF ZombieSound
  <2> QED BY <2>3, <2>4
<1> QED BY <1>4, <1>5, <1>6, <1>7 DEF RunsSound, ExecutionsSound

(* An activity that starts loads a sound copy of the rows.                  *)
Loading(r) ==
    [run |-> r, kind |-> wf[r].pc, node |-> wf[r].next, snap |-> ActivitySnapshot(r)]

(* What an activity loads when it starts is sound because the rows are.    *)
LEMMA LoadingSound ==
    ASSUME IInv, NEW r \in Runs, wf[r].pc \in ActivityKind
    PROVE  ExecutionSound(Loading(r))
<1>1. RowsSound(r) /\ StatusSound(r) /\ FlowSound(r)
  BY DEF IInv
<1>2. \A i \in Node : ActivitySnapshot(r).base[i] \in {NoRun, r, src[r]}
  BY DEF ActivitySnapshot, NoOutputs, Visible
<1>3. /\ Loading(r).run = r /\ Loading(r).kind = wf[r].pc
      /\ Loading(r).node = wf[r].next
      /\ Loading(r).snap.run = dbRun[r] /\ Loading(r).snap.node = dbNode[r]
      /\ Loading(r).snap.base = ActivitySnapshot(r).base
  BY DEF Loading, ActivitySnapshot
<1>4. dbRun[r] \in Live
  BY <1>1 DEF StatusSound, ActivityKind
<1>5. OwnedBy(r, ActivitySnapshot(r).base)
  BY <1>2 DEF OwnedBy
<1> QED BY <1>1, <1>3, <1>4, <1>5 DEF ExecutionSound, RowsSound, FlowSound

(* A worker takes an activity and loads its snapshot.                      *)
LEMMA InvStartActivity ==
    ASSUME IInv, NEW r \in Runs, StartActivity(r)
    PROVE  RunsSound' /\ ExecutionsSound'
<1> USE DEF IInv, TypeInv, TypeOK
<1>1. /\ act[r].phase = "scheduled" /\ wf[r].pc \in ActivityKind
      /\ act'[r].phase = "working" /\ act'[r].snap = ActivitySnapshot(r)
      /\ \A q \in Runs : q # r => act'[q] = act[q]
      /\ UNCHANGED <<memRun, dbRun, dbNode, src, plan, req, cancelSync, wf, zombies>>
  BY DEF StartActivity, ActivityAwaited, Activity, memVars, dbVars, reqVars
<1>2. ASSUME NEW q \in Runs PROVE RowsSound(q)' /\ StatusSound(q)' /\ FlowSound(q)'
  <2>1. RowsSound(q) /\ StatusSound(q) /\ FlowSound(q)
    OBVIOUS
  <2> QED BY <1>1, <2>1 DEF StatusSound, RowsSound, OwnedBy, FlowSound
<1>3. ASSUME NEW q \in Runs, act'[q].phase = "working"
      PROVE  ExecutionSound(Current(q))'
  <2>1. CASE q = r
    <3>1. Current(r)' = Loading(r) /\ ExecutionSound(Loading(r))
      BY <1>1, LoadingSound DEF Current, Abandoned, Loading
    <3> HIDE DEF IInv, TypeInv, TypeOK
    <3> QED BY <1>1, <2>1, <3>1 DEF ExecutionSound, OwnedBy
  <2>2. CASE q # r
    <3>1. Current(q)' = Current(q) /\ act[q].phase = "working"
      BY <1>1, <1>3, <2>2 DEF Current, Abandoned
    <3> QED BY <1>1, <3>1 DEF ExecutionSound, OwnedBy
  <2> QED BY <2>1, <2>2
<1>4. ASSUME NEW e \in zombies' PROVE (ExecutionSound(e) /\ ZombieSound(e))'
  <2>1. ExecutionSound(e) /\ ZombieSound(e) /\ e.run \in Runs
    BY <1>1 DEF Execution
  <2> QED BY <1>1, <2>1 DEF ExecutionSound, OwnedBy, ZombieSound
<1> QED BY <1>2, <1>3, <1>4 DEF RunsSound, ExecutionsSound

(* What a write by a worker preserves of the runs it does not report to.   *)
Grows ==
    \A q \in Runs, i \in Node : HasOutput(dbNode[q], i) => HasOutput(dbNode'[q], i)

(* If outputs only grow, a prefix that was complete stays complete.        *)
LEMMA GrowsUpTo ==
    ASSUME IInv, Grows, NEW q \in Runs, NEW k \in 0..N, ProvidesUpTo(dbNode[q], k)
    PROVE  ProvidesUpTo(dbNode'[q], k)
<1>1. \A i \in 1..k : i \in Node
  BY ConstantsAssumption DEF Node
<1> QED BY <1>1 DEF Grows, ProvidesUpTo

(* A write that only adds outputs leaves the other runs and the executions *)
(* sound.                                                                  *)
LEMMA WriteFrame ==
    ASSUME IInv, UNCHANGED <<memVars, reqVars, wf>>, Grows,
           \A q \in Runs : dbRun'[q] \in Live \/ dbRun'[q] = dbRun[q],
           NEW q \in Runs
    PROVE  /\ StatusSound(q)'
           /\ act'[q] = act[q] => FlowSound(q)'
           /\ act'[q].result = "error" => FlowSound(q)'
<1> USE ConstantsAssumption DEF IInv, TypeInv, TypeOK, memVars, reqVars
<1>1. StatusSound(q) /\ FlowSound(q) /\ wf[q].next \in 1..(N + 1) /\ plan[q] \in 0..N
  BY DEF Workflow
<1>2. StatusSound(q)'
  BY <1>1 DEF StatusSound, Live, Absent
<1>3. wf[q].pc = "node" =>
        /\ wf[q].next \in Node /\ wf[q].try <= MaxAttempts[wf[q].next]
        /\ ProvidesUpTo(dbNode'[q], wf[q].next - 1)
  <2>1. wf[q].pc = "node" => wf[q].next \in Node /\ wf[q].next - 1 \in 0..N
    BY <1>1 DEF FlowSound, Node
  <2> QED BY <1>1, <2>1, GrowsUpTo DEF FlowSound
<1>4. CASE act'[q] = act[q]
  <2>1. ProvidesUpTo(dbNode[q], plan[q]) => ProvidesUpTo(dbNode'[q], plan[q])
    BY <1>1, GrowsUpTo
  <2>2. wf[q].pc = "node" /\ ProvidesUpTo(dbNode[q], wf[q].next)
          => ProvidesUpTo(dbNode'[q], wf[q].next)
    <3>1. wf[q].pc = "node" => wf[q].next \in 0..N
      BY <1>3 DEF Node
    <3> QED BY <3>1, GrowsUpTo
  <2> QED BY <1>1, <1>2, <1>3, <1>4, <2>1, <2>2 DEF FlowSound, ProvidesUpTo
<1>5. CASE act'[q].result = "error"
  BY <1>1, <1>2, <1>3, <1>5 DEF FlowSound, ProvidesUpTo
<1> QED BY <1>2, <1>4, <1>5

(* An activity that ends, with or without its write: the workflow of its    *)
(* run is told, and every other execution is left as it was.               *)
LEMMA ReportFrame ==
    ASSUME IInv, NEW r \in Runs, UNCHANGED <<reqVars, wf>>,
           act[r].phase \in {"working", "reported"}, wf[r].pc \in ActivityKind,
           act'[r].phase = "reported",
           \A q \in Runs : q # r => act'[q] = act[q],
           zombies' = zombies
              \/ /\ act[r].phase = "working" /\ act'[r].result = "error"
                 /\ zombies' = zombies \cup {Current(r)},
           act[r].phase = "working" \/ act'[r].result = "error"
    PROVE  ExecutionsSound'
<1> USE DEF IInv, TypeInv, TypeOK, reqVars
<1>1. ASSUME NEW q \in Runs, act'[q].phase = "working"
      PROVE  ExecutionSound(Current(q))'
  <2>1. Current(q)' = Current(q) /\ act[q].phase = "working"
    BY <1>1 DEF Current, Abandoned
  <2> QED BY <2>1 DEF ExecutionSound, OwnedBy
<1>2. ASSUME NEW e \in zombies' PROVE (ExecutionSound(e) /\ ZombieSound(e))'
  <2>1. CASE e \in zombies
    <3>1. ExecutionSound(e) /\ ZombieSound(e) /\ e.run \in Runs
      BY <2>1 DEF Execution
    <3>2. ExecutionSound(e)'
      BY <3>1 DEF ExecutionSound, OwnedBy
    <3> QED BY <3>1, <3>2 DEF ZombieSound
  <2>2. CASE e \notin zombies
    <3>1. /\ e = Current(r) /\ act[r].phase = "working" /\ act'[r].result = "error"
          /\ e.run = r /\ e.kind = wf[r].pc /\ e.node = wf[r].next
      BY <1>2, <2>2 DEF Current, Abandoned
    <3>2. ExecutionSound(e)
      BY <3>1
    <3>3. ExecutionSound(e)'
      BY <3>1, <3>2 DEF ExecutionSound, OwnedBy
    <3>4. wf[r].next \in Int
      BY DEF Workflow
    <3>5. ZombieSound(e)'
      BY <3>1, <3>4 DEF ZombieSound, ActivityKind
    <3> QED BY <3>3, <3>5
  <2> QED BY <2>1, <2>2
<1> QED BY <1>1, <1>2 DEF ExecutionsSound

(* A lost or timed out activity, its write done or not.                    *)
LEMMA InvLost ==
    ASSUME IInv, NEW r \in Runs, LoseActivity(r) \/ TimeOutActivity(r)
    PROVE  RunsSound' /\ ExecutionsSound'
<1> USE DEF IInv, TypeInv, TypeOK
<1>1. /\ act' = [act EXCEPT ![r] = Report("error")]
      /\ act[r].phase \in {"working", "reported"} /\ wf[r].pc \in ActivityKind
      /\ UNCHANGED <<memVars, dbVars, reqVars, wf>>
      /\ \/ zombies' = zombies
         \/ act[r].phase = "working" /\ zombies' = zombies \cup {Current(r)}
  BY DEF LoseActivity, TimeOutActivity, ActivityAwaited
<1>2. /\ act'[r].phase = "reported" /\ act'[r].result = "error"
      /\ \A q \in Runs : q # r => act'[q] = act[q]
      /\ Grows
  BY <1>1 DEF Report, dbVars, Grows
<1>3. ExecutionsSound'
  <2> HIDE DEF IInv, TypeInv, TypeOK
  <2> QED BY <1>1, <1>2, ReportFrame
<1>4. ASSUME NEW q \in Runs PROVE RowsSound(q)'
  <2>1. RowsSound(q)
    OBVIOUS
  <2> QED BY <1>1, <2>1 DEF RowsSound, OwnedBy, memVars, dbVars, reqVars
<1>5. ASSUME NEW q \in Runs PROVE StatusSound(q)' /\ FlowSound(q)'
  <2> HIDE DEF IInv, TypeInv, TypeOK
  <2> QED BY <1>1, <1>2, WriteFrame DEF dbVars
<1> QED BY <1>3, <1>4, <1>5 DEF RunsSound

(* An activity ends and its write is committed.                            *)
LEMMA InvFinishActivity ==
    ASSUME IInv, NEW r \in Runs, FinishActivity(r)
    PROVE  RunsSound' /\ ExecutionsSound'
<1> DEFINE e == Current(r)
<1>1. /\ act[r].phase = "working" /\ wf[r].pc \in ActivityKind
      /\ UNCHANGED <<memVars, reqVars, wf, zombies>>
      /\ act \in [Runs -> Activity] /\ wf[r] \in Workflow
  BY DEF FinishActivity, IInv, TypeInv, TypeOK, ActivityAwaited
<1>2. /\ e \in Execution /\ ExecutionSound(e)
      /\ e.run = r /\ e.kind = wf[r].pc /\ e.node = wf[r].next
      /\ e.snap = act[r].snap
  BY <1>1, CurrentType DEF IInv, TypeInv, Current, Abandoned
<1>3. CASE Raises(r, wf[r].pc, act[r].snap)
  <2>1. act' = [act EXCEPT ![r] = Report("error")] /\ UNCHANGED dbVars
    BY <1>3 DEF FinishActivity
  <2>2. /\ act'[r].phase = "reported" /\ act'[r].result = "error"
        /\ \A q \in Runs : q # r => act'[q] = act[q]
        /\ Grows
    BY <1>1, <2>1 DEF Report, dbVars, Grows
  <2>3. ExecutionsSound'
    BY <1>1, <2>2, ReportFrame
  <2>4. ASSUME NEW q \in Runs PROVE RowsSound(q)' /\ StatusSound(q)' /\ FlowSound(q)'
    <3>1. RowsSound(q)
      BY DEF IInv
    <3>2. RowsSound(q)'
      BY <1>1, <2>1, <3>1 DEF RowsSound, OwnedBy, memVars, dbVars, reqVars
    <3> QED BY <1>1, <2>1, <2>2, <3>2, WriteFrame DEF dbVars
  <2> QED BY <2>3, <2>4 DEF RunsSound
<1>4. CASE ~Raises(r, wf[r].pc, act[r].snap)
  <2>1. PICK o \in Outcomes(e) :
          SyncFromWorker(r, o) /\ act' = [act EXCEPT ![r] = Report(o.run)]
    BY <1>4 DEF FinishActivity
  <2>2. /\ o \in OutcomeType
        /\ OutcomeSound(e, o)
    BY <1>2, <1>4, OutcomesSound, OutcomesType DEF IInv, TypeInv
  <2>3. wf[r].pc # "none"
    BY <1>1 DEF ActivityKind
  <2> HIDE DEF e
  <2>4. /\ \A q \in Runs : RowsSound(q)'
        /\ \A q \in Runs : dbRun'[q] \in Live \/ dbRun'[q] = dbRun[q]
        /\ Grows
        /\ \A i \in Node : HasOutput(o.node, i) => HasOutput(dbNode'[r], i)
    BY <1>1, <1>2, <2>1, <2>2, <2>3, MergeSound DEF Grows
  <2>5. /\ act'[r].phase = "reported" /\ act'[r].result = o.run
        /\ \A q \in Runs : q # r => act'[q] = act[q]
    BY <1>1, <2>1 DEF Report
  <2>6. ExecutionsSound'
    BY <1>1, <2>5, ReportFrame
  <2>7. ASSUME NEW q \in Runs PROVE StatusSound(q)' /\ FlowSound(q)'
    <3>1. CASE q # r
      BY <1>1, <2>4, <2>5, <3>1, WriteFrame
    <3>2. CASE q = r
      <4>1. StatusSound(r)'
        BY <1>1, <2>4, WriteFrame
      <4>2. FlowSound(r)
        BY DEF IInv
      <4>3. /\ wf[r].pc = "reuse" => ProvidesUpTo(dbNode'[r], plan[r])
            /\ wf[r].pc = "node" /\ o.run \notin RunTerminal =>
                 ProvidesUpTo(dbNode'[r], wf[r].next)
        <5>1. plan[r] \in 0..N /\ (wf[r].pc = "node" => wf[r].next \in Node)
          BY <4>2 DEF IInv, TypeInv, TypeOK, FlowSound
        <5>2. /\ \A i \in 1..plan[r] : i \in Node
              /\ wf[r].pc = "node" => \A i \in 1..wf[r].next : i \in Node
          BY <5>1, ConstantsAssumption DEF Node
        <5> QED BY <1>2, <2>2, <2>4, <5>2 DEF OutcomeSound, ProvidesUpTo
      <4>4. wf[r].pc = "node" =>
              wf[r].next \in Node /\ wf[r].next - 1 \in 0..N
        BY <4>2, ConstantsAssumption DEF FlowSound, Node
      <4>5. wf[r].pc = "node" => ProvidesUpTo(dbNode'[r], wf[r].next - 1)
        BY <2>4, <4>2, <4>4, GrowsUpTo DEF FlowSound
      <4>6. wf' = wf /\ plan' = plan
        BY <1>1 DEF reqVars
      <4>7. FlowSound(r)'
        BY <2>5, <4>2, <4>3, <4>4, <4>5, <4>6 DEF FlowSound, ProvidesUpTo
      <4> QED BY <3>2, <4>1, <4>7
    <3> QED BY <3>1, <3>2
  <2> QED BY <2>4, <2>6, <2>7 DEF RunsSound
<1> QED BY <1>3, <1>4

(* An abandoned execution writes what it made of an old snapshot.          *)
LEMMA InvFinishZombie ==
    ASSUME IInv, NEW e \in zombies, FinishZombie(e)
    PROVE  RunsSound' /\ ExecutionsSound'
<1>1. /\ e \in Execution /\ ExecutionSound(e) /\ wf[e.run].pc # "none"
      /\ UNCHANGED <<memVars, reqVars, wf, act>> /\ zombies' \subseteq zombies
  BY DEF FinishZombie, IInv, TypeInv, TypeOK, ZombieSound
<1>2. /\ \A q \in Runs : RowsSound(q)'
      /\ \A q \in Runs : dbRun'[q] \in Live \/ dbRun'[q] = dbRun[q]
      /\ Grows
  <2>1. CASE Raises(e.run, e.kind, e.snap)
    <3>1. UNCHANGED dbVars
      BY <2>1 DEF FinishZombie
    <3>2. \A q \in Runs : RowsSound(q)
      BY DEF IInv
    <3> QED BY <1>1, <3>1, <3>2
            DEF RowsSound, OwnedBy, Grows, memVars, dbVars, reqVars
  <2>2. CASE ~Raises(e.run, e.kind, e.snap)
    <3>1. PICK o \in Outcomes(e) : SyncFromWorker(e.run, o)
      BY <2>2 DEF FinishZombie
    <3>2. o \in OutcomeType /\ OutcomeSound(e, o)
      BY <1>1, <2>2, OutcomesSound, OutcomesType DEF IInv, TypeInv
    <3> QED BY <1>1, <3>1, <3>2, MergeSound DEF Grows
  <2> QED BY <2>1, <2>2
<1>3. ASSUME NEW q \in Runs PROVE StatusSound(q)' /\ FlowSound(q)'
  BY <1>1, <1>2, WriteFrame
<1>4. ExecutionsSound'
  <2>1. ASSUME NEW q \in Runs, act'[q].phase = "working"
        PROVE  ExecutionSound(Current(q))'
    <3>1. Current(q)' = Current(q) /\ ExecutionSound(Current(q))
      BY <1>1, <2>1 DEF Current, Abandoned, IInv
    <3> QED BY <1>1, <3>1 DEF ExecutionSound, OwnedBy, reqVars
  <2>2. ASSUME NEW f \in zombies' PROVE (ExecutionSound(f) /\ ZombieSound(f))'
    <3>1. ExecutionSound(f) /\ ZombieSound(f)
      BY <1>1 DEF IInv
    <3> QED BY <1>1, <3>1 DEF ExecutionSound, OwnedBy, ZombieSound, reqVars
  <2> QED BY <2>1, <2>2 DEF ExecutionsSound
<1> QED BY <1>2, <1>3, <1>4 DEF RunsSound

(* Every step keeps the inductive invariant.                               *)
LEMMA InvStep == IInv /\ [Next]_vars => IInv'
<1> SUFFICES ASSUME IInv, [Next]_vars PROVE IInv'
  OBVIOUS
<1>1. TypeInv'
  BY TypeStep DEF IInv
<1>2. RunsSound' /\ ExecutionsSound'
  <2>1. CASE UNCHANGED vars
    <3>1. RunsSound /\ ExecutionsSound
      BY DEF IInv, RunsSound, ExecutionsSound
    <3> QED BY <2>1, <3>1
            DEF vars, memVars, dbVars, reqVars, wfVars, RunsSound,
                ExecutionsSound, RowsSound, StatusSound, FlowSound,
                ExecutionSound, ZombieSound, OwnedBy, Current, Abandoned
  <2>2. ASSUME NEW r \in Runs, RequestStep(r) PROVE RunsSound' /\ ExecutionsSound'
    BY <2>2, InvApi, InvCallStart DEF RequestStep
  <2>3. ASSUME NEW r \in Runs, WorkerStep(r) PROVE RunsSound' /\ ExecutionsSound'
    BY <2>3, InvWorkflowStep, InvStartActivity, InvFinishActivity DEF WorkerStep
  <2>4. ASSUME NEW r \in Runs, UserStep(r) PROVE RunsSound' /\ ExecutionsSound'
    BY <2>4, InvApi, InvAdmit, InvSignalCancel, InvTerminate DEF UserStep
  <2>5. ASSUME NEW r \in Runs, FaultStep(r) PROVE RunsSound' /\ ExecutionsSound'
    BY <2>5, InvLost DEF FaultStep
  <2>6. ASSUME NEW e \in zombies, FinishZombie(e) PROVE RunsSound' /\ ExecutionsSound'
    BY <2>6, InvFinishZombie
  <2>7. CASE RestartApi
    BY <2>7, InvRestart
  <2> QED BY <2>1, <2>2, <2>3, <2>4, <2>5, <2>6, <2>7 DEF Next
<1> QED BY <1>1, <1>2 DEF IInv, RunsSound, ExecutionsSound

(* The inductive invariant holds in every reachable state.                 *)
THEOREM Inductive == Spec => []IInv
<1> QED BY InvInit, InvStep, PTL DEF Spec

-----------------------------------------------------------------------------
(* Safety                                                                  *)

(* No node's output is in the database without those of all the nodes      *)
(* before it, whatever is lost, retried, cancelled or written late.        *)
THEOREM PrefixAlways == Spec => []NodePrefix
<1>1. IInv => NodePrefix
  BY DEF IInv, RowsSound, IsPrefix, NodePrefix
<1> QED BY <1>1, Inductive, PTL

(* A run whose row says succeeded has the outputs of all its nodes.        *)
THEOREM SuccessAlwaysComplete == Spec => []SuccessIsComplete
<1>1. IInv => SuccessIsComplete
  BY DEF IInv, RowsSound, ProvidesUpTo, SuccessIsComplete, Node
<1> QED BY <1>1, Inductive, PTL

(* A run points at artifacts of its own and of the run it resumes only.    *)
THEOREM OutputsAlwaysLoadable == Spec => []OutputsAreLoadable
<1>1. IInv => OutputsAreLoadable
  BY DEF IInv, RowsSound, OwnedBy, OutputsAreLoadable
<1> QED BY <1>1, Inductive, PTL

(* No execution of a node, live or abandoned, misses an upstream output.   *)
THEOREM UpstreamAlwaysLoaded == Spec => []UpstreamLoaded
<1>1. IInv => UpstreamLoaded
  BY DEF IInv, ExecutionSound, ProvidesUpTo, UpstreamLoaded, Executions
<1> QED BY <1>1, Inductive, PTL

(* A node with one attempt is never executed twice at once within a run.   *)
THEOREM SingleAttemptAlwaysOnce == Spec => []SingleAttemptRunsOnce
<1>1. ASSUME IInv PROVE SingleAttemptRunsOnce
  <2> SUFFICES ASSUME NEW r \in Runs, NEW e \in zombies,
                      wf[r].pc = "node", MaxAttempts[wf[r].next] = 1,
                      act[r].phase \in {"scheduled", "working"},
                      e.run = r, e.kind = "node", e.node = wf[r].next
               PROVE  FALSE
    BY DEF SingleAttemptRunsOnce
  <2>1. wf[r].try >= 2
    BY <1>1 DEF IInv, ZombieSound
  <2>2. wf[r].try <= 1
    BY <1>1 DEF IInv, FlowSound
  <2>3. wf[r].try \in Int
    BY <1>1 DEF IInv, TypeInv, TypeOK, Workflow
  <2> QED BY <2>1, <2>2, <2>3
<1> QED BY <1>1, Inductive, PTL

(* A workflow that accepted a cancel signal begins no further node.        *)
THEOREM CancelStopsNodes == Spec => NoNodeAfterCancel
<1> DEFINE NoFurther ==
      \A r \in Runs : wf[r].cancel /\ wf'[r].pc = "node" =>
                         wf[r].pc = "node" /\ wf'[r].next = wf[r].next
<1>1. ASSUME IInv, [Next]_vars PROVE [NoFurther]_wf
  <2> SUFFICES ASSUME wf' # wf PROVE NoFurther
    OBVIOUS
  <2>0. TypeOK /\ ActivityAwaited
    BY <1>1 DEF IInv, TypeInv
  <2> USE <2>0 DEF TypeOK, memVars, dbVars, reqVars, wfVars
  <2>1. ASSUME NEW r \in Runs, WorkflowStep(r) PROVE NoFurther
    <3>1. PICK w : /\ wf' = [wf EXCEPT ![r] = w]
                   /\ \/ w = Begin(r, wf[r])
                      \/ w = OnError(wf[r]) /\ wf[r].pc \in ActivityKind
                      \/ w = OnResult(r, wf[r], act[r].result)
      BY <2>1 DEF WorkflowStep, Follow, ActivityAwaited
    <3>2. wf[r] \in Workflow
      OBVIOUS
    <3>3. wf[r].cancel => \A i : AwaitNode(wf[r], i).pc # "node"
      BY <3>2 DEF AwaitNode, Await, Workflow
    <3>4. \A pc, next, try : /\ Await(wf[r], pc, next, try).pc = pc
                             /\ Await(wf[r], pc, next, try).next = next
      BY <3>2 DEF Await, Workflow
    <3>5. wf[r].cancel /\ w.pc = "node" => wf[r].pc = "node" /\ w.next = wf[r].next
      <4>1. CASE w = Begin(r, wf[r])
        BY <3>3, <3>4, <4>1 DEF Begin
      <4>2. CASE w = OnError(wf[r]) /\ wf[r].pc \in ActivityKind
        BY <3>4, <4>2 DEF OnError, NodeLost, ActivityKind
      <4>3. CASE w = OnResult(r, wf[r], act[r].result)
        BY <3>3, <3>4, <4>3 DEF OnResult
      <4> QED BY <3>1, <4>1, <4>2, <4>3
    <3> QED BY <3>1, <3>5
  <2>2. ASSUME NEW r \in Runs, CallStart(r) \/ SignalCancel(r) \/ Terminate(r)
        PROVE  NoFurther
    <3>1. \/ wf' = [wf EXCEPT ![r].pc = "begin"]
          \/ wf' = [wf EXCEPT ![r].pc = "closed"]
          \/ wf' = [wf EXCEPT ![r].cancel = TRUE]
      BY <2>2 DEF CallStart, SignalCancel, Terminate
    <3>2. \A q \in Runs : wf'[q].next = wf[q].next /\
                           (wf'[q].pc = "node" => wf[q].pc = "node")
      <4>1. wf[r] \in Workflow
        OBVIOUS
      <4>2. /\ [wf[r] EXCEPT !.cancel = TRUE].pc = wf[r].pc
            /\ \A pc \in {"begin", "closed"} : [wf[r] EXCEPT !.pc = pc].pc = pc
            /\ [wf[r] EXCEPT !.cancel = TRUE].next = wf[r].next
            /\ \A pc \in {"begin", "closed"} :
                  [wf[r] EXCEPT !.pc = pc].next = wf[r].next
        BY <4>1 DEF Workflow
      <4>3. \/ wf' = [wf EXCEPT ![r] = [wf[r] EXCEPT !.pc = "begin"]]
            \/ wf' = [wf EXCEPT ![r] = [wf[r] EXCEPT !.pc = "closed"]]
            \/ wf' = [wf EXCEPT ![r] = [wf[r] EXCEPT !.cancel = TRUE]]
        BY <3>1
      <4> QED BY <4>2, <4>3
    <3> QED BY <3>2
  <2>3. CASE UNCHANGED vars \/ RestartApi
    BY <2>3 DEF vars, RestartApi
  <2>4. ASSUME NEW e \in zombies, FinishZombie(e) PROVE NoFurther
    BY <2>4 DEF FinishZombie
  <2>5. ASSUME NEW r \in Runs,
               \/ RequestStep(r) /\ ~CallStart(r)
               \/ WorkerStep(r) /\ ~WorkflowStep(r)
               \/ UserStep(r) /\ ~SignalCancel(r) /\ ~Terminate(r)
               \/ FaultStep(r)
        PROVE  NoFurther
    BY <2>5 DEF RequestStep, WorkerStep, UserStep, FaultStep, RuntimeRun, AdmitRun,
       PersistAdmitted, PlanReuse, PostStartSync, Compensate, CancelSync,
       StartActivity, FinishActivity, LoseActivity, TimeOutActivity
  <2> HIDE DEF TypeOK, NoFurther
  <2> QED BY <1>1, <2>1, <2>2, <2>3, <2>4, <2>5
          DEF Next, RequestStep, WorkerStep, UserStep
<1> QED BY <1>1, Inductive, PTL DEF Spec, NoNodeAfterCancel

-----------------------------------------------------------------------------
(* One writer at a time: the durable status of a run                       *)

(* The restriction under which the durable status of a run is moved by one *)
(* writer at a time: nobody cancels, the API's write after a call to       *)
(* Temporal is in time and its answers arrive, and an execution that       *)
(* Temporal gave up is dead.                                               *)
Orderly ==
    /\ Ops \cap {"cancel", "force_cancel"} = {}
    /\ Faults \cap {"slow_api", "call_timeout", "zombie"} = {}

(* The row of a run belongs to its request until the workflow may act, and *)
(* to the workflow from then on.                                           *)
RequestOrder(r) ==
    /\ req[r] \in {"none", "admitted"} => dbRun[r] = Absent
    /\ req[r] \in {"persisted", "planned", "started", "failing"} =>
          dbRun[r] = "admitted"
    /\ req[r] \in {"admitted", "persisted", "planned", "started", "failing"} =>
          memRun[r] = "admitted"
    /\ req[r] \in {"none", "admitted", "persisted"} => plan[r] = 0
    /\ wf[r].pc # "none" => req[r] \in {"started", "done"}
    /\ act[r].phase # "idle" => req[r] = "done"
    /\ ~wf[r].cancel /\ wf[r].pc # "cancel"

(* The jobs a run is worked on under.                                      *)
AtWork == {"queued", "running", "succeeded", "failed"}

(* An activity holds the row as it is; the output of the last node is      *)
(* there only for a run that succeeded or reused every node.               *)
WorkOrder(r) ==
    /\ wf[r].pc = "none" => dbNode[r] = NoOutputs
    /\ wf[r].pc \in {"node", "reconcile"} => plan[r] < N
    /\ HasOutput(dbNode[r], N) => dbRun[r] = "succeeded" \/ plan[r] = N
    /\ act[r].phase = "working" =>
          /\ act[r].snap.run = dbRun[r] /\ act[r].snap.node = dbNode[r]
          /\ act[r].snap.job \in AtWork
    /\ src[r] = NoRun => plan[r] = 0

SuccessSeen ==
    \/ "succeeded" \in {memJob, dbJob}
    \/ \E r \in Runs : act[r].phase = "working" /\ act[r].snap.job = "succeeded"

(* Whoever reads that the job succeeded finds a run that did.              *)
JobOrder ==
    /\ memJob \in AtWork \cup {"draft", Absent} /\ dbJob \in AtWork \cup {Absent}
    /\ memJob \in {"draft", Absent} => \A r \in Runs : req[r] \in {"none", "done"}
    /\ dbJob = Absent => \A r \in Runs : dbRun[r] = Absent
    /\ SuccessSeen => \E r \in Runs : dbRun[r] = "succeeded"

OrderInv ==
    /\ zombies = {} /\ cancelSync = {}
    /\ \A r \in Runs : RequestOrder(r) /\ WorkOrder(r)
    /\ JobOrder

(* The initial states satisfy it.                                          *)
LEMMA OrderInit == ASSUME Init PROVE OrderInv
<1> USE ConstantsAssumption DEF Init
<1>1. ASSUME NEW r \in Runs PROVE RequestOrder(r) /\ WorkOrder(r)
  BY DEF RequestOrder, WorkOrder, IdleActivity, NoOutputs, HasOutput, Node
<1>2. JobOrder
  BY DEF JobOrder, SuccessSeen, IdleActivity, Absent
<1> QED BY <1>1, <1>2 DEF OrderInv

(* A step of the row of one run: it appears as admitted, or moves to a     *)
(* later status before it is terminal.                                     *)
RowStep(r) ==
    /\ \A q \in Runs \ {r} : dbRun'[q] = dbRun[q]
    /\ \/ dbRun'[r] = dbRun[r]
       \/ dbRun[r] = Absent /\ dbRun'[r] = "admitted"
       \/ /\ dbRun[r] \in {"admitted", "running"}
          /\ dbRun'[r] \in {"running", "succeeded", "failed"}

(* What a step of r leaves of another run keeps the order of that run.     *)
LEMMA OrderFrame ==
    ASSUME NEW q \in Runs, RequestOrder(q), WorkOrder(q),
           req'[q] = req[q], dbRun'[q] = dbRun[q], dbNode'[q] = dbNode[q],
           wf'[q] = wf[q], act'[q] = act[q], plan'[q] = plan[q], src'[q] = src[q],
           memRun'[q] = memRun[q] \/ (memRun'[q] = dbRun[q] /\ dbRun[q] # Absent)
    PROVE  RequestOrder(q)' /\ WorkOrder(q)'
<1>1. RequestOrder(q)'
  BY DEF RequestOrder
<1>2. WorkOrder(q)'
  BY DEF WorkOrder, HasOutput
<1> QED BY <1>1, <1>2

(* A run that succeeded stays succeeded.                                   *)
LEMMA SuccessStays ==
    ASSUME NEW r \in Runs, RowStep(r), SuccessSeen => \E q \in Runs : dbRun[q] = "succeeded",
           SuccessSeen' => SuccessSeen \/ dbRun'[r] = "succeeded"
    PROVE  SuccessSeen' => \E q \in Runs : dbRun'[q] = "succeeded"
<1>1. ASSUME NEW q \in Runs, dbRun[q] = "succeeded" PROVE dbRun'[q] = "succeeded"
  BY <1>1 DEF RowStep, Absent
<1> QED BY <1>1

(* Requests before the call to Temporal, and what is admitted.             *)
LEMMA OrderAdmit ==
    ASSUME IInv, OrderInv, NEW r \in Runs, NEW mode \in {"new", "retry", "resume"},
           NEW s \in RunOrNone, AdmitRun(r, mode, s)
    PROVE  OrderInv' /\ RowStep(r)
<1> USE DEF IInv, TypeInv, TypeOK, dbVars, wfVars
<1>1. /\ req[r] = "none" /\ UNCHANGED <<plan, cancelSync, dbJob, dbRun, dbNode, wf, act, zombies>>
      /\ memRun' = [memRun EXCEPT ![r] = "admitted"]
      /\ req' = [req EXCEPT ![r] = "admitted"]
      /\ \E a \in RunOrNone : src' = [src EXCEPT ![r] = a]
      /\ memJob' = "queued" \/ (memJob' = memJob /\ memJob \in {"queued", "running"})
  BY DEF AdmitRun, Admissible, RunOrNone
<1>2. RequestOrder(r) /\ WorkOrder(r) /\ JobOrder
  BY DEF OrderInv
<1>3. wf[r].pc = "none" /\ act[r].phase = "idle"
  BY <1>1, <1>2 DEF RequestOrder
<1>4. RequestOrder(r)'
  BY <1>1, <1>2, <1>3 DEF RequestOrder
<1>5. WorkOrder(r)'
  <2>1. /\ plan'[r] = 0 /\ wf'[r].pc = "none" /\ act'[r].phase = "idle"
        /\ dbNode'[r] = NoOutputs
    BY <1>1, <1>2, <1>3 DEF RequestOrder, WorkOrder
  <2>2. ~HasOutput(NoOutputs, N)
    BY ConstantsAssumption DEF HasOutput, NoOutputs, Node
  <2> QED BY <2>1, <2>2 DEF WorkOrder, HasOutput
<1>6. ASSUME NEW q \in Runs \ {r} PROVE RequestOrder(q)' /\ WorkOrder(q)'
  BY <1>1, OrderFrame DEF OrderInv
<1>7. JobOrder'
  <2>1. RowStep(r) /\ (SuccessSeen' => SuccessSeen)
    BY <1>1 DEF RowStep, SuccessSeen
  <2>2. SuccessSeen' => \E q \in Runs : dbRun'[q] = "succeeded"
    BY <1>2, <2>1, SuccessStays DEF JobOrder
  <2> QED BY <1>1, <1>2, <2>2 DEF JobOrder, AtWork, Absent
<1> QED BY <1>1, <1>4, <1>5, <1>6, <1>7 DEF OrderInv, RowStep

(* Loading rows into memory takes the job's row, and for each run its row  *)
(* or what memory held.                                                    *)
LEMMA OrderHydrate ==
    ASSUME IInv, OrderInv, NEW s \in Runs, dbRun[s] # Absent, HydrateMemory(s)
    PROVE  /\ memJob' = dbJob /\ dbJob \in AtWork
           /\ \A q \in Runs : memRun'[q] = memRun[q] \/ (memRun'[q] = dbRun[q] /\ dbRun[q] # Absent)
<1>1. memJob' = dbJob /\ dbJob \in AtWork
  BY DEF HydrateMemory, OrderInv, JobOrder
<1>2. ASSUME NEW q \in Runs
      PROVE  memRun'[q] = memRun[q] \/ (memRun'[q] = dbRun[q] /\ dbRun[q] # Absent)
  BY DEF HydrateMemory, IInv, TypeInv, TypeOK
<1> QED BY <1>1, <1>2

(* A step that leaves the rows, the workflows and the activities, and of   *)
(* the job in memory a status in which runs are worked on.                 *)
LEMMA OrderJobs ==
    ASSUME OrderInv, NEW r \in Runs, RowStep(r), UNCHANGED act,
           memJob' \in AtWork \/ (memJob' = memJob /\ \A q \in Runs : req'[q] \in {req[q], "done"}),
           memJob' = "succeeded" => SuccessSeen,
           dbJob' \in {dbJob, memJob, memJob'} \cap AtWork \/ UNCHANGED <<dbJob, dbRun>>
    PROVE  JobOrder'
<1>1. JobOrder
  BY DEF OrderInv
<1>2. SuccessSeen' => SuccessSeen
  BY DEF SuccessSeen
<1>3. SuccessSeen' => \E q \in Runs : dbRun'[q] = "succeeded"
  BY <1>1, <1>2, SuccessStays DEF JobOrder
<1>4. memJob' \in AtWork \cup {"draft", Absent} /\ dbJob' \in AtWork \cup {Absent}
  BY <1>1 DEF JobOrder
<1>5. memJob' \in {"draft", Absent} => \A q \in Runs : req'[q] \in {"none", "done"}
  BY <1>1 DEF JobOrder, AtWork, Absent
<1>6. dbJob' = Absent => \A q \in Runs : dbRun'[q] = Absent
  BY <1>1 DEF JobOrder, AtWork, Absent
<1> QED BY <1>3, <1>4, <1>5, <1>6 DEF JobOrder

(* Steps of the API's requests, but for the call to Temporal.              *)
LEMMA OrderApi ==
    ASSUME Orderly, IInv, OrderInv, NEW r \in Runs,
           \/ RuntimeRun(r) \/ PersistAdmitted(r) \/ PlanReuse(r)
           \/ PostStartSync(r) \/ Compensate(r)
    PROVE  OrderInv' /\ RowStep(r)
<1> USE DEF IInv, TypeInv, TypeOK, memVars, dbVars, reqVars, wfVars
<1>1. /\ UNCHANGED <<dbNode, wf, act, zombies, src, cancelSync>>
      /\ \A q \in Runs \ {r} : UNCHANGED <<req[q], dbRun[q], plan[q]>>
  BY DEF RuntimeRun, PersistAdmitted, PlanReuse, PostStartSync, Compensate, SyncFromMemory
<1>2. RequestOrder(r) /\ WorkOrder(r) /\ JobOrder
  BY DEF OrderInv
<1>3. CASE RuntimeRun(r)
  <2>1. /\ UNCHANGED <<req, plan, dbJob, dbRun>> /\ memJob' = dbJob /\ dbJob \in AtWork
        /\ \A q \in Runs : memRun'[q] = memRun[q] \/ (memRun'[q] = dbRun[q] /\ dbRun[q] # Absent)
    BY <1>3, OrderHydrate DEF RuntimeRun
  <2>2. ASSUME NEW q \in Runs PROVE RequestOrder(q)' /\ WorkOrder(q)'
    BY <1>1, <2>1, OrderFrame DEF OrderInv
  <2>3. RowStep(r) /\ JobOrder'
    BY <1>1, <2>1, OrderJobs DEF RowStep, SuccessSeen
  <2> QED BY <1>1, <2>2, <2>3 DEF OrderInv
<1>4. CASE PlanReuse(r)
  <2>1. /\ req[r] = "persisted" /\ UNCHANGED <<dbJob, dbRun>> /\ src[r] # NoRun
        /\ \A q \in Runs \ {r} : UNCHANGED <<req[q], plan[q]>>
    BY <1>4 DEF PlanReuse
  <2>2. /\ \A q \in Runs : memRun'[q] = memRun[q] \/ (memRun'[q] = dbRun[q] /\ dbRun[q] # Absent)
        /\ memJob' \in {memJob, dbJob} \cap AtWork
        /\ req'[r] \in {"planned", "failing"}
    <3>1. CASE dbRun[src[r]] = Absent
      BY <1>2, <1>4, <2>1, <3>1 DEF PlanReuse, JobOrder, AtWork, Absent
    <3>2. CASE dbRun[src[r]] # Absent
      <4>1. src[r] \in Runs /\ HydrateMemory(src[r]) /\ req'[r] = "planned"
        BY <1>4, <2>1, <3>2 DEF PlanReuse, RunOrNone
      <4> QED BY <3>2, <4>1, OrderHydrate
    <3> QED BY <3>1, <3>2
  <2>3. wf[r].pc = "none" /\ act[r].phase = "idle" /\ dbNode[r] = NoOutputs
    BY <1>2, <2>1 DEF RequestOrder, WorkOrder
  <2>4. RequestOrder(r)'
    BY <1>1, <1>2, <2>1, <2>2, <2>3 DEF RequestOrder
  <2>5. WorkOrder(r)'
    <3>1. ~HasOutput(NoOutputs, N)
      BY ConstantsAssumption DEF HasOutput, NoOutputs, Node
    <3>2. dbNode'[r] = NoOutputs /\ wf'[r].pc = "none" /\ act'[r].phase = "idle" /\ src'[r] # NoRun
      BY <1>1, <2>1, <2>3
    <3> QED BY <3>1, <3>2 DEF WorkOrder, HasOutput
  <2>6. ASSUME NEW q \in Runs \ {r} PROVE RequestOrder(q)' /\ WorkOrder(q)'
    BY <1>1, <2>1, <2>2, OrderFrame DEF OrderInv
  <2>7. RowStep(r) /\ JobOrder'
    BY <1>1, <2>1, <2>2, OrderJobs DEF RowStep, SuccessSeen
  <2> QED BY <1>1, <2>4, <2>5, <2>6, <2>7 DEF OrderInv
<1>5. CASE PersistAdmitted(r) \/ PostStartSync(r)
  <2>1. /\ UNCHANGED <<memJob, memRun, plan>> /\ dbJob' = memJob
        /\ dbRun' = [dbRun EXCEPT ![r] = "admitted"]
        /\ \/ req[r] = "admitted" /\ req'[r] = "persisted" /\ dbRun[r] = Absent
           \/ req[r] = "started" /\ req'[r] = "done" /\ dbRun[r] = "admitted"
        /\ \A q \in Runs \ {r} : req'[q] = req[q]
    BY <1>2, <1>5 DEF PersistAdmitted, PostStartSync, SyncFromMemory, RequestOrder
  <2>2. memJob \in AtWork
    BY <1>2, <2>1 DEF JobOrder
  <2>3. act[r].phase = "idle"
    BY <1>2, <2>1 DEF RequestOrder
  <2>4. RequestOrder(r)'
    BY <1>1, <1>2, <2>1, <2>3 DEF RequestOrder
  <2>5. WorkOrder(r)'
    BY <1>1, <1>2, <2>1, <2>3 DEF WorkOrder, HasOutput, Absent
  <2>6. ASSUME NEW q \in Runs \ {r} PROVE RequestOrder(q)' /\ WorkOrder(q)'
    BY <1>1, <2>1, OrderFrame DEF OrderInv
  <2>7. RowStep(r) /\ JobOrder'
    BY <1>1, <2>1, <2>2, OrderJobs DEF RowStep, SuccessSeen
  <2> QED BY <1>1, <2>4, <2>5, <2>6, <2>7 DEF OrderInv
<1>6. CASE Compensate(r)
  <2>1. req[r] = "failing" /\ memRun[r] = "admitted" /\ dbRun[r] = "admitted"
    BY <1>2, <1>6 DEF Compensate, RequestOrder
  <2>2. "failed" \in RunTransitions[memRun[r]]
    BY <2>1 DEF RunTransitions
  <2>3. memJob \in AtWork
    BY <1>2, <2>1 DEF JobOrder
  <2>4. /\ UNCHANGED plan /\ dbJob' = memJob' /\ memJob' \in {"failed", memJob}
        /\ memRun' = [memRun EXCEPT ![r] = "failed"]
        /\ dbRun' = [dbRun EXCEPT ![r] = "failed"]
        /\ req' = [req EXCEPT ![r] = "done"]
    BY <1>6, <2>2 DEF Compensate, SyncFromMemory
  <2>5. act[r].phase = "idle" /\ wf[r].pc = "none" /\ dbNode[r] = NoOutputs
    BY <1>2, <2>1 DEF RequestOrder, WorkOrder
  <2>6. RequestOrder(r)'
    BY <1>1, <1>2, <2>4, <2>5 DEF RequestOrder
  <2>7. WorkOrder(r)'
    <3>1. ~HasOutput(dbNode[r], N)
      BY <1>2, <2>5, ConstantsAssumption DEF HasOutput, NoOutputs, Node
    <3> QED BY <1>1, <1>2, <2>4, <2>5, <3>1 DEF WorkOrder, HasOutput
  <2>8. ASSUME NEW q \in Runs \ {r} PROVE RequestOrder(q)' /\ WorkOrder(q)'
    BY <1>1, <2>4, OrderFrame DEF OrderInv
  <2>9. RowStep(r) /\ JobOrder'
    <3>1. memJob' \in AtWork /\ dbJob' \in AtWork /\ (memJob' = "succeeded" => SuccessSeen)
      BY <2>3, <2>4 DEF AtWork, SuccessSeen
    <3>2. RowStep(r)
      BY <1>1, <2>1, <2>4 DEF RowStep
    <3> QED BY <1>1, <2>4, <3>1, <3>2, OrderJobs
  <2> QED BY <1>1, <2>6, <2>7, <2>8, <2>9 DEF OrderInv
<1> QED BY <1>3, <1>4, <1>5, <1>6

(* The call to Temporal, whose answer is what it did.                      *)
LEMMA OrderCallStart ==
    ASSUME Orderly, IInv, OrderInv, NEW r \in Runs, CallStart(r)
    PROVE  OrderInv' /\ RowStep(r)
<1> USE DEF IInv, TypeInv, TypeOK, memVars, dbVars
<1>1. /\ UNCHANGED <<memJob, memRun, dbJob, dbRun, dbNode, src, plan, cancelSync, act, zombies>>
      /\ req[r] = IF src[r] = NoRun THEN "persisted" ELSE "planned"
      /\ \/ req' = [req EXCEPT ![r] = "started"] /\ wf' = [wf EXCEPT ![r].pc = "begin"]
         \/ req' = [req EXCEPT ![r] = "failing"] /\ wf' = wf
  BY DEF CallStart, Orderly
<1>2. RequestOrder(r) /\ WorkOrder(r) /\ JobOrder
  BY DEF OrderInv
<1>3. /\ wf'[r].pc \in {"begin", wf[r].pc} /\ wf'[r].cancel = wf[r].cancel
      /\ (wf'[r].pc = "begin" => req'[r] = "started") /\ req'[r] \in {"started", "failing"}
  BY <1>1, <1>2 DEF Workflow, RequestOrder
<1>4. wf[r].pc = "none" /\ act[r].phase = "idle"
  BY <1>1, <1>2 DEF RequestOrder
<1>5. RequestOrder(r)'
  BY <1>1, <1>2, <1>3, <1>4 DEF RequestOrder
<1>6. WorkOrder(r)'
  BY <1>1, <1>2, <1>3, <1>4 DEF WorkOrder, HasOutput
<1>7. ASSUME NEW q \in Runs \ {r} PROVE RequestOrder(q)' /\ WorkOrder(q)'
  BY <1>1, OrderFrame DEF OrderInv
<1>8. RowStep(r)
  BY <1>1 DEF RowStep
<1>9. JobOrder'
  <2>1. memJob \in AtWork
    BY <1>1, <1>2 DEF JobOrder
  <2> QED BY <1>1, <1>8, <2>1, OrderJobs DEF SuccessSeen
<1> QED BY <1>1, <1>5, <1>6, <1>7, <1>8, <1>9 DEF OrderInv

(* A restart ends the requests wherever they are.                          *)
LEMMA OrderRestart ==
    ASSUME IInv, OrderInv, RestartApi
    PROVE  OrderInv' /\ UNCHANGED dbRun
<1> USE DEF IInv, TypeInv, TypeOK, dbVars, wfVars
<1>1. /\ UNCHANGED <<dbJob, dbRun, dbNode, src, plan, wf, act, zombies>> /\ cancelSync' = {}
      /\ memJob' = Absent
      /\ \A q \in Runs : req'[q] = IF req[q] = "none" THEN "none" ELSE "done"
  BY DEF RestartApi
<1>2. ASSUME NEW q \in Runs PROVE RequestOrder(q)' /\ WorkOrder(q)'
  <2>1. RequestOrder(q) /\ WorkOrder(q)
    BY DEF OrderInv
  <2>2. RequestOrder(q)'
    BY <1>1, <2>1 DEF RequestOrder
  <2>3. WorkOrder(q)'
    BY <1>1, <2>1 DEF WorkOrder, HasOutput
  <2> QED BY <2>2, <2>3
<1>3. JobOrder'
  <2>1. JobOrder
    BY DEF OrderInv
  <2>2. SuccessSeen' => SuccessSeen
    BY <1>1 DEF SuccessSeen, Absent
  <2> QED BY <1>1, <2>1, <2>2 DEF JobOrder
<1> QED BY <1>1, <1>2, <1>3 DEF OrderInv

(* What a workflow that nobody cancels awaits next is no cancellation, and *)
(* a node only if the reuse plan left one.                                 *)
LEMMA OrderNext ==
    ASSUME IInv, OrderInv, NEW r \in Runs, NEW w,
           \/ wf[r].pc = "begin" /\ w = Begin(r, wf[r])
           \/ wf[r].pc \in ActivityKind /\ w = OnError(wf[r])
           \/ wf[r].pc \in ActivityKind /\ w = OnResult(r, wf[r], act[r].result)
    PROVE  /\ ~w.cancel /\ w.pc \in {"reuse", "node", "reconcile", "closed"}
           /\ w.pc \in {"node", "reconcile"} => plan[r] < N
<1> DEFINE v == wf[r]
<1>1. /\ v \in Workflow /\ ~v.cancel /\ v.pc # "cancel" /\ plan[r] \in 0..N
      /\ v.pc \in {"node", "reconcile"} => plan[r] < N
      /\ src[r] = NoRun => plan[r] = 0
      /\ N \in Nat \ {0}
  BY ConstantsAssumption DEF IInv, TypeInv, TypeOK, OrderInv, RequestOrder, WorkOrder
<1> HIDE DEF v
<1>2. ASSUME NEW pc, NEW next, NEW try
      PROVE  Await(v, pc, next, try).pc = pc /\ ~Await(v, pc, next, try).cancel
  BY <1>1 DEF Await, Workflow
<1>3. ASSUME NEW j
      PROVE  /\ ~AwaitNode(v, j).cancel /\ AwaitNode(v, j).pc \in {"node", "closed"}
             /\ AwaitNode(v, j).pc = "node" => ~(j > N)
  BY <1>1, <1>2 DEF AwaitNode
<1>4. CASE v.pc = "begin" /\ w = Begin(r, v)
  BY <1>1, <1>2, <1>3, <1>4 DEF Begin
<1>5. CASE v.pc \in ActivityKind /\ w = OnError(v)
  BY <1>1, <1>2, <1>5 DEF OnError, NodeLost, ActivityKind
<1>6. CASE v.pc \in ActivityKind /\ w = OnResult(r, v, act[r].result)
  BY <1>1, <1>2, <1>3, <1>6 DEF OnResult, ActivityKind
<1> QED BY <1>4, <1>5, <1>6 DEF v

(* What a step of a workflow takes up.                                     *)
LEMMA WorkflowFollows ==
    ASSUME ActivityAwaited, NEW r \in Runs, WorkflowStep(r)
    PROVE  \E w : /\ Follow(r, w)
                  /\ \/ wf[r].pc = "begin" /\ w = Begin(r, wf[r])
                     \/ wf[r].pc \in ActivityKind /\ w = OnError(wf[r])
                     \/ wf[r].pc \in ActivityKind /\ w = OnResult(r, wf[r], act[r].result)
<1>1. act[r].phase = "reported" => wf[r].pc \in ActivityKind
  BY DEF ActivityAwaited
<1>2. CASE wf[r].pc = "begin" /\ Follow(r, Begin(r, wf[r]))
  BY <1>2
<1>3. CASE act[r].phase = "reported" /\ Follow(r, OnError(wf[r]))
  BY <1>1, <1>3
<1>4. CASE act[r].phase = "reported" /\ Follow(r, OnResult(r, wf[r], act[r].result))
  BY <1>1, <1>4
<1> QED BY <1>2, <1>3, <1>4 DEF WorkflowStep

(* A scheduled activity is one.                                           *)
LEMMA ScheduledPhase ==
    ASSUME NEW a \in Activity
    PROVE  [a EXCEPT !.phase = "scheduled"].phase = "scheduled"
BY DEF Activity

(* The workflow decides what it awaits.                                    *)
LEMMA OrderWorkflow ==
    ASSUME Orderly, IInv, OrderInv, NEW r \in Runs, WorkflowStep(r)
    PROVE  OrderInv' /\ RowStep(r)
<1> USE DEF IInv, TypeInv, TypeOK, memVars, dbVars, reqVars
<1>1. PICK w : /\ Follow(r, w)
               /\ \/ wf[r].pc = "begin" /\ w = Begin(r, wf[r])
                  \/ wf[r].pc \in ActivityKind /\ w = OnError(wf[r])
                  \/ wf[r].pc \in ActivityKind /\ w = OnResult(r, wf[r], act[r].result)
  BY WorkflowFollows
<1>2. /\ ~w.cancel /\ w.pc \in {"reuse", "node", "reconcile", "closed"}
      /\ w.pc \in {"node", "reconcile"} => plan[r] < N
  BY <1>1, OrderNext
<1>3. /\ UNCHANGED <<memJob, memRun, dbJob, dbRun, dbNode, req, src, plan, cancelSync, zombies>>
      /\ wf' = [wf EXCEPT ![r] = w]
      /\ act'[r].phase \in {"idle", "scheduled"}
      /\ \A q \in Runs \ {r} : act'[q] = act[q]
  <2>1. /\ UNCHANGED <<memVars, dbVars, reqVars, zombies>>
        /\ wf' = [wf EXCEPT ![r] = w]
        /\ act' = [act EXCEPT ![r] = IF w.pc = "closed" THEN IdleActivity
                                    ELSE [IdleActivity EXCEPT !.phase = "scheduled"]]
    BY <1>1 DEF Follow
  <2>2. IdleActivity.phase = "idle"
    BY DEF IdleActivity
  <2>3. [IdleActivity EXCEPT !.phase = "scheduled"].phase = "scheduled"
    BY ONLY IdleActivityType, ScheduledPhase
  <2> QED BY <2>1, <2>2, <2>3
<1>4. RequestOrder(r) /\ WorkOrder(r) /\ JobOrder
  BY DEF OrderInv
<1>5. req[r] = "done" /\ wf[r].pc # "none"
  BY <1>1, <1>4 DEF WorkflowStep, ApiWrote, Orderly, RequestOrder, ActivityKind
<1>6. RequestOrder(r)'
  BY <1>2, <1>3, <1>4, <1>5 DEF RequestOrder
<1>7. WorkOrder(r)'
  BY <1>2, <1>3, <1>4 DEF WorkOrder, HasOutput
<1>8. ASSUME NEW q \in Runs \ {r} PROVE RequestOrder(q)' /\ WorkOrder(q)'
  BY <1>3, OrderFrame DEF OrderInv
<1>9. RowStep(r)
  BY <1>3 DEF RowStep
<1>10. JobOrder'
  <2>1. SuccessSeen' => SuccessSeen
    BY <1>3 DEF SuccessSeen
  <2>2. SuccessSeen' => \E q \in Runs : dbRun'[q] = "succeeded"
    BY <1>4, <1>9, <2>1, SuccessStays DEF JobOrder
  <2> QED BY <1>3, <1>4, <2>2 DEF JobOrder
<1> QED BY <1>3, <1>6, <1>7, <1>8, <1>9, <1>10 DEF OrderInv

(* An activity loads the rows of its run as they are.                      *)
LEMMA OrderLoad ==
    ASSUME Orderly, IInv, OrderInv, NEW r \in Runs, StartActivity(r)
    PROVE  OrderInv' /\ RowStep(r)
<1> USE DEF IInv, TypeInv, TypeOK, memVars, dbVars, reqVars
<1>1. /\ UNCHANGED <<memJob, memRun, dbJob, dbRun, dbNode, req, src, plan, cancelSync, zombies, wf>>
      /\ \A q \in Runs \ {r} : act'[q] = act[q]
      /\ act[r].phase = "scheduled" /\ act'[r].snap = ActivitySnapshot(r)
  BY DEF StartActivity, Activity
<1>2. RequestOrder(r) /\ WorkOrder(r) /\ JobOrder
  BY DEF OrderInv
<1>3. req[r] = "done" /\ wf[r].pc # "none" /\ dbRun[r] # Absent
  BY <1>1, <1>2 DEF RequestOrder, ActivityAwaited, ActivityKind, StatusSound
<1>4. /\ act'[r].snap.run = dbRun[r] /\ act'[r].snap.node = dbNode[r]
      /\ act'[r].snap.job = dbJob /\ dbJob \in AtWork
  BY <1>1, <1>2, <1>3 DEF ActivitySnapshot, JobOrder
<1>5. RequestOrder(r)'
  BY <1>1, <1>2, <1>3 DEF RequestOrder
<1>6. WorkOrder(r)'
  BY <1>1, <1>2, <1>4 DEF WorkOrder, HasOutput
<1>7. ASSUME NEW q \in Runs \ {r} PROVE RequestOrder(q)' /\ WorkOrder(q)'
  BY <1>1, OrderFrame DEF OrderInv
<1>8. RowStep(r)
  BY <1>1 DEF RowStep
<1>9. JobOrder'
  <2>1. SuccessSeen' => SuccessSeen
    BY <1>1, <1>4 DEF SuccessSeen
  <2>2. SuccessSeen' => \E q \in Runs : dbRun'[q] = "succeeded"
    BY <1>2, <1>8, <2>1, SuccessStays DEF JobOrder
  <2> QED BY <1>1, <1>2, <2>2 DEF JobOrder
<1> QED BY <1>1, <1>5, <1>6, <1>7, <1>8, <1>9 DEF OrderInv

(* What an execution makes of its snapshot is a later status of its run;   *)
(* it succeeds with the last output, and the job with the run.             *)
LEMMA OrderOutcome ==
    ASSUME IInv, OrderInv, NEW r \in Runs, act[r].phase = "working",
           ~Raises(r, wf[r].pc, act[r].snap), NEW o \in Outcomes(Current(r))
    PROVE  /\ o.run = act[r].snap.run
                 \/ /\ act[r].snap.run \in {"admitted", "running"}
                    /\ o.run \in {"running", "succeeded", "failed"}
           /\ HasOutput(o.node, N) =>
                 o.run = "succeeded" \/ HasOutput(act[r].snap.node, N) \/ plan[r] = N
           /\ o.job \in AtWork
           /\ o.job = "succeeded" => o.run = "succeeded" \/ act[r].snap.job = "succeeded"
<1> DEFINE s == act[r].snap
<1>1. /\ wf[r].pc \in {"reuse", "node", "reconcile"} /\ s.run \in Live /\ s.job \in AtWork
      /\ plan[r] \in 0..N /\ N \in Node /\ N \in Nat \ {0}
      /\ wf[r].pc = "node" => wf[r].next \in Node
      /\ s.node \in Outputs /\ s.base \in Outputs
  <2>1. wf[r].pc \in {"reuse", "node", "reconcile"} /\ s.job \in AtWork
    BY DEF IInv, TypeInv, ActivityAwaited, ActivityKind, OrderInv, RequestOrder, WorkOrder
  <2>2. s.run \in Live /\ (wf[r].pc = "node" => wf[r].next \in Node)
    BY DEF IInv, ExecutionSound, Current, Abandoned
  <2>3. s.node \in Outputs /\ s.base \in Outputs /\ plan[r] \in 0..N
    BY DEF IInv, TypeInv, TypeOK, Activity, Snapshot
  <2> QED BY <2>1, <2>2, <2>3, ConstantsAssumption DEF Node
<1>2. /\ Current(r).kind = wf[r].pc /\ Current(r).node = wf[r].next
      /\ Current(r).run = r /\ Current(r).snap = s
  BY DEF Current, Abandoned
<1> HIDE DEF s
<1>3. CASE wf[r].pc = "node"
  <2> DEFINE out == [s.node EXCEPT ![wf[r].next] = r]
  <2>1. o \in NodeOutcomes(r, wf[r].next, s)
    BY <1>2, <1>3 DEF Outcomes
  <2>2. wf[r].next # N => out[N] = s.node[N]
    BY <1>1 DEF Outputs
  <2>3. CASE s.run \notin {"admitted", "running"}
    <3>1. o = Outcome("running", s.run, s.node, FALSE)
      BY <2>1, <2>3 DEF NodeOutcomes
    <3> QED BY <3>1 DEF Outcome, AtWork, s
  <2>4. CASE s.run \in {"admitted", "running"}
    <3>1. \/ o = Outcome("succeeded", "succeeded", out, FALSE)
          \/ wf[r].next # N /\ o = Outcome("running", "running", out, FALSE)
          \/ \E b \in BOOLEAN : o = Outcome("failed", "failed", s.node, b)
      BY <2>1, <2>4 DEF NodeOutcomes
    <3> HIDE DEF out
    <3> QED BY <2>2, <2>4, <3>1 DEF Outcome, AtWork, s, HasOutput
  <2> QED BY <2>3, <2>4
<1>4. CASE wf[r].pc = "reuse"
  <2>1. o = ReuseOutcome(r, s)
    BY <1>2, <1>4 DEF Outcomes
  <2>2. /\ o.run = s.run /\ o.job = s.job
        /\ o.node[N] = IF N <= plan[r] THEN s.base[N] ELSE s.node[N]
    BY <1>1, <2>1 DEF ReuseOutcome, Outcome
  <2>3. N <= plan[r] => plan[r] = N
    BY <1>1
  <2> QED BY <1>1, <2>2, <2>3 DEF s, HasOutput
<1>5. CASE wf[r].pc = "reconcile"
  <2>1. o = ReconcileOutcome(s)
    BY <1>2, <1>5 DEF Outcomes
  <2>2. CASE s.run \in RunTerminal
    <3>1. o = Outcome(s.job, s.run, s.node, FALSE)
      BY <2>1, <2>2 DEF ReconcileOutcome
    <3> QED BY <1>1, <3>1 DEF Outcome, s
  <2>3. CASE s.run \notin RunTerminal
    <3>1. /\ o.run = "failed" /\ o.node = s.node
          /\ o.job = IF s.job = "running" THEN "failed" ELSE s.job
      BY <2>1, <2>3 DEF ReconcileOutcome, Outcome
    <3>2. s.run \in {"admitted", "running"}
      BY <1>1, <2>3 DEF Live, RunTerminal
    <3> QED BY <1>1, <3>1, <3>2 DEF s, AtWork
  <2> QED BY <2>2, <2>3
<1> QED BY <1>1, <1>3, <1>4, <1>5

(* The write of an activity.                                               *)
LEMMA OrderWrite ==
    ASSUME IInv, OrderInv, NEW r \in Runs, act[r].phase = "working",
           ~Raises(r, wf[r].pc, act[r].snap), NEW o \in Outcomes(Current(r)),
           SyncFromWorker(r, o), act' = [act EXCEPT ![r] = Report(o.run)],
           UNCHANGED <<memVars, reqVars, wf, zombies>>
    PROVE  OrderInv' /\ RowStep(r)
<1> USE DEF memVars, reqVars
<1>1. /\ o.run = act[r].snap.run
            \/ /\ act[r].snap.run \in {"admitted", "running"}
               /\ o.run \in {"running", "succeeded", "failed"}
      /\ HasOutput(o.node, N) =>
            o.run = "succeeded" \/ HasOutput(act[r].snap.node, N) \/ plan[r] = N
      /\ o.job \in AtWork
      /\ o.job = "succeeded" => o.run = "succeeded" \/ act[r].snap.job = "succeeded"
  BY OrderOutcome
<1>2. RequestOrder(r) /\ WorkOrder(r) /\ JobOrder
  BY DEF OrderInv
<1>3. /\ req[r] = "done" /\ wf[r].pc # "none"
      /\ act[r].snap.run = dbRun[r] /\ act[r].snap.node = dbNode[r]
  BY <1>2 DEF RequestOrder, WorkOrder, IInv, TypeInv, ActivityAwaited, ActivityKind
<1>4. /\ dbJob' = o.job /\ dbRun'[r] = o.run
      /\ dbNode'[r][N] = IF HasOutput(o.node, N) THEN o.node[N] ELSE dbNode[r][N]
      /\ \A q \in Runs \ {r} : dbRun'[q] = dbRun[q] /\ dbNode'[q] = dbNode[q]
  <2>1. N \in Node
    BY ConstantsAssumption DEF Node
  <2> QED BY <2>1 DEF SyncFromWorker, IInv, TypeInv, TypeOK
<1>5. act'[r].phase = "reported" /\ \A q \in Runs \ {r} : act'[q] = act[q]
  BY DEF Report, IInv, TypeInv, TypeOK
<1>6. RequestOrder(r)'
  BY <1>2, <1>3, <1>5 DEF RequestOrder
<1>7. WorkOrder(r)'
  <2>1. HasOutput(dbNode'[r], N) => o.run = "succeeded" \/ plan[r] = N
    BY <1>1, <1>2, <1>3, <1>4 DEF HasOutput, WorkOrder
  <2>2. wf'[r].pc # "none" /\ act'[r].phase # "working" /\ dbRun'[r] = o.run
    BY <1>3, <1>4, <1>5
  <2> QED BY <1>2, <2>1, <2>2 DEF WorkOrder, HasOutput
<1>8. ASSUME NEW q \in Runs \ {r} PROVE RequestOrder(q)' /\ WorkOrder(q)'
  BY <1>4, <1>5, OrderFrame DEF OrderInv
<1>9. RowStep(r)
  BY <1>1, <1>3, <1>4 DEF RowStep
<1>10. JobOrder'
  <2>1. SuccessSeen' => SuccessSeen \/ dbRun'[r] = "succeeded"
    BY <1>1, <1>4, <1>5 DEF SuccessSeen
  <2>2. SuccessSeen' => \E q \in Runs : dbRun'[q] = "succeeded"
    BY <1>2, <1>9, <2>1, SuccessStays DEF JobOrder
  <2> QED BY <1>1, <1>2, <1>4, <2>2 DEF JobOrder, AtWork, Absent
<1> QED BY <1>6, <1>7, <1>8, <1>9, <1>10 DEF OrderInv

(* An activity that is lost, or that raises, writes nothing.               *)
LEMMA OrderLost ==
    ASSUME IInv, OrderInv, NEW r \in Runs, act[r].phase # "idle",
           act' = [act EXCEPT ![r] = Report("error")],
           UNCHANGED <<memVars, dbVars, reqVars, wf, zombies>>
    PROVE  OrderInv' /\ RowStep(r)
<1> USE DEF memVars, reqVars, dbVars
<1>1. act'[r].phase = "reported" /\ \A q \in Runs \ {r} : act'[q] = act[q]
  BY DEF Report, IInv, TypeInv, TypeOK
<1>2. RequestOrder(r) /\ WorkOrder(r) /\ JobOrder
  BY DEF OrderInv
<1>3. RequestOrder(r)'
  BY <1>1, <1>2 DEF RequestOrder
<1>4. WorkOrder(r)'
  BY <1>1, <1>2 DEF WorkOrder, HasOutput
<1>5. ASSUME NEW q \in Runs \ {r} PROVE RequestOrder(q)' /\ WorkOrder(q)'
  BY <1>1, OrderFrame DEF OrderInv
<1>6. JobOrder'
  <2>1. SuccessSeen' => SuccessSeen
    BY <1>1 DEF SuccessSeen
  <2> QED BY <1>2, <2>1 DEF JobOrder
<1>7. RowStep(r)
  BY DEF RowStep
<1> QED BY <1>3, <1>4, <1>5, <1>6, <1>7 DEF OrderInv

(* However an activity ends.                                               *)
LEMMA OrderFinish ==
    ASSUME IInv, OrderInv, NEW r \in Runs, FinishActivity(r) \/ LoseActivity(r)
    PROVE  OrderInv' /\ RowStep(r)
<1>1. CASE LoseActivity(r)
  BY <1>1, OrderLost DEF LoseActivity
<1>2. CASE FinishActivity(r) /\ Raises(r, wf[r].pc, act[r].snap)
  BY <1>2, OrderLost DEF FinishActivity
<1>3. CASE FinishActivity(r) /\ ~Raises(r, wf[r].pc, act[r].snap)
  BY <1>3, OrderWrite DEF FinishActivity
<1> QED BY <1>1, <1>2, <1>3

(* Every step keeps the order, and moves the row of one run at most.       *)
LEMMA OrderStep ==
    ASSUME Orderly, IInv, OrderInv, [Next]_vars
    PROVE  OrderInv' /\ (UNCHANGED dbRun \/ \E r \in Runs : RowStep(r))
<1>1. CASE UNCHANGED vars
  <2>1. UNCHANGED <<memJob, memRun, dbJob, dbRun, dbNode, src, plan, req, cancelSync, wf, act, zombies>>
    BY <1>1 DEF vars, memVars, dbVars, reqVars, wfVars
  <2>2. ASSUME NEW r \in Runs PROVE RequestOrder(r)' /\ WorkOrder(r)'
    BY <2>1, OrderFrame DEF OrderInv
  <2>3. JobOrder'
    BY <2>1 DEF OrderInv, JobOrder, SuccessSeen
  <2> QED BY <2>1, <2>2, <2>3 DEF OrderInv
<1>2. ASSUME NEW r \in Runs, RequestStep(r) \/ WorkerStep(r) \/ UserStep(r) \/ FaultStep(r)
      PROVE  OrderInv' /\ RowStep(r)
  <2>1. ~CancelSync(r)
    BY DEF CancelSync, OrderInv
  <2>2. ~SignalCancel(r) /\ ~Terminate(r) /\ ~TimeOutActivity(r)
    BY DEF SignalCancel, Terminate, TimeOutActivity, Orderly
  <2> QED BY <1>2, <2>1, <2>2, OrderApi, OrderCallStart, OrderAdmit, OrderWorkflow, OrderLoad, OrderFinish
          DEF RequestStep, WorkerStep, UserStep, FaultStep
<1>3. ASSUME NEW e \in zombies PROVE FALSE
  BY DEF OrderInv
<1>4. CASE RestartApi
  BY <1>4, OrderRestart
<1> QED BY <1>1, <1>2, <1>3, <1>4 DEF Next

(* The order holds in every reachable state.                               *)
LEMMA OrderAlways ==
    ASSUME Orderly
    PROVE  Spec => []OrderInv
<1>1. Init => OrderInv
  BY OrderInit
<1>2. IInv /\ OrderInv /\ [Next]_vars => OrderInv'
  BY OrderStep
<1> QED BY <1>1, <1>2, Inductive, PTL DEF Spec

(* A step of a row is a step of RunOutcome: it appears, or moves along the *)
(* table, twice when a run that was just admitted ends in one write.       *)
LEMMA RowStepAdvances ==
    ASSUME TypeOK, NEW r \in Runs, RowStep(r), TypeOK'
    PROVE  [RunContract!Next]_dbRun
<1> USE DEF TypeOK
<1>1. dbRun' = [dbRun EXCEPT ![r] = dbRun'[r]]
  BY DEF RowStep
<1>2. CASE dbRun'[r] = dbRun[r]
  BY <1>1, <1>2
<1>3. CASE dbRun[r] = Absent /\ dbRun'[r] = "admitted"
  <2>1. RunContract!Appear(r)
    BY <1>1, <1>3 DEF RunContract!Appear, RunContract!Absent, Absent
  <2> QED BY <2>1 DEF RunContract!Next
<1>4. CASE dbRun[r] \in {"admitted", "running"} /\ dbRun'[r] \in {"running", "succeeded", "failed"}
  <2>1. dbRun'[r] \in RunContract!Reachable(RunContract!RunTransitions, dbRun[r])
    BY <1>4 DEF RunContract!Reachable, RunContract!Successors, RunContract!RunTransitions
  <2>2. RunContract!Advance(r)
    BY <1>1, <1>4, <2>1 DEF RunContract!Advance, RunContract!Absent
  <2> QED BY <2>2 DEF RunContract!Next
<1> QED BY <1>2, <1>3, <1>4 DEF RowStep

(* The durable status of every run implements RunOutcome.                  *)
THEOREM OutcomesAlwaysKept ==
    ASSUME Orderly
    PROVE  Spec => ImplementsRunOutcome
<1>1. Init => RunContract!Init
  BY DEF Init, RunContract!Init, RunContract!Absent, Absent
<1>2. IInv /\ IInv' /\ OrderInv /\ [Next]_vars => [RunContract!Next]_dbRun
  <2> SUFFICES ASSUME IInv, IInv', OrderInv, [Next]_vars PROVE [RunContract!Next]_dbRun
    OBVIOUS
  <2>1. UNCHANGED dbRun \/ \E r \in Runs : RowStep(r)
    BY OrderStep
  <2> QED BY <2>1, RowStepAdvances DEF IInv, TypeInv
<1> QED BY <1>1, <1>2, Inductive, OrderAlways, PTL DEF Spec, ImplementsRunOutcome, RunContract!Spec

(* Only an activity that ends turns a run to failed by reconciliation.     *)
LEMMA OnlyFinishReconciles ==
    ASSUME Orderly, IInv, OrderInv, [Next]_vars, NEW q \in Runs, Reconciles(q)
    PROVE  FinishActivity(q)
<1> DEFINE Reported == act[q].phase = "working" /\ act'[q].phase = "reported"
           Failed == dbRun[q] # "failed" /\ dbRun'[q] = "failed"
<1>1. Reported /\ Failed
  BY DEF Reconciles
<1> HIDE DEF Reported, Failed
<1>2. ASSUME NEW r \in Runs, RequestStep(r) PROVE ~Reported
  BY <1>2 DEF Reported, RequestStep, PersistAdmitted, PlanReuse, CallStart, PostStartSync,
     Compensate, CancelSync, wfVars
<1>3. ASSUME NEW r \in Runs, UserStep(r) PROVE ~Reported
  <2>1. ~Terminate(r)
    BY DEF Terminate, Orderly
  <2> QED BY <1>3, <2>1 DEF Reported, UserStep, RuntimeRun, AdmitRun, SignalCancel, wfVars
<1>4. ASSUME NEW r \in Runs, WorkflowStep(r) \/ StartActivity(r) \/ LoseActivity(r)
      PROVE  ~Failed
  BY <1>4 DEF Failed, WorkflowStep, Follow, StartActivity, LoseActivity, dbVars
<1>5. ASSUME NEW r \in Runs, FinishActivity(r), r # q PROVE ~Reported
  BY <1>5 DEF Reported, FinishActivity, IInv, TypeInv, TypeOK
<1>6. ~RestartApi /\ ~UNCHANGED vars /\ zombies = {}
  BY <1>1 DEF RestartApi, vars, dbVars, Failed, OrderInv
<1>7. \A r \in Runs : ~TimeOutActivity(r)
  BY DEF TimeOutActivity, Orderly
<1>8. PICK r \in Runs : RequestStep(r) \/ WorkerStep(r) \/ UserStep(r) \/ FaultStep(r)
  BY <1>6 DEF Next
<1>9. FinishActivity(r)
  BY <1>1, <1>2, <1>3, <1>4, <1>7, <1>8 DEF WorkerStep, FaultStep
<1> QED BY <1>1, <1>5, <1>9

(* A run that reconciliation turns to failed can be resumed.               *)
LEMMA ReconciledStep ==
    ASSUME Orderly, IInv, OrderInv, [Next]_vars, NEW r \in Runs, Reconciles(r), OthersFailed(r)
    PROVE  dbJob' \in {"queued", "running"} \/ (dbJob' = "failed" /\ dbRetry'[r])
<1> DEFINE s == act[r].snap
<1>1. /\ wf[r].pc = "reconcile" /\ act[r].phase = "working"
      /\ dbRun[r] # "failed" /\ dbRun'[r] = "failed" /\ FinishActivity(r)
  BY OnlyFinishReconciles DEF Reconciles
<1>2. SyncFromWorker(r, ReconcileOutcome(s))
  BY <1>1 DEF FinishActivity, Raises, Outcomes, Current, Abandoned
<1>3. /\ s.run = dbRun[r] /\ s.node = dbNode[r] /\ s.job \in AtWork /\ plan[r] < N
      /\ HasOutput(dbNode[r], N) => dbRun[r] = "succeeded" \/ plan[r] = N
      /\ s.job = "succeeded" => \E q \in Runs : dbRun[q] = "succeeded"
  BY <1>1 DEF OrderInv, WorkOrder, JobOrder, SuccessSeen
<1>4. s.run \notin RunTerminal
  <2>1. s.run \in RunTerminal => dbRun'[r] = s.run
    BY <1>2 DEF SyncFromWorker, ReconcileOutcome, Outcome, IInv, TypeInv, TypeOK
  <2> QED BY <1>1, <1>3, <2>1
<1>5. s.job # "succeeded"
  BY <1>3, <1>4 DEF OthersFailed, RunTerminal, Absent
<1>6. /\ dbJob' = IF s.job = "running" THEN "failed" ELSE s.job
      /\ dbRetry'[r] = (dbRetry[r] \/ \E i \in Node : ~HasOutput(s.node, i))
  BY <1>2, <1>4 DEF SyncFromWorker, ReconcileOutcome, Outcome, IInv, TypeInv, TypeOK
<1>7. N \in Node /\ ~HasOutput(s.node, N)
  <2>1. N \in Nat \ {0} /\ plan[r] \in 0..N
    BY ConstantsAssumption DEF IInv, TypeInv, TypeOK
  <2> QED BY <1>3, <1>4, <2>1 DEF Node, RunTerminal
<1> QED BY <1>3, <1>5, <1>6, <1>7 DEF AtWork

(* Whatever is lost or retried, the run and its job can be taken up again. *)
THEOREM ReconciledAlwaysResumable ==
    ASSUME Orderly
    PROVE  Spec => ReconciledIsResumable
<1> DEFINE Resumable == \A r \in Runs :
             Reconciles(r) /\ OthersFailed(r) =>
                 \/ dbJob' \in {"queued", "running"}
                 \/ dbJob' = "failed" /\ dbRetry'[r]
<1>1. IInv /\ OrderInv /\ [Next]_vars => Resumable
  BY ReconciledStep
<1>2. IInv /\ OrderInv /\ [Next]_vars => [Resumable]_<<wf, act, dbVars>>
  BY <1>1
<1> HIDE DEF Resumable
<1> QED BY <1>2, Inductive, OrderAlways, PTL DEF Spec, ReconciledIsResumable, Resumable
=============================================================================
