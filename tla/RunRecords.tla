----------------------------- MODULE RunRecords -----------------------------
(***************************************************************************)
(* The runs of one job, their deletion, and the job's active_run_id.       *)
(*                                                                         *)
(* The column names a run without a foreign key. It is written by the API  *)
(* from its memory, by an activity from the snapshot it loaded, and by     *)
(* delete_run_record. create_run looks up the run it names, and fails when *)
(* there is none. Statuses are open or ended; how a run gets from one to   *)
(* the other, and what its rows contain, is the subject of RunLifecycle.   *)
(***************************************************************************)
EXTENDS Integers, FiniteSets, FiniteSetsExt

CONSTANTS
    MaxRuns,       \* runs that are created, a bound
    OverlapRuns    \* whether a run may be created while another is open

ASSUME RecordConstants ==
    /\ MaxRuns \in Nat \ {0}
    /\ OverlapRuns \in BOOLEAN

VARIABLES
    runRow,      \* the runs: those created, and what their rows say
    active,      \* active_run_id of the job row, 0 when there is no job
    memory,      \* what the API remembers of the runs
    memActive,   \* active_run_id of the job it remembers, 0 for none
    snapshot     \* active_run_id in the snapshot of a run's activity, 0 for none

recordVars == <<runRow, active, memory, memActive, snapshot>>

RunIds == 1..MaxRuns

RecordTypeOK ==
    /\ runRow \in [RunIds -> {"none", "open", "ended", "deleted"}]
    /\ active \in 0..MaxRuns
    /\ memory \in [RunIds -> {"unknown", "open", "ended"}]
    /\ memActive \in 0..MaxRuns
    /\ snapshot \in [RunIds -> 0..MaxRuns]

RecordInit ==
    /\ runRow = [r \in RunIds |-> "none"]
    /\ active = 0
    /\ memory = [r \in RunIds |-> "unknown"]
    /\ memActive = 0
    /\ snapshot = [r \in RunIds |-> 0]

-----------------------------------------------------------------------------
StoredRuns == {r \in RunIds : runRow[r] \in {"open", "ended"}}
Known == {r \in RunIds : memory[r] # "unknown"}

(* The runs of a job in the order they were created.                       *)
Latest(S) == Max({0} \cup S)

(* The first run comes with its job; the others retry or resume a run that *)
(* the API remembers.                                                      *)
CreateRun(r) ==
    /\ runRow[r] = "none" /\ \A s \in 1..(r - 1) : runRow[s] # "none"
    /\ r = 1 \/ Known # {}
    /\ OverlapRuns \/ \A s \in RunIds : runRow[s] # "open"
    /\ runRow' = [runRow EXCEPT ![r] = "open"]
    /\ active' = r
    /\ memory' = [memory EXCEPT ![r] = "open"]
    /\ memActive' = r
    /\ UNCHANGED snapshot

(* _runtime_run: what the API does not remember it loads, with the job.    *)
LoadRun(r) ==
    /\ memory[r] = "unknown" /\ r \in StoredRuns
    /\ memory' = [memory EXCEPT ![r] = runRow[r]]
    /\ memActive' = active
    /\ UNCHANGED <<runRow, active, snapshot>>

StartActivity(r) ==
    /\ runRow[r] = "open" /\ snapshot[r] = 0
    /\ snapshot' = [snapshot EXCEPT ![r] = active]
    /\ UNCHANGED <<runRow, active, memory, memActive>>

(* The activity writes the job as it loaded it.                            *)
FinishActivity(r) ==
    /\ snapshot[r] # 0
    /\ active' = snapshot[r]
    /\ runRow' \in {runRow, [runRow EXCEPT ![r] = "ended"]}
    /\ snapshot' = [snapshot EXCEPT ![r] = 0]
    /\ UNCHANGED <<memory, memActive>>

(* A forced cancel ends the run in memory, and writes run and job from it. *)
CancelRun(r) ==
    /\ memory[r] = "open" /\ snapshot[r] = 0
    /\ memory' = [memory EXCEPT ![r] = "ended"]
    /\ runRow' = [runRow EXCEPT ![r] = "ended"]
    /\ active' = memActive
    /\ UNCHANGED <<memActive, snapshot>>

ForgetRunOnly(r) ==   \* mutant: the job in memory keeps naming the run
    /\ memory' = [memory EXCEPT ![r] = "unknown"]
    /\ UNCHANGED memActive

(* _delete_run_from_memory                                                 *)
ForgetRun(r) ==
    /\ memory' = [memory EXCEPT ![r] = "unknown"]
    /\ memActive' = IF memActive = 0 THEN 0 ELSE Latest(Known \ {r})

(* The memory of the API decides, then the status of the row.              *)
DeleteRun(r) ==
    /\ memory[r] = "ended" /\ runRow[r] = "ended"
    /\ runRow' = [runRow EXCEPT ![r] = "deleted"]
    /\ active' = Latest(StoredRuns \ {r})
    /\ ForgetRun(r)
    /\ UNCHANGED snapshot

RestartApi ==
    /\ memory' = [r \in RunIds |-> "unknown"]
    /\ memActive' = 0
    /\ UNCHANGED <<runRow, active, snapshot>>

RecordNext ==
    \/ \E r \in RunIds :
          \/ CreateRun(r) \/ LoadRun(r) \/ StartActivity(r) \/ FinishActivity(r)
          \/ CancelRun(r) \/ DeleteRun(r)
    \/ RestartApi

RecordSpec == RecordInit /\ [][RecordNext]_recordVars

-----------------------------------------------------------------------------
(* A job has a run as long as it exists, and names one of them: create_run *)
(* can take its previous run up, whichever runs were deleted, and from     *)
(* whatever copy the job was written last.                                 *)
ActiveRunExists ==
    /\ active = 0 <=> StoredRuns = {}
    /\ active # 0 => active \in StoredRuns
=============================================================================
