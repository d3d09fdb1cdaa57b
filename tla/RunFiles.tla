------------------------------ MODULE RunFiles ------------------------------
(***************************************************************************)
(* The stored file of a generated video, for the runs of one job of the     *)
(* template seedance_t2v_v1, which are admitted one after another. A run    *)
(* generates the file, exports it as a finished video at the same address,  *)
(* and finishes. The file counts as ephemeral: it is deleted when the last  *)
(* node of a run is done and when a run is cancelled, unless the artifacts  *)
(* of that run show it to be a finished video. A run that resumes another   *)
(* takes over its address.                                                 *)
(***************************************************************************)
EXTENDS Naturals, StateMachines

CONSTANTS MaxJobRuns,  \* runs of the job
          StaleJob     \* whether the API may admit a run on a job status it remembers

ASSUME FileConstants == MaxJobRuns \in Nat /\ StaleJob \in BOOLEAN

VARIABLES
    jobStatus,   \* status of the job
    runStatus,   \* status of each run, "absent" before it is admitted
    resumed,     \* the run that a run resumes, 0 if none
    retryable,   \* runs that failed with a retryable error
    address,     \* whose file the video.rendered artifact of a run names, 0 if none
    exported,    \* runs with a video.finished artifact, their own or reused
    videos,      \* runs that made a finished video
    files        \* runs whose file is stored

fileVars == <<jobStatus, runStatus, resumed, retryable, address, exported, videos, files>>

JobRuns == 1 .. MaxJobRuns
Ended(r) == runStatus[r] \in {"absent", "succeeded", "failed", "cancelled"}

-----------------------------------------------------------------------------
(* Mutant: whatever the job went through, a failed run may be resumed.     *)
AdmittedAfterFailure(seen, mode, from) ==
    IF seen \in {"queued", "running"} THEN {seen}
    ELSE IF seen = "draft" \/ (mode = "resume" /\ from \in retryable) THEN {"queued"} ELSE {}

(* The job's status after a run is admitted in this mode on a status seen;  *)
(* none if it is refused.                                                  *)
AdmittedAs(seen, mode, from) ==
    IF seen \in {"queued", "running"} THEN {seen}
    ELSE IF \/ seen = "draft"
            \/ (seen = "succeeded" /\ mode = "resume" /\ runStatus[from] = "succeeded")
            \/ (seen = "failed" /\ mode = "retry" /\ runStatus[from] = "failed")
            \/ (seen = "failed" /\ mode = "resume" /\ from \in retryable)
         THEN {"queued"} ELSE {}

(* A run is submitted: a new one, or one that retries or resumes another.  *)
SubmitRun(r) ==
    /\ runStatus[r] = "absent" /\ \A q \in 1 .. r - 1 : runStatus[q] # "absent" /\ Ended(q)
    /\ \E mode \in IF r = 1 THEN {"new"} ELSE {"new", "retry", "resume"}, from \in JobRuns :
        /\ from < r \/ r = 1
        /\ \E seen \in {jobStatus} \cup (IF StaleJob /\ r > 1 THEN {"queued"} ELSE {}) :
            \E status \in AdmittedAs(seen, mode, from) : jobStatus' = status
        /\ resumed' = [resumed EXCEPT ![r] = IF mode = "resume" THEN from ELSE 0]
    /\ runStatus' = [runStatus EXCEPT ![r] = "admitted"]
    /\ UNCHANGED <<retryable, address, exported, videos, files>>

(* The reuse plan keeps all that the source has, if the artifacts it names  *)
(* are its own. Of a source that had resumed another itself nothing is      *)
(* kept, or the plan cannot be applied and the run stays as it is. A plan   *)
(* that keeps every node leaves nothing to run.                            *)
ApplyReusePlan(r) ==
    LET from == resumed[r]
    IN  /\ runStatus[r] = "admitted" /\ from # 0 /\ address[r] = 0
        /\ address[from] = from
        /\ address' = [address EXCEPT ![r] = from]
        /\ exported' = IF from \in exported THEN exported \cup {r} ELSE exported
        /\ runStatus' = [runStatus EXCEPT ![r] = IF runStatus[from] = "succeeded" THEN @ ELSE "running"]
        /\ jobStatus' = IF runStatus[from] = "succeeded" THEN jobStatus ELSE "running"
        /\ UNCHANGED <<resumed, retryable, videos, files>>

(* The first nodes, when nothing is reused: SeedanceGenerateVideo.          *)
GenerateVideo(r) ==
    /\ runStatus[r] = "admitted" /\ address[r] = 0
    /\ resumed[r] # 0 => address[resumed[r]] # resumed[r]
    /\ runStatus' = [runStatus EXCEPT ![r] = "running"]
    /\ jobStatus' = "running"
    /\ address' = [address EXCEPT ![r] = r]
    /\ files' = files \cup {r}
    /\ UNCHANGED <<resumed, retryable, exported, videos>>

(* ExportSeedanceVideo: a durable artifact and a finished video at the      *)
(* address of the rendered one.                                            *)
ExportVideo(r) ==
    /\ runStatus[r] = "running" /\ address[r] # 0 /\ r \notin exported
    /\ exported' = exported \cup {r}
    /\ videos' = videos \cup {r}
    /\ UNCHANGED <<jobStatus, runStatus, resumed, retryable, address, files>>

(* What gc_ephemeral_artifacts leaves of the files.                        *)
Collected(r) == IF r \in exported THEN files ELSE files \ {address[r]}

(* FinalizeRunReport and the completion of the run.                        *)
FinalizeRun(r) ==
    /\ runStatus[r] = "running" /\ r \in exported
    /\ files' = Collected(r)
    /\ runStatus' = [runStatus EXCEPT ![r] = "succeeded"]
    /\ jobStatus' = "succeeded"
    /\ UNCHANGED <<resumed, retryable, address, exported, videos>>

(* A node fails, or its worker is lost, which is retryable. The files stay. *)
FailRun(r) ==
    /\ runStatus[r] \in {"admitted", "running"}
    /\ runStatus' = [runStatus EXCEPT ![r] = "failed"]
    /\ jobStatus' = "failed"
    /\ retryable' \in {retryable, retryable \cup {r}}
    /\ UNCHANGED <<resumed, address, exported, videos, files>>

(* _mark_cancelled.                                                        *)
CancelOne(r) ==
    /\ runStatus[r] \in {"admitted", "running"}
    /\ runStatus' = [runStatus EXCEPT ![r] = "cancelled"]
    /\ jobStatus' = "cancelled"
    /\ files' = Collected(r)
    /\ UNCHANGED <<resumed, retryable, address, exported, videos>>

-----------------------------------------------------------------------------
FileInit ==
    /\ jobStatus = "draft"
    /\ runStatus = [r \in JobRuns |-> "absent"]
    /\ resumed = [r \in JobRuns |-> 0]
    /\ address = [r \in JobRuns |-> 0]
    /\ retryable = {} /\ exported = {} /\ videos = {} /\ files = {}

FileNext ==
    \E r \in JobRuns :
        \/ SubmitRun(r) \/ ApplyReusePlan(r)
        \/ GenerateVideo(r) \/ ExportVideo(r) \/ FinalizeRun(r)
        \/ FailRun(r) \/ CancelOne(r)

FileSpec == FileInit /\ [][FileNext]_fileVars

-----------------------------------------------------------------------------
FileTypeOK ==
    /\ jobStatus \in {"draft", "queued", "running", "succeeded", "failed", "cancelled"}
    /\ runStatus \in [JobRuns -> {"absent", "admitted", "running", "succeeded", "failed", "cancelled"}]
    /\ resumed \in [JobRuns -> 0 .. MaxJobRuns]
    /\ address \in [JobRuns -> 0 .. MaxJobRuns]
    /\ {retryable, exported, videos, files} \subseteq SUBSET JobRuns

(* A run exports a video whose file is there: the prefix that a resume      *)
(* reuses was not collected at the end of another run (digital_human.py     *)
(* lines 731-737).                                                         *)
ExportHasFile == \A r \in JobRuns : runStatus[r] = "running" /\ address[r] # 0 => address[r] \in files

(* "Never delete an object a durable artifact still points at": the file of *)
(* a finished video stays (ephemeral_gc.py line 35).                       *)
FinishedHasFile == \A r \in videos : address[r] \in files
=============================================================================
