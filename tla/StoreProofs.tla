---------------------------- MODULE StoreProofs -----------------------------
(***************************************************************************)
(* Proofs about the modules of what the API stores: RunFiles, CaseRubric,  *)
(* RunRecords, FinishedVideos and EventStream, for every number of runs,   *)
(* readers, proposals, writers, events and replicas, and about             *)
(* SelectionReservations, for every number of runs, assets and attempts,   *)
(* every TTL and every set of faults.                                      *)
(***************************************************************************)
EXTENDS RunFiles, CaseRubric, RunRecords, FinishedVideos, EventStream, SelectionReservations, FiniteSums

-----------------------------------------------------------------------------
(* RunFiles: a reused prefix finds its files                               *)

(* Runs are admitted one after another, each when the earlier have ended.   *)
AdmittedInOrder ==
    \A r \in JobRuns : runStatus[r] = "absent" => \A q \in JobRuns : q > r => runStatus[q] = "absent"
OneOpenRun == \A r, q \in JobRuns : ~Ended(r) /\ ~Ended(q) => r = q

(* Only a cancellation takes files away, and nothing runs after it.         *)
CancelledIsOver == jobStatus = "cancelled" => \A r \in JobRuns : Ended(r)
FilesKept ==
    jobStatus # "cancelled" => \A r \in JobRuns : address[r] # 0 => address[r] \in files

FileInv ==
    FileTypeOK /\ AdmittedInOrder /\ OneOpenRun /\ CancelledIsOver /\ FilesKept

-----------------------------------------------------------------------------
(* Initially no run is there.                                              *)
LEMMA FileInvInit == FileInit => FileInv
<1> SUFFICES ASSUME FileInit PROVE FileInv
  OBVIOUS
<1>1. 0 \in 0 .. MaxJobRuns
  BY FileConstants
<1>2. FileTypeOK
  BY <1>1 DEF FileInit, FileTypeOK, JobRuns
<1>3. AdmittedInOrder /\ OneOpenRun /\ CancelledIsOver /\ FilesKept
  BY DEF FileInit, AdmittedInOrder, OneOpenRun, CancelledIsOver, FilesKept, Ended
<1> QED BY <1>2, <1>3 DEF FileInv

(* A job that was cancelled admits no run: the API decides on its status.   *)
LEMMA SubmitKeeps ==
    ASSUME ~StaleJob, FileInv, NEW r \in JobRuns, SubmitRun(r)
    PROVE  FileInv'
<1> USE FileConstants DEF FileInv
<1>1. PICK mode \in {"new", "retry", "resume"}, from \in JobRuns :
        /\ jobStatus' \in AdmittedAs(jobStatus, mode, from)
        /\ resumed' = [resumed EXCEPT ![r] = IF mode = "resume" THEN from ELSE 0]
  <2>1. PICK mode \in IF r = 1 THEN {"new"} ELSE {"new", "retry", "resume"}, from \in JobRuns :
          /\ \E seen \in {jobStatus} : \E status \in AdmittedAs(seen, mode, from) : jobStatus' = status
          /\ resumed' = [resumed EXCEPT ![r] = IF mode = "resume" THEN from ELSE 0]
    BY DEF SubmitRun
  <2> QED BY <2>1
<1>2. jobStatus # "cancelled" /\ jobStatus' \in {"queued", "running"}
  BY <1>1 DEF AdmittedAs
<1>3. /\ runStatus' = [runStatus EXCEPT ![r] = "admitted"]
      /\ UNCHANGED <<retryable, address, exported, videos, files>>
      /\ \A q \in 1 .. r - 1 : runStatus[q] # "absent" /\ Ended(q)
      /\ runStatus[r] = "absent"
  BY DEF SubmitRun
<1>4. /\ runStatus'[r] = "admitted" /\ \A q \in JobRuns \ {r} : runStatus'[q] = runStatus[q]
      /\ \A q \in JobRuns : q # r => q < r \/ q > r
      /\ \A q \in JobRuns : q < r => q \in 1 .. r - 1
  BY <1>3 DEF FileTypeOK, JobRuns
<1>5. FileTypeOK'
  <2>1. resumed' \in [JobRuns -> 0 .. MaxJobRuns]
    BY <1>1 DEF FileTypeOK, JobRuns
  <2> QED BY <1>2, <1>3, <2>1 DEF FileTypeOK
<1>6. \A q \in JobRuns \ {r} : Ended(q) /\ Ended(q)'
  BY <1>3, <1>4 DEF AdmittedInOrder, Ended
<1>7. AdmittedInOrder'
  BY <1>3, <1>4 DEF AdmittedInOrder, JobRuns
<1>8. OneOpenRun' /\ CancelledIsOver' /\ FilesKept'
  BY <1>2, <1>3, <1>6 DEF OneOpenRun, CancelledIsOver, FilesKept
<1> QED BY <1>5, <1>7, <1>8

(* What the open run does short of a cancellation, which keeps every file.  *)
LEMMA OpenRunKeeps ==
    ASSUME FileInv, NEW r \in JobRuns, ~Ended(r),
           NEW status \in {"admitted", "running", "succeeded", "failed"},
           runStatus' = [runStatus EXCEPT ![r] = status],
           jobStatus' \in {"draft", "queued", "running", "succeeded", "failed"},
           NEW at \in 0 .. MaxJobRuns,
           address' = [address EXCEPT ![r] = at],
           files \subseteq files', at # 0 => at \in files',
           resumed' = resumed,
           {retryable', exported', videos', files'} \subseteq SUBSET JobRuns
    PROVE  FileInv'
<1> USE DEF FileInv
<1>1. /\ runStatus'[r] = status /\ \A q \in JobRuns \ {r} : runStatus'[q] = runStatus[q]
      /\ address'[r] = at /\ \A q \in JobRuns \ {r} : address'[q] = address[q]
  BY DEF FileTypeOK
<1>2. FileTypeOK'
  BY DEF FileTypeOK
<1>3. \A q \in JobRuns \ {r} : Ended(q) /\ Ended(q)'
  BY <1>1 DEF OneOpenRun, Ended
<1>4. AdmittedInOrder'
  BY <1>1 DEF AdmittedInOrder, Ended
<1>5. jobStatus # "cancelled"
  BY DEF CancelledIsOver
<1>6. OneOpenRun' /\ CancelledIsOver' /\ FilesKept'
  BY <1>1, <1>3, <1>5 DEF OneOpenRun, CancelledIsOver, FilesKept
<1> QED BY <1>2, <1>4, <1>6

(* A cancellation, after which no run is open.                             *)
LEMMA CancelKeeps ==
    ASSUME FileInv, NEW r \in JobRuns, CancelOne(r)
    PROVE  FileInv'
<1> USE DEF FileInv
<1>1. /\ ~Ended(r) /\ jobStatus' = "cancelled" /\ runStatus' = [runStatus EXCEPT ![r] = "cancelled"]
      /\ UNCHANGED <<resumed, retryable, address, exported, videos>>
      /\ files' \subseteq files
  BY DEF CancelOne, Ended, Collected
<1>2. runStatus'[r] = "cancelled" /\ \A q \in JobRuns \ {r} : runStatus'[q] = runStatus[q]
  BY <1>1 DEF FileTypeOK
<1>3. FileTypeOK'
  BY <1>1 DEF FileTypeOK
<1>4. \A q \in JobRuns : Ended(q)'
  BY <1>1, <1>2 DEF OneOpenRun, Ended
<1>5. AdmittedInOrder'
  BY <1>1, <1>2 DEF AdmittedInOrder, Ended
<1> QED BY <1>1, <1>3, <1>4, <1>5 DEF OneOpenRun, CancelledIsOver, FilesKept

(* Every step keeps the invariant.                                         *)
LEMMA FileStep ==
    ASSUME ~StaleJob, FileInv, [FileNext]_fileVars
    PROVE  FileInv'
<1> USE FileConstants
<1>0. /\ \A r \in JobRuns : r \in 0 .. MaxJobRuns /\ address[r] \in 0 .. MaxJobRuns
      /\ {retryable, exported, videos, files} \subseteq SUBSET JobRuns
      /\ \A r \in JobRuns : address = [address EXCEPT ![r] = address[r]]
      /\ \A r \in JobRuns : runStatus = [runStatus EXCEPT ![r] = runStatus[r]]
      /\ \A r \in JobRuns :
            runStatus[r] \in {"absent", "admitted", "running", "succeeded", "failed", "cancelled"}
      /\ jobStatus \in {"draft", "queued", "running", "succeeded", "failed", "cancelled"}
  BY DEF FileInv, FileTypeOK, JobRuns
<1>1. ASSUME NEW r \in JobRuns, ~Ended(r)
      PROVE  /\ jobStatus # "cancelled" /\ (address[r] # 0 => address[r] \in files)
             /\ runStatus[r] \in {"admitted", "running"}
  BY <1>0, <1>1 DEF FileInv, CancelledIsOver, FilesKept, Ended
<1>2. ASSUME NEW r \in JobRuns, ApplyReusePlan(r) PROVE FileInv'
  <2> DEFINE from == resumed[r]
  <2>1. /\ ~Ended(r) /\ from \in 0 .. MaxJobRuns /\ from # 0 /\ from \in JobRuns
        /\ address[from] = from /\ address' = [address EXCEPT ![r] = from]
        /\ UNCHANGED <<resumed, retryable, videos, files>>
        /\ exported' \subseteq JobRuns
    BY <1>0, <1>2 DEF ApplyReusePlan, FileInv, FileTypeOK, JobRuns, Ended
  <2>2. from \in files
    BY <1>1, <2>1 DEF FileInv, FilesKept
  <2>3. CASE runStatus[from] = "succeeded"
    <3>1. runStatus' = [runStatus EXCEPT ![r] = runStatus[r]] /\ jobStatus' = jobStatus
      BY <1>2, <2>3 DEF ApplyReusePlan
    <3>2. /\ runStatus[r] \in {"admitted", "running", "succeeded", "failed"}
          /\ jobStatus' \in {"draft", "queued", "running", "succeeded", "failed"}
          /\ {retryable', exported', videos', files'} \subseteq SUBSET JobRuns
      BY <1>0, <1>1, <2>1, <3>1
    <3> QED BY <2>1, <2>2, <3>1, <3>2, OpenRunKeeps
  <2>4. CASE runStatus[from] # "succeeded"
    <3>1. /\ runStatus' = [runStatus EXCEPT ![r] = "running"] /\ jobStatus' = "running"
          /\ {retryable', exported', videos', files'} \subseteq SUBSET JobRuns
      BY <1>0, <1>2, <2>1, <2>4 DEF ApplyReusePlan
    <3> QED BY <2>1, <2>2, <3>1, OpenRunKeeps
  <2> QED BY <2>3, <2>4
<1>3. ASSUME NEW r \in JobRuns, GenerateVideo(r) PROVE FileInv'
  <2>1. /\ ~Ended(r) /\ r \in 0 .. MaxJobRuns /\ files \subseteq files' /\ r \in files'
        /\ {retryable', exported', videos', files'} \subseteq SUBSET JobRuns
    BY <1>0, <1>3 DEF GenerateVideo, Ended
  <2> QED BY <1>3, <2>1, OpenRunKeeps DEF GenerateVideo
<1>4. ASSUME NEW r \in JobRuns, ExportVideo(r) PROVE FileInv'
  <2>1. /\ ~Ended(r) /\ runStatus' = [runStatus EXCEPT ![r] = "running"]
        /\ address' = [address EXCEPT ![r] = address[r]]
        /\ {retryable', exported', videos', files'} \subseteq SUBSET JobRuns
        /\ UNCHANGED <<resumed, files, jobStatus>>
    BY <1>0, <1>4 DEF ExportVideo, Ended
  <2> QED BY <1>0, <1>1, <2>1, OpenRunKeeps
<1>5. ASSUME NEW r \in JobRuns, FinalizeRun(r) PROVE FileInv'
  <2>1. /\ ~Ended(r) /\ files' = files /\ address' = [address EXCEPT ![r] = address[r]]
        /\ runStatus' = [runStatus EXCEPT ![r] = "succeeded"] /\ jobStatus' = "succeeded"
        /\ {retryable', exported', videos', files'} \subseteq SUBSET JobRuns
        /\ UNCHANGED resumed
    BY <1>0, <1>5 DEF FinalizeRun, Ended, Collected
  <2> QED BY <1>0, <1>1, <2>1, OpenRunKeeps
<1>6. ASSUME NEW r \in JobRuns, FailRun(r) PROVE FileInv'
  <2>1. /\ ~Ended(r) /\ address' = [address EXCEPT ![r] = address[r]]
        /\ runStatus' = [runStatus EXCEPT ![r] = "failed"] /\ jobStatus' = "failed"
        /\ {retryable', exported', videos', files'} \subseteq SUBSET JobRuns
        /\ UNCHANGED <<resumed, files>>
    BY <1>0, <1>6 DEF FailRun, Ended
  <2> QED BY <1>0, <1>1, <2>1, OpenRunKeeps
<1>7. CASE UNCHANGED fileVars
  BY <1>7 DEF fileVars, FileInv, FileTypeOK, AdmittedInOrder, OneOpenRun, CancelledIsOver, FilesKept, Ended
<1> QED BY <1>2, <1>3, <1>4, <1>5, <1>6, <1>7, SubmitKeeps, CancelKeeps DEF FileNext

-----------------------------------------------------------------------------
(* As long as runs are admitted on the stored status of their job, a run    *)
(* that goes on from a reused prefix finds the file, however often the job  *)
(* was retried and resumed (jobs_runs.py 89-143, ephemeral_gc.py 33-69).    *)
THEOREM ExportAlwaysHasFile == ASSUME ~StaleJob PROVE FileSpec => []ExportHasFile
<1>1. FileInv /\ [FileNext]_fileVars => FileInv'
  BY FileStep
<1>2. FileInv => ExportHasFile
  BY DEF FileInv, CancelledIsOver, FilesKept, ExportHasFile, Ended
<1> QED BY <1>1, <1>2, FileInvInit, PTL DEF FileSpec

-----------------------------------------------------------------------------
(* CaseRubric: one active card                                             *)

CardRequests == CardReaders \cup Bumps \cup Decisions
Points == {"start", "cold_start", "fit", "propose", "accept", "reject", "activate", "done"}

Present(c) == card[c].status # "absent"

(* What a request refers to while it is about to use it. A card that is     *)
(* there stays there.                                                      *)
RefersToRows ==
    /\ doing \in [CardRequests -> [at : Points, on : Cards \cup {"none"}, saw : Cards \cup {"none"}]]
    /\ \A q \in CardRequests :
        /\ doing[q].at = "propose" => doing[q].on \in Cards
        /\ doing[q].at \in {"accept", "reject", "activate"} => doing[q].on \in Bumps
        /\ doing[q].at = "activate" => doing[q].saw \in Cards /\ Present(doing[q].saw)

AtMostOneActive == \A c, d \in Active : c = d
SomeActive == (\E c \in Cards : Present(c)) => Active # {}

RubricInv == RubricTypeOK /\ RefersToRows /\ AtMostOneActive /\ SomeActive

-----------------------------------------------------------------------------
(* Initially there is no card.                                             *)
LEMMA RubricInvInit == RubricInit => RubricInv
<1> SUFFICES ASSUME RubricInit PROVE RubricInv
  OBVIOUS
<1>1. \A c \in Cards : card[c] = NoCard /\ ~Present(c)
  BY DEF RubricInit, NoCard, Present
<1>2. \A q \in CardRequests : doing[q] = NewRequest /\ doing[q].at = "start"
  BY DEF RubricInit, NewRequest, CardRequests
<1>3. RubricTypeOK
  BY <1>2 DEF RubricInit, RubricTypeOK, NoCard, NoProposal, CardRequests
<1>4. RefersToRows
  BY <1>2 DEF RubricInit, RefersToRows, NewRequest, Points, CardRequests
<1>5. AtMostOneActive /\ SomeActive
  BY <1>1 DEF AtMostOneActive, SomeActive, Active, Present
<1> QED BY <1>3, <1>4, <1>5 DEF RubricInv

(* A request that moves on without reading or writing a card.               *)
LEMMA GotoKeeps ==
    ASSUME RubricInv, NEW q \in CardRequests, NEW at \in Points \ {"propose", "accept", "reject", "activate"},
           Goto(q, at), card' = card,
           proposal' \in [Bumps -> [status : {"absent", "proposed", "accepted", "rejected"}, base : Nat]]
    PROVE  RubricInv'
<1>1. /\ doing' = [doing EXCEPT ![q].at = at]
      /\ doing'[q].at = at /\ \A o \in CardRequests \ {q} : doing'[o] = doing[o]
  BY DEF Goto, RubricInv, RefersToRows
<1>2. RubricTypeOK'
  BY <1>1 DEF RubricInv, RubricTypeOK, RefersToRows, Points
<1>3. RefersToRows'
  BY <1>1 DEF RubricInv, RefersToRows, Present
<1>4. AtMostOneActive' /\ SomeActive'
  BY DEF RubricInv, AtMostOneActive, SomeActive, Active, Present
<1> QED BY <1>2, <1>3, <1>4 DEF RubricInv

(* A request that reads rows and goes on to use them.                      *)
LEMMA ReadKeeps ==
    ASSUME RubricInv, NEW q \in CardRequests, UNCHANGED <<card, proposal>>,
           NEW new \in [at : Points, on : Cards \cup {"none"}, saw : Cards \cup {"none"}],
           doing' = [doing EXCEPT ![q] = new],
           new.at = "propose" => new.on \in Cards,
           new.at \in {"accept", "reject", "activate"} => new.on \in Bumps,
           new.at = "activate" => new.saw \in Active
    PROVE  RubricInv'
<1>1. doing'[q] = new /\ \A o \in CardRequests \ {q} : doing'[o] = doing[o]
  BY DEF RubricInv, RefersToRows
<1>2. RubricTypeOK'
  <2>1. \A o \in DOMAIN doing' : doing'[o].at \in Points
    BY <1>1 DEF RubricInv, RefersToRows
  <2> QED BY <2>1 DEF RubricInv, RubricTypeOK, Points
<1>3. RefersToRows'
  BY <1>1 DEF RubricInv, RefersToRows, Present, Active
<1>4. AtMostOneActive' /\ SomeActive'
  BY DEF RubricInv, AtMostOneActive, SomeActive, Active, Present
<1> QED BY <1>2, <1>3, <1>4 DEF RubricInv

(* A cold-start card is stored where there is none.                         *)
LEMMA ColdStartKeeps ==
    ASSUME RubricInv, NEW q \in CardReaders, StoreColdStart(q)
    PROVE  RubricInv'
<1>1. CASE Active # {}
  BY <1>1, GotoKeeps DEF StoreColdStart, RubricInv, RubricTypeOK, Points, CardRequests
<1>2. CASE Active = {}
  <2> DEFINE new == [version |-> 1, status |-> "active"]
  <2>1. /\ q \in Cards /\ q \in CardRequests
        /\ card' = [card EXCEPT ![q] = new] /\ proposal' = proposal
        /\ doing' = [doing EXCEPT ![q].at = "done"]
    BY <1>2 DEF StoreColdStart, Cards, CardRequests, Goto
  <2>2. /\ card'[q].status = "active" /\ \A c \in Cards \ {q} : card'[c] = card[c]
        /\ doing'[q].at = "done" /\ \A o \in CardRequests \ {q} : doing'[o] = doing[o]
    BY <2>1 DEF RubricInv, RubricTypeOK, RefersToRows
  <2>3. RubricTypeOK'
    BY <2>1, <2>2 DEF RubricInv, RubricTypeOK, RefersToRows
  <2>4. RefersToRows'
    BY <2>1, <2>2 DEF RubricInv, RefersToRows, Present, Points
  <2>5. \A c \in Cards \ {q} : card[c].status = "absent"
    BY <1>2 DEF RubricInv, SomeActive, Present
  <2>6. AtMostOneActive' /\ SomeActive'
    BY <2>1, <2>2, <2>5 DEF AtMostOneActive, SomeActive, Active, Present
  <2> QED BY <2>3, <2>4, <2>6 DEF RubricInv
<1> QED BY <1>1, <1>2

(* The candidate of an accepted proposal supersedes the one active card, or *)
(* nothing happens.                                                        *)
LEMMA ActivateKeeps ==
    ASSUME RubricInv, NEW d \in Decisions, Activate(d)
    PROVE  RubricInv'
<1> DEFINE b == doing[d].on  old == doing[d].saw
<1>1. /\ d \in CardRequests /\ doing[d].at = "activate" /\ Goto(d, "done")
      /\ b \in Bumps /\ b \in Cards /\ old \in Cards /\ Present(old)
  BY DEF Activate, RubricInv, RefersToRows, CardRequests, Cards
<1>2. CASE Refused(d)
  BY <1>1, <1>2, GotoKeeps DEF Activate, RubricInv, RubricTypeOK, Points
<1>3. CASE ~Refused(d)
  <2>1. card[b].status = "absent" /\ Active \subseteq {old}
    BY <1>3 DEF Refused, CandidateExists
  <2>2. /\ card' = [card EXCEPT ![old].status = "superseded",
                                ![b] = [version |-> proposal[b].base + 1, status |-> "active"]]
        /\ proposal' = [proposal EXCEPT ![b].status = "accepted"]
        /\ doing' = [doing EXCEPT ![d].at = "done"]
    BY <1>3 DEF Activate, Goto
  <2>3. old # b
    BY <1>1, <2>1 DEF Present
  <2>4. /\ card'[old].status = "superseded" /\ card'[b].status = "active"
        /\ \A c \in Cards \ {old, b} : card'[c] = card[c]
        /\ doing'[d].at = "done" /\ \A o \in CardRequests \ {d} : doing'[o] = doing[o]
    BY <1>1, <2>2, <2>3 DEF RubricInv, RubricTypeOK, RefersToRows
  <2>5. RubricTypeOK'
    <3>1. proposal[b].base + 1 \in Nat
      BY <1>1 DEF RubricInv, RubricTypeOK
    <3>2. card' \in [Cards -> [version : Nat, status : {"absent", "active", "superseded"}]]
      BY <1>1, <2>2, <3>1 DEF RubricInv, RubricTypeOK
    <3>3. proposal' \in [Bumps -> [status : {"absent", "proposed", "accepted", "rejected"}, base : Nat]]
      BY <1>1, <2>2 DEF RubricInv, RubricTypeOK
    <3>4. \A o \in DOMAIN doing' : doing'[o].at \in Points
      BY <2>2, <2>4 DEF RubricInv, RefersToRows, Points
    <3> QED BY <3>2, <3>3, <3>4 DEF RubricTypeOK, Points
  <2>6. RefersToRows'
    <3>1. \A c \in Cards : Present(c) => card'[c].status # "absent"
      BY <2>4 DEF Present
    <3> QED BY ZenonT(60), <1>1, <2>2, <2>4, <3>1 DEF RubricInv, RefersToRows, Present, Points
  <2>7. Active' = {b}
    BY <1>1, <2>1, <2>3, <2>4 DEF Active
  <2>8. AtMostOneActive' /\ SomeActive'
    BY <2>7 DEF AtMostOneActive, SomeActive
  <2> QED BY <2>5, <2>6, <2>8 DEF RubricInv
<1> QED BY <1>2, <1>3

(* Every step keeps the invariant.                                         *)
LEMMA RubricStep == RubricInv /\ [RubricNext]_rubricVars => RubricInv'
<1> SUFFICES ASSUME RubricInv, [RubricNext]_rubricVars PROVE RubricInv'
  OBVIOUS
<1>0. /\ CardReaders \cup Bumps \cup Decisions = CardRequests
      /\ proposal \in [Bumps -> [status : {"absent", "proposed", "accepted", "rejected"}, base : Nat]]
      /\ card \in [Cards -> [version : Nat, status : {"absent", "active", "superseded"}]]
  BY DEF CardRequests, RubricInv, RubricTypeOK
<1>1. ASSUME NEW q \in CardReaders, LookForCard(q) PROVE RubricInv'
  <2>1. Goto(q, "cold_start") \/ Goto(q, "done")
    BY <1>1 DEF LookForCard
  <2> QED BY <1>0, <1>1, <2>1, GotoKeeps DEF LookForCard, Points
<1>2. ASSUME NEW b \in Bumps, LookForProposal(b) PROVE RubricInv'
  <2>1. Goto(b, "fit") \/ Goto(b, "done")
    BY <1>2 DEF LookForProposal
  <2> QED BY <1>0, <1>2, <2>1, GotoKeeps DEF LookForProposal, Points
<1>3. ASSUME NEW b \in Bumps, FitCandidate(b) PROVE RubricInv'
  <2>1. CASE Goto(b, "done")
    BY <1>0, <1>3, <2>1, GotoKeeps DEF FitCandidate, Points
  <2>2. ASSUME NEW c \in Active,
               doing' = [doing EXCEPT ![b] = [at |-> "propose", on |-> c, saw |-> "none"]]
        PROVE  RubricInv'
    <3> DEFINE new == [at |-> "propose", on |-> c, saw |-> "none"]
    <3>1. /\ new \in [at : Points, on : Cards \cup {"none"}, saw : Cards \cup {"none"}]
          /\ new.at = "propose" /\ new.on \in Cards
      BY DEF Active, Points
    <3> QED BY <1>0, <1>3, <2>2, <3>1, ReadKeeps DEF FitCandidate
  <2> QED BY <1>3, <2>1, <2>2 DEF FitCandidate
<1>4. ASSUME NEW b \in Bumps, Propose(b) PROVE RubricInv'
  <2>1. doing[b].on \in Cards
    BY <1>0, <1>4 DEF Propose, RubricInv, RefersToRows
  <2>2. proposal' \in [Bumps -> [status : {"absent", "proposed", "accepted", "rejected"}, base : Nat]]
    BY <1>0, <1>4, <2>1 DEF Propose
  <2> QED BY <1>0, <1>4, <2>2, GotoKeeps DEF Propose, Points
<1>5. ASSUME NEW d \in Decisions, ReadProposal(d) PROVE RubricInv'
  <2>1. PICK b \in Bumps, decision \in {"accept", "reject"} :
          doing' = [doing EXCEPT ![d] = [at |-> decision, on |-> b, saw |-> "none"]]
    BY <1>5 DEF ReadProposal
  <2> DEFINE new == [at |-> decision, on |-> b, saw |-> "none"]
  <2>2. /\ new \in [at : Points, on : Cards \cup {"none"}, saw : Cards \cup {"none"}]
        /\ new.at \in {"accept", "reject"} /\ new.on \in Bumps
    BY DEF Points, Cards
  <2> QED BY <1>0, <1>5, <2>1, <2>2, ReadKeeps DEF ReadProposal
<1>6. ASSUME NEW d \in Decisions, WriteRejected(d) PROVE RubricInv'
  <2>1. proposal' \in [Bumps -> [status : {"absent", "proposed", "accepted", "rejected"}, base : Nat]]
    BY <1>0, <1>6 DEF WriteRejected
  <2> QED BY <1>0, <1>6, <2>1, GotoKeeps DEF WriteRejected, Points
<1>7. ASSUME NEW d \in Decisions, ReadForAccept(d) PROVE RubricInv'
  <2>1. CASE Goto(d, "done")
    BY <1>0, <1>7, <2>1, GotoKeeps DEF ReadForAccept, Points
  <2>2. ASSUME NEW c \in Active,
               doing' = [doing EXCEPT ![d].at = "activate", ![d].saw = c]
        PROVE  RubricInv'
    <3> DEFINE new == [doing[d] EXCEPT !.at = "activate", !.saw = c]
    <3>1. /\ doing[d] \in [at : Points, on : Cards \cup {"none"}, saw : Cards \cup {"none"}]
          /\ doing[d].on \in Bumps /\ c \in Cards
      BY <1>0, <1>7 DEF ReadForAccept, RubricInv, RefersToRows, Active
    <3>2. /\ new \in [at : Points, on : Cards \cup {"none"}, saw : Cards \cup {"none"}]
          /\ new.at = "activate" /\ new.on \in Bumps /\ new.saw \in Active
      BY <2>2, <3>1 DEF Points
    <3>3. doing' = [doing EXCEPT ![d] = new]
      BY <1>0, <2>2, <3>1 DEF RubricInv, RefersToRows
    <3> HIDE DEF new
    <3> QED BY <1>0, <1>7, <3>2, <3>3, ReadKeeps DEF ReadForAccept
  <2> QED BY <1>7, <2>1, <2>2 DEF ReadForAccept
<1>8. CASE UNCHANGED rubricVars
  BY <1>8 DEF rubricVars, RubricInv, RubricTypeOK, RefersToRows, AtMostOneActive, SomeActive,
              Active, Present
<1> QED BY <1>1, <1>2, <1>3, <1>4, <1>5, <1>6, <1>7, <1>8, ColdStartKeeps, ActivateKeeps
        DEF RubricNext

-----------------------------------------------------------------------------
(* However many requests store a first card, propose, accept and reject     *)
(* beside each other, a case that has a card is scored with one card        *)
(* (case_rubric.py 357-393, sqlalchemy_rubric.py 192-245).                  *)
THEOREM OneCardAlwaysActive == RubricSpec => []OneActiveCard
<1>1. RubricInv => OneActiveCard
  BY DEF RubricInv, AtMostOneActive, SomeActive, OneActiveCard, Active, Present
<1> QED BY <1>1, RubricInvInit, RubricStep, PTL DEF RubricSpec

-----------------------------------------------------------------------------
(* RunRecords: a job names a run that is there                             *)

CreatedInTurn == \A r, s \in RunIds : s < r /\ runRow[r] # "none" => runRow[s] # "none"

(* A job has at most one open run, its last one, which is the one it names. *)
OpenIsLast ==
    \A r \in RunIds : runRow[r] = "open" =>
        /\ \A s \in RunIds : s > r => runRow[s] = "none"
        /\ \A s \in RunIds : runRow[s] = "open" => s = r
        /\ active = r

(* What the API remembers is stored, and so is what it thinks active. While *)
(* it takes any run for open, it knows the one that is.                     *)
KnownIsStored ==
    /\ Known \subseteq StoredRuns
    /\ Known # {} => memActive # 0
    /\ memActive # 0 => memActive \in StoredRuns
    /\ \A r \in RunIds : runRow[r] = "open" =>
          /\ r \in Known => memActive = r
          /\ \A s \in RunIds : memory[s] = "open" => r \in Known

(* An activity works for an open run, and found it named.                   *)
SnapshotNamesIt == \A r \in RunIds : snapshot[r] # 0 => runRow[r] = "open" /\ snapshot[r] = r

RecordInv == RecordTypeOK /\ CreatedInTurn /\ OpenIsLast /\ KnownIsStored /\ SnapshotNamesIt /\ ActiveRunExists

-----------------------------------------------------------------------------
(* Latest is the largest run of a set, and 0 for the empty set only.       *)
LEMMA LatestIs ==
    ASSUME NEW S, S \subseteq RunIds
    PROVE  /\ S = {} => Latest(S) = 0
           /\ S # {} => Latest(S) \in S /\ \A s \in S : s <= Latest(S)
           /\ Latest(S) \in 0..MaxRuns
<1> DEFINE T == {0} \cup S
<1>1. T \subseteq 0..MaxRuns /\ T # {} /\ T \subseteq Int /\ S \subseteq Int
  BY RecordConstants DEF RunIds
<1>2. IsFiniteSet(T)
  <2>1. IsFiniteSet(0..MaxRuns)
    BY RecordConstants, FS_Interval
  <2> QED BY <1>1, <2>1, FS_Subset
<1> HIDE DEF T
<1>3. Max(T) \in T /\ \A y \in T : Max(T) >= y
  BY <1>1, <1>2, HasMax
<1>4. Max(T) = Latest(S)
  BY DEF Latest, T
<1> DEFINE m == Max(T)
<1>5. m \in T /\ m \in 0..MaxRuns /\ \A y \in T : m >= y
  BY <1>1, <1>3
<1> HIDE DEF m
<1>6. \A s \in S : s \in Int /\ s > 0 /\ s \in T
  BY RecordConstants DEF T, RunIds
<1>7. \A s \in S : s <= m /\ m # 0
  BY <1>5, <1>6, RecordConstants
<1>8. m = 0 \/ m \in S
  BY <1>5 DEF T
<1>9. Latest(S) = m
  BY <1>4 DEF m
<1> QED BY <1>5, <1>7, <1>8, <1>9

LEMMA RecordInvInit == RecordInit => RecordInv
<1> SUFFICES ASSUME RecordInit PROVE RecordInv
  OBVIOUS
<1>1. RecordTypeOK
  BY RecordConstants DEF RecordInit, RecordTypeOK
<1>2. StoredRuns = {} /\ Known = {}
  BY DEF RecordInit, StoredRuns, Known
<1> QED BY <1>1, <1>2 DEF RecordInit, RecordInv, CreatedInTurn, OpenIsLast, KnownIsStored,
                          SnapshotNamesIt, ActiveRunExists

(* The first or next run of the job.                                       *)
LEMMA CreateRunKeeps ==
    ASSUME RecordInv, ~OverlapRuns, NEW r \in RunIds, CreateRun(r)
    PROVE  RecordInv'
<1>1. /\ runRow[r] = "none" /\ \A s \in 1..(r - 1) : runRow[s] # "none"
      /\ \A s \in RunIds : runRow[s] # "open"
      /\ runRow' = [runRow EXCEPT ![r] = "open"] /\ active' = r
      /\ memory' = [memory EXCEPT ![r] = "open"] /\ memActive' = r /\ snapshot' = snapshot
  BY DEF CreateRun
<1>2. /\ r \in Nat \ {0} /\ RunIds \subseteq Nat /\ r \in 0..MaxRuns
      /\ \A s \in RunIds : s < r => s \in 1..(r - 1)
  BY RecordConstants DEF RunIds
<1>3. /\ runRow'[r] = "open" /\ memory'[r] = "open"
      /\ \A s \in RunIds \ {r} : runRow'[s] = runRow[s] /\ memory'[s] = memory[s]
  BY <1>1 DEF RecordInv, RecordTypeOK
<1>4. RecordTypeOK'
  BY <1>1, <1>2 DEF RecordInv, RecordTypeOK
<1>5. \A s \in RunIds : s > r => runRow[s] = "none"
  BY <1>1 DEF RecordInv, CreatedInTurn
<1>6. CreatedInTurn'
  BY <1>1, <1>2, <1>3, <1>5 DEF RecordInv, CreatedInTurn
<1>7. OpenIsLast'
  BY <1>1, <1>2, <1>3, <1>5 DEF OpenIsLast
<1>8. StoredRuns' = StoredRuns \cup {r} /\ Known' = Known \cup {r}
  BY <1>1, <1>3 DEF StoredRuns, Known
<1>9. KnownIsStored'
  BY <1>1, <1>2, <1>3, <1>8 DEF RecordInv, KnownIsStored
<1>10. SnapshotNamesIt'
  BY <1>1 DEF RecordInv, SnapshotNamesIt
<1>11. ActiveRunExists'
  BY <1>1, <1>2, <1>8 DEF ActiveRunExists
<1> QED BY <1>4, <1>6, <1>7, <1>9, <1>10, <1>11 DEF RecordInv

(* Steps that leave the row of the job alone.                              *)
LEMMA ReadersKeep ==
    ASSUME RecordInv, NEW r \in RunIds, LoadRun(r) \/ StartActivity(r)
    PROVE  RecordInv'
<1>1. runRow' = runRow /\ active' = active /\ StoredRuns' = StoredRuns
  BY DEF LoadRun, StartActivity, StoredRuns
<1>2. CreatedInTurn' /\ OpenIsLast' /\ ActiveRunExists'
  BY <1>1 DEF RecordInv, CreatedInTurn, OpenIsLast, ActiveRunExists
<1>3. RunIds \subseteq Nat \ {0}
  BY RecordConstants DEF RunIds
<1>4. CASE LoadRun(r)
  <2>1. /\ r \in StoredRuns /\ memory[r] = "unknown"
        /\ memory' = [memory EXCEPT ![r] = runRow[r]] /\ memActive' = active /\ snapshot' = snapshot
    BY <1>4 DEF LoadRun
  <2>2. memory'[r] = runRow[r] /\ \A s \in RunIds \ {r} : memory'[s] = memory[s]
    BY <2>1 DEF RecordInv, RecordTypeOK
  <2>3. RecordTypeOK'
    BY <1>1, <2>1 DEF RecordInv, RecordTypeOK, StoredRuns
  <2>4. Known' = Known \cup {r}
    BY <2>1, <2>2 DEF Known, StoredRuns
  <2>5. active # 0 /\ active \in StoredRuns
    BY <2>1 DEF RecordInv, ActiveRunExists
  <2>6. KnownIsStored'
    BY <1>1, <1>3, <2>1, <2>2, <2>4, <2>5 DEF RecordInv, KnownIsStored, OpenIsLast, StoredRuns
  <2> QED BY <1>1, <1>2, <2>1, <2>3, <2>6 DEF RecordInv, SnapshotNamesIt
<1>5. CASE StartActivity(r)
  <2>1. /\ runRow[r] = "open" /\ snapshot' = [snapshot EXCEPT ![r] = active]
        /\ memory' = memory /\ memActive' = memActive /\ active = r
    BY <1>5 DEF StartActivity, RecordInv, OpenIsLast
  <2>2. RecordTypeOK' /\ SnapshotNamesIt'
    BY <1>1, <2>1 DEF RecordInv, RecordTypeOK, SnapshotNamesIt
  <2>3. KnownIsStored'
    BY <1>1, <2>1 DEF RecordInv, KnownIsStored, Known
  <2> QED BY <1>2, <2>2, <2>3 DEF RecordInv
<1> QED BY <1>4, <1>5

LEMMA FinishActivityKeeps ==
    ASSUME RecordInv, NEW r \in RunIds, FinishActivity(r)
    PROVE  RecordInv'
<1>1. /\ snapshot[r] # 0 /\ runRow[r] = "open" /\ snapshot[r] = r /\ active = r
      /\ active' = r /\ memory' = memory /\ memActive' = memActive
      /\ snapshot' = [snapshot EXCEPT ![r] = 0]
      /\ runRow' = runRow \/ runRow' = [runRow EXCEPT ![r] = "ended"]
  BY DEF FinishActivity, RecordInv, SnapshotNamesIt, OpenIsLast
<1>2. /\ runRow'[r] \in {"open", "ended"} /\ \A s \in RunIds \ {r} : runRow'[s] = runRow[s]
      /\ \A s \in RunIds \ {r} : runRow[s] # "open"
  BY <1>1 DEF RecordInv, RecordTypeOK, OpenIsLast
<1>3. RecordTypeOK'
  BY <1>1, RecordConstants DEF RecordInv, RecordTypeOK
<1>4. StoredRuns' = StoredRuns /\ Known' = Known
  BY <1>1, <1>2 DEF StoredRuns, Known
<1>5. CreatedInTurn' /\ OpenIsLast' /\ ActiveRunExists'
  BY <1>1, <1>2, <1>4 DEF RecordInv, CreatedInTurn, OpenIsLast, ActiveRunExists
<1>6. KnownIsStored'
  BY <1>1, <1>2, <1>4 DEF RecordInv, KnownIsStored
<1>7. SnapshotNamesIt'
  BY <1>1, <1>2 DEF RecordInv, RecordTypeOK, SnapshotNamesIt
<1> QED BY <1>3, <1>5, <1>6, <1>7 DEF RecordInv

(* A run the API takes for open may have ended long ago.                   *)
LEMMA CancelRunKeeps ==
    ASSUME RecordInv, NEW r \in RunIds, CancelRun(r)
    PROVE  RecordInv'
<1>1. /\ memory[r] = "open" /\ snapshot[r] = 0
      /\ memory' = [memory EXCEPT ![r] = "ended"] /\ runRow' = [runRow EXCEPT ![r] = "ended"]
      /\ active' = memActive /\ memActive' = memActive /\ snapshot' = snapshot
  BY DEF CancelRun
<1>2. r \in Known /\ r \in StoredRuns /\ memActive # 0 /\ memActive \in StoredRuns
  BY <1>1 DEF RecordInv, KnownIsStored, Known
<1>3. /\ runRow'[r] = "ended" /\ memory'[r] = "ended" /\ runRow[r] \in {"open", "ended"}
      /\ \A s \in RunIds \ {r} : runRow'[s] = runRow[s] /\ memory'[s] = memory[s]
  BY <1>1, <1>2 DEF RecordInv, RecordTypeOK, StoredRuns
<1>4. RecordTypeOK'
  BY <1>1 DEF RecordInv, RecordTypeOK
<1>5. StoredRuns' = StoredRuns /\ Known' = Known
  BY <1>1, <1>2, <1>3 DEF StoredRuns, Known
<1>6. \A s \in RunIds : runRow'[s] = "open" => runRow[s] = "open" /\ s # r /\ memActive = s
  BY <1>1, <1>3 DEF RecordInv, KnownIsStored
<1>7. CreatedInTurn' /\ OpenIsLast' /\ ActiveRunExists'
  BY <1>1, <1>2, <1>3, <1>5, <1>6 DEF RecordInv, CreatedInTurn, OpenIsLast, ActiveRunExists
<1>8. KnownIsStored'
  BY <1>1, <1>3, <1>5, <1>6 DEF RecordInv, KnownIsStored
<1>9. SnapshotNamesIt'
  BY <1>1, <1>3 DEF RecordInv, SnapshotNamesIt
<1> QED BY <1>4, <1>7, <1>8, <1>9 DEF RecordInv

LEMMA DeleteRunKeeps ==
    ASSUME RecordInv, NEW r \in RunIds, DeleteRun(r)
    PROVE  RecordInv'
<1> DEFINE S == StoredRuns \ {r}
           K == Known \ {r}
<1>1. /\ memory[r] = "ended" /\ runRow[r] = "ended" /\ snapshot' = snapshot
      /\ runRow' = [runRow EXCEPT ![r] = "deleted"] /\ active' = Latest(S)
      /\ memory' = [memory EXCEPT ![r] = "unknown"]
      /\ memActive' = IF memActive = 0 THEN 0 ELSE Latest(K)
  BY DEF DeleteRun, ForgetRun
<1>2. /\ runRow'[r] = "deleted" /\ memory'[r] = "unknown"
      /\ \A s \in RunIds \ {r} : runRow'[s] = runRow[s] /\ memory'[s] = memory[s]
  BY <1>1 DEF RecordInv, RecordTypeOK
<1>3. StoredRuns' = S /\ Known' = K
  BY <1>1, <1>2 DEF StoredRuns, Known
<1>4. S \subseteq RunIds /\ K \subseteq RunIds /\ K \subseteq S /\ RunIds \subseteq Nat \ {0}
  BY RecordConstants DEF StoredRuns, Known, RunIds, RecordInv, KnownIsStored
<1> HIDE DEF S, K
<1>5. /\ S = {} => Latest(S) = 0
      /\ S # {} => Latest(S) \in S /\ \A s \in S : s <= Latest(S)
      /\ Latest(S) \in 0..MaxRuns
  BY <1>4, LatestIs
<1>6. /\ K = {} => Latest(K) = 0
      /\ K # {} => Latest(K) \in K /\ \A s \in K : s <= Latest(K)
      /\ Latest(K) \in 0..MaxRuns
  BY <1>4, LatestIs
<1>7. RecordTypeOK'
  BY <1>1, <1>5, <1>6 DEF RecordInv, RecordTypeOK
<1>8. CreatedInTurn'
  BY <1>1, <1>2 DEF RecordInv, CreatedInTurn
<1>9. ASSUME NEW s \in RunIds, runRow'[s] = "open"
      PROVE  /\ runRow[s] = "open" /\ s # r /\ s \in S
             /\ \A q \in RunIds : runRow'[q] = "open" => q = s
             /\ \A q \in RunIds : q > s => runRow'[q] = "none"
             /\ \A q \in S : q <= s
  <2>1. runRow[s] = "open" /\ s # r
    BY <1>2, <1>9
  <2>2. \A q \in RunIds : q > s => runRow[q] = "none"
    BY <2>1 DEF RecordInv, OpenIsLast
  <2>3. r <= s
    BY <1>1, <1>4, <2>2
  <2>4. \A q \in S : q <= s
    BY <1>4, <2>2 DEF S, StoredRuns
  <2>5. s \in S
    BY <2>1 DEF S, StoredRuns
  <2>6. \A q \in RunIds : q > s => runRow'[q] = "none"
    BY <1>2, <1>4, <2>2, <2>3
  <2> QED BY <1>2, <2>1, <2>4, <2>5, <2>6 DEF RecordInv, OpenIsLast
<1>10. \A s \in RunIds : runRow'[s] = "open" => Latest(S) = s
  BY <1>4, <1>5, <1>9
<1>11. \A s \in RunIds : runRow'[s] = "open" /\ s \in K => Latest(K) = s
  BY <1>4, <1>6, <1>9
<1>12. OpenIsLast'
  BY <1>1, <1>9, <1>10 DEF OpenIsLast
<1>13. ActiveRunExists'
  BY <1>1, <1>3, <1>4, <1>5 DEF ActiveRunExists
<1>14. K # {} => memActive # 0
  BY DEF K, RecordInv, KnownIsStored
<1>15. KnownIsStored'
  <2>1. Known' \subseteq StoredRuns' /\ (Known' # {} => memActive' # 0)
        /\ (memActive' # 0 => memActive' \in StoredRuns')
    BY <1>1, <1>3, <1>4, <1>6, <1>14
  <2>2. ASSUME NEW s \in RunIds, runRow'[s] = "open"
        PROVE  /\ s \in K => memActive' = s
               /\ \A q \in RunIds : memory'[q] = "open" => s \in K
    <3>1. s \in K => memActive' = s
      BY <1>1, <1>11, <1>14, <2>2
    <3>2. \A q \in RunIds : memory'[q] = "open" => memory[q] = "open"
      BY <1>2
    <3>3. runRow[s] = "open" /\ s # r
      BY <1>9, <2>2
    <3>4. \A q \in RunIds : memory[q] = "open" => s \in Known
      BY <3>3 DEF RecordInv, KnownIsStored
    <3> QED BY <3>1, <3>2, <3>3, <3>4 DEF K
  <2> QED BY <1>3, <2>1, <2>2 DEF KnownIsStored
<1>16. SnapshotNamesIt'
  BY <1>1, <1>2 DEF RecordInv, SnapshotNamesIt
<1> QED BY <1>7, <1>8, <1>12, <1>13, <1>15, <1>16 DEF RecordInv

LEMMA RestartRecordsKeeps ==
    ASSUME RecordInv, RestartApi
    PROVE  RecordInv'
<1>1. runRow' = runRow /\ active' = active /\ snapshot' = snapshot /\ memActive' = 0 /\ Known' = {}
  BY DEF RestartApi, Known
<1>2. RecordTypeOK'
  BY RecordConstants DEF RecordInv, RecordTypeOK, RestartApi
<1>3. StoredRuns' = StoredRuns /\ \A s \in RunIds : memory'[s] # "open"
  BY <1>1 DEF StoredRuns, RestartApi
<1> QED BY <1>1, <1>2, <1>3 DEF RecordInv, CreatedInTurn, OpenIsLast, KnownIsStored, SnapshotNamesIt,
                                ActiveRunExists

(* A job that exists names one of its runs, whichever were deleted and from *)
(* whatever copy the job was written last, for every number of runs, as     *)
(* long as no run is created while another is open: the open run is the     *)
(* last and the one named (OpenIsLast), and the API that takes any run for  *)
(* open knows the one that is (KnownIsStored).                              *)
THEOREM ActiveRunAlwaysExists ==
    ASSUME ~OverlapRuns
    PROVE  RecordSpec => []ActiveRunExists
<1>1. RecordInv /\ [RecordNext]_recordVars => RecordInv'
  <2> SUFFICES ASSUME RecordInv, [RecordNext]_recordVars PROVE RecordInv'
    OBVIOUS
  <2>1. CASE UNCHANGED recordVars
    BY <2>1 DEF recordVars, RecordInv, RecordTypeOK, CreatedInTurn, OpenIsLast, KnownIsStored,
                SnapshotNamesIt, ActiveRunExists, StoredRuns, Known
  <2>2. CASE \E r \in RunIds : CreateRun(r)
    BY <2>2, CreateRunKeeps
  <2>3. CASE \E r \in RunIds : LoadRun(r) \/ StartActivity(r)
    BY <2>3, ReadersKeep
  <2>4. CASE \E r \in RunIds : FinishActivity(r)
    BY <2>4, FinishActivityKeeps
  <2>5. CASE \E r \in RunIds : CancelRun(r)
    BY <2>5, CancelRunKeeps
  <2>6. CASE \E r \in RunIds : DeleteRun(r)
    BY <2>6, DeleteRunKeeps
  <2>7. CASE RestartApi
    BY <2>7, RestartRecordsKeeps
  <2> QED BY <2>1, <2>2, <2>3, <2>4, <2>5, <2>6, <2>7 DEF RecordNext
<1>2. RecordInv => ActiveRunExists
  BY DEF RecordInv
<1> QED BY RecordInvInit, <1>1, <1>2, PTL DEF RecordSpec

-----------------------------------------------------------------------------
(* FinishedVideos: a number belongs to one video, for good                 *)

(* A sync that has chosen a number has the one of the row, if there is one. *)
Chosen(w) == syncing[w].chosen
HasChosen == \A w \in Writers : syncing[w].stage \in {"chosen", "flushed"} =>
    Chosen(w) # 0 /\ (number[w] # 0 => Chosen(w) = number[w])

(* A number that a transaction has flushed is nobody else's.                *)
FlushedIsFree ==
    \A w \in Writers : syncing[w].stage = "flushed" =>
        \A v \in Writers \ {w} :
            /\ number[v] # Chosen(w)
            /\ syncing[v].stage = "flushed" => Chosen(v) # Chosen(w)

NumbersDiffer == \A w \in Writers : number[w] # 0 => \A v \in Writers \ {w} : number[v] # number[w]

VideoInv == VideoTypeOK /\ HasChosen /\ FlushedIsFree /\ NumbersDiffer

-----------------------------------------------------------------------------
(* The next number is one.                                                 *)
LEMMA NextNumberIs ==
    ASSUME VideoTypeOK
    PROVE  NextNumber \in Nat \ {0}
<1> DEFINE S == {0} \cup {number[w] : w \in Stored}
<1>1. IsFiniteSet({number[w] : w \in Stored})
  <2>1. IsFiniteSet(Stored)
    BY FS_Subset, VideoConstants DEF Stored
  <2>2. {number[w] : w \in Stored} \subseteq 0..MaxNumber
    BY DEF VideoTypeOK, Stored
  <2>3. IsFiniteSet(0..MaxNumber)
    BY VideoConstants, FS_Interval
  <2> QED BY <2>2, <2>3, FS_Subset
<1>2. IsFiniteSet(S)
  BY <1>1, FS_AddElement
<1>3. S \subseteq Int /\ S # {} /\ 0 \in S
  BY VideoConstants DEF VideoTypeOK, Stored
<1> HIDE DEF S
<1> DEFINE m == Max(S)
<1>4. m \in S /\ \A y \in S : m >= y
  BY <1>2, <1>3, HasMax
<1>5. NextNumber = m + 1
  BY DEF NextNumber, S
<1> HIDE DEF m
<1>6. m \in Int /\ m >= 0
  BY <1>3, <1>4
<1> QED BY <1>5, <1>6

LEMMA VideoInvInit == VideoInit => VideoInv
BY VideoConstants DEF VideoInit, VideoInv, VideoTypeOK, HasChosen, FlushedIsFree, NumbersDiffer, NoSync

(* The steps that do not touch the rows change one sync.                   *)
LEMMA SyncKeeps ==
    ASSUME VideoInv, NEW w \in Writers, StartSync(w) \/ ChooseNumber(w) \/ Flush(w)
    PROVE  VideoInv'
<1> DEFINE Attempt == [stage : {"none", "begun", "chosen", "flushed"}, tries : 0..RetryLimit,
                    chosen : 0..MaxNumber]
<1>1. /\ number \in [Writers -> 0..MaxNumber] /\ syncing \in [Writers -> Attempt]
      /\ deleted \subseteq Writers /\ gaveUp \subseteq Writers
      /\ RetryLimit \in Nat /\ MaxNumber \in Nat /\ RetryLimit > 0
      /\ NoSync \in Attempt /\ NoSync.stage = "none"
  BY VideoConstants DEF VideoInv, VideoTypeOK, NoSync
<1>2. number' = number /\ deleted' = deleted /\ gaveUp' \subseteq Writers
  BY <1>1 DEF StartSync, ChooseNumber, Flush
<1>3. SUFFICES ASSUME NEW s \in Attempt, syncing' = [syncing EXCEPT ![w] = s],
                      s.stage \in {"chosen", "flushed"} =>
                          s.chosen # 0 /\ (number[w] # 0 => s.chosen = number[w]),
                      s.stage = "flushed" =>
                          \A v \in Writers \ {w} :
                              /\ number[v] # s.chosen
                              /\ syncing[v].stage = "flushed" => Chosen(v) # s.chosen
               PROVE  VideoInv'
  <2>1. ASSUME StartSync(w) PROVE VideoInv'
    <3> DEFINE s == [NoSync EXCEPT !.stage = "begun"]
    <3>1. s \in Attempt /\ s.stage = "begun" /\ syncing' = [syncing EXCEPT ![w] = s]
      BY <1>1, <2>1 DEF StartSync, NoSync
    <3> HIDE DEF s
    <3> QED BY <1>3, <3>1
  <2>2. ASSUME ChooseNumber(w) PROVE VideoInv'
    <3> DEFINE s == [syncing[w] EXCEPT !.stage = "chosen", !.chosen = Choose(w)]
    <3>1. Choose(w) \in Nat \ {0} /\ Choose(w) <= MaxNumber /\ (number[w] # 0 => Choose(w) = number[w])
      BY <1>1, <2>2, NextNumberIs DEF ChooseNumber, Choose, Stored, VideoInv
    <3>2. syncing[w] \in Attempt /\ Choose(w) \in 0..MaxNumber
      BY <1>1, <3>1
    <3>3. s \in Attempt /\ s.stage = "chosen" /\ s.chosen = Choose(w)
      BY <3>2
    <3>4. syncing' = [syncing EXCEPT ![w] = s]
      BY <1>1, <2>2 DEF ChooseNumber
    <3> HIDE DEF s
    <3> QED BY <1>3, <3>1, <3>3, <3>4
  <2>3. ASSUME Flush(w) PROVE VideoInv'
    <3>1. syncing[w].stage = "chosen" /\ Chosen(w) # 0 /\ (number[w] # 0 => Chosen(w) = number[w])
      BY <2>3 DEF Flush, VideoInv, HasChosen
    <3>2. CASE ~Clashes(w, Stored) /\ syncing' = [syncing EXCEPT ![w].stage = "flushed"]
      <4> DEFINE s == [syncing[w] EXCEPT !.stage = "flushed"]
      <4>0. syncing[w] \in Attempt
        BY <1>1
      <4>1. /\ s \in Attempt /\ s.stage = "flushed" /\ s.chosen = Chosen(w)
            /\ syncing' = [syncing EXCEPT ![w] = s]
        BY <1>1, <4>0, <3>2 DEF Chosen
      <4>2. \A v \in Writers \ {w} : number[v] # Chosen(w)
        BY <3>1, <3>2 DEF Clashes, Stored, Chosen
      <4>3. \A v \in Writers \ {w} : syncing[v].stage = "flushed" => Chosen(v) # Chosen(w)
        BY <2>3 DEF Flush, Chosen
      <4> HIDE DEF s
      <4> QED BY <1>3, <3>1, <4>1, <4>2, <4>3
    <3>3. CASE MayTryAgain(w) /\ syncing' = [syncing EXCEPT ![w] =
                  [NoSync EXCEPT !.stage = "begun", !.tries = syncing[w].tries + 1]]
      <4> DEFINE s == [NoSync EXCEPT !.stage = "begun", !.tries = syncing[w].tries + 1]
      <4>1. syncing[w].tries + 1 \in 0..RetryLimit
        BY <1>1, <3>3 DEF MayTryAgain
      <4>2. s \in Attempt /\ s.stage = "begun"
        BY <1>1, <4>1
      <4>3. syncing' = [syncing EXCEPT ![w] = s]
        BY <3>3
      <4> HIDE DEF s
      <4> QED BY <1>3, <4>2, <4>3
    <3>4. CASE syncing' = [syncing EXCEPT ![w] = NoSync]
      BY <1>1, <1>3, <3>4
    <3> QED BY <2>3, <3>2, <3>3, <3>4 DEF Flush
  <2> QED BY <2>1, <2>2, <2>3
<1>4. syncing'[w] = s /\ \A v \in Writers \ {w} : syncing'[v] = syncing[v]
  BY <1>1, <1>3
<1>5. VideoTypeOK'
  BY <1>1, <1>2, <1>3 DEF VideoTypeOK
<1>6. HasChosen'
  BY <1>2, <1>3, <1>4 DEF VideoInv, HasChosen, Chosen
<1>7. FlushedIsFree'
  BY <1>2, <1>3, <1>4 DEF VideoInv, FlushedIsFree, Chosen
<1>8. NumbersDiffer'
  BY <1>2 DEF VideoInv, NumbersDiffer
<1> QED BY <1>5, <1>6, <1>7, <1>8 DEF VideoInv

(* The steps that change a row end the sync that could change it next.      *)
LEMMA RowChanges ==
    ASSUME VideoInv, NEW w \in Writers, CommitVideo(w) \/ DeleteVideo(w)
    PROVE  /\ VideoInv'
           /\ number'[w] \in {0, number[w], Chosen(w)}
           /\ number[w] # 0 /\ number'[w] # 0 => number'[w] = number[w]
           /\ \A v \in Writers \ {w} : number'[v] = number[v]
<1> DEFINE Attempt == [stage : {"none", "begun", "chosen", "flushed"}, tries : 0..RetryLimit,
                    chosen : 0..MaxNumber]
<1>1. /\ number \in [Writers -> 0..MaxNumber] /\ syncing \in [Writers -> Attempt]
      /\ deleted \subseteq Writers /\ gaveUp \subseteq Writers
      /\ RetryLimit \in Nat /\ MaxNumber \in Nat /\ NoSync \in Attempt /\ NoSync.stage = "none"
  BY VideoConstants DEF VideoInv, VideoTypeOK, NoSync
<1>2. syncing' = [syncing EXCEPT ![w] = NoSync] /\ deleted' \subseteq Writers /\ gaveUp' = gaveUp
  BY <1>1 DEF CommitVideo, DeleteVideo
<1>3. \/ number' = number \/ number' = [number EXCEPT ![w] = 0]
      \/ syncing[w].stage = "flushed" /\ number' = [number EXCEPT ![w] = Chosen(w)]
  BY DEF CommitVideo, DeleteVideo, Chosen
<1>4. /\ syncing'[w].stage = "none" /\ \A v \in Writers \ {w} : syncing'[v] = syncing[v]
      /\ \A v \in Writers \ {w} : number'[v] = number[v]
      /\ number'[w] \in {0, number[w], Chosen(w)}
      /\ number'[w] \notin {0, number[w]} => syncing[w].stage = "flushed" /\ number'[w] = Chosen(w)
  BY <1>1, <1>2, <1>3
<1>5. VideoTypeOK'
  <2>1. Chosen(w) \in 0..MaxNumber
    BY <1>1 DEF Chosen
  <2>2. number' \in [Writers -> 0..MaxNumber]
    BY <1>1, <1>3, <2>1
  <2> QED BY <1>1, <1>2, <2>2 DEF VideoTypeOK
<1>6. HasChosen'
  BY <1>4 DEF VideoInv, HasChosen, Chosen
<1>7. FlushedIsFree'
  BY <1>4 DEF VideoInv, FlushedIsFree, HasChosen, Chosen
<1>8. NumbersDiffer'
  BY <1>4 DEF VideoInv, FlushedIsFree, NumbersDiffer
<1>9. number[w] # 0 /\ number'[w] # 0 => number'[w] = number[w]
  BY <1>4 DEF VideoInv, HasChosen
<1> QED BY <1>4, <1>5, <1>6, <1>7, <1>8, <1>9 DEF VideoInv

LEMMA VideoStep ==
    ASSUME VideoInv, [VideoNext]_videoVars
    PROVE  /\ VideoInv'
           /\ \A w \in Writers : number[w] # 0 /\ number'[w] # 0 => number'[w] = number[w]
<1>1. CASE UNCHANGED videoVars
  BY <1>1 DEF videoVars, VideoInv, VideoTypeOK, HasChosen, Chosen, FlushedIsFree, NumbersDiffer
<1>2. ASSUME NEW w \in Writers, StartSync(w) \/ ChooseNumber(w) \/ Flush(w)
      PROVE  VideoInv' /\ number' = number
  BY <1>2, SyncKeeps DEF StartSync, ChooseNumber, Flush
<1>3. ASSUME NEW w \in Writers, CommitVideo(w) \/ DeleteVideo(w)
      PROVE  VideoInv' /\ \A v \in Writers : number[v] # 0 /\ number'[v] # 0 => number'[v] = number[v]
  BY <1>3, RowChanges
<1> QED BY <1>1, <1>2, <1>3 DEF VideoNext

(* A stored video keeps its number as long as it is stored, and no two      *)
(* videos share one, for every set of writers, whatever they retry and      *)
(* users delete: a number that a transaction has flushed is nobody else's   *)
(* (FlushedIsFree).                                                         *)
THEOREM NumbersAlwaysStay == VideoSpec => NumbersStay
<1> DEFINE Stays == \A w \in Writers : number'[w] # 0 =>
                        /\ number[w] # 0 => number'[w] = number[w]
                        /\ \A v \in Writers \ {w} : number'[v] # number'[w]
<1>1. VideoInv /\ [VideoNext]_videoVars => VideoInv'
  BY VideoStep
<1>2. VideoInv /\ [VideoNext]_videoVars => [Stays]_number
  BY VideoStep DEF VideoInv, NumbersDiffer
<1> QED BY VideoInvInit, <1>1, <1>2, PTL DEF VideoSpec, NumbersStay

-----------------------------------------------------------------------------
(* EventStream: what is published reaches the page, once                   *)

(* What is sent to a connection, it has shown or is about to replay; a live *)
(* one has replayed all.                                                    *)
Connection == [phase : {"closed", "replay", "live"}, todo : Seq(Events), sent : SUBSET Events]
ReplayFirst ==
    /\ conn \in Connection
    /\ conn.sent \subseteq ToSet(shown) \cup ToSet(conn.todo)
    /\ Subscribed => conn.todo = <<>>

Queues == waiting \in Seq(Events) /\ wire \in Seq(Events) /\ shown \in Seq(Events)

TailInv == Queues /\ ReplayFirst /\ TailShownOnce

-----------------------------------------------------------------------------
(* The elements of a sequence that grows or shrinks.                       *)
LEMMA AppendSet ==
    ASSUME NEW S, NEW s \in Seq(S), NEW e \in S
    PROVE  Append(s, e) \in Seq(S) /\ ToSet(Append(s, e)) = ToSet(s) \cup {e}
<1>1. /\ Append(s, e) \in Seq(S) /\ DOMAIN Append(s, e) = 1..(Len(s) + 1)
      /\ Append(s, e)[Len(s) + 1] = e /\ Len(s) \in Nat /\ DOMAIN s = 1..Len(s)
      /\ \A k \in 1..Len(s) : Append(s, e)[k] = s[k]
  OBVIOUS
<1>2. 1..(Len(s) + 1) = 1..Len(s) \cup {Len(s) + 1}
  BY <1>1
<1> QED BY <1>1, <1>2 DEF ToSet

LEMMA HeadSet ==
    ASSUME NEW S, NEW s \in Seq(S), s # <<>>
    PROVE  Head(s) \in S /\ Tail(s) \in Seq(S) /\ ToSet(s) = {Head(s)} \cup ToSet(Tail(s))
<1>1. /\ Len(s) \in Nat \ {0} /\ DOMAIN s = 1..Len(s) /\ Head(s) = s[1] /\ Tail(s) \in Seq(S)
      /\ DOMAIN Tail(s) = 1..(Len(s) - 1) /\ \A k \in 1..(Len(s) - 1) : Tail(s)[k] = s[k + 1]
  OBVIOUS
<1>2. \A k \in 1..Len(s) : k = 1 \/ k - 1 \in 1..(Len(s) - 1)
  BY <1>1
<1>3. \A k \in 1..(Len(s) - 1) : k + 1 \in 1..Len(s)
  BY <1>1
<1>4. ASSUME NEW k \in 1..Len(s), k # 1 PROVE s[k] \in ToSet(Tail(s))
  <2>1. k - 1 \in 1..(Len(s) - 1) /\ s[(k - 1) + 1] = s[k]
    BY <1>1, <1>2, <1>4
  <2>2. s[k] = Tail(s)[k - 1]
    BY <1>1, <2>1
  <2> QED BY <1>1, <2>1, <2>2 DEF ToSet
<1>5. s[1] \in S /\ 1 \in 1..Len(s)
  BY <1>1
<1> QED BY <1>1, <1>3, <1>4, <1>5 DEF ToSet

LEMMA ConcatSet ==
    ASSUME NEW S, NEW s \in Seq(S), NEW t \in Seq(S)
    PROVE  s \o t \in Seq(S) /\ ToSet(s \o t) = ToSet(s) \cup ToSet(t)
<1>1. /\ s \o t \in Seq(S) /\ Len(s) \in Nat /\ Len(t) \in Nat
      /\ DOMAIN s = 1..Len(s) /\ DOMAIN t = 1..Len(t) /\ DOMAIN (s \o t) = 1..(Len(s) + Len(t))
      /\ \A k \in 1..(Len(s) + Len(t)) : (s \o t)[k] = IF k <= Len(s) THEN s[k] ELSE t[k - Len(s)]
  OBVIOUS
<1>2. ASSUME NEW k \in 1..(Len(s) + Len(t)) PROVE (s \o t)[k] \in ToSet(s) \cup ToSet(t)
  BY <1>1, <1>2 DEF ToSet
<1>3. ASSUME NEW k \in 1..Len(s) PROVE s[k] \in ToSet(s \o t)
  BY <1>1, <1>3 DEF ToSet
<1>4. ASSUME NEW k \in 1..Len(t) PROVE t[k] \in ToSet(s \o t)
  <2>1. k + Len(s) \in 1..(Len(s) + Len(t)) /\ (s \o t)[k + Len(s)] = t[k]
    BY <1>1, <1>4
  <2> QED BY <1>1, <2>1 DEF ToSet
<1> QED BY <1>1, <1>2, <1>3, <1>4 DEF ToSet

(* The rows in their order are the rows.                                   *)
LEMMA RowsInOrder ==
    ASSUME NEW S, S \subseteq Events
    PROVE  InOrder(S) \in Seq(Events) /\ ToSet(InOrder(S)) = S
<1> DEFINE n == Cardinality(S)
           UpTo(e) == {f \in S : f <= e}
           Rank(e) == Cardinality(UpTo(e))
           rank == [e \in S |-> Rank(e)]
<1>1. S \subseteq Int /\ IsFiniteSet(S) /\ n \in Nat
  <2>1. IsFiniteSet(Events)
    BY StreamConstants, FS_Interval DEF Events
  <2>2. IsFiniteSet(S)
    BY ONLY <2>1, S \subseteq Events, FS_Subset
  <2> QED BY <2>2, FS_CardinalityType DEF Events
<1>2. ASSUME NEW e \in S PROVE IsFiniteSet(UpTo(e)) /\ Rank(e) \in 1..n
  <2>1. UpTo(e) \subseteq S /\ e \in UpTo(e)
    BY <1>1
  <2> HIDE DEF UpTo
  <2>2. IsFiniteSet(UpTo(e)) /\ Cardinality(UpTo(e)) <= n /\ Cardinality(UpTo(e)) \in Nat
    BY <1>1, <2>1, FS_Subset, FS_CardinalityType
  <2>3. Cardinality(UpTo(e)) # 0
    BY <2>1, <2>2, FS_EmptySet
  <2> QED BY <1>1, <2>2, <2>3
<1>3. ASSUME NEW d \in S, NEW e \in S, d < e PROVE Rank(d) # Rank(e)
  <2>0. d \in Int /\ e \in Int /\ \A f \in S : f \in Int /\ (f <= d => f <= e)
    BY <1>1, <1>3
  <2>4. e <= e /\ ~(e <= d)
    BY <1>3, <2>0
  <2>5. UpTo(d) \subseteq UpTo(e)
    BY <2>0
  <2>1. UpTo(d) \subseteq UpTo(e) /\ e \in UpTo(e) /\ e \notin UpTo(d)
    BY <2>4, <2>5
  <2>2. IsFiniteSet(UpTo(e)) /\ IsFiniteSet(UpTo(d))
    BY <1>2
  <2> HIDE DEF UpTo
  <2>3. UpTo(d) # UpTo(e)
    BY <2>1
  <2> QED BY <2>1, <2>2, <2>3, FS_Subset
<1> HIDE DEF Rank
<1>4. rank \in [S -> 1..n] /\ \A d, e \in S : rank[d] = rank[e] => d = e
  <2>1. \A d, e \in S : d = e \/ d < e \/ e < d
    BY <1>1
  <2> QED BY <1>2, <1>3, <2>1
<1>5. rank \in Injection(S, 1..n)
  BY <1>4 DEF Injection, IsInjective
<1>6. IsFiniteSet(1..n) /\ Cardinality(1..n) = n
  BY <1>1, FS_Interval
<1>7. rank \in Surjection(S, 1..n)
  BY <1>5, <1>6, FS_Injection
<1>8. \A k \in 1..n : \E e \in S : Rank(e) = k
  BY <1>7 DEF Surjection
<1>9. InOrder(S) = [k \in 1..n |-> CHOOSE e \in S : Rank(e) = k]
  BY DEF InOrder, Rank
<1>10. \A k \in 1..n : InOrder(S)[k] \in S /\ Rank(InOrder(S)[k]) = k
  BY <1>8, <1>9
<1>11. DOMAIN InOrder(S) = 1..n
  BY <1>9
<1>12. ASSUME NEW e \in S PROVE e \in ToSet(InOrder(S))
  BY <1>2, <1>4, <1>10, <1>11 DEF ToSet
<1>13. ToSet(InOrder(S)) \subseteq S
  BY <1>10, <1>11 DEF ToSet
<1>14. InOrder(S) \in [1..n -> Events]
  BY <1>9, <1>10
<1>15. InOrder(S) \in Seq(Events)
  BY <1>1, <1>14
<1> QED BY <1>12, <1>13, <1>15

-----------------------------------------------------------------------------
LEMMA StreamInitial == StreamInit => TailInv
BY DEF StreamInit, TailInv, Queues, ReplayFirst, TailShownOnce, Connection, Closed, Subscribed, ToSet

(* What the page is shown is shown, once, and nothing leaves the page.     *)
LEMMA ShowKeeps ==
    ASSUME TailInv, NEW e \in Events, Show(e)
    PROVE  /\ shown' \in Seq(Events) /\ ToSet(shown') = ToSet(shown) \cup {e}
           /\ \A i, j \in DOMAIN shown' : shown'[i] = shown'[j] => i = j
<1>1. CASE e \in ToSet(shown)
  BY <1>1 DEF Show, TailInv, Queues, TailShownOnce, pageVars
<1>2. CASE e \notin ToSet(shown)
  <2>1. shown' = Append(shown, e) /\ shown \in Seq(Events)
    BY <1>2 DEF Show, TailInv, Queues
  <2>2. /\ DOMAIN shown' = 1..(Len(shown) + 1) /\ DOMAIN shown = 1..Len(shown) /\ Len(shown) \in Nat
        /\ \A k \in 1..Len(shown) : shown'[k] = shown[k]
        /\ shown'[Len(shown) + 1] = e
    BY <2>1
  <2>3. \A k \in 1..Len(shown) : shown'[k] # e
    BY <1>2, <2>2 DEF ToSet
  <2>4. \A k \in 1..(Len(shown) + 1) : k \in 1..Len(shown) \/ k = Len(shown) + 1
    BY <2>2
  <2>5. \A i, j \in DOMAIN shown' : shown'[i] = shown'[j] => i = j
    BY <2>2, <2>3, <2>4 DEF TailInv, TailShownOnce
  <2> QED BY <2>1, <2>5, AppendSet
<1> QED BY <1>1, <1>2

LEMMA DispatchKeepsTail ==
    ASSUME TailInv, NEW p \in Replicas, Dispatch(p) \/ DispatchFails(p)
    PROVE  TailInv'
<1>1. UNCHANGED <<conn, heard, shown>>
  BY DEF Dispatch, DispatchFails, pageVars
<1>2. /\ waiting' \in Seq(Events) /\ wire' \in Seq(Events)
      /\ due' \subseteq ToSet(shown) \cup ToSet(waiting') \cup ToSet(wire')
  <2>1. CASE UNCHANGED <<waiting, wire, due>>
    BY <2>1 DEF TailInv, Queues, TailShownOnce
  <2>2. CASE \E batch \in Claims(p) : Fanout(p, batch) /\ Owed(p, batch)
    <3>1. PICK batch \in Claims(p) : Fanout(p, batch) /\ Owed(p, batch)
      BY <2>2
    <3>2. batch \subseteq Events
      BY <3>1 DEF Claims, PendingRows
    <3>3. InOrder(batch) \in Seq(Events) /\ ToSet(InOrder(batch)) = batch
      BY <3>2, RowsInOrder
    <3>4. /\ waiting \o InOrder(batch) \in Seq(Events)
          /\ ToSet(waiting \o InOrder(batch)) = ToSet(waiting) \cup batch
      BY <3>3, ConcatSet DEF TailInv, Queues
    <3>5. /\ wire \o InOrder(batch) \in Seq(Events)
          /\ ToSet(wire \o InOrder(batch)) = ToSet(wire) \cup batch
      BY <3>3, ConcatSet DEF TailInv, Queues
    <3> QED BY <3>1, <3>4, <3>5 DEF Fanout, Owed, TailInv, Queues, TailShownOnce
  <2> QED BY <2>1, <2>2 DEF Dispatch, DispatchFails
<1> QED BY <1>1, <1>2 DEF TailInv, Queues, ReplayFirst, TailShownOnce, Subscribed

LEMMA ConnectKeepsTail ==
    ASSUME TailInv, Connect
    PROVE  TailInv'
<1>1. UNCHANGED <<waiting, wire, shown, due>>
  BY DEF Connect, pageVars
<1>2. Replay \in Seq(Events)
  BY RowsInOrder DEF Replay, StoredRows
<1>3. /\ conn' \in Connection /\ conn'.sent \subseteq ToSet(shown) \cup ToSet(conn'.todo)
      /\ conn'.phase = "live" => conn'.todo = <<>>
  <2>1. CASE Replay = <<>>
    <3>1. conn' = [phase |-> "live", todo |-> <<>>, sent |-> {}]
      BY <2>1 DEF Connect, Closed
    <3>2. <<>> \in Seq(Events)
      OBVIOUS
    <3> QED BY <3>1, <3>2 DEF Connection
  <2>2. CASE Replay # <<>>
    <3>1. conn' = [phase |-> "replay", todo |-> Replay, sent |-> ToSet(Replay)]
      BY <2>2 DEF Connect
    <3>2. ToSet(Replay) \subseteq Events
      BY <1>2 DEF ToSet
    <3> QED BY <1>2, <3>1, <3>2 DEF Connection
  <2> QED BY <2>1, <2>2
<1> QED BY <1>1, <1>3 DEF TailInv, Queues, ReplayFirst, TailShownOnce, Subscribed

LEMMA SendReplayedKeepsTail ==
    ASSUME TailInv, SendReplayed
    PROVE  TailInv'
<1>1. UNCHANGED <<waiting, wire, due>>
  BY DEF SendReplayed
<1>2. conn.todo \in Seq(Events) /\ conn.todo # <<>> /\ conn \in Connection
  BY DEF SendReplayed, TailInv, ReplayFirst, Connection
<1>3. /\ Head(conn.todo) \in Events /\ Tail(conn.todo) \in Seq(Events)
      /\ ToSet(conn.todo) = {Head(conn.todo)} \cup ToSet(Tail(conn.todo))
  BY <1>2, HeadSet
<1>4. /\ shown' \in Seq(Events) /\ ToSet(shown') = ToSet(shown) \cup {Head(conn.todo)}
      /\ \A i, j \in DOMAIN shown' : shown'[i] = shown'[j] => i = j
  BY <1>3, ShowKeeps DEF SendReplayed
<1>5. /\ conn' \in Connection /\ conn'.phase = "replay"
      /\ conn'.todo = Tail(conn.todo) /\ conn'.sent = conn.sent
  BY <1>2, <1>3 DEF SendReplayed, Connection
<1>6. Queues' /\ TailShownOnce'
  BY <1>1, <1>4 DEF TailInv, Queues, TailShownOnce
<1>7. ReplayFirst'
  BY <1>3, <1>4, <1>5 DEF TailInv, ReplayFirst, Subscribed
<1> QED BY <1>6, <1>7 DEF TailInv

LEMMA CarryKeepsTail ==
    ASSUME TailInv, Carry
    PROVE  TailInv'
<1>1. UNCHANGED <<shown, due, conn>>
  BY DEF Carry, pageVars
<1>2. /\ Head(wire) \in Events /\ Tail(wire) \in Seq(Events)
      /\ ToSet(wire) = {Head(wire)} \cup ToSet(Tail(wire))
  BY HeadSet DEF Carry, TailInv, Queues
<1>3. /\ Append(waiting, Head(wire)) \in Seq(Events)
      /\ ToSet(Append(waiting, Head(wire))) = ToSet(waiting) \cup {Head(wire)}
  BY <1>2, AppendSet DEF TailInv, Queues
<1> QED BY <1>1, <1>2, <1>3 DEF Carry, TailInv, Queues, ReplayFirst, TailShownOnce, Subscribed

LEMMA SendLiveKeepsTail ==
    ASSUME TailInv, SendLive
    PROVE  TailInv'
<1> DEFINE e == Head(waiting)
<1>1. UNCHANGED <<wire, due>> /\ waiting' = Tail(waiting) /\ conn \in Connection
  BY DEF SendLive, TailInv, ReplayFirst
<1>2. e \in Events /\ Tail(waiting) \in Seq(Events) /\ ToSet(waiting) = {e} \cup ToSet(Tail(waiting))
  BY HeadSet DEF SendLive, TailInv, Queues
<1>3. CASE e \in conn.sent
  <2>1. UNCHANGED <<conn, shown>>
    BY <1>3 DEF SendLive, pageVars
  <2>2. ToSet(conn.todo) = {}
    BY DEF SendLive, TailInv, ReplayFirst, ToSet
  <2>3. e \in ToSet(shown)
    BY <1>3, <2>2 DEF TailInv, ReplayFirst
  <2> QED BY <1>1, <1>2, <2>1, <2>3 DEF TailInv, Queues, ReplayFirst, TailShownOnce, Subscribed
<1>4. CASE e \notin conn.sent
  <2>1. Show(e) /\ conn' = [conn EXCEPT !.sent = @ \cup {e}]
    BY <1>4 DEF SendLive
  <2>2. /\ shown' \in Seq(Events) /\ ToSet(shown') = ToSet(shown) \cup {e}
        /\ \A i, j \in DOMAIN shown' : shown'[i] = shown'[j] => i = j
    BY <1>2, <2>1, ShowKeeps
  <2>3. /\ conn' \in Connection /\ conn'.sent = conn.sent \cup {e}
        /\ conn'.todo = conn.todo /\ conn'.phase = conn.phase
    BY <1>1, <1>2, <2>1 DEF Connection
  <2> QED BY <1>1, <1>2, <2>2, <2>3 DEF TailInv, Queues, ReplayFirst, TailShownOnce, Subscribed
<1> QED BY <1>3, <1>4

LEMMA HangupKeepsTail ==
    ASSUME TailInv, Hangup, UNCHANGED shown
    PROVE  TailInv'
<1>1. /\ conn' = [phase |-> "closed", todo |-> <<>>, sent |-> {}]
      /\ waiting' = <<>> /\ wire' = <<>> /\ due' = {}
  BY DEF Hangup, Closed
<1>2. conn' \in Connection /\ conn'.sent = {} /\ conn'.phase = "closed"
  BY <1>1 DEF Connection
<1> QED BY <1>1, <1>2 DEF TailInv, Queues, ReplayFirst, TailShownOnce, Subscribed

LEMMA LoseRedisKeepsTail ==
    ASSUME TailInv, LoseRedis
    PROVE  TailInv'
<1>1. UNCHANGED <<shown, conn, waiting>> /\ wire' = <<>> /\ due' = due \ ToSet(wire)
  BY DEF LoseRedis, pageVars
<1>2. due' \subseteq ToSet(shown) \cup ToSet(waiting)
  BY <1>1 DEF TailInv, TailShownOnce
<1> QED BY <1>1, <1>2 DEF TailInv, Queues, ReplayFirst, TailShownOnce, Subscribed

LEMMA StreamStep == TailInv /\ [StreamNext]_streamVars => TailInv'
<1> SUFFICES ASSUME TailInv, [StreamNext]_streamVars PROVE TailInv'
  OBVIOUS
<1>1. ASSUME NEW w \in Activities, Create(w) \/ Sync(w) PROVE TailInv'
  BY <1>1 DEF Create, Sync, pageVars, TailInv, Queues, ReplayFirst, TailShownOnce, Subscribed
<1>2. ASSUME NEW p \in Replicas, Dispatch(p) \/ DispatchFails(p) PROVE TailInv'
  BY <1>2, DispatchKeepsTail
<1>3. ASSUME NEW p \in Replicas, Restart(p) PROVE TailInv'
  <2>1. CASE p = Home
    BY <1>3, <2>1, HangupKeepsTail DEF Restart, pageVars
  <2>2. CASE p # Home
    BY <1>3, <2>2 DEF Restart, pageVars, TailInv, Queues, ReplayFirst, TailShownOnce, Subscribed
  <2> QED BY <2>1, <2>2
<1>4. CASE Connect
  BY <1>4, ConnectKeepsTail
<1>5. CASE SendReplayed
  BY <1>5, SendReplayedKeepsTail
<1>6. CASE Subscribe
  <2>1. conn \in Connection /\ conn.todo = <<>> /\ conn' = [conn EXCEPT !.phase = "live"]
    BY <1>6 DEF Subscribe, TailInv, ReplayFirst
  <2>2. conn' \in Connection /\ conn'.todo = <<>> /\ conn'.sent = conn.sent
    BY <2>1 DEF Connection
  <2> QED BY <1>6, <2>1, <2>2 DEF Subscribe, pageVars, TailInv, Queues, ReplayFirst, TailShownOnce, Subscribed
<1>7. CASE Carry
  BY <1>7, CarryKeepsTail
<1>8. CASE SendLive
  BY <1>8, SendLiveKeepsTail
<1>9. CASE Drop
  BY <1>9, HangupKeepsTail DEF Drop, pageVars
<1>10. CASE LoseRedis
  BY <1>10, LoseRedisKeepsTail
<1>11. CASE UNCHANGED streamVars
  BY <1>11 DEF streamVars, pageVars, TailInv, Queues, ReplayFirst, TailShownOnce, Subscribed
<1> QED
  BY <1>1, <1>2, <1>3, <1>4, <1>5, <1>6, <1>7, <1>8, <1>9, <1>10, <1>11 DEF StreamNext

(* Whatever a page that is connected is owed is shown, or on its way, and   *)
(* is shown once: for any number of events, replicas and activities.       *)
THEOREM TailAlwaysShownOnce == StreamSpec => []TailShownOnce
<1>1. TailInv => TailShownOnce
  BY DEF TailInv
<1> QED BY <1>1, StreamInitial, StreamStep, PTL DEF StreamSpec

-----------------------------------------------------------------------------
(* SelectionReservations: whose the leases are                             *)

(* LeasesDisjoint is not inductive: a write looks at reserved rows, those    *)
(* past their TTL included, so it is they that must not meet.              *)
ReservedDisjoint ==
    \A a \in Assets : \A r, q \in Runs :
        row[r][a].status = "reserved" /\ row[q][a].status = "reserved" => r = q

(* An activity executes while its workflow awaits it.                      *)
BusyAwaited == \A r \in Runs : act[r].busy => stage[r] \in Kind

IInv == TypeOK /\ BusyAwaited /\ ReservedDisjoint

(* What a step may do to the lock: no lease passes from run to run.        *)
NoHandover ==
    \A a \in Assets : \A r, q \in Runs :
        Live(row[r][a]) /\ Live(row[q][a])' => r = q

-----------------------------------------------------------------------------
(* Types of the operators on reservations                                  *)

(* A lease that an activity or the API loads is a row.                     *)
LEMMA LoadedType ==
    ASSUME TypeOK, NEW r \in Runs
    PROVE  Loaded(r) \in Memory
<1> USE ReservationConstants
<1>1. NoRow \in Row
  BY DEF NoRow, Row, Status
<1>2. row[r] \in Memory
  BY DEF TypeOK
<1> QED BY <1>1, <1>2 DEF Loaded, Memory

(* Reserving gives rows, of the full TTL.                                  *)
LEMMA ReserveType ==
    ASSUME TypeOK, NEW r \in Runs, NEW shortlist \in SUBSET Assets
    PROVE  Reserve(r, shortlist) \in Memory
<1> USE ReservationConstants
<1>1. try[r] \in 0..MaxAttempts
  BY DEF TypeOK
<1>2. [status |-> "reserved", left |-> TTL, id |-> try[r]] \in Row
  BY <1>1 DEF Row, Status
<1> QED BY <1>2, LoadedType DEF Reserve, Memory

(* Releasing gives rows, none of them reserved.                            *)
LEMMA ReleaseAllType ==
    ASSUME NEW mem \in Memory
    PROVE  ReleaseAll(mem) \in Memory
<1>1. ASSUME NEW a \in Assets
      PROVE  [mem[a] EXCEPT !.status = "released"] \in Row
  BY DEF Memory, Row, Status
<1> QED BY <1>1 DEF ReleaseAll, Memory

(* Committing what was shipped and releasing the rest gives rows.          *)
LEMMA FinalizeType ==
    ASSUME NEW mem \in Memory, NEW shipped
    PROVE  Finalize(mem, shipped) \in Memory
<1>1. ASSUME NEW a \in Assets
      PROVE  [mem[a] EXCEPT !.status = "committed"] \in Row
  BY DEF Memory, Row, Status
<1>2. [a \in Assets |-> IF a \in shipped /\ mem[a].status = "reserved"
                        THEN [mem[a] EXCEPT !.status = "committed"]
                        ELSE mem[a]] \in Memory
  BY <1>1 DEF Memory
<1> QED BY <1>2, ReleaseAllType DEF Finalize

(* Whatever an activity leaves is a memory of rows.                        *)
LEMMA ResultsType ==
    ASSUME NEW e, e.mem \in Memory
    PROVE  Results(e) \subseteq Memory
BY FinalizeType, ReleaseAllType DEF Results

(* Time changes what is left of a lease and nothing else of a row.         *)
LEMMA OlderType ==
    ASSUME NEW w \in Row
    PROVE  /\ Older(w) \in Row
           /\ Older(w).status = w.status
           /\ Older(w).left > 0 => w.left > 0
BY ReservationConstants DEF Older, Row

(* The same for all the leases of a run.                                   *)
LEMMA OlderMemoryType ==
    ASSUME NEW mem \in Memory
    PROVE  OlderMemory(mem) \in Memory
BY OlderType DEF OlderMemory, Memory

-----------------------------------------------------------------------------
(* The write                                                               *)

(* Sweeping turns reserved rows past their TTL into expired ones.          *)
LEMMA SweepType ==
    ASSUME TypeOK
    PROVE  /\ Sweep(row) \in [Runs -> Memory]
           /\ \A r \in Runs, a \in Assets :
                 /\ Sweep(row)[r][a].status = "reserved" => row[r][a].status = "reserved"
                 /\ Live(row[r][a]) => Sweep(row)[r][a].status = "reserved"
<1>1. ASSUME NEW w \in Row
      PROVE  /\ [w EXCEPT !.status = "expired"] \in Row
             /\ [w EXCEPT !.status = "expired"].status = "expired"
             /\ w.left \in Nat
  BY ReservationConstants DEF Row, Status
<1>2. ASSUME NEW r \in Runs, NEW a \in Assets
      PROVE  row[r][a] \in Row
  BY DEF TypeOK, Memory
<1>3. Sweep(row) \in [Runs -> Memory]
  BY <1>1, <1>2 DEF Sweep, Memory
<1>4. ASSUME NEW r \in Runs, NEW a \in Assets
      PROVE  /\ Sweep(row)[r][a].status = "reserved" => row[r][a].status = "reserved"
             /\ Live(row[r][a]) => Sweep(row)[r][a].status = "reserved"
  <2> DEFINE w == row[r][a]
  <2>1. Sweep(row)[r][a] = IF w.status = "reserved" /\ w.left = 0
                           THEN [w EXCEPT !.status = "expired"] ELSE w
    BY DEF Sweep
  <2>2. w \in Row
    BY <1>2
  <2> HIDE DEF w
  <2>3. Sweep(row)[r][a].status = "reserved" => w.status = "reserved"
    BY <1>1, <2>1, <2>2
  <2>4. Live(w) => Sweep(row)[r][a].status = "reserved"
    BY <1>1, <2>1, <2>2 DEF Live
  <2> QED BY <2>3, <2>4 DEF w
<1> QED BY <1>3, <1>4

(* An accepted write keeps the table typed and the reserved rows disjoint, *)
(* and takes no asset from a run that has a lease on it.                   *)
LEMMA WriteSound ==
    ASSUME IInv, NEW r \in Runs, NEW mem \in Memory, Write(r, mem)
    PROVE  row' \in [Runs -> Memory] /\ ReservedDisjoint' /\ NoHandover
<1> DEFINE table == Sweep(row)
<1>1. /\ table \in [Runs -> Memory]
      /\ \A q \in Runs, a \in Assets :
            /\ table[q][a].status = "reserved" => row[q][a].status = "reserved"
            /\ Live(row[q][a]) => table[q][a].status = "reserved"
  BY SweepType DEF IInv
<1>2. /\ \A q \in Runs \ {r} : row'[q] = table[q]
      /\ \A a \in Assets : row'[r][a] = IF mem[a].status = "none" THEN table[r][a] ELSE mem[a]
      /\ row' \in [Runs -> Memory]
  BY <1>1 DEF Write, Merged, Memory
<1>3. ASSUME NEW a \in Assets, NEW q \in Runs, NEW p \in Runs,
             table[q][a].status = "reserved", row'[p][a].status = "reserved"
      PROVE  q = p
  <2>1. row[q][a].status = "reserved"
    BY <1>1, <1>3
  <2>2. CASE p # r \/ mem[a].status = "none"
    <3>1. row'[p][a] = table[p][a]
      BY <1>2, <2>2
    <3>2. row[p][a].status = "reserved"
      BY <1>1, <1>3, <3>1
    <3> QED BY <2>1, <3>2 DEF IInv, ReservedDisjoint
  <2>3. CASE p = r /\ mem[a].status # "none"
    <3>1. mem[a].status = "reserved"
      BY <1>2, <1>3, <2>3
    <3> QED BY <1>3, <2>3, <3>1 DEF Write, Accepts
  <2> QED BY <2>2, <2>3
<1>4. ReservedDisjoint'
  <2> SUFFICES ASSUME NEW a \in Assets, NEW q \in Runs, NEW p \in Runs,
                      row'[q][a].status = "reserved", row'[p][a].status = "reserved"
               PROVE  q = p
    BY DEF ReservedDisjoint
  <2>1. CASE q # r
    <3>1. row'[q][a] = table[q][a]
      BY <1>2, <2>1
    <3> QED BY <1>3, <3>1
  <2>2. CASE p # r
    <3>1. row'[p][a] = table[p][a]
      BY <1>2, <2>2
    <3> QED BY <1>3, <3>1
  <2> QED BY <2>1, <2>2
<1>5. NoHandover
  <2> SUFFICES ASSUME NEW a \in Assets, NEW q \in Runs, NEW p \in Runs,
                      Live(row[q][a]), Live(row'[p][a])
               PROVE  q = p
    BY DEF NoHandover, Live
  <2> QED BY <1>1, <1>3 DEF Live
<1> QED BY <1>2, <1>4, <1>5

(* A step that leaves the table alone keeps the locks as they are.         *)
LEMMA NoWriteSound ==
    ASSUME IInv, UNCHANGED row
    PROVE  ReservedDisjoint' /\ NoHandover
BY DEF IInv, ReservedDisjoint, NoHandover, Live


-----------------------------------------------------------------------------
(* The steps                                                               *)

Sound == IInv' /\ NoHandover

(* An execution that Temporal knows of has the memory of its activity.     *)
LEMMA CurrentType ==
    ASSUME TypeOK, NEW r \in Runs, stage[r] \in Kind
    PROVE  Current(r) \in Execution /\ Results(Current(r)) \subseteq Memory
<1>1. Current(r) \in Execution
  BY DEF TypeOK, Current, Execution
<1>2. Current(r).mem \in Memory
  BY <1>1 DEF Execution
<1> QED BY <1>1, <1>2, ResultsType

(* Before an activity and after it, a run has an idle one and no leases.   *)
LEMMA IdleType ==
    NoMemory \in Memory /\ Idle \in [busy : BOOLEAN, mem : Memory, pack : SUBSET Assets]
<1>1. NoMemory \in Memory
  BY ReservationConstants DEF NoMemory, NoRow, Memory, Row, Status
<1> QED BY <1>1 DEF Idle

(* Losing an attempt changes the attempt or the stage, within their types. *)
LEMMA AttemptLostType ==
    ASSUME TypeOK, NEW r \in Runs, AttemptLost(r)
    PROVE  stage' \in [Runs -> Stage] /\ try' \in [Runs -> 1..MaxAttempts]
<1> USE ReservationConstants
<1>1. CASE stage[r] = "plan" /\ try[r] < MaxAttempts
  BY <1>1 DEF AttemptLost, TypeOK
<1>2. CASE ~(stage[r] = "plan" /\ try[r] < MaxAttempts)
  BY <1>2 DEF AttemptLost, TypeOK, Stage, Kind
<1> QED BY <1>1, <1>2

(* The initial table is empty.                                             *)
LEMMA InitSound == Init => IInv
<1> SUFFICES ASSUME Init PROVE IInv
  OBVIOUS
<1> USE ReservationConstants
<1>1. NoMemory \in Memory
  BY DEF NoMemory, NoRow, Memory, Row, Status
<1>2. TypeOK
  BY <1>1 DEF Init, TypeOK, Idle, Stage
<1>3. ReservedDisjoint
  BY DEF Init, ReservedDisjoint, NoMemory, NoRow
<1>4. BusyAwaited
  BY DEF Init, BusyAwaited, Idle
<1> QED BY <1>2, <1>3, <1>4 DEF IInv

(* Steps that write nothing.                                               *)
Quiet(r) ==
    \/ Begin(r) \/ StartPlanning(r) \/ StartNode(r) \/ Conflict(r)
    \/ Cancel(r) \/ Abandon(r) \/ Terminate(r) \/ RequestCancel(r)

(* They keep the types.                                                    *)
LEMMA QuietTypes ==
    ASSUME TypeOK, BusyAwaited, NEW r \in Runs, Quiet(r)
    PROVE  TypeOK' /\ BusyAwaited'
<1> USE ReservationConstants
<1>1. NoMemory \in Memory /\ Idle \in [busy : BOOLEAN, mem : Memory, pack : SUBSET Assets]
  BY IdleType
<1>2. Idle.busy = FALSE
  BY DEF Idle
<1>3. act[r].busy => Current(r) \in Execution
  <2> SUFFICES ASSUME act[r].busy PROVE Current(r) \in Execution
    OBVIOUS
  <2>1. stage[r] \in Kind
    BY DEF BusyAwaited
  <2> QED BY <2>1, CurrentType
<1>4. ASSUME Begin(r)
      PROVE  TypeOK' /\ BusyAwaited'
  BY <1>4 DEF Begin, TypeOK, BusyAwaited, Stage, Kind, apiVars
<1>5. ASSUME StartPlanning(r)
      PROVE  TypeOK' /\ BusyAwaited'
  BY <1>5, ReserveType DEF StartPlanning, TypeOK, BusyAwaited, Kind, apiVars
<1>6. ASSUME StartNode(r)
      PROVE  TypeOK' /\ BusyAwaited'
  BY <1>6, LoadedType DEF StartNode, TypeOK, BusyAwaited, apiVars
<1>7. ASSUME Conflict(r)
      PROVE  TypeOK' /\ BusyAwaited'
  <2>1. TypeOK'
    BY <1>1, <1>7, AttemptLostType DEF Conflict, TypeOK, apiVars
  <2>2. BusyAwaited'
    BY <1>2, <1>7 DEF Conflict, AttemptLost, BusyAwaited, TypeOK
  <2> QED BY <2>1, <2>2
<1>8. ASSUME Cancel(r)
      PROVE  TypeOK' /\ BusyAwaited'
  BY <1>8 DEF Cancel, TypeOK, BusyAwaited, Stage, Kind, apiVars
<1>9. ASSUME Abandon(r)
      PROVE  TypeOK' /\ BusyAwaited'
  <2>1. TypeOK'
    BY <1>1, <1>3, <1>9, AttemptLostType DEF Abandon, TypeOK, apiVars
  <2>2. BusyAwaited'
    BY <1>2, <1>9 DEF Abandon, AttemptLost, BusyAwaited, TypeOK
  <2> QED BY <2>1, <2>2
<1>10. ASSUME Terminate(r)
       PROVE  TypeOK' /\ BusyAwaited'
  <2>1. zombies' \subseteq Execution
    BY <1>3, <1>10 DEF Terminate, TypeOK
  <2>2. /\ UNCHANGED <<row, try, pack, api, syncs>>
        /\ stage' = [stage EXCEPT ![r] = "ended"]
        /\ act' = [act EXCEPT ![r] = Idle]
    BY <1>10 DEF Terminate, apiVars
  <2>3. TypeOK'
    BY <1>1, <2>1, <2>2 DEF TypeOK, Stage
  <2>4. BusyAwaited'
    BY <1>2, <2>2 DEF BusyAwaited, TypeOK
  <2> QED BY <2>3, <2>4
<1>11. ASSUME RequestCancel(r)
       PROVE  TypeOK' /\ BusyAwaited'
  BY <1>11 DEF RequestCancel, TypeOK, BusyAwaited
<1> QED BY <1>4, <1>5, <1>6, <1>7, <1>8, <1>9, <1>10, <1>11 DEF Quiet

(* A quiet step leaves the locks as they are.                              *)
LEMMA QuietSound ==
    ASSUME IInv, NEW r \in Runs, Quiet(r)
    PROVE  Sound
<1>1. UNCHANGED row
  BY DEF Quiet, Begin, StartPlanning, StartNode, Conflict, Cancel, Abandon, Terminate,
         RequestCancel
<1> QED BY <1>1, QuietTypes, NoWriteSound DEF Sound, IInv

(* The steps that end an activity with its write, or lose it.              *)
LEMMA ActivityEndSound ==
    ASSUME IInv, NEW r \in Runs, Succeed(r) \/ Fail(r) \/ Lose(r)
    PROVE  Sound
<1>1. act[r].busy /\ act' = [act EXCEPT ![r] = Idle]
  BY DEF Succeed, Fail, Lose
<1>2. stage[r] \in Kind /\ TypeOK
  BY <1>1 DEF IInv, BusyAwaited
<1>3. Results(Current(r)) \subseteq Memory /\ act[r].mem \in Memory
  BY <1>2, CurrentType DEF TypeOK
<1>4. UNCHANGED row \/ \E mem \in Memory : Write(r, mem)
  BY <1>3, ReleaseAllType DEF Succeed, Fail, Lose
<1>5. row' \in [Runs -> Memory] /\ ReservedDisjoint' /\ NoHandover
  <2>1. CASE UNCHANGED row
    BY <1>2, <2>1, NoWriteSound DEF TypeOK
  <2>2. CASE \E mem \in Memory : Write(r, mem)
    BY <2>2, WriteSound
  <2> QED BY <1>4, <2>1, <2>2
<1>6. /\ stage' \in [Runs -> Stage]
      /\ try' \in [Runs -> 1..MaxAttempts]
      /\ \A q \in Runs \ {r} : stage'[q] = stage[q]
  <2>1. CASE Succeed(r)
    BY <1>2, <2>1 DEF Succeed, TypeOK, Stage, Kind
  <2>2. CASE Fail(r)
    BY <1>2, <2>2 DEF Fail, TypeOK, Stage
  <2>3. CASE Lose(r)
    <3>1. stage' \in [Runs -> Stage] /\ try' \in [Runs -> 1..MaxAttempts]
      BY <1>2, <2>3, AttemptLostType DEF Lose
    <3>2. \A q \in Runs \ {r} : stage'[q] = stage[q]
      BY <1>2, <2>3 DEF Lose, AttemptLost, TypeOK
    <3> QED BY <3>1, <3>2
  <2> QED BY <2>1, <2>2, <2>3
<1>7. act' \in [Runs -> [busy : BOOLEAN, mem : Memory, pack : SUBSET Assets]]
  BY <1>1, <1>2, <1>3, IdleType DEF TypeOK
<1>8. pack' \in [Runs -> SUBSET Assets]
  BY <1>2 DEF Succeed, Fail, Lose, TypeOK
<1>9. UNCHANGED <<zombies, apiVars>>
  BY DEF Succeed, Fail, Lose
<1>10. TypeOK'
  BY <1>2, <1>5, <1>6, <1>7, <1>8, <1>9 DEF TypeOK, apiVars
<1>11. BusyAwaited'
  BY <1>1, <1>2, <1>6 DEF IInv, BusyAwaited, TypeOK, Idle
<1> QED BY <1>5, <1>10, <1>11 DEF Sound, IInv

(* The writes of executions that were given up, and of the API.            *)
LEMMA LateWriteSound ==
    ASSUME IInv,
           \/ \E e \in zombies : FinishZombie(e)
           \/ \E r \in syncs : CancelSync(r)
    PROVE  Sound
<1>1. UNCHANGED row \/ \E r \in Runs : \E mem \in Memory : Write(r, mem)
  <2>1. ASSUME NEW e \in zombies, FinishZombie(e)
        PROVE  UNCHANGED row \/ \E r \in Runs : \E mem \in Memory : Write(r, mem)
    <3>1. e.run \in Runs /\ e.mem \in Memory
      BY DEF IInv, TypeOK, Execution
    <3>2. Results(e) \cup {ReleaseAll(e.mem)} \subseteq Memory
      BY <3>1, ResultsType, ReleaseAllType
    <3> QED BY <2>1, <3>1, <3>2 DEF FinishZombie
  <2>2. ASSUME NEW r \in syncs, CancelSync(r)
        PROVE  UNCHANGED row \/ \E q \in Runs : \E mem \in Memory : Write(q, mem)
    <3>1. r \in Runs /\ api[r] \in Memory
      BY DEF IInv, TypeOK
    <3> QED BY <2>2, <3>1 DEF CancelSync
  <2> QED BY <2>1, <2>2
<1>2. row' \in [Runs -> Memory] /\ ReservedDisjoint' /\ NoHandover
  <2>1. CASE UNCHANGED row
    BY <2>1, NoWriteSound DEF IInv, TypeOK
  <2>2. CASE \E r \in Runs : \E mem \in Memory : Write(r, mem)
    BY <2>2, WriteSound
  <2> QED BY <1>1, <2>1, <2>2
<1>3. /\ UNCHANGED <<stage, try, act, pack, api>>
      /\ zombies' \subseteq zombies
      /\ syncs' \subseteq syncs
  BY DEF FinishZombie, CancelSync, apiVars
<1>4. TypeOK' /\ BusyAwaited'
  BY <1>2, <1>3 DEF IInv, TypeOK, BusyAwaited
<1> QED BY <1>2, <1>4 DEF Sound, IInv

(* The API loads leases; the table is left alone.                          *)
LEMMA HydrateSound ==
    ASSUME IInv, HydrateApi
    PROVE  Sound
<1>1. UNCHANGED <<row, stage, try, act, zombies, pack, syncs>>
  BY DEF HydrateApi
<1>2. api' \in [Runs -> Memory]
  BY DEF HydrateApi, IInv, TypeOK, Memory
<1>3. TypeOK' /\ BusyAwaited'
  BY <1>1, <1>2 DEF IInv, TypeOK, BusyAwaited
<1> QED BY <1>1, <1>3, NoWriteSound DEF Sound, IInv

(* Time makes no row reserved and no lease live.                           *)
LEMMA TickSound ==
    ASSUME IInv, Tick
    PROVE  Sound
<1>1. /\ row' = [r \in Runs |-> OlderMemory(row[r])]
      /\ act' = [r \in Runs |-> [act[r] EXCEPT !.mem = OlderMemory(@)]]
      /\ zombies' = {[e EXCEPT !.mem = OlderMemory(@)] : e \in zombies}
      /\ api' = [r \in Runs |-> OlderMemory(api[r])]
      /\ UNCHANGED <<stage, try, pack, syncs>>
  BY DEF Tick
<1>2. ASSUME NEW r \in Runs, NEW a \in Assets
      PROVE  /\ row'[r][a].status = row[r][a].status
             /\ row'[r][a].left > 0 => row[r][a].left > 0
  <2>1. row[r][a] \in Row
    BY DEF IInv, TypeOK, Memory
  <2>2. row'[r][a] = Older(row[r][a])
    BY <1>1 DEF OlderMemory
  <2> QED BY <2>1, <2>2, OlderType
<1>3. ReservedDisjoint'
  BY <1>2 DEF IInv, ReservedDisjoint
<1>4. NoHandover
  BY <1>2 DEF IInv, ReservedDisjoint, NoHandover, Live
<1>5. row' \in [Runs -> Memory] /\ api' \in [Runs -> Memory]
  BY <1>1, OlderMemoryType DEF IInv, TypeOK
<1>6. act' \in [Runs -> [busy : BOOLEAN, mem : Memory, pack : SUBSET Assets]]
  BY <1>1, OlderMemoryType DEF IInv, TypeOK
<1>7. zombies' \subseteq Execution
  <2>1. ASSUME NEW e \in Execution
        PROVE  [e EXCEPT !.mem = OlderMemory(@)] \in Execution
    <3>1. OlderMemory(e.mem) \in Memory
      BY OlderMemoryType DEF Execution
    <3> QED BY <3>1 DEF Execution
  <2>2. zombies \subseteq Execution
    BY DEF IInv, TypeOK
  <2> HIDE DEF Execution
  <2> QED BY <1>1, <2>1, <2>2
<1>8. TypeOK'
  BY <1>1, <1>5, <1>6, <1>7 DEF IInv, TypeOK
<1>9. BusyAwaited'
  BY <1>1 DEF IInv, TypeOK, BusyAwaited
<1> QED BY <1>3, <1>4, <1>8, <1>9 DEF Sound, IInv

(* Every step keeps the invariant and hands no asset from run to run.      *)
LEMMA StepSound ==
    ASSUME IInv, [Next]_vars
    PROVE  Sound
<1>1. CASE \E r \in Runs : RunStep(r)
  <2> SUFFICES ASSUME NEW r \in Runs, RunStep(r)
               PROVE  Sound
    BY <1>1
  <2>1. CASE Quiet(r)
    BY <2>1, QuietSound
  <2>2. CASE Succeed(r) \/ Fail(r) \/ Lose(r)
    BY <2>2, ActivityEndSound
  <2> QED BY <2>1, <2>2 DEF RunStep, Quiet
<1>2. CASE \/ \E e \in zombies : FinishZombie(e)
           \/ \E r \in syncs : CancelSync(r)
  BY <1>2, LateWriteSound
<1>3. CASE HydrateApi
  BY <1>3, HydrateSound
<1>4. CASE Tick
  BY <1>4, TickSound
<1>5. CASE UNCHANGED vars
  <2>1. IInv'
    BY <1>5 DEF vars, apiVars, IInv, TypeOK, BusyAwaited, ReservedDisjoint
  <2>2. NoHandover
    BY <1>5, NoWriteSound DEF vars
  <2> QED BY <2>1, <2>2 DEF Sound
<1> QED BY <1>1, <1>2, <1>3, <1>4, <1>5 DEF Next

-----------------------------------------------------------------------------
(* Safety                                                                  *)

(* The inductive invariant holds in every reachable state.                 *)
THEOREM Inductive == Spec => []IInv
<1>1. Init => IInv
  BY InitSound
<1>2. IInv /\ [Next]_vars => IInv'
  BY StepSound DEF Sound
<1> QED BY <1>1, <1>2, PTL DEF Spec

(* Two runs of a case never hold leases on the same asset, whoever writes  *)
(* late: lost workers, executions given up, a stale API.                   *)
THEOREM LeasesAlwaysDisjoint == Spec => []LeasesDisjoint
<1>1. IInv => LeasesDisjoint
  BY DEF IInv, ReservedDisjoint, LeasesDisjoint, Live
<1> QED BY <1>1, Inductive, PTL

(* No table of leases is a holder of its own: at most one run is found.    *)
LEMMA HolderIs ==
    ASSUME IInv, NEW a \in Assets
    PROVE  /\ Holder[a] \in Runs \cup {Nobody}
           /\ \A r \in Runs : Live(row[r][a]) => Holder[a] = r
           /\ (\A r \in Runs : ~Live(row[r][a])) => Holder[a] = Nobody
BY DEF Holder, IInv, ReservedDisjoint, Live

(* The leases implement a lock on each asset: it passes from a run to      *)
(* another only through a moment when nobody holds it.                     *)
THEOREM LeasesAreLocks == Spec => ImplementsSlotLock
<1>1. Init => Lock!Init
  <2> SUFFICES ASSUME Init PROVE Lock!Init
    OBVIOUS
  <2>1. \A a \in Assets : \A r \in Runs : ~Live(row[r][a])
    BY DEF Init, NoMemory, NoRow, Live
  <2> QED BY <2>1 DEF Holder, Lock!Init
<1>2. IInv /\ [Next]_vars => [Lock!Next]_Holder
  <2> SUFFICES ASSUME IInv, [Next]_vars PROVE Lock!Next
    OBVIOUS
  <2>1. IInv' /\ NoHandover
    BY StepSound DEF Sound
  <2>2. ASSUME NEW a \in Assets
        PROVE  /\ Holder'[a] \in Runs \cup {Nobody}
               /\ \A r \in Runs : Live(row'[r][a]) => Holder'[a] = r
               /\ (\A r \in Runs : ~Live(row'[r][a])) => Holder'[a] = Nobody
    BY <2>1 DEF Holder, IInv, ReservedDisjoint, Live
  <2>3. Holder' \in [Assets -> Runs \cup {Nobody}]
    BY <2>2 DEF Holder
  <2>4. ASSUME NEW a \in Assets
        PROVE  Holder[a] = Nobody \/ Holder'[a] \in {Holder[a], Nobody}
    BY <2>1, <2>2, HolderIs DEF NoHandover, Live
  <2> QED BY <2>3, <2>4 DEF Lock!Next
<1> QED BY <1>1, <1>2, Inductive, PTL DEF Spec, ImplementsSlotLock, Lock!Spec

-----------------------------------------------------------------------------
(* Runs whose writes are on time                                           *)

(* What holds of such a run: nobody else writes its rows; the activity that *)
(* executes knows every lease of the run, and has reserved what its pack    *)
(* lists; the pack of a run that works is backed, and a run that ended has  *)
(* no lease.                                                               *)
Owned(r) ==
    /\ \A e \in zombies : e.run # r
    /\ r \notin syncs
    /\ act[r].busy => \A a \in Assets :
          /\ act[r].mem[a].status \in {"none", "reserved"}
          /\ Live(row[r][a]) => act[r].mem[a].status = "reserved"
          /\ stage[r] = "plan" /\ a \in act[r].pack => act[r].mem[a].status = "reserved"
    /\ stage[r] \in {"work", "finalize"} =>
          \A a \in pack[r] : row[r][a].left > 0 => Live(row[r][a])
    /\ stage[r] = "ended" => \A a \in Assets : ~Live(row[r][a])

(* Sweeping ends no lease.                                                 *)
LEMMA SweepLeases ==
    ASSUME TypeOK, NEW r \in Runs, NEW a \in Assets
    PROVE  /\ Sweep(row)[r][a].left = row[r][a].left
           /\ Live(Sweep(row)[r][a]) <=> Live(row[r][a])
<1> DEFINE w == row[r][a]
<1>1. Sweep(row)[r][a] = IF w.status = "reserved" /\ w.left = 0
                         THEN [w EXCEPT !.status = "expired"] ELSE w
  BY DEF Sweep
<1>2. w \in Row
  BY DEF TypeOK, Memory
<1> HIDE DEF w
<1>3. [w EXCEPT !.status = "expired"].left = w.left /\ w.left \in Nat
      /\ [w EXCEPT !.status = "expired"].status = "expired"
  BY <1>2, ReservationConstants DEF Row
<1>4. Sweep(row)[r][a].left = w.left /\ (Live(Sweep(row)[r][a]) <=> Live(w))
  BY <1>1, <1>3 DEF Live
<1> QED BY <1>4 DEF w

(* The rows that a write leaves, of the run that writes and of others.      *)
LEMMA WriteRows ==
    ASSUME TypeOK, NEW r \in Runs, NEW mem \in Memory, Write(r, mem)
    PROVE  /\ \A q \in Runs \ {r} : row'[q] = Sweep(row)[q]
           /\ \A a \in Assets : row'[r][a] = IF mem[a].status = "none" THEN Sweep(row)[r][a] ELSE mem[a]
BY SweepType DEF Write, Merged, Memory

(* Steps of others leave a run what it owns.                               *)
LEMMA OtherKeeps ==
    ASSUME TypeOK, NEW r \in Runs, Owned(r),
           row'[r] = row[r] \/ row'[r] = Sweep(row)[r],
           act'[r] = act[r], stage'[r] = stage[r], pack'[r] = pack[r],
           \A e \in zombies' : e.run # r, r \notin syncs'
    PROVE  Owned(r)'
<1>1. ASSUME NEW a \in Assets
      PROVE  row'[r][a].left = row[r][a].left /\ (Live(row'[r][a]) <=> Live(row[r][a]))
  BY SweepLeases
<1>2. pack[r] \subseteq Assets
  BY DEF TypeOK
<1>3. \A a \in Assets : Live(row[r][a])' <=> Live(row[r][a])
  BY <1>1 DEF Live
<1> QED BY <1>1, <1>2, <1>3 DEF Owned

(* A run that is on time is neither given up nor terminated nor cancelled   *)
(* by the API.                                                             *)
LEMMA OnTimeFaults ==
    ASSUME NEW r \in OnTime
    PROVE  r \in Runs /\ ~Abandon(r) /\ ~Terminate(r) /\ ~RequestCancel(r)
BY DEF OnTime, Abandon, Terminate, RequestCancel

(* The steps in which an activity of the run begins.                        *)
LEMMA StartOwned ==
    ASSUME IInv, NEW r \in OnTime, Owned(r), Begin(r) \/ StartPlanning(r) \/ StartNode(r)
    PROVE  Owned(r)'
<1>0. r \in Runs /\ TypeOK /\ UNCHANGED <<row, zombies, pack, syncs>>
  BY OnTimeFaults DEF IInv, Begin, StartPlanning, StartNode, apiVars
<1>1. \A a \in Assets : /\ Loaded(r)[a].status \in {"none", "reserved"}
                        /\ Live(row[r][a]) => Loaded(r)[a].status = "reserved"
  BY DEF Loaded, Live, NoRow
<1>2. CASE Begin(r)
  <2>1. stage'[r] = "plan" /\ act'[r] = act[r] /\ ~act[r].busy
    BY <1>0, <1>2 DEF Begin, TypeOK, IInv, BusyAwaited, Kind
  <2> QED BY <1>0, <2>1 DEF Owned
<1>3. CASE StartPlanning(r)
  <2>1. PICK shortlist \in SUBSET (Assets \ Blocked(r)) :
          act' = [act EXCEPT ![r] = [busy |-> TRUE, mem |-> Reserve(r, shortlist), pack |-> shortlist]]
    BY <1>3 DEF StartPlanning
  <2>2. /\ act'[r].mem = Reserve(r, shortlist) /\ act'[r].pack = shortlist
        /\ stage' = stage /\ stage[r] = "plan"
    BY <1>0, <1>3, <2>1 DEF StartPlanning, TypeOK
  <2>3. \A a \in Assets :
          /\ Reserve(r, shortlist)[a].status \in {"none", "reserved"}
          /\ a \in shortlist \/ Live(row[r][a]) => Reserve(r, shortlist)[a].status = "reserved"
    BY <1>1 DEF Reserve
  <2> QED BY <1>0, <2>2, <2>3 DEF Owned, Live
<1>4. CASE StartNode(r)
  <2>1. act'[r].mem = Loaded(r) /\ stage' = stage /\ stage[r] \in Kind \ {"plan"}
    BY <1>0, <1>4 DEF StartNode, TypeOK
  <2> QED BY <1>0, <1>1, <2>1 DEF Owned, Live, Kind
<1> QED BY <1>2, <1>3, <1>4

(* Steps that end an activity of the run without a write of its own.        *)
LEMMA StopOwned ==
    ASSUME IInv, NEW r \in OnTime, Owned(r), Conflict(r) \/ Cancel(r)
    PROVE  Owned(r)'
<1>0. r \in Runs /\ TypeOK /\ UNCHANGED <<row, zombies, pack, syncs>>
  BY OnTimeFaults DEF IInv, Conflict, Cancel, apiVars
<1>1. ~act'[r].busy
  BY <1>0 DEF Conflict, Cancel, TypeOK, Idle
<1>2. stage'[r] = "release" \/ stage'[r] = "plan"
  BY <1>0 DEF Conflict, Cancel, AttemptLost, TypeOK
<1> QED BY <1>0, <1>1, <1>2 DEF Owned

(* What the node leaves when it is the last one: nothing reserved.          *)
LEMMA LastResults ==
    ASSUME NEW e, e.kind \in {"finalize", "release"}, e.mem \in Memory, NEW mem \in Results(e),
           NEW a \in Assets
    PROVE  /\ mem[a].status # "reserved"
           /\ e.mem[a].status = "reserved" => mem[a].status # "none"
<1>1. ASSUME NEW m \in Memory
      PROVE  /\ ReleaseAll(m)[a].status # "reserved"
             /\ m[a].status # "none" => ReleaseAll(m)[a].status # "none"
  BY <1>1 DEF ReleaseAll, Memory, Row
<1>2. CASE e.kind = "release"
  BY <1>1, <1>2 DEF Results
<1>3. CASE e.kind = "finalize"
  <2>1. PICK s \in SUBSET Assets : mem = Finalize(e.mem, s)
    BY <1>3 DEF Results
  <2> DEFINE m == [b \in Assets |-> IF b \in s /\ e.mem[b].status = "reserved"
                                    THEN [e.mem[b] EXCEPT !.status = "committed"] ELSE e.mem[b]]
  <2>2. m \in Memory /\ (e.mem[a].status # "none" => m[a].status # "none")
    <3>1. ASSUME NEW b \in Assets
          PROVE  /\ [e.mem[b] EXCEPT !.status = "committed"] \in Row
                 /\ [e.mem[b] EXCEPT !.status = "committed"].status = "committed"
      BY DEF Memory, Row, Status
    <3> QED BY <3>1 DEF Memory
  <2>3. mem = ReleaseAll(m)
    BY <2>1 DEF Finalize
  <2> HIDE DEF m
  <2> QED BY <1>1, <2>2, <2>3
<1> QED BY <1>2, <1>3

(* Steps that end an activity of the run with its write, or lose it.        *)
LEMMA EndOwned ==
    ASSUME IInv, NEW r \in OnTime, Owned(r), Succeed(r) \/ Fail(r) \/ Lose(r)
    PROVE  Owned(r)'
<1>0. /\ r \in Runs /\ TypeOK /\ UNCHANGED <<zombies, syncs>>
      /\ act[r].busy /\ stage[r] \in Kind /\ act[r].mem \in Memory
      /\ act' = [act EXCEPT ![r] = Idle]
  BY OnTimeFaults DEF IInv, TypeOK, BusyAwaited, Succeed, Fail, Lose, apiVars
<1>1. ~act'[r].busy
  BY <1>0 DEF TypeOK, Idle
<1>2. /\ Current(r).kind = stage[r] /\ Current(r).mem = act[r].mem
      /\ Results(Current(r)) \subseteq Memory
  BY <1>0, CurrentType DEF Current
<1>3. CASE Succeed(r)
  <2>1. PICK mem \in Results(Current(r)) : Write(r, mem)
    BY <1>3 DEF Succeed
  <2>2. \A a \in Assets : row'[r][a] = IF mem[a].status = "none" THEN Sweep(row)[r][a] ELSE mem[a]
    BY <1>0, <1>2, <2>1, WriteRows
  <2>3. CASE stage[r] \in {"plan", "work"}
    <3>1. mem = act[r].mem
      BY <1>2, <2>3 DEF Results
    <3>2. stage'[r] \in {"work", "finalize"}
      BY <1>0, <1>3, <2>3 DEF Succeed, TypeOK
    <3>3. pack'[r] = (IF stage[r] = "plan" THEN act[r].pack ELSE pack[r]) /\ pack'[r] \subseteq Assets
      BY <1>0, <1>3 DEF Succeed, TypeOK
    <3>4. ASSUME NEW a \in pack'[r], row'[r][a].left > 0 PROVE Live(row'[r][a])
      <4>1. a \in Assets
        BY <3>3, <3>4
      <4>2. CASE mem[a].status = "none"
        <5>1. row'[r][a] = Sweep(row)[r][a] /\ a \in pack[r] /\ stage[r] = "work"
          BY <1>0, <2>2, <2>3, <3>1, <3>3, <3>4, <4>1, <4>2 DEF Owned
        <5>2. Live(row[r][a])
          BY <1>0, <3>4, <4>1, <5>1, SweepLeases DEF Owned
        <5> QED BY <1>0, <4>1, <5>1, <5>2, SweepLeases
      <4>3. CASE mem[a].status # "none"
        BY <1>0, <2>2, <3>1, <3>4, <4>1, <4>3 DEF Owned, Live
      <4> QED BY <4>2, <4>3
    <3> QED BY <1>0, <1>1, <3>2, <3>4 DEF Owned, Live
  <2>4. CASE stage[r] \in {"finalize", "release"}
    <3>1. stage'[r] = "ended"
      BY <1>0, <1>3, <2>4 DEF Succeed, TypeOK
    <3>2. ASSUME NEW a \in Assets PROVE ~Live(row'[r][a])
      <4>1. mem[a].status # "reserved" /\ (act[r].mem[a].status = "reserved" => mem[a].status # "none")
        BY <1>0, <1>2, <2>1, <2>4, LastResults
      <4>2. CASE mem[a].status # "none"
        BY <2>2, <4>1, <4>2 DEF Live
      <4>3. CASE mem[a].status = "none"
        BY <1>0, <2>2, <4>1, <4>3, SweepLeases DEF Owned
      <4> QED BY <4>2, <4>3
    <3> QED BY <1>0, <1>1, <3>1, <3>2 DEF Owned, Live
  <2> QED BY <1>0, <2>3, <2>4 DEF Kind
<1>4. CASE Fail(r)
  <2> DEFINE mem == ReleaseAll(act[r].mem)
  <2>1. mem \in Memory /\ Write(r, mem) /\ stage'[r] = "ended"
    BY <1>0, <1>4, ReleaseAllType DEF Fail, TypeOK
  <2>2. ASSUME NEW a \in Assets
        PROVE  mem[a].status # "reserved" /\ (act[r].mem[a].status = "reserved" => mem[a].status # "none")
    BY <1>0 DEF ReleaseAll, Memory, Row
  <2> HIDE DEF mem
  <2>3. \A a \in Assets : row'[r][a] = IF mem[a].status = "none" THEN Sweep(row)[r][a] ELSE mem[a]
    BY <1>0, <2>1, WriteRows
  <2>4. ASSUME NEW a \in Assets PROVE ~Live(row'[r][a])
    <3>1. CASE mem[a].status # "none"
      BY <2>2, <2>3, <3>1 DEF Live
    <3>2. CASE mem[a].status = "none"
      BY <1>0, <2>2, <2>3, <3>2, SweepLeases DEF Owned
    <3> QED BY <3>1, <3>2
  <2> QED BY <1>0, <1>1, <2>1, <2>4 DEF Owned, Live
<1>5. CASE Lose(r)
  <2>1. stage'[r] = "plan" \/ stage'[r] = "release"
    BY <1>0, <1>5 DEF Lose, AttemptLost, TypeOK
  <2> QED BY <1>0, <1>1, <2>1 DEF Owned
<1> QED BY <1>3, <1>4, <1>5

(* Time takes the same from a lease and from what an activity knows of it.  *)
LEMMA TickOwned ==
    ASSUME IInv, NEW r \in OnTime, Owned(r), Tick
    PROVE  Owned(r)'
<1>0. r \in Runs /\ TypeOK
  BY OnTimeFaults DEF IInv
<1>1. /\ UNCHANGED <<stage, pack, syncs>> /\ act'[r].busy = act[r].busy /\ act'[r].pack = act[r].pack
      /\ \A a \in Assets : /\ act'[r].mem[a] = Older(act[r].mem[a])
                           /\ row'[r][a] = Older(row[r][a])
                           /\ act[r].mem[a] \in Row /\ row[r][a] \in Row
  BY <1>0 DEF Tick, TypeOK, OlderMemory, Memory
<1>2. ASSUME NEW a \in Assets
      PROVE  /\ act'[r].mem[a].status = act[r].mem[a].status
             /\ row'[r][a].status = row[r][a].status
             /\ row'[r][a].left > 0 => row[r][a].left > 0
  BY <1>1, OlderType
<1>3. \A e \in zombies' : e.run # r
  <2> SUFFICES ASSUME NEW e \in zombies' PROVE e.run # r
    OBVIOUS
  <2>1. PICK d \in zombies : e = [d EXCEPT !.mem = OlderMemory(@)]
    BY DEF Tick
  <2>2. d.run # r /\ d \in Execution
    BY <1>0 DEF Owned, TypeOK
  <2> QED BY <2>1, <2>2 DEF Execution
<1>4. pack[r] \subseteq Assets
  BY <1>0 DEF TypeOK
<1>5. \A a \in Assets : Live(row[r][a])' => Live(row[r][a])
  BY <1>2 DEF Live
<1>6. stage'[r] \in {"work", "finalize"} => \A a \in pack'[r] : row'[r][a].left > 0 => Live(row[r][a])'
  BY <1>1, <1>2, <1>4 DEF Owned, Live
<1> QED BY <1>1, <1>2, <1>3, <1>5, <1>6 DEF Owned

(* Every step leaves a run that is on time what it owns.                    *)
LEMMA OwnedStep ==
    ASSUME IInv, [Next]_vars, NEW r \in OnTime, Owned(r)
    PROVE  Owned(r)'
<1>0. r \in Runs /\ TypeOK /\ Sweep(row) \in [Runs -> Memory]
  BY OnTimeFaults, SweepType DEF IInv
<1>1. ASSUME RunStep(r) PROVE Owned(r)'
  <2>1. CASE RequestCancel(r) \/ Abandon(r) \/ Terminate(r)
    BY <2>1, OnTimeFaults
  <2> QED BY <1>1, <2>1, StartOwned, StopOwned, EndOwned DEF RunStep
<1>2. ASSUME NEW q \in Runs \ {r}, RunStep(q) PROVE Owned(r)'
  <2>1. CASE Quiet(q)
    <3>1. row' = row /\ act'[r] = act[r] /\ stage'[r] = stage[r] /\ pack'[r] = pack[r]
      BY <1>0, <1>2, <2>1 DEF Quiet, Begin, StartPlanning, StartNode, Conflict, Cancel, Abandon,
                              Terminate, RequestCancel, AttemptLost, TypeOK
    <3>2. zombies' \subseteq zombies \cup {Current(q)} /\ Current(q).run = q
      BY <2>1 DEF Quiet, Begin, StartPlanning, StartNode, Conflict, Cancel, Abandon,
                  Terminate, RequestCancel, Current
    <3>3. syncs' \subseteq syncs \cup {q}
      BY <2>1 DEF Quiet, Begin, StartPlanning, StartNode, Conflict, Cancel, Abandon,
                  Terminate, RequestCancel, apiVars
    <3>4. (\A e \in zombies' : e.run # r) /\ r \notin syncs'
      BY <3>2, <3>3, <1>2 DEF Owned
    <3> QED BY <1>0, <3>1, <3>4, OtherKeeps
  <2>2. CASE Succeed(q) \/ Fail(q) \/ Lose(q)
    <3>1. act[q].busy /\ act[q].mem \in Memory /\ Results(Current(q)) \subseteq Memory
      BY <1>0, <1>2, <2>2, CurrentType DEF IInv, BusyAwaited, Succeed, Fail, Lose, TypeOK
    <3>2. row' = row \/ \E mem \in Memory : Write(q, mem)
      BY <2>2, <3>1, ReleaseAllType DEF Succeed, Fail, Lose
    <3>3. row'[r] = row[r] \/ row'[r] = Sweep(row)[r]
      BY <1>0, <1>2, <3>2, WriteRows
    <3>4. /\ act'[r] = act[r] /\ stage'[r] = stage[r] /\ pack'[r] = pack[r]
          /\ UNCHANGED <<zombies, syncs>>
      BY <1>0, <1>2, <2>2 DEF Succeed, Fail, Lose, AttemptLost, TypeOK, apiVars
    <3>5. (\A e \in zombies' : e.run # r) /\ r \notin syncs'
      BY <3>4 DEF Owned
    <3> QED BY <1>0, <3>3, <3>4, <3>5, OtherKeeps
  <2> QED BY <1>2, <2>1, <2>2 DEF RunStep, Quiet
<1>3. ASSUME NEW e \in zombies, FinishZombie(e) PROVE Owned(r)'
  <2>1. /\ e.run \in Runs \ {r} /\ e.mem \in Memory
        /\ Results(e) \cup {ReleaseAll(e.mem)} \subseteq Memory
    BY <1>0, ResultsType, ReleaseAllType DEF TypeOK, Execution, Owned
  <2>2. row'[r] = row[r] \/ row'[r] = Sweep(row)[r]
    BY <1>0, <1>3, <2>1, WriteRows DEF FinishZombie
  <2>3. UNCHANGED <<act, stage, pack, syncs>> /\ zombies' \subseteq zombies
    BY <1>3 DEF FinishZombie, apiVars
  <2>4. (\A z \in zombies' : z.run # r) /\ r \notin syncs'
    BY <2>3 DEF Owned
  <2> QED BY <1>0, <2>2, <2>3, <2>4, OtherKeeps
<1>4. ASSUME NEW q \in syncs, CancelSync(q) PROVE Owned(r)'
  <2>1. q \in Runs \ {r} /\ api[q] \in Memory
    BY <1>0 DEF TypeOK, Owned
  <2>2. row'[r] = row[r] \/ row'[r] = Sweep(row)[r]
    BY <1>0, <1>4, <2>1, WriteRows DEF CancelSync
  <2>3. UNCHANGED <<act, stage, pack, zombies>> /\ syncs' \subseteq syncs
    BY <1>4 DEF CancelSync
  <2>4. (\A z \in zombies' : z.run # r) /\ r \notin syncs'
    BY <2>3 DEF Owned
  <2> QED BY <1>0, <2>2, <2>3, <2>4, OtherKeeps
<1>5. CASE HydrateApi \/ UNCHANGED vars
  <2>1. UNCHANGED <<row, act, stage, pack, zombies, syncs>>
    BY <1>5 DEF HydrateApi, vars, apiVars
  <2>2. (\A z \in zombies' : z.run # r) /\ r \notin syncs'
    BY <2>1 DEF Owned
  <2> QED BY <1>0, <2>1, <2>2, OtherKeeps
<1> QED BY <1>1, <1>2, <1>3, <1>4, <1>5, TickOwned DEF Next

(* Runs on time own their leases, always.                                   *)
LEMMA OwnedAlways == Spec => [](\A r \in OnTime : Owned(r))
<1> DEFINE Inv == \A r \in OnTime : Owned(r)
<1>1. Init => Inv
  BY DEF Init, Idle, Owned, OnTime
<1>2. IInv /\ Inv /\ [Next]_vars => Inv'
  <2> SUFFICES ASSUME IInv, Inv, [Next]_vars, NEW r \in OnTime PROVE Owned(r)'
    BY DEF OnTime
  <2> QED BY OwnedStep
<1> HIDE DEF Inv
<1>3. Spec => []Inv
  BY <1>1, <1>2, Inductive, PTL DEF Spec
<1> QED BY <1>3 DEF Inv

(* A run on time has, while it executes, every reservation that its pack    *)
(* lists, until the TTL is over: however late the writes of others come     *)
(* (material_pack_planning.py 240-245).                                     *)
THEOREM PackAlwaysBacked == Spec => []PackIsBacked
<1>1. (\A r \in OnTime : Owned(r)) => PackIsBacked
  BY DEF Owned, PackIsBacked
<1> QED BY <1>1, OwnedAlways, PTL

(* A run on time that ended holds no lease, whatever died before or after   *)
(* its writes (media.py 196-198).                                          *)
THEOREM EndedAlwaysFree == Spec => []EndedHoldsNothing
<1>1. (\A r \in OnTime : Owned(r)) => EndedHoldsNothing
  BY DEF Owned, EndedHoldsNothing
<1> QED BY <1>1, OwnedAlways, PTL
=============================================================================
