--------------------------- MODULE RequestProofs ----------------------------
(***************************************************************************)
(* Proofs about the modules of the API's requests: AdminGuard,             *)
(* IdempotentRequests, SignIn and Uploads, for every set of users, requests, *)
(* bodies and completions.                                                 *)
(***************************************************************************)
EXTENDS AdminGuard, IdempotentRequests, SignIn, Uploads, FiniteSetTheorems, TLAPS

-----------------------------------------------------------------------------
(* AdminGuard: an administrator remains                                    *)

Opened(p) == patch[p].stage # "idle"

(* No two open patches change the same row, so that what a patch loaded is  *)
(* what the row still holds.                                               *)
OneAtATime == \A p, q \in Patches : Opened(p) /\ Opened(q) /\ patch[p].user = patch[q].user => p = q
LoadedIsCurrent == \A p \in Patches : Opened(p) => patch[p].was = account[patch[p].user]

(* A guard that passed holds administrators only, and one it leaves alone.  *)
GuardHolds ==
    \A p \in Patches : patch[p].stage = "locked" =>
        /\ patch[p].rows \subseteq Admins
        /\ \E u \in patch[p].rows : u # patch[p].user

(* One guard at a time has passed.                                         *)
OneGuard ==
    \A p, q \in Patches : patch[p].stage = "locked" /\ patch[q].stage = "locked" => p = q

AdminInv ==
    AdminTypeOK /\ OneAtATime /\ LoadedIsCurrent /\ GuardHolds /\ OneGuard /\ AnAdminRemains

-----------------------------------------------------------------------------
(* Initially no patch is open.                                             *)
LEMMA AdminInvInit == AdminInit => AdminInv
<1> SUFFICES ASSUME AdminInit PROVE AdminInv
  OBVIOUS
<1>1. \A p \in Patches : patch[p] = NoPatch /\ patch[p].stage = "idle"
  BY DEF AdminInit, NoPatch
<1>2. AdminTypeOK
  BY <1>1 DEF AdminInit, AdminTypeOK, PatchType
<1>3. AnAdminRemains
  BY DEF AdminInit, AnAdminRemains, Admins
<1> QED BY <1>1, <1>2, <1>3 DEF AdminInv, OneAtATime, LoadedIsCurrent, GuardHolds, OneGuard, Opened

(* The type of a patch that is open.                                       *)
LEMMA OpenPatch ==
    ASSUME AdminTypeOK, NEW p \in Patches, Opened(p)
    PROVE  patch[p] \in [stage : {"loaded", "locked"}, user : Users, was : Account,
                         becomes : Account, rows : SUBSET Users]
BY DEF AdminTypeOK, PatchType, Opened, NoPatch

(* A patch loads a row that no other one has loaded.                       *)
LEMMA LoadKeeps ==
    ASSUME ~StalePatches, AdminInv, NEW p \in Patches, NEW u \in Users, LoadAccount(p, u)
    PROVE  AdminInv'
<1> USE DEF AdminInv
<1>1. PICK becomes \in Account :
        patch' = [patch EXCEPT ![p] =
            [stage |-> "loaded", user |-> u, was |-> account[u], becomes |-> becomes, rows |-> {}]]
  BY DEF LoadAccount
<1>2. /\ account' = account /\ patch[p] = NoPatch /\ Admins' = Admins
      /\ \A q \in Patches : Opened(q) => patch[q].user # u
  BY DEF LoadAccount, OpenPatches, Opened, Admins
<1>3. /\ patch'[p] = [stage |-> "loaded", user |-> u, was |-> account[u], becomes |-> becomes,
                      rows |-> {}]
      /\ \A q \in Patches \ {p} : patch'[q] = patch[q]
  BY <1>1 DEF AdminTypeOK
<1>4. AdminTypeOK'
  <2>1. patch'[p] \in PatchType
    BY <1>3 DEF PatchType, AdminTypeOK
  <2> QED BY <1>1, <1>2, <2>1, <1>3 DEF AdminTypeOK
<1>5. OneAtATime' /\ LoadedIsCurrent'
  BY <1>2, <1>3 DEF OneAtATime, LoadedIsCurrent, Opened
<1>6. GuardHolds' /\ OneGuard'
  BY <1>2, <1>3 DEF GuardHolds, OneGuard
<1>7. AnAdminRemains'
  BY <1>2 DEF AnAdminRemains
<1> QED BY <1>4, <1>5, <1>6, <1>7

(* A guard passes when no other one holds an administrator.                 *)
LEMMA GuardKeeps ==
    ASSUME AdminInv, NEW p \in Patches, GuardLastAdmin(p)
    PROVE  AdminInv'
<1> USE DEF AdminInv
<1>1. /\ account' = account /\ Admins' = Admins /\ patch[p].stage = "loaded" /\ Opened(p)
      /\ \A u \in Admins : ~RowLocked(u)
  BY DEF GuardLastAdmin, Admins, Opened
<1>2. CASE Admins \subseteq {patch[p].user}
  <2>1. /\ patch'[p] = NoPatch /\ patch'[p].stage = "idle"
        /\ \A q \in Patches \ {p} : patch'[q] = patch[q]
    BY <1>2 DEF GuardLastAdmin, AdminTypeOK, NoPatch
  <2>2. AdminTypeOK'
    BY <1>1, <1>2 DEF GuardLastAdmin, AdminTypeOK, PatchType
  <2>3. OneAtATime' /\ LoadedIsCurrent' /\ GuardHolds' /\ OneGuard' /\ AnAdminRemains'
    BY <1>1, <2>1 DEF OneAtATime, LoadedIsCurrent, GuardHolds, OneGuard, AnAdminRemains, Opened
  <2> QED BY <2>2, <2>3
<1>3. CASE ~(Admins \subseteq {patch[p].user})
  <2>1. patch' = [patch EXCEPT ![p] = [@ EXCEPT !.stage = "locked", !.rows = Admins]]
    BY <1>3 DEF GuardLastAdmin
  <2>2. patch[p] \in [stage : {"loaded", "locked"}, user : Users, was : Account,
                      becomes : Account, rows : SUBSET Users]
    BY <1>1, OpenPatch
  <2>3. /\ patch'[p].stage = "locked" /\ patch'[p].rows = Admins
        /\ patch'[p].user = patch[p].user /\ patch'[p].was = patch[p].was
        /\ \A q \in Patches \ {p} : patch'[q] = patch[q]
    BY <2>1, <2>2 DEF AdminTypeOK
  <2>4. AdminTypeOK'
    <3>1. patch'[p] \in PatchType
      BY <2>1, <2>2 DEF PatchType, AdminTypeOK, Admins
    <3> QED BY <1>1, <2>1, <2>3, <3>1 DEF AdminTypeOK
  <2>5. OneAtATime' /\ LoadedIsCurrent'
    BY <1>1, <2>3 DEF OneAtATime, LoadedIsCurrent, Opened
  <2>6. \A q \in Patches \ {p} : patch[q].stage # "locked"
    BY <1>1 DEF GuardHolds, RowLocked
  <2>7. GuardHolds' /\ OneGuard'
    BY <1>1, <1>3, <2>3, <2>6 DEF GuardHolds, OneGuard
  <2>8. AnAdminRemains'
    BY <1>1 DEF AnAdminRemains
  <2> QED BY <2>4, <2>5, <2>7, <2>8
<1> QED BY <1>2, <1>3

(* A patch writes what its user asked for: the row is what it has loaded.  *)
LEMMA WriteKeeps ==
    ASSUME AdminInv, NEW p \in Patches, WritePatch(p)
    PROVE  AdminInv'
<1> USE DEF AdminInv
<1> DEFINE u == patch[p].user
<1>1. /\ Opened(p) /\ u \in Users /\ patch[p].becomes \in Account /\ account[u] \in Account
      /\ patch[p].was = account[u]
  BY OpenPatch DEF WritePatch, Opened, LoadedIsCurrent, AdminTypeOK
<1>2. Patched(p) = patch[p].becomes
  BY <1>1 DEF Patched, Account
<1>3. /\ account'[u] = patch[p].becomes
      /\ \A v \in Users \ {u} : account'[v] = account[v]
      /\ patch'[p] = NoPatch /\ patch'[p].stage = "idle"
      /\ \A q \in Patches \ {p} : patch'[q] = patch[q]
  BY <1>1, <1>2 DEF WritePatch, AdminTypeOK, NoPatch
<1>4. AdminTypeOK'
  BY <1>1, <1>2 DEF WritePatch, AdminTypeOK, PatchType
<1>5. OneAtATime' /\ OneGuard'
  BY <1>3 DEF OneAtATime, OneGuard, Opened
<1>6. LoadedIsCurrent'
  <2>1. \A q \in Patches \ {p} : Opened(q) => patch[q].user \in Users \ {u}
    BY <1>1, OpenPatch DEF OneAtATime
  <2> QED BY <1>3, <2>1 DEF LoadedIsCurrent, Opened
<1>7. CASE patch[p].stage = "locked"
  <2>1. Admins \ {u} \subseteq Admins'
    BY <1>3 DEF Admins
  <2>2. \A q \in Patches \ {p} : patch[q].stage # "locked"
    BY <1>7 DEF OneGuard
  <2>3. AnAdminRemains'
    BY <1>7, <2>1 DEF GuardHolds, AnAdminRemains
  <2>4. GuardHolds'
    BY <1>3, <2>2 DEF GuardHolds
  <2> QED BY <1>4, <1>5, <1>6, <2>3, <2>4
<1>8. CASE patch[p].stage = "loaded" /\ ~NeedsGuard(p)
  <2>1. account[u] = ActiveAdmin => account'[u] = ActiveAdmin
    BY <1>1, <1>3, <1>8 DEF NeedsGuard
  <2>2. Admins \subseteq Admins'
    BY <1>3, <2>1 DEF Admins
  <2>3. AnAdminRemains'
    BY <2>2 DEF AnAdminRemains
  <2>4. GuardHolds'
    BY <1>3, <2>2 DEF GuardHolds
  <2> QED BY <1>4, <1>5, <1>6, <2>3, <2>4
<1> QED BY <1>7, <1>8 DEF WritePatch

-----------------------------------------------------------------------------
(* As long as no two patches of one user overlap, patches of different      *)
(* users leave an active administrator, in whatever order they are loaded,  *)
(* guarded and written (sqlalchemy_service.py 168-220): however many        *)
(* administrators demote each other at once.                                *)
THEOREM AdminAlwaysRemains == ASSUME ~StalePatches PROVE AdminSpec => []AnAdminRemains
<1>1. AdminInv /\ [AdminNext]_adminVars => AdminInv'
  <2> SUFFICES ASSUME AdminInv, [AdminNext]_adminVars PROVE AdminInv'
    OBVIOUS
  <2>1. CASE AdminNext
    BY <2>1, LoadKeeps, GuardKeeps, WriteKeeps DEF AdminNext
  <2>2. CASE UNCHANGED adminVars
    BY <2>2 DEF adminVars, AdminInv, AdminTypeOK, OneAtATime, LoadedIsCurrent, GuardHolds,
                OneGuard, AnAdminRemains, Opened, Admins
  <2> QED BY <2>1, <2>2
<1>2. AdminInv => AnAdminRemains
  BY DEF AdminInv
<1> QED BY <1>1, <1>2, AdminInvInit, PTL DEF AdminSpec

-----------------------------------------------------------------------------
(* IdempotentRequests: replays and effects                                 *)

(* A record was made by a request that took effect, and holds its body.    *)
RecordIsHonest ==
    record.kind # "none" =>
        /\ record.by \in succeeded
        /\ record.body = write[record.by].body

(* A request that is about to store its answer took effect.                *)
AnsweredSucceeded == \A w \in Writes : write[w].pc = "answered" => w \in succeeded

ReplayInv == WriteTypeOK /\ RecordIsHonest /\ AnsweredSucceeded /\ ReplaysAreMine

(* What a request keeps whatever happens to the others and to itself.      *)
BodiesStay == \A w \in Writes : write'[w].body = write[w].body

-----------------------------------------------------------------------------
(* The answer of a request changes alone.                                  *)
LEMMA ReplyKeeps ==
    ASSUME WriteTypeOK, NEW w \in Writes, NEW answer \in Answers, Reply(w, answer)
    PROVE  /\ write' \in [Writes ->
                 [pc : {"unsent", "arrived", "executing", "answered", "done"}, body : Bodies,
                  answer : Answers]]
           /\ BodiesStay
           /\ write'[w].pc = "done" /\ write'[w].answer = answer
           /\ \A v \in Writes \ {w} : write'[v] = write[v]
BY DEF WriteTypeOK, Reply, BodiesStay

(* Initially nothing was answered.                                         *)
LEMMA ReplayInit == WriteInit => ReplayInv
<1> SUFFICES ASSUME WriteInit PROVE ReplayInv
  OBVIOUS
<1>1. \A w \in Writes : write[w] \in [pc : {"unsent"}, body : Bodies, answer : {NoAnswer}]
  BY DEF WriteInit
<1>2. \A w \in Writes : write[w].pc = "unsent" /\ write[w].answer = NoAnswer
  BY <1>1
<1>3. WriteTypeOK
  BY DEF WriteInit, WriteTypeOK, Records, Answers
<1>4. RecordIsHonest
  BY DEF WriteInit, RecordIsHonest, NoRecord
<1>5. AnsweredSucceeded /\ ReplaysAreMine
  BY <1>2 DEF AnsweredSucceeded, ReplaysAreMine, NoAnswer
<1> QED BY <1>3, <1>4, <1>5 DEF ReplayInv

(* Every step keeps the invariant.                                         *)
LEMMA ReplayStep == ReplayInv /\ [WriteNext]_writeVars => ReplayInv'
<1> SUFFICES ASSUME ReplayInv, [WriteNext]_writeVars PROVE ReplayInv'
  OBVIOUS
<1> USE DEF ReplayInv
<1>1. ASSUME NEW w \in Writes, Send(w) PROVE ReplayInv'
  <2>1. WriteTypeOK'
    BY <1>1 DEF Send, WriteTypeOK
  <2>2. RecordIsHonest' /\ AnsweredSucceeded' /\ ReplaysAreMine'
    BY <1>1 DEF Send, WriteTypeOK, RecordIsHonest, AnsweredSucceeded, ReplaysAreMine
  <2> QED BY <2>1, <2>2
<1>2. ASSUME NEW w \in Writes, LookUp(w) PROVE ReplayInv'
  <2>1. CASE record.kind = "fresh" /\ record.body = write[w].body
    <3> DEFINE answer == [kind |-> "replayed", by |-> record.by]
    <3>1. record.by \in Writes /\ answer \in Answers
      BY <2>1 DEF RecordIsHonest, WriteTypeOK, Answers
    <3>2. Reply(w, answer) /\ UNCHANGED <<record, hazards, succeeded>>
      BY <1>2, <2>1 DEF LookUp
    <3> HIDE DEF answer
    <3>3. /\ WriteTypeOK' /\ BodiesStay
          /\ write'[w].answer = answer /\ write'[w].pc = "done"
          /\ \A v \in Writes \ {w} : write'[v] = write[v]
      BY <3>1, <3>2, ReplyKeeps DEF WriteTypeOK
    <3>4. RecordIsHonest' /\ AnsweredSucceeded'
      BY <3>1, <3>2, <3>3 DEF RecordIsHonest, AnsweredSucceeded, BodiesStay, WriteTypeOK
    <3>5. answer.by \in succeeded /\ write[answer.by].body = write[w].body
      BY <2>1 DEF RecordIsHonest, answer
    <3>6. ReplaysAreMine'
      BY <3>1, <3>2, <3>3, <3>5 DEF ReplaysAreMine, BodiesStay, WriteTypeOK
    <3> QED BY <3>3, <3>4, <3>6
  <2>2. CASE record.kind = "fresh" /\ record.body # write[w].body
    <3>1. [kind |-> "conflict"] \in Answers
      BY DEF Answers
    <3>2. Reply(w, [kind |-> "conflict"]) /\ UNCHANGED <<record, hazards, succeeded>>
      BY <1>2, <2>2 DEF LookUp
    <3>3. /\ WriteTypeOK' /\ BodiesStay
          /\ write'[w].answer.kind = "conflict" /\ write'[w].pc = "done"
          /\ \A v \in Writes \ {w} : write'[v] = write[v]
      BY <3>1, <3>2, ReplyKeeps DEF WriteTypeOK
    <3>4. RecordIsHonest' /\ AnsweredSucceeded' /\ ReplaysAreMine'
      BY <3>2, <3>3 DEF RecordIsHonest, AnsweredSucceeded, ReplaysAreMine, BodiesStay, WriteTypeOK
    <3> QED BY <3>3, <3>4
  <2>3. CASE record.kind # "fresh"
    <3>1. /\ record' = NoRecord /\ write' = [write EXCEPT ![w].pc = "executing"]
          /\ UNCHANGED <<hazards, succeeded>>
      BY <1>2, <2>3 DEF LookUp
    <3>2. WriteTypeOK'
      BY <3>1 DEF WriteTypeOK, Records
    <3>3. RecordIsHonest' /\ AnsweredSucceeded' /\ ReplaysAreMine'
      BY <3>1 DEF WriteTypeOK, RecordIsHonest, NoRecord, AnsweredSucceeded, ReplaysAreMine
    <3> QED BY <3>2, <3>3
  <2> QED BY <2>1, <2>2, <2>3
<1>3. ASSUME NEW w \in Writes, Execute(w) PROVE ReplayInv'
  <2>1. CASE /\ succeeded' = succeeded \cup {w}
             /\ write' = [write EXCEPT ![w].pc = "answered",
                                       ![w].answer = [kind |-> "made", by |-> w]]
    <3>1. [kind |-> "made", by |-> w] \in Answers
      BY DEF Answers
    <3>2. WriteTypeOK'
      BY <1>3, <2>1, <3>1 DEF Execute, WriteTypeOK
    <3>3. RecordIsHonest' /\ AnsweredSucceeded' /\ ReplaysAreMine'
      BY <1>3, <2>1 DEF Execute, WriteTypeOK, RecordIsHonest, AnsweredSucceeded, ReplaysAreMine
    <3> QED BY <3>2, <3>3
  <2>2. CASE Reply(w, [kind |-> "error"]) /\ UNCHANGED succeeded
    <3>1. [kind |-> "error"] \in Answers
      BY DEF Answers
    <3>2. /\ WriteTypeOK' /\ BodiesStay
          /\ write'[w].answer.kind = "error" /\ write'[w].pc = "done"
          /\ \A v \in Writes \ {w} : write'[v] = write[v]
      BY <1>3, <2>2, <3>1, ReplyKeeps DEF WriteTypeOK, Execute
    <3>3. RecordIsHonest' /\ AnsweredSucceeded' /\ ReplaysAreMine'
      BY <1>3, <2>2, <3>2 DEF Execute, RecordIsHonest, AnsweredSucceeded, ReplaysAreMine,
                              BodiesStay, WriteTypeOK
    <3> QED BY <3>2, <3>3
  <2> QED BY <1>3, <2>1, <2>2 DEF Execute
<1>4. ASSUME NEW w \in Writes, StoreAnswer(w) PROVE ReplayInv'
  <2> DEFINE stored == [kind |-> "fresh", body |-> write[w].body, by |-> w]
  <2>1. stored \in Records /\ w \in succeeded
    BY <1>4 DEF StoreAnswer, WriteTypeOK, Records, AnsweredSucceeded
  <2>2. record' = stored \/ record' = record
    BY <1>4 DEF StoreAnswer
  <2>3. WriteTypeOK'
    BY <1>4, <2>1, <2>2 DEF StoreAnswer, WriteTypeOK
  <2>4. RecordIsHonest'
    BY <1>4, <2>1, <2>2 DEF StoreAnswer, WriteTypeOK, RecordIsHonest
  <2>5. AnsweredSucceeded' /\ ReplaysAreMine'
    BY <1>4 DEF StoreAnswer, WriteTypeOK, AnsweredSucceeded, ReplaysAreMine
  <2> QED BY <2>3, <2>4, <2>5
<1>5. ASSUME NEW w \in Writes, CrashWrite(w) PROVE ReplayInv'
  <2>1. [kind |-> "error"] \in Answers
    BY DEF Answers
  <2>2. /\ WriteTypeOK' /\ BodiesStay
        /\ write'[w].answer.kind = "error" /\ write'[w].pc = "done"
        /\ \A v \in Writes \ {w} : write'[v] = write[v]
    BY <1>5, <2>1, ReplyKeeps DEF WriteTypeOK, CrashWrite
  <2>3. RecordIsHonest' /\ AnsweredSucceeded' /\ ReplaysAreMine'
    BY <1>5, <2>2 DEF CrashWrite, RecordIsHonest, AnsweredSucceeded, ReplaysAreMine,
                      BodiesStay, WriteTypeOK
  <2> QED BY <2>2, <2>3
<1>6. CASE Expire
  <2>1. record \in [kind : {"fresh", "expired"}, body : Bodies, by : Writes]
    BY <1>6 DEF Expire, WriteTypeOK, Records, NoRecord
  <2>2. record' \in Records /\ record'.by = record.by /\ record'.body = record.body
    BY <1>6, <2>1 DEF Expire, Records
  <2>3. WriteTypeOK'
    BY <1>6, <2>2 DEF Expire, WriteTypeOK
  <2>4. RecordIsHonest' /\ AnsweredSucceeded' /\ ReplaysAreMine'
    BY <1>6, <2>2 DEF Expire, RecordIsHonest, AnsweredSucceeded, ReplaysAreMine
  <2> QED BY <2>3, <2>4
<1>7. CASE UNCHANGED writeVars
  BY <1>7 DEF writeVars, WriteTypeOK, RecordIsHonest, AnsweredSucceeded, ReplaysAreMine
<1> QED BY <1>1, <1>2, <1>3, <1>4, <1>5, <1>6, <1>7 DEF WriteNext

-----------------------------------------------------------------------------
(* Whatever requests overlap, crash, expire or are not stored, a replay     *)
(* repeats the answer of a request with the same body that took effect     *)
(* (dependencies.py 197-226).                                              *)
THEOREM ReplaysAlwaysMine == WriteSpec => []ReplaysAreMine
<1>1. WriteSpec => []ReplayInv
  BY ReplayInit, ReplayStep, PTL DEF WriteSpec
<1>2. ReplayInv => ReplaysAreMine
  BY DEF ReplayInv
<1> QED BY <1>1, <1>2, PTL

-----------------------------------------------------------------------------
(* Without hazards requests come one after the other; the one that takes    *)
(* effect stores its answer before the next one looks for it.               *)
OneEffect ==
    hazards = {} =>
        /\ \A v, w \in Unanswered : v = w
        /\ \A v, w \in succeeded : v = w
        /\ record.kind # "expired"
        /\ record.kind = "none" => \A w \in succeeded : write[w].pc = "answered"
        /\ \A w \in Writes : write[w].pc = "executing" => succeeded = {} /\ record.kind = "none"
        /\ \A w \in Writes :
              write[w].answer.kind \in {"made", "replayed"} => write[w].answer.by \in succeeded

(* A request gets an answer: nothing else is seen of it afterwards.         *)
LEMMA AnswerKeepsOne ==
    ASSUME WriteTypeOK, hazards = {}, OneEffect, NEW w \in Writes, NEW answer \in Answers,
           Reply(w, answer), UNCHANGED <<hazards, record, succeeded>>,
           write[w].pc \in {"arrived", "executing"},
           answer.kind \in {"made", "replayed"} => answer.by \in succeeded
    PROVE  OneEffect'
<1>1. /\ write'[w].pc = "done" /\ write'[w].answer = answer
      /\ \A v \in Writes \ {w} : write'[v] = write[v]
  BY ReplyKeeps
<1>2. Unanswered' \subseteq Unanswered
  BY <1>1 DEF Unanswered
<1> QED BY <1>1, <1>2 DEF OneEffect, WriteTypeOK

(* Every step keeps that.                                                  *)
LEMMA OneEffectStep ==
    ASSUME ReplayInv, OneEffect, [WriteNext]_writeVars
    PROVE  OneEffect'
<1> SUFFICES ASSUME hazards' = {} PROVE OneEffect'
  BY DEF OneEffect
<1>0. hazards = {} /\ WriteTypeOK /\ record.kind \in {"none", "fresh", "expired"}
  <2>1. hazards' = hazards
    BY DEF WriteNext, writeVars, Send, LookUp, Execute, StoreAnswer, CrashWrite, Expire
  <2>2. WriteTypeOK /\ record.kind \in {"none", "fresh", "expired"}
    BY DEF ReplayInv, WriteTypeOK, Records, NoRecord
  <2> QED BY <2>1, <2>2
<1>1. ASSUME NEW w \in Writes, Send(w) PROVE OneEffect'
  <2>1. /\ Unanswered = {} /\ write'[w].pc = "arrived" /\ write'[w].answer = write[w].answer
        /\ \A v \in Writes \ {w} : write'[v] = write[v]
        /\ UNCHANGED <<record, succeeded>>
    BY <1>0, <1>1 DEF Send, WriteTypeOK
  <2>2. Unanswered' \subseteq {w}
    BY <2>1 DEF Unanswered
  <2>3. \A v \in succeeded : write[v].pc = "answered" => FALSE
    BY <1>0, <2>1 DEF Unanswered, WriteTypeOK
  <2> QED BY <1>0, <2>1, <2>2, <2>3 DEF OneEffect, WriteTypeOK
<1>2. ASSUME NEW w \in Writes, LookUp(w) PROVE OneEffect'
  <2>1. CASE record.kind = "fresh"
    <3> DEFINE answer == IF record.body = write[w].body
                         THEN [kind |-> "replayed", by |-> record.by] ELSE [kind |-> "conflict"]
    <3>1. answer \in Answers /\ (answer.kind \in {"made", "replayed"} => answer.by \in succeeded)
      BY <1>0, <2>1 DEF ReplayInv, RecordIsHonest, WriteTypeOK, Answers
    <3>2. Reply(w, answer) /\ write[w].pc = "arrived" /\ UNCHANGED <<hazards, record, succeeded>>
      BY <1>2, <2>1 DEF LookUp
    <3> HIDE DEF answer
    <3> QED BY <1>0, <3>1, <3>2, AnswerKeepsOne
  <2>2. CASE record.kind # "fresh"
    <3>1. /\ record' = NoRecord /\ write'[w].pc = "executing" /\ write'[w].answer = write[w].answer
          /\ \A v \in Writes \ {w} : write'[v] = write[v]
          /\ succeeded' = succeeded /\ write[w].pc = "arrived" /\ record.kind = "none"
      BY <1>0, <1>2, <2>2 DEF LookUp, WriteTypeOK, OneEffect
    <3>2. succeeded = {}
      BY <1>0, <3>1 DEF OneEffect, Unanswered, WriteTypeOK
    <3>3. Unanswered' \subseteq Unanswered /\ NoRecord.kind = "none"
      BY <3>1 DEF Unanswered, NoRecord
    <3> QED BY <1>0, <3>1, <3>2, <3>3 DEF OneEffect
  <2> QED BY <2>1, <2>2
<1>3. ASSUME NEW w \in Writes, Execute(w) PROVE OneEffect'
  <2>1. write[w].pc = "executing" /\ succeeded = {} /\ record.kind = "none" /\ record' = record
    BY <1>0, <1>3 DEF Execute, OneEffect
  <2>2. CASE Reply(w, [kind |-> "error"]) /\ UNCHANGED succeeded
    <3>1. [kind |-> "error"] \in Answers
      BY DEF Answers
    <3> QED BY <1>0, <1>3, <2>1, <2>2, <3>1, AnswerKeepsOne DEF Execute
  <2>3. CASE /\ succeeded' = succeeded \cup {w}
             /\ write' = [write EXCEPT ![w].pc = "answered", ![w].answer = [kind |-> "made", by |-> w]]
    <3>1. /\ succeeded' = {w} /\ write'[w].pc = "answered"
          /\ write'[w].answer = [kind |-> "made", by |-> w]
          /\ \A v \in Writes \ {w} : write'[v] = write[v]
      BY <1>0, <2>1, <2>3 DEF WriteTypeOK
    <3>2. \A v \in Writes \ {w} : write[v].pc # "executing"
      BY <1>0, <2>1 DEF OneEffect, Unanswered
    <3>3. Unanswered' \subseteq Unanswered
      BY <2>1, <3>1 DEF Unanswered
    <3> QED BY <1>0, <2>1, <3>1, <3>2, <3>3 DEF OneEffect
  <2> QED BY <1>3, <2>2, <2>3 DEF Execute
<1>4. ASSUME NEW w \in Writes, StoreAnswer(w) PROVE OneEffect'
  <2>1. /\ record' = [kind |-> "fresh", body |-> write[w].body, by |-> w]
        /\ write[w].pc = "answered" /\ write'[w].pc = "done" /\ write'[w].answer = write[w].answer
        /\ \A v \in Writes \ {w} : write'[v] = write[v]
        /\ succeeded' = succeeded
    BY <1>0, <1>4 DEF StoreAnswer, WriteTypeOK
  <2>2. \A v \in Writes \ {w} : write[v].pc # "executing"
    BY <1>0, <2>1 DEF OneEffect, Unanswered
  <2>3. Unanswered' \subseteq Unanswered
    BY <2>1 DEF Unanswered
  <2> QED BY <1>0, <2>1, <2>2, <2>3 DEF OneEffect
<1>5. ASSUME NEW w \in Writes, CrashWrite(w) PROVE OneEffect'
  BY <1>0, <1>5 DEF CrashWrite
<1>6. CASE Expire
  BY <1>0, <1>6 DEF Expire
<1>7. CASE UNCHANGED writeVars
  BY <1>7 DEF writeVars, OneEffect, Unanswered
<1> QED BY <1>1, <1>2, <1>3, <1>4, <1>5, <1>6, <1>7 DEF WriteNext

(* Requests with one key that wait for each other, in a process that lives, *)
(* with a record that lasts, take effect once, and all that are answered    *)
(* are told of the same one (dependencies.py 157-305).                      *)
THEOREM AlwaysOneEffect == WriteSpec => []TakesEffectOnce
<1>1. WriteInit => OneEffect
  <2> SUFFICES ASSUME WriteInit PROVE OneEffect
    OBVIOUS
  <2>1. \A w \in Writes : write[w] \in [pc : {"unsent"}, body : Bodies, answer : {NoAnswer}]
    BY DEF WriteInit
  <2>2. \A w \in Writes : write[w].pc = "unsent" /\ write[w].answer = NoAnswer
    BY <2>1
  <2> QED BY <2>2 DEF WriteInit, OneEffect, Unanswered, NoAnswer, NoRecord
<1>2. OneEffect => TakesEffectOnce
  <2> SUFFICES ASSUME OneEffect, hazards = {} PROVE TakesEffectOnce
    BY DEF TakesEffectOnce
  <2>1. CASE succeeded = {}
    BY <2>1, FS_EmptySet DEF OneEffect, TakesEffectOnce
  <2>2. ASSUME NEW w \in succeeded PROVE TakesEffectOnce
    <3>1. succeeded = {w}
      BY <2>2 DEF OneEffect
    <3>2. Cardinality(succeeded) = 1
      BY <3>1, FS_Singleton
    <3> QED BY <3>1, <3>2 DEF OneEffect, TakesEffectOnce
  <2> QED BY <2>1, <2>2
<1> QED BY <1>1, <1>2, ReplayInit, ReplayStep, OneEffectStep, PTL DEF WriteSpec

-----------------------------------------------------------------------------
(* SignIn: a window exceeds its limit by little                            *)

(* A registration that writes has read a count with a use left.             *)
ReadsAUseLeft == \A t \in SignIns : Stage(t) = "writing" => request[t].read < MaxUses

(* Only a registration is recorded between its check and its work.          *)
LoginsRecordLast == kind = "login" => \A t \in SignIns : Stage(t) # "checked"

SignInInv == SignInTypeOK /\ ReadsAUseLeft /\ LoginsRecordLast /\ AttemptsBounded

-----------------------------------------------------------------------------
LEMMA CapIsNat == Cap \in Nat /\ Cap >= 1 /\ Cardinality(SignIns) \in Nat /\ Cardinality(SignIns) >= 1
<1>1. Cardinality(SignIns) \in Nat /\ Cardinality(SignIns) # 0
  BY SignInConstants, FS_CardinalityType, FS_EmptySet
<1> QED BY <1>1, SignInConstants DEF Cap

LEMMA OnTheirWayFinite ==
    /\ IsFiniteSet(OnTheirWay) /\ Cardinality(OnTheirWay) \in Nat
    /\ Cardinality(OnTheirWay) <= Cardinality(SignIns)
<1>1. OnTheirWay \subseteq SignIns
  BY DEF OnTheirWay
<1> QED BY <1>1, SignInConstants, FS_Subset, FS_CardinalityType

LEMMA OnTheirWayNext ==
    /\ IsFiniteSet(OnTheirWay') /\ Cardinality(OnTheirWay') \in Nat
    /\ Cardinality(OnTheirWay') <= Cardinality(SignIns)
<1>1. OnTheirWay' \subseteq SignIns
  BY DEF OnTheirWay
<1> QED BY <1>1, SignInConstants, FS_Subset, FS_CardinalityType

(* Initially no request is on its way.                                     *)
LEMMA SignInInvInit == SignInInit => SignInInv
<1> SUFFICES ASSUME SignInInit PROVE SignInInv
  OBVIOUS
<1>1. SignInTypeOK
  BY CapIsNat, SignInConstants DEF SignInInit, SignInTypeOK, SignInRequests, At
<1>2. \A t \in SignIns : Stage(t) = "idle"
  BY DEF SignInInit, Stage, At
<1>3. OnTheirWay = {}
  BY <1>2 DEF OnTheirWay
<1>4. AttemptsBounded
  BY <1>3, FS_EmptySet, CapIsNat, SignInConstants DEF AttemptsBounded, SignInInit
<1> QED BY <1>1, <1>2, <1>4 DEF SignInInv, ReadsAUseLeft, LoginsRecordLast

(* Types and counts of the code are kept.                                  *)
LEMMA SignInTypes ==
    ASSUME SignInInv, [SignInNext]_signInVars
    PROVE  SignInTypeOK' /\ ReadsAUseLeft'
<1> DEFINE Plain == [stage : {"idle", "checked", "admitted", "failed", "passed"}]
           Writing == [stage : {"writing"}, email : Emails, read : 0..MaxUses]
<1>1. /\ shared \in 0..Cap /\ own \in [ApiProcesses -> 0..Cap] /\ Cap \in Nat /\ 0 \in 0..Cap
      /\ request \in [SignIns -> SignInRequests]
      /\ \A t \in SignIns : ProcessOf[t] \in ApiProcesses
      /\ \A n \in 0..Cap : Counted(n) \in 0..Cap
  BY CapIsNat DEF SignInInv, SignInTypeOK, ApiProcesses, Counted
<1>2. /\ kind \in Kinds /\ degraded \subseteq ApiProcesses /\ used \in 0..MaxUses /\ accountsMade \subseteq Emails
      /\ MaxUses \in Nat
  BY SignInConstants DEF SignInInv, SignInTypeOK
<1>3. ASSUME NEW t \in SignIns, NEW s \in {"idle", "checked", "admitted", "failed", "passed"}, Becomes(t, s)
      PROVE  request' \in [SignIns -> SignInRequests] /\ ReadsAUseLeft'
  <2>1. At(s) \in SignInRequests /\ At(s).stage = s
    BY DEF At, SignInRequests
  <2>2. request' = [request EXCEPT ![t] = At(s)]
    BY <1>3 DEF Becomes
  <2>3. request' \in [SignIns -> SignInRequests]
    BY <1>1, <2>1, <2>2
  <2> QED BY <1>1, <2>1, <2>2, <2>3 DEF SignInInv, ReadsAUseLeft, Stage
<1>4. ASSUME NEW t \in SignIns, Check(t) \/ RecordRegistration(t) \/ Login(t)
      PROVE  SignInTypeOK' /\ ReadsAUseLeft'
  <2>1. \E s \in {"idle", "checked", "admitted", "failed", "passed"} : Becomes(t, s)
    BY <1>4 DEF Check, RecordRegistration, Login, Record, Clear
  <2>2. /\ shared' \in 0..Cap /\ own' \in [ApiProcesses -> 0..Cap]
        /\ UNCHANGED <<kind, degraded, used, accountsMade>>
    BY <1>1, <1>4 DEF Check, RecordRegistration, Login, Record, Clear
  <2> QED BY <1>2, <1>3, <2>1, <2>2 DEF SignInTypeOK
<1>5. ASSUME NEW t \in SignIns, ReadCode(t) PROVE SignInTypeOK' /\ ReadsAUseLeft'
  <2>1. UNCHANGED <<kind, shared, own, degraded, used, accountsMade>>
    BY <1>5 DEF ReadCode
  <2>2. ASSUME used < MaxUses, NEW email \in Emails \ accountsMade,
               request' = [request EXCEPT ![t] = [stage |-> "writing", email |-> email, read |-> used]]
        PROVE  request' \in [SignIns -> SignInRequests] /\ ReadsAUseLeft'
    <3> DEFINE w == [stage |-> "writing", email |-> email, read |-> used]
    <3>1. w \in SignInRequests /\ w.stage = "writing" /\ w.read = used
      BY <1>2, <2>2 DEF SignInRequests
    <3> HIDE DEF w
    <3>2. request' = [request EXCEPT ![t] = w]
      BY <2>2 DEF w
    <3>3. request' \in [SignIns -> SignInRequests]
      BY <1>1, <3>1, <3>2
    <3> QED BY <1>1, <2>1, <2>2, <3>1, <3>2, <3>3 DEF SignInInv, ReadsAUseLeft, Stage
  <2>3. request' \in [SignIns -> SignInRequests] /\ ReadsAUseLeft'
    BY <1>3, <1>5, <2>2 DEF ReadCode
  <2> QED BY <1>1, <1>2, <2>1, <2>3 DEF SignInTypeOK
<1>6. ASSUME NEW t \in SignIns, AddUser(t) PROVE SignInTypeOK' /\ ReadsAUseLeft'
  <2>1. request[t] \in Writing /\ request[t].read < MaxUses /\ Becomes(t, "idle")
    BY <1>1, <1>6 DEF AddUser, Stage, SignInRequests, SignInInv, ReadsAUseLeft
  <2>2. used' \in 0..MaxUses /\ accountsMade' \subseteq Emails
    BY <1>2, <1>6, <2>1 DEF AddUser
  <2>3. UNCHANGED <<kind, shared, own, degraded>>
    BY <1>6 DEF AddUser
  <2> QED BY <1>1, <1>2, <1>3, <2>1, <2>2, <2>3 DEF SignInTypeOK
<1>7. ASSUME NEW p \in ApiProcesses, RedisFails(p) PROVE SignInTypeOK' /\ ReadsAUseLeft'
  BY <1>1, <1>2, <1>7 DEF RedisFails, SignInTypeOK, SignInInv, ReadsAUseLeft, Stage
<1>8. ASSUME LeaveWindow PROVE SignInTypeOK' /\ ReadsAUseLeft'
  <2>1. shared' \in 0..Cap /\ own' \in [ApiProcesses -> 0..Cap]
    BY <1>1, <1>8 DEF LeaveWindow
  <2> QED BY <1>1, <1>2, <1>8, <2>1 DEF LeaveWindow, SignInTypeOK, SignInInv, ReadsAUseLeft, Stage
<1>9. CASE UNCHANGED signInVars
  BY <1>9 DEF signInVars, SignInInv, SignInTypeOK, ReadsAUseLeft, Stage
<1> QED BY <1>4, <1>5, <1>6, <1>7, <1>8, <1>9 DEF SignInNext

LEMMA LoginsKeepOrder ==
    ASSUME SignInInv, [SignInNext]_signInVars
    PROVE  LoginsRecordLast'
<1>1. ASSUME NEW t \in SignIns, Check(t) \/ RecordRegistration(t) \/ Login(t) \/ ReadCode(t) \/ AddUser(t)
      PROVE  /\ kind' = kind /\ \A u \in SignIns \ {t} : Stage(u)' = Stage(u)
             /\ kind = "login" => Stage(t)' # "checked"
  BY <1>1 DEF Check, RecordRegistration, Login, ReadCode, AddUser, Record, Clear, Becomes, Stage, At,
              SignInInv, SignInTypeOK, LoginsRecordLast
<1>2. ASSUME NEW p \in ApiProcesses, RedisFails(p) PROVE LoginsRecordLast'
  BY <1>2 DEF RedisFails, SignInInv, LoginsRecordLast, Stage
<1>3. ASSUME LeaveWindow PROVE LoginsRecordLast'
  BY <1>3 DEF LeaveWindow, SignInInv, LoginsRecordLast, Stage
<1>4. CASE UNCHANGED signInVars
  BY <1>4 DEF signInVars, SignInInv, LoginsRecordLast, Stage
<1>5. ASSUME NEW t \in SignIns, Check(t) \/ RecordRegistration(t) \/ Login(t) \/ ReadCode(t) \/ AddUser(t)
      PROVE  LoginsRecordLast'
  BY <1>1, <1>5 DEF SignInInv, LoginsRecordLast
<1> QED BY <1>2, <1>3, <1>4, <1>5 DEF SignInNext

(* A request that leaves OnTheirWay makes room for one attempt.             *)
LEMMA OneLess ==
    ASSUME NEW t \in OnTheirWay, OnTheirWay' = OnTheirWay \ {t}
    PROVE  Cardinality(OnTheirWay') = Cardinality(OnTheirWay) - 1
BY OnTheirWayFinite, FS_RemoveElement

LEMMA AttemptsStep ==
    ASSUME SignInInv, [SignInNext]_signInVars
    PROVE  AttemptsBounded'
<1>1. /\ shared \in Nat /\ Cap \in Nat /\ MaxAttempts \in Nat \ {0}
      /\ Cardinality(OnTheirWay) \in Nat /\ Cardinality(OnTheirWay') \in Nat /\ Cardinality(SignIns) \in Nat
      /\ shared + Cardinality(OnTheirWay) <= MaxAttempts + Cardinality(SignIns) - 1
      /\ kind \in Kinds
      /\ Counted(shared) \in {shared, shared + 1}
  BY CapIsNat, OnTheirWayFinite, OnTheirWayNext, SignInConstants
     DEF SignInInv, SignInTypeOK, AttemptsBounded, Counted
<1>2. ASSUME shared' \in Nat, shared' <= shared, OnTheirWay' \subseteq OnTheirWay PROVE AttemptsBounded'
  <2>1. Cardinality(OnTheirWay') <= Cardinality(OnTheirWay)
    BY <1>2, OnTheirWayFinite, FS_Subset
  <2> QED BY <1>1, <1>2, <2>1 DEF AttemptsBounded
<1>3. ASSUME NEW t \in SignIns, NEW s \in {"idle", "checked", "admitted", "failed", "passed"}, Becomes(t, s)
      PROVE  \A u \in SignIns : Stage(u)' = IF u = t THEN s ELSE Stage(u)
  BY <1>3 DEF Becomes, Stage, At, SignInInv, SignInTypeOK
<1>4. ASSUME NEW t \in SignIns, Check(t) PROVE AttemptsBounded'
  <2>1. UNCHANGED <<kind, shared, degraded>>
    BY <1>4 DEF Check
  <2>2. CASE ProcessOf[t] \in degraded
    <3>1. OnTheirWay' \subseteq OnTheirWay
      BY <1>3, <1>4, <2>1, <2>2 DEF Check, OnTheirWay
    <3> QED BY <1>1, <1>2, <2>1, <3>1
  <2>3. CASE ProcessOf[t] \notin degraded
    <3>1. shared < MaxAttempts
      BY <1>4, <2>3 DEF Check, MayAttempt, InWindow
    <3> QED BY <1>1, <2>1, <3>1, OnTheirWayNext DEF AttemptsBounded
  <2> QED BY <2>2, <2>3
<1>5. ASSUME NEW t \in SignIns, NEW s \in {"idle", "admitted"}, Record(t, s),
             \/ kind = "login" /\ Stage(t) = "failed" /\ s = "idle"
             \/ kind = "register" /\ Stage(t) = "checked"
      PROVE  AttemptsBounded'
  <2>1. UNCHANGED <<kind, degraded>> /\ \A u \in SignIns : Stage(u)' = IF u = t THEN s ELSE Stage(u)
    BY <1>3, <1>5 DEF Record
  <2>2. CASE ProcessOf[t] \in degraded
    <3>1. OnTheirWay' \subseteq OnTheirWay
      BY <1>5, <2>1, <2>2 DEF OnTheirWay
    <3> QED BY <1>1, <1>2, <1>5, <2>2, <3>1 DEF Record
  <2>3. CASE ProcessOf[t] \notin degraded
    <3>1. t \in OnTheirWay /\ OnTheirWay' = OnTheirWay \ {t}
      BY <1>5, <2>1, <2>3 DEF OnTheirWay
    <3> QED BY <1>1, <1>5, <2>3, <3>1, OneLess DEF Record, AttemptsBounded
  <2> QED BY <2>2, <2>3
<1>6. ASSUME NEW t \in SignIns, RecordRegistration(t) PROVE AttemptsBounded'
  <2>1. CASE kind = "register"
    BY <1>5, <1>6, <2>1 DEF RecordRegistration
  <2>2. CASE kind = "login"
    BY <1>6, <2>2 DEF RecordRegistration, SignInInv, LoginsRecordLast
  <2> QED BY <1>1, <2>1, <2>2 DEF Kinds
<1>7. ASSUME NEW t \in SignIns, Login(t) PROVE AttemptsBounded'
  <2>1. CASE Stage(t) = "failed" /\ Record(t, "idle")
    BY <1>5, <1>7, <2>1 DEF Login
  <2>2. ASSUME NEW s \in {"failed", "passed"}, Stage(t) = "admitted", Becomes(t, s),
               UNCHANGED <<kind, shared, own, degraded, used, accountsMade>>
        PROVE  AttemptsBounded'
    <3>1. OnTheirWay' \subseteq OnTheirWay
      BY <1>3, <1>7, <2>2 DEF OnTheirWay, Login
    <3> QED BY <1>1, <1>2, <2>2, <3>1
  <2>3. CASE Stage(t) = "passed" /\ Clear(t)
    <3>1. OnTheirWay' \subseteq OnTheirWay
      BY <1>3, <1>7, <2>3 DEF OnTheirWay, Login, Clear
    <3> QED BY <1>1, <1>2, <2>3, <3>1 DEF Clear
  <2> QED BY <1>7, <2>1, <2>2, <2>3 DEF Login
<1>8. ASSUME NEW t \in SignIns, ReadCode(t) \/ AddUser(t) PROVE AttemptsBounded'
  <2>1. UNCHANGED <<kind, shared, degraded>> /\ \A u \in SignIns \ {t} : Stage(u)' = Stage(u)
    BY <1>8 DEF ReadCode, AddUser, Becomes, Stage, SignInInv, SignInTypeOK
  <2>2. kind = "register" \/ Stage(t)' = "idle"
    BY <1>3, <1>8 DEF ReadCode, AddUser
  <2>3. kind = "register" => Stage(t)' # "checked"
    BY <1>8 DEF ReadCode, AddUser, Becomes, Stage, At, SignInInv, SignInTypeOK
  <2>4. OnTheirWay' \subseteq OnTheirWay
    BY <2>1, <2>2, <2>3 DEF OnTheirWay
  <2> QED BY <1>1, <1>2, <2>1, <2>4
<1>9. ASSUME NEW p \in ApiProcesses, RedisFails(p) PROVE AttemptsBounded'
  <2>1. OnTheirWay' \subseteq OnTheirWay /\ shared' = shared
    BY <1>9 DEF RedisFails, OnTheirWay, Stage
  <2> QED BY <1>1, <1>2, <2>1
<1>10. ASSUME LeaveWindow PROVE AttemptsBounded'
  <2>1. OnTheirWay' = OnTheirWay /\ shared' \in Nat /\ shared' <= shared
    BY <1>1, <1>10 DEF LeaveWindow, OnTheirWay, Stage
  <2> QED BY <1>2, <2>1
<1>11. CASE UNCHANGED signInVars
  <2>1. OnTheirWay' = OnTheirWay /\ shared' = shared
    BY <1>11 DEF signInVars, OnTheirWay, Stage
  <2> QED BY <1>1, <1>2, <2>1
<1> QED BY <1>4, <1>6, <1>7, <1>8, <1>9, <1>10, <1>11 DEF SignInNext

(* A window exceeds its limit by no more than the requests in flight, for   *)
(* every number of requests, processes and any limit, whichever processes   *)
(* give Redis up: a request passes the check only while the window has room, *)
(* and takes its place among the requests when it is recorded.              *)
THEOREM AttemptsAlwaysBounded == SignInSpec => []AttemptsBounded
<1>1. SignInInv /\ [SignInNext]_signInVars => SignInInv'
  BY SignInTypes, LoginsKeepOrder, AttemptsStep DEF SignInInv
<1>2. SignInInv => AttemptsBounded
  BY DEF SignInInv
<1> QED BY SignInInvInit, <1>1, <1>2, PTL DEF SignInSpec

-----------------------------------------------------------------------------
(* Uploads: a completed session has its object                             *)

(* Requests wait for each other: one completion or cancellation at a time.  *)
Working(r) == completion[r].pc \notin {"unused", "done"}
WorksAlone ==
    \A r \in Completions : Working(r) =>
        /\ cancelling = NoUri
        /\ \A s \in Completions : Working(s) => s = r

(* A cancellation has loaded a session that was not completed.              *)
CancelsOpen == cancelling # NoUri => upload.status \in {"prepared", "uploading"}

(* What a completion knows of is what the row names, and from its first     *)
(* rewrite on it is there.                                                  *)
Knows(pc, from, at, row, stored) ==
    pc \notin {"unused", "done"} =>
        /\ at = row.uri
        /\ pc \notin {"loaded", "register"} => row.status = "uploading"
        /\ pc \in {"loaded", "verify", "normalize", "stabilize", "move"} => at = from \/ at \in stored
        /\ pc = "moved" => Final \in stored
        /\ pc \in {"drop", "complete"} => at \in stored
KnowsItsObject == \A r \in Completions : Knows(completion[r].pc, completion[r].from, completion[r].at, upload, objects)

UploadInv == UploadTypeOK /\ WorksAlone /\ CancelsOpen /\ KnowsItsObject /\ CompletedHasObject

UploadStage ==
    {"unused", "loaded", "verify", "normalize", "stabilize", "move", "moved",
     "drop", "complete", "register", "failing", "done"}
UploadRow ==
    [status : {"prepared", "uploading", "completed", "failed", "cancelled"}, uri : Uris]

-----------------------------------------------------------------------------
(* Initially nothing works.                                                *)
LEMMA UploadInvInit == UploadInit => UploadInv
<1> SUFFICES ASSUME UploadInit PROVE UploadInv
  OBVIOUS
<1>1. UploadTypeOK
  BY DEF UploadInit, UploadTypeOK, NewCompletion, Uris
<1>2. \A r \in Completions : ~Working(r)
  BY DEF UploadInit, Working, NewCompletion
<1>3. KnowsItsObject
  BY <1>2 DEF UploadInit, KnowsItsObject, Knows, Working, NewCompletion
<1> QED BY <1>1, <1>2, <1>3 DEF UploadInv, WorksAlone, CancelsOpen, CompletedHasObject, UploadInit

(* A completion that works is the only one, so that a step of it keeps the  *)
(* invariant when what it comes to know fits the row and the store.         *)
LEMMA OnlyOneWorks ==
    ASSUME UploadInv, NEW r \in Completions, Working(r),
           NEW pc \in UploadStage, NEW at \in Uris, NEW made \in SUBSET Uris,
           completion' = [completion EXCEPT ![r].pc = pc, ![r].at = at, ![r].made = made],
           cancelling' = cancelling, registered' \in {"nothing", "artifact", "asset"},
           processing' = processing, upload' \in UploadRow, objects' \subseteq Uris,
           Knows(pc, completion[r].from, at, upload', objects'), CompletedHasObject'
    PROVE  UploadInv'
<1>1. cancelling = NoUri /\ \A s \in Completions \ {r} : ~Working(s)
  BY DEF UploadInv, WorksAlone
<1>2. \A s \in Completions \ {r} : completion'[s] = completion[s]
  BY DEF UploadInv, UploadTypeOK
<1>3. /\ completion'[r].pc = pc /\ completion'[r].at = at
      /\ completion'[r].from = completion[r].from
  BY DEF UploadInv, UploadTypeOK
<1>4. UploadTypeOK'
  <2>1. /\ completion \in [Completions -> [pc : UploadStage, from : Uris, at : Uris, made : SUBSET Uris]]
        /\ processing \subseteq {"normalize", "stabilize"} /\ cancelling \in Uris \cup {NoUri}
    BY DEF UploadInv, UploadTypeOK, UploadStage
  <2>2. completion' \in [Completions -> [pc : UploadStage, from : Uris, at : Uris, made : SUBSET Uris]]
    BY <2>1
  <2> QED BY <2>1, <2>2 DEF UploadTypeOK, UploadStage, UploadRow
<1>5. \A s \in Completions \ {r} : ~Working(s)'
  BY <1>1, <1>2 DEF Working
<1>6. WorksAlone' /\ CancelsOpen'
  BY <1>1, <1>5 DEF WorksAlone, CancelsOpen
<1>7. KnowsItsObject'
  BY <1>3, <1>5 DEF KnowsItsObject, Knows, Working
<1> QED BY <1>4, <1>6, <1>7 DEF UploadInv

(* The same for a step that only goes on.                                  *)
LEMMA OnlyGoesOn ==
    ASSUME UploadInv, NEW r \in Completions, Working(r), NEW pc \in UploadStage, CompletionGoes(r, pc),
           cancelling' = cancelling, registered' \in {"nothing", "artifact", "asset"},
           processing' = processing, upload' \in UploadRow, objects' \subseteq Uris,
           Knows(pc, completion[r].from, completion[r].at, upload', objects'), CompletedHasObject'
    PROVE  UploadInv'
<1> DEFINE at == completion[r].at
           made == completion[r].made
<1>1. /\ at \in Uris /\ made \in SUBSET Uris
      /\ completion' = [completion EXCEPT ![r].pc = pc, ![r].at = at, ![r].made = made]
  BY DEF UploadInv, UploadTypeOK, CompletionGoes
<1> HIDE DEF at, made
<1>2. Knows(pc, completion[r].from, at, upload', objects')
  BY DEF at
<1> QED BY <1>1, <1>2, OnlyOneWorks

(* A step that also takes over what the row names.                         *)
LEMMA OnlyReloads ==
    ASSUME UploadInv, NEW r \in Completions, Working(r), NEW pc \in UploadStage, NEW at \in Uris,
           completion' = [completion EXCEPT ![r].pc = pc, ![r].at = at],
           cancelling' = cancelling, registered' \in {"nothing", "artifact", "asset"},
           processing' = processing, upload' \in UploadRow, objects' \subseteq Uris,
           Knows(pc, completion[r].from, at, upload', objects'), CompletedHasObject'
    PROVE  UploadInv'
<1> DEFINE made == completion[r].made
<1>1. /\ made \in SUBSET Uris
      /\ completion' = [completion EXCEPT ![r].pc = pc, ![r].at = at, ![r].made = made]
  BY DEF UploadInv, UploadTypeOK
<1> HIDE DEF made
<1> QED BY <1>1, OnlyOneWorks

(* What holds of a completion that works.                                  *)
LEMMA WorkerFacts ==
    ASSUME UploadInv, NEW r \in Completions, Working(r)
    PROVE  /\ completion[r].pc \in UploadStage /\ completion[r].from \in Uris
           /\ completion[r].at = upload.uri /\ completion[r].made \subseteq Uris
           /\ Knows(completion[r].pc, completion[r].from, completion[r].at, upload, objects)
           /\ completion[r].pc \notin {"loaded", "register"} => upload.status = "uploading"
           /\ upload \in UploadRow /\ objects \subseteq Uris
           /\ upload.status = "completed" => upload.uri \in objects
BY DEF UploadInv, UploadTypeOK, UploadStage, UploadRow, KnowsItsObject, Knows, Working, CompletedHasObject

(* The stages that rewrite.                                                *)
LEMMA RewriteKeeps ==
    ASSUME UploadInv, NEW r \in Completions,
           NEW what \in {"normalize", "stabilize"}, NEW key \in {"normalized", "stabilized"},
           NEW then \in {"stabilize", "move"}, Rewrite(r, what, key, then)
    PROVE  UploadInv'
<1> DEFINE new == <<key, r>>
<1>1. /\ completion[r].pc = what /\ Working(r)
      /\ registered' \in {"nothing", "artifact", "asset"}
      /\ processing' = processing /\ cancelling' = cancelling
      /\ new \in Uris
  BY DEF UploadInv, UploadTypeOK, Rewrite, Working, Uris
<1> HIDE DEF new
<1>2. CASE CompletionGoes(r, "failing") /\ UNCHANGED <<upload, objects>>
  <2>1. Knows("failing", completion[r].from, completion[r].at, upload', objects') /\ CompletedHasObject'
    BY <1>1, <1>2, WorkerFacts DEF Knows, CompletedHasObject
  <2> QED BY <1>1, <1>2, <2>1, WorkerFacts, OnlyGoesOn DEF UploadStage
<1>3. CASE /\ objects' = objects \cup {new}
           /\ upload' = [upload EXCEPT !.uri = new]
           /\ completion' = [completion EXCEPT ![r].pc = then, ![r].at = new,
                                               ![r].made = @ \cup {new}]
  <2> DEFINE made == completion[r].made \cup {new}
  <2>1. /\ completion' = [completion EXCEPT ![r].pc = then, ![r].at = new, ![r].made = made]
        /\ made \in SUBSET Uris
    BY <1>1, <1>3, WorkerFacts
  <2>2. /\ upload' \in UploadRow /\ upload'.uri = new /\ upload'.status = "uploading"
        /\ objects' \subseteq Uris /\ new \in objects'
    BY <1>1, <1>3, WorkerFacts DEF UploadRow
  <2>3. Knows(then, completion[r].from, new, upload', objects') /\ CompletedHasObject'
    BY <2>2 DEF Knows, CompletedHasObject
  <2> HIDE DEF made
  <2> QED BY <1>1, <2>1, <2>2, <2>3, OnlyOneWorks DEF UploadStage
<1> QED BY <1>2, <1>3 DEF Rewrite, new

(* A completion starts when nothing else works.                            *)
LEMMA StartKeeps ==
    ASSUME UploadInv, "overlap" \notin UploadFaults, NEW r \in Completions, StartCompletion(r)
    PROVE  UploadInv'
<1> DEFINE d == [NewCompletion("loaded") EXCEPT !.from = upload.uri, !.at = upload.uri]
<1>1. /\ cancelling = NoUri /\ \A s \in Completions : ~Working(s)
      /\ completion' = [completion EXCEPT ![r] = d]
      /\ UNCHANGED <<upload, objects, registered, processing, cancelling>>
  BY DEF StartCompletion, Quiet, Working
<1>2. /\ d \in [pc : UploadStage, from : Uris, at : Uris, made : SUBSET Uris]
      /\ d.from = upload.uri /\ d.at = upload.uri /\ d.pc = "loaded"
  BY DEF NewCompletion, UploadStage, UploadInv, UploadTypeOK, Uris
<1> HIDE DEF d
<1>3. completion'[r] = d /\ \A s \in Completions \ {r} : completion'[s] = completion[s]
  BY <1>1 DEF UploadInv, UploadTypeOK
<1>4. UploadTypeOK'
  BY <1>1, <1>2 DEF UploadInv, UploadTypeOK, UploadStage
<1>5. \A s \in Completions \ {r} : ~Working(s)'
  BY <1>1, <1>3 DEF Working
<1>6. WorksAlone' /\ CancelsOpen' /\ CompletedHasObject'
  BY <1>1, <1>5 DEF UploadInv, WorksAlone, CancelsOpen, CompletedHasObject
<1>7. KnowsItsObject'
  BY <1>1, <1>2, <1>3, <1>5 DEF KnowsItsObject, Knows, Working
<1> QED BY <1>4, <1>6, <1>7 DEF UploadInv

(* The other steps of a completion.                                        *)
LEMMA CompletionKeeps ==
    ASSUME UploadInv, NEW r \in Completions,
           \/ MarkUploading(r) \/ Verify(r) \/ CopyToFinal(r) \/ NameFinal(r) \/ DropStaging(r)
           \/ Fail(r) \/ MarkCompleted(r) \/ Register(r) \/ CrashUpload(r)
    PROVE  UploadInv'
<1> DEFINE Pc == completion[r].pc
           From == completion[r].from
           Where == completion[r].at
<1>1. /\ Working(r) /\ Pc \in UploadStage
      /\ cancelling' = cancelling /\ processing' = processing
      /\ registered' \in {"nothing", "artifact", "asset"}
  BY DEF UploadInv, UploadTypeOK, UploadStage, Working, MarkUploading, Verify, CopyToFinal,
         NameFinal, DropStaging, Fail, MarkCompleted, Register, CrashUpload
<1>2. /\ From \in Uris /\ Where = upload.uri /\ Where \in Uris /\ Knows(Pc, From, Where, upload, objects)
      /\ Pc \notin {"loaded", "register"} => upload.status = "uploading"
      /\ upload \in UploadRow /\ objects \subseteq Uris
      /\ upload.status = "completed" => upload.uri \in objects
      /\ Final \in Uris
  BY <1>1, WorkerFacts DEF UploadRow, Uris
<1>3. ASSUME NEW pc \in UploadStage, CompletionGoes(r, pc), upload' \in UploadRow, objects' \subseteq Uris,
             Knows(pc, From, Where, upload', objects'), CompletedHasObject'
      PROVE  UploadInv'
  BY <1>1, <1>3, OnlyGoesOn
<1>4. ASSUME NEW pc \in UploadStage, NEW at \in Uris,
             completion' = [completion EXCEPT ![r].pc = pc, ![r].at = at],
             upload' \in UploadRow, objects' \subseteq Uris,
             Knows(pc, From, at, upload', objects'), CompletedHasObject'
      PROVE  UploadInv'
  BY <1>1, <1>4, OnlyReloads
<1>5. CASE MarkUploading(r)
  <2>1. CASE MayBecome(upload.status, "uploading")
    <3>1. /\ upload' = [upload EXCEPT !.status = "uploading"] /\ objects' = objects /\ Pc = "loaded"
          /\ completion' = [completion EXCEPT ![r].pc = "verify", ![r].at = upload.uri]
      BY <1>5, <2>1 DEF MarkUploading
    <3>2. upload' \in UploadRow /\ upload'.status = "uploading" /\ upload'.uri = upload.uri
      BY <1>2, <3>1 DEF UploadRow
    <3>3. Knows("verify", From, upload.uri, upload', objects') /\ CompletedHasObject'
      BY <1>2, <3>1, <3>2 DEF Knows, CompletedHasObject
    <3> QED BY <1>2, <1>4, <3>1, <3>2, <3>3 DEF UploadStage
  <2>2. CASE ~MayBecome(upload.status, "uploading")
    <3>1. upload' = upload /\ objects' = objects /\ CompletionGoes(r, "done")
      BY <1>5, <2>2 DEF MarkUploading
    <3>2. Knows("done", From, Where, upload', objects') /\ CompletedHasObject'
      BY <1>2, <3>1 DEF Knows, CompletedHasObject
    <3> QED BY <1>2, <1>3, <3>1, <3>2 DEF UploadStage
  <2> QED BY <2>1, <2>2
<1>6. CASE Verify(r)
  <2>1. upload' = upload /\ objects' = objects /\ Pc = "verify"
    BY <1>6 DEF Verify
  <2>2. CASE completion' = [completion EXCEPT ![r].pc = AfterVerify(r), ![r].at = upload.uri]
    <3> DEFINE pc == AfterVerify(r)
    <3>1. pc \in {"normalize", "stabilize", "move"}
      BY DEF AfterVerify
    <3> HIDE DEF pc
    <3>2. Knows(pc, From, upload.uri, upload', objects') /\ CompletedHasObject'
      BY <1>2, <2>1, <3>1 DEF Knows, CompletedHasObject
    <3>3. pc \in UploadStage /\ completion' = [completion EXCEPT ![r].pc = pc, ![r].at = upload.uri]
      BY <2>2, <3>1 DEF UploadStage, pc
    <3> QED BY <1>2, <1>4, <2>1, <3>2, <3>3
  <2>3. CASE CompletionGoes(r, "failing")
    <3>1. Knows("failing", From, Where, upload', objects') /\ CompletedHasObject'
      BY <1>2, <2>1 DEF Knows, CompletedHasObject
    <3> QED BY <1>2, <1>3, <2>1, <2>3, <3>1 DEF UploadStage
  <2> QED BY <1>6, <2>2, <2>3 DEF Verify
<1>7. CASE CopyToFinal(r)
  <2>1. upload' = upload /\ Pc = "move"
    BY <1>7 DEF CopyToFinal
  <2>2. PICK pc \in UploadStage :
            /\ CompletionGoes(r, pc)
            /\ \/ pc = "drop" /\ Where # From /\ objects' = objects
               \/ pc = "moved" /\ objects' = objects \cup {Final}
               \/ pc = "failing" /\ objects' = objects
    BY <1>7 DEF CopyToFinal, UploadStage
  <2>3. Knows(pc, From, Where, upload', objects') /\ CompletedHasObject'
    BY <1>2, <2>1, <2>2 DEF Knows, CompletedHasObject
  <2> QED BY <1>2, <1>3, <2>1, <2>2, <2>3
<1>8. CASE NameFinal(r)
  <2>1. /\ upload' = [upload EXCEPT !.uri = Final] /\ objects' = objects /\ Pc = "moved"
        /\ completion' = [completion EXCEPT ![r].pc = "drop", ![r].at = Final]
    BY <1>8 DEF NameFinal
  <2>2. upload' \in UploadRow /\ upload'.status = "uploading" /\ upload'.uri = Final
    BY <1>2, <2>1 DEF UploadRow
  <2>3. Knows("drop", From, Final, upload', objects') /\ CompletedHasObject'
    BY <1>2, <2>1, <2>2 DEF Knows, CompletedHasObject
  <2> QED BY <1>2, <1>4, <2>1, <2>2, <2>3 DEF UploadStage
<1>9. CASE DropStaging(r)
  <2>1. /\ upload' = upload /\ Pc = "drop" /\ CompletionGoes(r, "complete")
        /\ objects' = objects \/ (Where # From /\ objects' = objects \ {From})
    BY <1>9 DEF DropStaging
  <2>2. Knows("complete", From, Where, upload', objects') /\ CompletedHasObject'
    BY <1>2, <2>1 DEF Knows, CompletedHasObject
  <2> QED BY <1>2, <1>3, <2>1, <2>2 DEF UploadStage
<1>10. CASE Fail(r)
  <2>1. /\ Pc = "failing" /\ CompletionGoes(r, "done") /\ objects' \subseteq objects
        /\ upload' = [upload EXCEPT !.status = "failed"]
    BY <1>2, <1>10 DEF Fail, MayBecome
  <2>2. upload' \in UploadRow /\ upload'.status = "failed"
    BY <1>2, <2>1 DEF UploadRow
  <2>3. Knows("done", From, Where, upload', objects') /\ CompletedHasObject'
    BY <2>2 DEF Knows, CompletedHasObject
  <2> QED BY <1>2, <1>3, <2>1, <2>2, <2>3 DEF UploadStage
<1>11. CASE MarkCompleted(r)
  <2>1. /\ upload' = [upload EXCEPT !.status = "completed"] /\ objects' = objects /\ Pc = "complete"
        /\ completion' = [completion EXCEPT ![r].pc = "register", ![r].at = upload.uri]
    BY <1>2, <1>11 DEF MarkCompleted, MayBecome
  <2>2. upload' \in UploadRow /\ upload'.status = "completed" /\ upload'.uri = upload.uri
    BY <1>2, <2>1 DEF UploadRow
  <2>3. Knows("register", From, upload.uri, upload', objects') /\ CompletedHasObject'
    BY <1>2, <2>1, <2>2 DEF Knows, CompletedHasObject
  <2> QED BY <1>2, <1>4, <2>1, <2>2, <2>3 DEF UploadStage
<1>12. CASE Register(r) \/ CrashUpload(r)
  <2>1. upload' = upload /\ objects' = objects /\ CompletionGoes(r, "done")
    BY <1>12 DEF Register, CrashUpload
  <2>2. Knows("done", From, Where, upload', objects') /\ CompletedHasObject'
    BY <1>2, <2>1 DEF Knows, CompletedHasObject
  <2> QED BY <1>2, <1>3, <2>1, <2>2 DEF UploadStage
<1> QED BY <1>5, <1>6, <1>7, <1>8, <1>9, <1>10, <1>11, <1>12

(* The browser and cancellations.                                          *)
LEMMA UploadUserKeeps ==
    ASSUME UploadInv, "overlap" \notin UploadFaults, BrowserPuts \/ LoadForCancel \/ Cancel
    PROVE  UploadInv'
<1>1. CASE BrowserPuts
  <2>1. UploadTypeOK' /\ WorksAlone' /\ CancelsOpen' /\ CompletedHasObject'
    BY <1>1 DEF UploadInv, BrowserPuts, UploadTypeOK, WorksAlone, Working, CancelsOpen,
                CompletedHasObject, Uris
  <2>2. KnowsItsObject'
    BY <1>1 DEF UploadInv, BrowserPuts, KnowsItsObject, Knows
  <2> QED BY <2>1, <2>2 DEF UploadInv
<1>2. CASE LoadForCancel
  <2>1. \A r \in Completions : ~Working(r) /\ ~Working(r)'
    BY <1>2 DEF LoadForCancel, Quiet, Working
  <2>2. UploadTypeOK' /\ CancelsOpen' /\ CompletedHasObject'
    BY <1>2 DEF UploadInv, LoadForCancel, UploadTypeOK, CancelsOpen, CompletedHasObject
  <2> QED BY <2>1, <2>2 DEF UploadInv, WorksAlone, KnowsItsObject, Knows, Working
<1>3. CASE Cancel
  <2>1. \A r \in Completions : ~Working(r) /\ ~Working(r)'
    BY <1>3 DEF UploadInv, Cancel, WorksAlone, Working
  <2>2. upload' = [upload EXCEPT !.status = "cancelled"]
    BY <1>3 DEF UploadInv, Cancel, CancelsOpen, MayBecome
  <2>3. UploadTypeOK' /\ CancelsOpen' /\ CompletedHasObject'
    BY <1>3, <2>2 DEF UploadInv, Cancel, UploadTypeOK, CancelsOpen, CompletedHasObject
  <2> QED BY <2>1, <2>3 DEF UploadInv, WorksAlone, KnowsItsObject, Knows, Working
<1> QED BY <1>1, <1>2, <1>3

LEMMA UploadStep ==
    ASSUME "overlap" \notin UploadFaults
    PROVE  UploadInv /\ [UploadNext]_uploadVars => UploadInv'
<1> SUFFICES ASSUME UploadInv, [UploadNext]_uploadVars PROVE UploadInv'
  OBVIOUS
<1>1. CASE UNCHANGED uploadVars
  BY <1>1 DEF UploadInv, uploadVars, UploadTypeOK, WorksAlone, Working, CancelsOpen, KnowsItsObject,
              Knows, CompletedHasObject
<1>2. ASSUME NEW r \in Completions, Normalize(r) PROVE UploadInv'
  BY <1>2, RewriteKeeps DEF Normalize
<1>3. ASSUME NEW r \in Completions, Stabilize(r) PROVE UploadInv'
  BY <1>3, RewriteKeeps DEF Stabilize
<1> QED BY <1>1, <1>2, <1>3, StartKeeps, CompletionKeeps, UploadUserKeeps DEF UploadNext

(* A completed session has the object it names, whatever an earlier         *)
(* completion left when it died, for every set of completions, as long as   *)
(* they wait for each other: what a request works on is what the row names, *)
(* and it is there from its first rewrite on (KnowsItsObject).              *)
THEOREM CompletedAlwaysHasObject ==
    ASSUME "overlap" \notin UploadFaults
    PROVE  UploadSpec => []CompletedHasObject
<1>1. UploadInv /\ [UploadNext]_uploadVars => UploadInv'
  BY UploadStep
<1>2. UploadInv => CompletedHasObject
  BY DEF UploadInv
<1> QED BY UploadInvInit, <1>1, <1>2, PTL DEF UploadSpec
=============================================================================
