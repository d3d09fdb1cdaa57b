---------------------------- MODULE PublishBatch ----------------------------
(***************************************************************************)
(* One publish batch: items that requests publish to platform accounts.    *)
(*                                                                         *)
(* A submit reads the rows in one transaction (A), posts with none open,   *)
(* and reads and writes them in another (B). A retry posts inside its      *)
(* transaction. No row is locked before it is written, so both may write   *)
(* what they computed from rows that have changed since.                   *)
(*                                                                         *)
(* Statuses that only exist in memory during transaction B (normalizing to *)
(* cover_running and publishing of an item, processing of a batch) are     *)
(* left out, and so are covers, schedules and dry-run attempts.            *)
(***************************************************************************)
EXTENDS Integers, FiniteSets, FiniteSetsExt

CONSTANTS
    NItems,    \* items are numbered in the order they were created
    Accounts,  \* the enabled accounts of the case on the item's platform
    Requests,  \* identifiers of the submits and retries, each used once
    Ops        \* what users and the environment may do

(* dry_run  a submit that posts nothing                                    *)
(* select   users select and deselect items                                *)
(* delete   users delete items or the batch                                *)
(* overlap  requests need not wait for each other                          *)
(* crash    the API process dies while it serves requests                  *)
AllOps == {"dry_run", "select", "delete", "overlap", "crash"}

Items == 1..NItems

ASSUME PublishConstants ==
    /\ NItems \in Nat \ {0}
    /\ IsFiniteSet(Accounts) /\ Accounts # {}
    /\ IsFiniteSet(Requests)
    /\ Ops \subseteq AllOps

VARIABLES
    batch,     \* status of the batch row, "gone" when it is deleted
    item,      \* status and selection of the item rows
    recorded,  \* publish_attempts rows of an item that say published
    posted,    \* how often an account has published an item (the platform)
    req        \* the requests

batchVars == <<batch, item, recorded, posted, req>>

BatchStatus == {"draft", "review_ready", "publishing", "completed", "partial_failed", "gone"}
ItemStatus == {"uploaded", "review_ready", "published", "publish_failed", "gone"}

(* tried: the items given to the adapter; todo: posts still to be made;    *)
(* failed: items with a failed post; chosen, saw, sawBatch: what the       *)
(* transaction that writes has read.                                       *)
Request ==
    [kind : {"none", "submit", "dry_run", "retry"},
     phase : {"unused", "posting", "writing", "done"},
     tried : SUBSET Items, todo : SUBSET (Items \X Accounts), failed : SUBSET Items,
     chosen : SUBSET Items, saw : [Items -> ItemStatus], sawBatch : BatchStatus]

BatchTypeOK ==
    /\ batch \in BatchStatus
    /\ item \in [Items -> [status : ItemStatus, selected : BOOLEAN]]
    /\ recorded \in [Items -> 0..Cardinality(Requests)]
    /\ posted \in [Items -> [Accounts -> 0..Cardinality(Requests)]]
    /\ req \in [Requests -> Request]

Blank(phase) ==
    [kind |-> "none", phase |-> phase, tried |-> {}, todo |-> {}, failed |-> {},
     chosen |-> {}, saw |-> [i \in Items |-> "gone"], sawBatch |-> "gone"]

(* create_batch: every item is uploaded and selected.                      *)
BatchInit ==
    /\ batch = "draft"
    /\ item = [i \in Items |-> [status |-> "uploaded", selected |-> TRUE]]
    /\ recorded = [i \in Items |-> 0]
    /\ posted = [i \in Items |-> [a \in Accounts |-> 0]]
    /\ req = [q \in Requests |-> Blank("unused")]

-----------------------------------------------------------------------------
Statuses == [i \in Items |-> item[i].status]
Selected == {i \in Items : item[i].status # "gone" /\ item[i].selected}
Idle == \A q \in Requests : req[q].phase \in {"unused", "done"}

(* A retry holds the row of its item from its flush to its commit.         *)
Locked(S) ==
    \E q \in Requests : req[q].kind = "retry" /\ req[q].phase = "writing" /\ req[q].tried \cap S # {}

(* The statuses of a batch that allow "publishing" after at most two moves.*)
Open == {"draft", "review_ready", "partial_failed"}

MayBegin(q) == req[q].phase = "unused" /\ (Idle \/ "overlap" \in Ops)

End(q) == req' = [req EXCEPT ![q] = Blank("done")]

(* _assert_item_submittable                                                *)
Submittable(status) == status \in {"uploaded", "review_ready", "publish_failed"}

(* Transaction A.                                                          *)
Submit(q, kind) ==
    /\ kind = "submit" \/ "dry_run" \in Ops
    /\ MayBegin(q)
    /\ batch # "gone" /\ Selected # {}
    /\ \A i \in Selected : Submittable(item[i].status)
    /\ req' = [req EXCEPT ![q] =
         [Blank("posting") EXCEPT
             !.kind = kind,
             !.tried = IF kind = "submit" THEN Selected ELSE {},
             !.todo = IF kind = "submit" THEN Selected \X Accounts ELSE {}]]
    /\ UNCHANGED <<batch, item, recorded, posted>>

RetryAnything(q, i) ==   \* mutant: the status of the item is not checked
    /\ MayBegin(q)
    /\ batch # "gone" /\ item[i].status # "gone"
    /\ req' = [req EXCEPT ![q] =
         [Blank("posting") EXCEPT !.kind = "retry", !.tried = {i},
                                  !.todo = {i} \X Accounts, !.sawBatch = batch]]
    /\ UNCHANGED <<batch, item, recorded, posted>>

Retry(q, i) ==
    /\ MayBegin(q)
    /\ batch # "gone" /\ item[i].status = "publish_failed"
    /\ req' = [req EXCEPT ![q] =
         [Blank("posting") EXCEPT !.kind = "retry", !.tried = {i},
                                  !.todo = {i} \X Accounts, !.sawBatch = batch]]
    /\ UNCHANGED <<batch, item, recorded, posted>>

(* run_item_publish, one account of one item after the other; an item whose*)
(* files cannot be prepared is posted nowhere. As PublishPort says, a post *)
(* that is reported as failed may be on the platform all the same.         *)
Post(q) ==
    /\ req[q].phase = "posting" /\ req[q].todo # {}
    /\ LET todo == req[q].todo
           i == Min({t[1] : t \in todo})
       IN  \/ \E a \in {b \in Accounts : <<i, b>> \in todo} :
                /\ posted' = [posted EXCEPT ![i][a] = @ + 1]
                /\ req' = [req EXCEPT ![q].todo = @ \ {<<i, a>>}]
           \/ \E a \in {b \in Accounts : <<i, b>> \in todo} :
                /\ req' = [req EXCEPT ![q].todo = @ \ {<<i, a>>}, ![q].failed = @ \cup {i}]
                /\ posted' \in {posted, [posted EXCEPT ![i][a] = @ + 1]}
           \/ /\ {i} \X Accounts \subseteq todo
              /\ req' = [req EXCEPT ![q].todo = @ \ ({i} \X Accounts), ![q].failed = @ \cup {i}]
              /\ UNCHANGED posted
    /\ UNCHANGED <<batch, item, recorded>>

(* What transaction B checks of an item that is selected then.             *)
Accepts(kind, status) ==
    IF kind = "dry_run" THEN status \in {"uploaded", "review_ready"}
                        ELSE Submittable(status)

(* Transaction B reads the rows again, and gives up on what it may not move.*)
Reload(q) ==
    /\ req[q].kind \in {"submit", "dry_run"}
    /\ req[q].phase = "posting" /\ req[q].todo = {}
    /\ IF /\ batch \in IF req[q].kind = "dry_run" THEN {"draft"} ELSE Open
          /\ \A i \in Selected : Accepts(req[q].kind, item[i].status)
       THEN req' = [req EXCEPT ![q].phase = "writing", ![q].chosen = Selected,
                               ![q].saw = Statuses, ![q].sawBatch = batch]
       ELSE End(q)
    /\ UNCHANGED <<batch, item, recorded, posted>>

ResultByDefault(r, i) ==   \* mutant: a missing outcome is a success
    IF r.kind = "dry_run" THEN "review_ready"
    ELSE IF i \in r.failed THEN "publish_failed" ELSE "published"

(* The status transaction B gives an item: a missing outcome is a failure. *)
Result(r, i) ==
    IF r.kind = "dry_run" THEN "review_ready"
    ELSE IF i \in r.tried \ r.failed THEN "published" ELSE "publish_failed"

BatchResultBlind(r) ==   \* mutant: any_failed is forgotten
    IF r.kind = "dry_run" THEN "review_ready" ELSE "completed"

BatchResult(r) ==
    IF r.kind = "dry_run" THEN "review_ready"
    ELSE IF \E i \in r.chosen : Result(r, i) = "publish_failed" THEN "partial_failed"
    ELSE "completed"

(* The session updates a column whose value has changed since it was read; *)
(* the batch's may have been written as publishing by an earlier flush.    *)
Write(q) ==
    LET r == req[q] IN
    /\ r.kind \in {"submit", "dry_run"} /\ r.phase = "writing"
    /\ ~Locked(r.chosen)
    /\ End(q)
    /\ IF batch = "gone" \/ \E i \in r.chosen : item[i].status = "gone"
       THEN UNCHANGED <<batch, item, recorded>>
       ELSE /\ item' = [i \in Items |->
                  IF i \in r.chosen /\ Result(r, i) # r.saw[i]
                  THEN [item[i] EXCEPT !.status = Result(r, i)] ELSE item[i]]
            /\ recorded' = [i \in Items |->
                  IF i \in r.chosen /\ Result(r, i) = "published"
                  THEN recorded[i] + 1 ELSE recorded[i]]
            /\ batch' \in {BatchResult(r)} \cup
                  (IF BatchResult(r) = r.sawBatch THEN {batch} ELSE {})
    /\ UNCHANGED posted

(* A retry that failed raises and leaves no trace; one that succeeded writes*)
(* its item, and reads the others.                                         *)
RetryFlush(q) ==
    LET r == req[q] IN
    /\ r.kind = "retry" /\ r.phase = "posting" /\ r.todo = {}
    /\ ~Locked(r.tried)
    /\ IF r.failed # {} \/ \E i \in r.tried : item[i].status = "gone"
       THEN End(q)
       ELSE req' = [req EXCEPT ![q].phase = "writing",
                      ![q].saw = [i \in Items |-> IF i \in r.tried THEN "published"
                                                                   ELSE item[i].status]]
    /\ UNCHANGED <<batch, item, recorded, posted>>

(* The batch after a retry, from what the retry has read.                  *)
Retried(r) ==
    IF /\ r.sawBatch \in {"partial_failed", "publishing"}
       /\ \A i \in Items : r.saw[i] \in {"published", "gone"}
    THEN "completed"
    ELSE IF r.sawBatch = "partial_failed" THEN "publishing" ELSE r.sawBatch

RetryCommit(q) ==
    LET r == req[q] IN
    /\ r.kind = "retry" /\ r.phase = "writing"
    /\ End(q)
    /\ IF batch = "gone"
       THEN UNCHANGED <<batch, item, recorded>>
       ELSE /\ item' = [i \in Items |->
                  IF i \in r.tried THEN [item[i] EXCEPT !.status = "published"] ELSE item[i]]
            /\ recorded' = [i \in Items |->
                  IF i \in r.tried THEN recorded[i] + 1 ELSE recorded[i]]
            /\ batch' = IF Retried(r) = r.sawBatch THEN batch ELSE Retried(r)
    /\ UNCHANGED posted

-----------------------------------------------------------------------------
(* patch_item                                                              *)
Select(i) ==
    /\ "select" \in Ops
    /\ item[i].status # "gone" /\ ~Locked({i})
    /\ item' = [item EXCEPT ![i].selected = ~@]
    /\ UNCHANGED <<batch, recorded, posted, req>>

Gone == [status |-> "gone", selected |-> FALSE]

DeleteItem(i) ==
    /\ "delete" \in Ops
    /\ item[i].status # "gone" /\ ~Locked({i})
    /\ item' = [item EXCEPT ![i] = Gone]
    /\ recorded' = [recorded EXCEPT ![i] = 0]
    /\ UNCHANGED <<batch, posted, req>>

DeleteBatch ==
    /\ "delete" \in Ops
    /\ batch # "gone" /\ ~Locked(Items)
    /\ batch' = "gone"
    /\ item' = [i \in Items |-> Gone]
    /\ recorded' = [i \in Items |-> 0]
    /\ UNCHANGED <<posted, req>>

(* The requests in flight die with the API process.                        *)
CrashBatch ==
    /\ "crash" \in Ops
    /\ ~Idle
    /\ req' = [q \in Requests |->
                 IF req[q].phase = "unused" THEN req[q] ELSE Blank("done")]
    /\ UNCHANGED <<batch, item, recorded, posted>>

BatchNext ==
    \/ \E q \in Requests :
          \/ \E kind \in {"submit", "dry_run"} : Submit(q, kind)
          \/ \E i \in Items : Retry(q, i)
          \/ Post(q) \/ Reload(q) \/ Write(q) \/ RetryFlush(q) \/ RetryCommit(q)
    \/ \E i \in Items : Select(i) \/ DeleteItem(i)
    \/ DeleteBatch
    \/ CrashBatch

BatchSpec == BatchInit /\ [][BatchNext]_batchVars

-----------------------------------------------------------------------------
(* Properties                                                              *)

(* No row claims a post that did not happen: every attempt recorded as     *)
(* published stands for a post on every account, and an item is published  *)
(* only with such an attempt (sqlalchemy_repository.py 529-531, "only      *)
(* advances the item to published when the adapter actually reports        *)
(* success (never hard-coded)").                                           *)
HonestPublished ==
    \A i \in Items :
        /\ \A a \in Accounts : recorded[i] <= posted[i][a]
        /\ item[i].status = "published" => recorded[i] >= 1

(* What is known once the requests are over: the item of a post on a       *)
(* platform is published or failed, never one that looks as if it was not  *)
(* tried, and a batch is completed when every item is published, and not   *)
(* before ("once every item has published", sqlalchemy_repository.py       *)
(* 531-532).                                                               *)
BatchTellsAll ==
    Idle =>
        /\ \A i \in Items, a \in Accounts :
              posted[i][a] > 0 => item[i].status \in {"published", "publish_failed", "gone"}
        /\ batch # "gone" =>
              (batch = "completed" <=> \A i \in Items : item[i].status = "published")

(* A submit posts only what transaction B can still record: "Fail fast on  *)
(* unsubmittable start states before doing any media work"                 *)
(* (sqlalchemy_repository.py 302).                                         *)
FailsFast ==
    [][\A q \in Requests :
          req[q].kind = "submit" /\ posted' # posted /\ req'[q].todo # req[q].todo
              => batch \in Open]_<<batch, posted, req>>
=============================================================================
