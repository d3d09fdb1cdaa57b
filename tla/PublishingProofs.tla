-------------------------- MODULE PublishingProofs --------------------------
(***************************************************************************)
(* Proofs about the modules that publish: PublishBatch, for every number of *)
(* items, accounts and requests, and whatever users and the environment may *)
(* do (Ops), and DesktopConnector, for every set of accounts and calls.    *)
(***************************************************************************)
EXTENDS PublishBatch, DesktopConnector, FiniteSetTheorems, TLAPS

-----------------------------------------------------------------------------
(* PublishBatch: what is recorded as published was posted                  *)

BatchTypes ==
    /\ batch \in BatchStatus
    /\ item \in [Items -> [status : ItemStatus, selected : BOOLEAN]]
    /\ recorded \in [Items -> Nat]
    /\ posted \in [Items -> [Accounts -> Nat]]
    /\ req \in [Requests -> Request]

(* The request has posted the item on the account, successfully, and has    *)
(* not recorded it yet.                                                     *)
Holds(q, i, a) == i \in req[q].tried \ req[q].failed /\ <<i, a>> \notin req[q].todo
Holders(i, a) == {q \in Requests : Holds(q, i, a)}

(* Behind every recorded publication, and every one that a request is yet   *)
(* to record, there is a post of its own.                                   *)
Backed == \A i \in Items, a \in Accounts : recorded[i] + Cardinality(Holders(i, a)) <= posted[i][a]

(* A request writes when its posts are over, a retry when none has failed.  *)
WritesLast ==
    \A q \in Requests : req[q].phase = "writing" =>
        /\ req[q].todo = {}
        /\ req[q].kind = "retry" => req[q].failed = {}

PublishedRecorded == \A i \in Items : item[i].status = "published" => recorded[i] >= 1

HonestInv == BatchTypes /\ Backed /\ WritesLast /\ PublishedRecorded

-----------------------------------------------------------------------------
(* The number of requests that hold a post.                                *)
LEMMA HoldersFinite ==
    ASSUME NEW i, NEW a
    PROVE  IsFiniteSet(Holders(i, a)) /\ Cardinality(Holders(i, a)) \in Nat
<1>1. Holders(i, a) \subseteq Requests
  BY DEF Holders
<1> QED BY <1>1, PublishConstants, FS_Subset, FS_CardinalityType

(* One more post is enough for one more holder.                             *)
LEMMA OneMoreHolder ==
    ASSUME NEW S, NEW T, NEW q, IsFiniteSet(S), T \subseteq S \cup {q}
    PROVE  IsFiniteSet(T) /\ Cardinality(T) \in Nat /\ Cardinality(S) \in Nat
           /\ Cardinality(T) <= Cardinality(S) + 1
<1>1. /\ IsFiniteSet(S \cup {q}) /\ Cardinality(S \cup {q}) <= Cardinality(S) + 1
      /\ Cardinality(S) \in Nat
  BY FS_AddElement, FS_CardinalityType
<1>2. IsFiniteSet(T) /\ Cardinality(T) <= Cardinality(S \cup {q}) /\ Cardinality(T) \in Nat
  BY <1>1, FS_Subset, FS_CardinalityType
<1> QED BY <1>1, <1>2, FS_CardinalityType

(* Posts stay backed when no request comes to hold more.                    *)
LEMMA NoNewHolders ==
    ASSUME HonestInv, NEW i \in Items, NEW a \in Accounts, NEW S \in SUBSET Holders(i, a),
           NEW made \in Nat, NEW done \in Nat, made >= posted[i][a], done <= recorded[i]
    PROVE  done + Cardinality(S) <= made
<1>1. Cardinality(S) <= Cardinality(Holders(i, a)) /\ Cardinality(S) \in Nat
  BY HoldersFinite, FS_Subset, FS_CardinalityType
<1>2. recorded[i] \in Nat /\ posted[i][a] \in Nat /\ Cardinality(Holders(i, a)) \in Nat
  BY HoldersFinite DEF HonestInv, BatchTypes
<1> QED BY <1>1, <1>2 DEF HonestInv, Backed

(* A holder that records its post holds it no longer.                       *)
LEMMA HolderRecords ==
    ASSUME HonestInv, NEW i \in Items, NEW a \in Accounts, NEW q \in Holders(i, a)
    PROVE  recorded[i] + 1 + Cardinality(Holders(i, a) \ {q}) <= posted[i][a]
<1>1. /\ Cardinality(Holders(i, a) \ {q}) = Cardinality(Holders(i, a)) - 1
      /\ Cardinality(Holders(i, a)) \in Nat
  BY HoldersFinite, FS_RemoveElement
<1>2. recorded[i] \in Nat /\ posted[i][a] \in Nat
  BY DEF HonestInv, BatchTypes
<1> QED BY <1>1, <1>2 DEF HonestInv, Backed

-----------------------------------------------------------------------------
(* Initially there are no requests and no posts.                            *)
LEMMA HonestInit == BatchInit => HonestInv
<1> SUFFICES ASSUME BatchInit PROVE HonestInv
  OBVIOUS
<1>1. Blank("unused") \in Request /\ Blank("unused").tried = {} /\ Blank("unused").phase = "unused"
  BY DEF Blank, Request, ItemStatus, BatchStatus
<1>2. BatchTypes
  <2>1. recorded \in [Items -> Nat] /\ posted \in [Items -> [Accounts -> Nat]]
    BY DEF BatchInit
  <2>2. batch \in BatchStatus /\ item \in [Items -> [status : ItemStatus, selected : BOOLEAN]]
    BY DEF BatchInit, BatchStatus, ItemStatus
  <2>3. req \in [Requests -> Request]
    BY <1>1 DEF BatchInit
  <2> QED BY <2>1, <2>2, <2>3 DEF BatchTypes
<1>3. \A q \in Requests : req[q].tried = {} /\ req[q].phase = "unused"
  BY DEF BatchInit, Blank
<1>4. \A i \in Items, a \in Accounts : Holders(i, a) = {}
  BY <1>3 DEF Holders, Holds
<1>5. Backed
  <2> SUFFICES ASSUME NEW i \in Items, NEW a \in Accounts
               PROVE  recorded[i] + Cardinality(Holders(i, a)) <= posted[i][a]
    BY DEF Backed
  <2>1. recorded[i] = 0 /\ posted[i][a] = 0
    BY DEF BatchInit
  <2>2. Cardinality(Holders(i, a)) = 0
    BY <1>4, FS_EmptySet
  <2> QED BY <2>1, <2>2
<1>6. WritesLast /\ PublishedRecorded
  BY <1>3 DEF BatchInit, WritesLast, PublishedRecorded
<1> QED BY <1>2, <1>5, <1>6 DEF HonestInv

(* Only one request changes, and it comes to hold no more than before.      *)
LEMMA RequestKeeps ==
    ASSUME HonestInv, NEW q \in Requests, NEW new \in Request,
           req' = [req EXCEPT ![q] = new],
           \A i \in Items, a \in Accounts :
               i \in new.tried \ new.failed /\ <<i, a>> \notin new.todo => Holds(q, i, a),
           new.phase = "writing" => new.todo = {} /\ (new.kind = "retry" => new.failed = {}),
           UNCHANGED <<batch, item, recorded, posted>>
    PROVE  HonestInv'
<1>1. req'[q] = new /\ \A o \in Requests \ {q} : req'[o] = req[o]
  BY DEF HonestInv, BatchTypes
<1>2. BatchTypes'
  BY DEF HonestInv, BatchTypes
<1>3. \A i \in Items, a \in Accounts : Holders(i, a)' \subseteq Holders(i, a)
  BY <1>1 DEF Holders, Holds
<1>4. Backed'
  <2> SUFFICES ASSUME NEW i \in Items, NEW a \in Accounts
               PROVE  recorded[i] + Cardinality(Holders(i, a)') <= posted[i][a]
    BY DEF Backed
  <2>1. Holders(i, a)' \in SUBSET Holders(i, a) /\ recorded[i] \in Nat /\ posted[i][a] \in Nat
    BY <1>3 DEF HonestInv, BatchTypes
  <2> QED BY <2>1, NoNewHolders
<1>5. WritesLast' /\ PublishedRecorded'
  BY <1>1 DEF HonestInv, WritesLast, PublishedRecorded
<1> QED BY <1>2, <1>4, <1>5 DEF HonestInv

(* A request that ends without a trace.                                     *)
LEMMA EndKeeps ==
    ASSUME HonestInv, NEW q \in Requests, End(q), UNCHANGED <<batch, item, recorded, posted>>
    PROVE  HonestInv'
<1>1. /\ Blank("done") \in Request /\ Blank("done").tried = {} /\ Blank("done").phase = "done"
  BY DEF Blank, Request, ItemStatus, BatchStatus
<1> QED BY <1>1, RequestKeeps DEF End

-----------------------------------------------------------------------------
(* Posting: at most one more holder for the item and the account posted to. *)
LEMMA PostKeeps ==
    ASSUME HonestInv, NEW q \in Requests, Post(q)
    PROVE  HonestInv'
<1> DEFINE todo == req[q].todo
           i == Min({t[1] : t \in todo})
<1>1. /\ todo # {} /\ req[q].phase = "posting" /\ req[q] \in Request
      /\ UNCHANGED <<batch, item, recorded>>
  BY DEF Post, HonestInv, BatchTypes
<1>2. ASSUME NEW a \in {b \in Accounts : <<i, b>> \in todo}, NEW failed \in SUBSET Items,
             req[q].failed \subseteq failed,
             req' = [req EXCEPT ![q] = [req[q] EXCEPT !.todo = todo \ {<<i, a>>}, !.failed = failed]],
             \/ posted' = [posted EXCEPT ![i][a] = @ + 1]
             \/ posted' = posted /\ i \in failed
      PROVE  HonestInv'
  <2> DEFINE new == [req[q] EXCEPT !.todo = todo \ {<<i, a>>}, !.failed = failed]
  <2>1. i \in Items /\ a \in Accounts
    BY <1>1 DEF Request
  <2> HIDE DEF i
  <2>2. /\ new \in Request /\ new.phase = "posting" /\ new.tried = req[q].tried
        /\ new.todo = todo \ {<<i, a>>} /\ new.failed = failed
    BY <1>1, <1>2 DEF Request
  <2>3. req'[q] = new /\ \A o \in Requests \ {q} : req'[o] = req[o]
    BY <1>2 DEF HonestInv, BatchTypes
  <2> HIDE DEF new
  <2>4. BatchTypes'
    <3>1. posted' \in [Items -> [Accounts -> Nat]]
      <4>1. posted \in [Items -> [Accounts -> Nat]] /\ posted[i][a] + 1 \in Nat
        BY <2>1 DEF HonestInv, BatchTypes
      <4> QED BY <1>2, <2>1, <4>1
    <3>2. req' \in [Requests -> Request]
      BY <1>2, <2>2 DEF HonestInv, BatchTypes, new
    <3> QED BY <1>1, <3>1, <3>2 DEF HonestInv, BatchTypes
  <2>5. WritesLast' /\ PublishedRecorded'
    BY <1>1, <2>2, <2>3 DEF HonestInv, WritesLast, PublishedRecorded
  <2>6. Backed'
    <3> SUFFICES ASSUME NEW j \in Items, NEW b \in Accounts
                 PROVE  recorded[j] + Cardinality(Holders(j, b)') <= posted'[j][b]
      BY <1>1 DEF Backed
    <3> DEFINE Made == posted' = [posted EXCEPT ![i][a] = @ + 1]
    <3>0. /\ recorded[j] \in Nat /\ posted[j][b] \in Nat /\ posted'[j][b] \in Nat
          /\ posted'[j][b] >= posted[j][b]
          /\ j = i /\ b = a /\ Made => posted'[j][b] = posted[j][b] + 1
      BY <1>2, <2>1, <2>4 DEF HonestInv, BatchTypes
    <3>1. Made \/ (posted' = posted /\ i \in failed)
      BY <1>2
    <3> HIDE DEF Made
    <3>2. CASE j = i /\ b = a /\ Made
      <4>1. Holders(j, b)' \subseteq Holders(j, b) \cup {q}
        BY <2>3 DEF Holders, Holds
      <4>2. /\ Cardinality(Holders(j, b)') <= Cardinality(Holders(j, b)) + 1
            /\ Cardinality(Holders(j, b)') \in Nat /\ Cardinality(Holders(j, b)) \in Nat
        <5> DEFINE S == Holders(j, b)  T == Holders(j, b)'
        <5>1. IsFiniteSet(S) /\ T \subseteq S \cup {q}
          BY <4>1, HoldersFinite
        <5> HIDE DEF S, T
        <5>2. Cardinality(T) <= Cardinality(S) + 1 /\ Cardinality(T) \in Nat /\ Cardinality(S) \in Nat
          BY <5>1, OneMoreHolder
        <5> QED BY <5>2 DEF S, T
      <4>3. recorded[j] + Cardinality(Holders(j, b)) <= posted[j][b]
        BY DEF HonestInv, Backed
      <4>4. posted'[j][b] = posted[j][b] + 1 /\ recorded[j] \in Nat /\ posted[j][b] \in Nat
        BY <3>0, <3>2
      <4> QED BY <4>2, <4>3, <4>4
    <3>3. CASE ~(j = i /\ b = a) \/ (posted' = posted /\ i \in failed)
      <4>1. Holds(q, j, b)' => Holds(q, j, b)
        BY <1>2, <2>2, <2>3, <3>3 DEF Holds
      <4>2. Holders(j, b)' \in SUBSET Holders(j, b)
        BY <2>3, <4>1 DEF Holders, Holds
      <4> DEFINE T == Holders(j, b)'
      <4> HIDE DEF T
      <4>3. T \in SUBSET Holders(j, b) /\ posted'[j][b] >= posted[j][b] /\ recorded[j] <= recorded[j]
        BY <3>0, <4>2 DEF T
      <4>4. recorded[j] + Cardinality(T) <= posted'[j][b]
        BY <3>0, <4>3, NoNewHolders
      <4> QED BY <4>4 DEF T
    <3> QED BY <3>1, <3>2, <3>3
  <2> QED BY <2>4, <2>5, <2>6 DEF HonestInv
<1>3. ASSUME {i} \X Accounts \subseteq todo,
             req' = [req EXCEPT ![q] = [req[q] EXCEPT !.todo = todo \ ({i} \X Accounts),
                                                      !.failed = req[q].failed \cup {i}]],
             posted' = posted
      PROVE  HonestInv'
  <2> DEFINE new == [req[q] EXCEPT !.todo = todo \ ({i} \X Accounts), !.failed = req[q].failed \cup {i}]
  <2> HIDE DEF i
  <2>1. i \in Items
    <3>1. PICK a \in Accounts : TRUE
      BY PublishConstants
    <3>2. <<i, a>> \in todo /\ todo \subseteq Items \X Accounts
      BY <1>1, <1>3, <3>1 DEF Request
    <3> QED BY <3>2
  <2>2. /\ new \in Request /\ new.phase = "posting" /\ new.tried = req[q].tried
        /\ new.todo = todo \ ({i} \X Accounts) /\ new.failed = req[q].failed \cup {i}
    BY <1>1, <2>1 DEF Request
  <2>3. req' = [req EXCEPT ![q] = new]
    BY <1>3
  <2> HIDE DEF new
  <2>4. \A j \in Items, b \in Accounts :
          j \in new.tried \ new.failed /\ <<j, b>> \notin new.todo => Holds(q, j, b)
    BY <2>2 DEF Holds
  <2> QED BY <1>1, <1>3, <2>2, <2>3, <2>4, RequestKeeps
<1>4. CASE \E a \in {b \in Accounts : <<i, b>> \in todo} :
             /\ posted' = [posted EXCEPT ![i][a] = @ + 1]
             /\ req' = [req EXCEPT ![q].todo = @ \ {<<i, a>>}]
  <2>1. PICK a \in {b \in Accounts : <<i, b>> \in todo} :
             /\ posted' = [posted EXCEPT ![i][a] = @ + 1]
             /\ req' = [req EXCEPT ![q].todo = @ \ {<<i, a>>}]
    BY <1>4
  <2> HIDE DEF i
  <2>2. [req[q] EXCEPT !.todo = todo \ {<<i, a>>}]
           = [req[q] EXCEPT !.todo = todo \ {<<i, a>>}, !.failed = req[q].failed]
    BY <1>1 DEF Request
  <2>3. req' = [req EXCEPT ![q] = [req[q] EXCEPT !.todo = todo \ {<<i, a>>}, !.failed = req[q].failed]]
    BY <2>1, <2>2 DEF HonestInv, BatchTypes
  <2>4. req[q].failed \in SUBSET Items
    BY <1>1 DEF Request
  <2> QED BY <1>2, <2>1, <2>3, <2>4
<1>5. CASE \E a \in {b \in Accounts : <<i, b>> \in todo} :
             /\ req' = [req EXCEPT ![q].todo = @ \ {<<i, a>>}, ![q].failed = @ \cup {i}]
             /\ posted' \in {posted, [posted EXCEPT ![i][a] = @ + 1]}
  <2>1. PICK a \in {b \in Accounts : <<i, b>> \in todo} :
             /\ req' = [req EXCEPT ![q].todo = @ \ {<<i, a>>}, ![q].failed = @ \cup {i}]
             /\ posted' \in {posted, [posted EXCEPT ![i][a] = @ + 1]}
    BY <1>5
  <2>2. i \in Items /\ req[q].failed \cup {i} \in SUBSET Items
    BY <1>1, <2>1 DEF Request
  <2> HIDE DEF i
  <2>3. req' = [req EXCEPT ![q] = [req[q] EXCEPT !.todo = todo \ {<<i, a>>}, !.failed = req[q].failed \cup {i}]]
    BY <1>1, <2>1 DEF HonestInv, BatchTypes, Request
  <2> QED BY <1>2, <2>1, <2>2, <2>3
<1>6. CASE /\ {i} \X Accounts \subseteq todo
           /\ req' = [req EXCEPT ![q].todo = @ \ ({i} \X Accounts), ![q].failed = @ \cup {i}]
           /\ posted' = posted
  <2> HIDE DEF i
  <2>1. req' = [req EXCEPT ![q] = [req[q] EXCEPT !.todo = todo \ ({i} \X Accounts),
                                                 !.failed = req[q].failed \cup {i}]]
    BY <1>1, <1>6 DEF HonestInv, BatchTypes, Request
  <2> QED BY <1>3, <1>6, <2>1
<1> QED BY <1>4, <1>5, <1>6 DEF Post

-----------------------------------------------------------------------------
(* A request that begins has posted nothing.                                *)
LEMMA SubmitKeeps ==
    ASSUME HonestInv, NEW q \in Requests, NEW kind \in {"submit", "dry_run"}, Submit(q, kind)
    PROVE  HonestInv'
<1> DEFINE new == [Blank("posting") EXCEPT
                      !.kind = kind,
                      !.tried = IF kind = "submit" THEN Selected ELSE {},
                      !.todo = IF kind = "submit" THEN Selected \X Accounts ELSE {}]
<1>1. /\ new \in Request /\ new.phase = "posting"
      /\ \A i \in new.tried, a \in Accounts : <<i, a>> \in new.todo
  BY DEF Blank, Request, ItemStatus, BatchStatus, Selected
<1>2. req' = [req EXCEPT ![q] = new] /\ UNCHANGED <<batch, item, recorded, posted>>
  BY DEF Submit
<1> HIDE DEF new
<1> QED BY <1>1, <1>2, RequestKeeps

LEMMA RetryKeeps ==
    ASSUME HonestInv, NEW q \in Requests, NEW i \in Items, Retry(q, i)
    PROVE  HonestInv'
<1> DEFINE new == [Blank("posting") EXCEPT !.kind = "retry", !.tried = {i},
                                           !.todo = {i} \X Accounts, !.sawBatch = batch]
<1>1. batch \in BatchStatus
  BY DEF HonestInv, BatchTypes
<1>2. /\ new \in Request /\ new.phase = "posting"
      /\ \A j \in new.tried, a \in Accounts : <<j, a>> \in new.todo
  BY <1>1 DEF Blank, Request, ItemStatus, BatchStatus
<1>3. req' = [req EXCEPT ![q] = new] /\ UNCHANGED <<batch, item, recorded, posted>>
  BY DEF Retry
<1> HIDE DEF new
<1> QED BY <1>2, <1>3, RequestKeeps

(* Rereading the rows changes nothing that was posted.                      *)
LEMMA ReloadKeeps ==
    ASSUME HonestInv, NEW q \in Requests, Reload(q)
    PROVE  HonestInv'
<1> DEFINE new == [req[q] EXCEPT !.phase = "writing", !.chosen = Selected,
                                 !.saw = Statuses, !.sawBatch = batch]
<1>1. /\ req[q] \in Request /\ req[q].kind # "retry" /\ req[q].todo = {}
      /\ batch \in BatchStatus /\ Statuses \in [Items -> ItemStatus]
      /\ UNCHANGED <<batch, item, recorded, posted>>
  BY DEF Reload, HonestInv, BatchTypes, Statuses
<1>2. /\ new \in Request /\ new.kind # "retry" /\ new.todo = {}
      /\ new.tried = req[q].tried /\ new.failed = req[q].failed
  BY <1>1 DEF Request, Selected
<1>3. CASE req' = [req EXCEPT ![q].phase = "writing", ![q].chosen = Selected,
                              ![q].saw = Statuses, ![q].sawBatch = batch]
  <2>1. req' = [req EXCEPT ![q] = new]
    BY <1>1, <1>3 DEF HonestInv, BatchTypes, Request
  <2> HIDE DEF new
  <2>2. \A i \in Items, a \in Accounts :
          i \in new.tried \ new.failed /\ <<i, a>> \notin new.todo => Holds(q, i, a)
    BY <1>1, <1>2 DEF Holds
  <2> QED BY <1>1, <1>2, <2>1, <2>2, RequestKeeps
<1> QED BY <1>1, <1>3, EndKeeps DEF Reload

LEMMA FlushKeeps ==
    ASSUME HonestInv, NEW q \in Requests, RetryFlush(q)
    PROVE  HonestInv'
<1> DEFINE seen == [i \in Items |-> IF i \in req[q].tried THEN "published" ELSE item[i].status]
           new == [req[q] EXCEPT !.phase = "writing", !.saw = seen]
<1>1. /\ req[q] \in Request /\ req[q].todo = {} /\ UNCHANGED <<batch, item, recorded, posted>>
      /\ seen \in [Items -> ItemStatus]
  BY DEF RetryFlush, HonestInv, BatchTypes, ItemStatus
<1> HIDE DEF seen
<1>2. CASE End(q)
  BY <1>1, <1>2, EndKeeps
<1>3. CASE req[q].failed = {} /\ req' = [req EXCEPT ![q].phase = "writing", ![q].saw = seen]
  <2>1. req' = [req EXCEPT ![q] = new]
    BY <1>1, <1>3 DEF HonestInv, BatchTypes, Request
  <2>2. /\ new \in Request /\ new.failed = {} /\ new.todo = {} /\ new.tried = req[q].tried
    BY <1>1, <1>3 DEF Request
  <2> HIDE DEF new
  <2>3. \A i \in Items, a \in Accounts :
          i \in new.tried \ new.failed /\ <<i, a>> \notin new.todo => Holds(q, i, a)
    BY <1>1, <1>3, <2>2 DEF Holds
  <2> QED BY <1>1, <2>1, <2>2, <2>3, RequestKeeps
<1> QED BY <1>2, <1>3 DEF RetryFlush, seen

-----------------------------------------------------------------------------
(* A request that writes what it holds: each item it records was posted on  *)
(* every account, and it holds nothing afterwards.                          *)
LEMMA RecordKeeps ==
    ASSUME HonestInv, NEW q \in Requests, End(q), posted' = posted, batch' \in BatchStatus,
           NEW S \in SUBSET Items,
           \A i \in S, a \in Accounts : Holds(q, i, a),
           item' \in [Items -> [status : ItemStatus, selected : BOOLEAN]],
           \A i \in Items : item'[i].status = "published" => item[i].status = "published" \/ i \in S,
           recorded' = [i \in Items |-> IF i \in S THEN recorded[i] + 1 ELSE recorded[i]]
    PROVE  HonestInv'
<1>1. /\ Blank("done") \in Request /\ Blank("done").tried = {} /\ Blank("done").phase = "done"
      /\ req' = [req EXCEPT ![q] = Blank("done")]
  BY DEF Blank, Request, ItemStatus, BatchStatus, End
<1>2. req'[q] = Blank("done") /\ \A o \in Requests \ {q} : req'[o] = req[o]
  BY <1>1 DEF HonestInv, BatchTypes
<1>3. BatchTypes'
  <2>1. recorded' \in [Items -> Nat]
    BY DEF HonestInv, BatchTypes
  <2> QED BY <1>1, <2>1 DEF HonestInv, BatchTypes
<1>4. WritesLast'
  BY <1>1, <1>2 DEF HonestInv, WritesLast
<1>5. PublishedRecorded'
  BY DEF HonestInv, BatchTypes, PublishedRecorded
<1>6. \A i \in Items, a \in Accounts : Holders(i, a)' = Holders(i, a) \ {q}
  BY <1>1, <1>2 DEF Holders, Holds
<1>7. Backed'
  <2> SUFFICES ASSUME NEW i \in Items, NEW a \in Accounts
               PROVE  recorded'[i] + Cardinality(Holders(i, a)') <= posted[i][a]
    BY DEF Backed
  <2> DEFINE T == Holders(i, a) \ {q}
  <2>1. Holders(i, a)' = T /\ posted[i][a] \in Nat /\ recorded[i] \in Nat
    BY <1>6 DEF HonestInv, BatchTypes
  <2>2. CASE i \in S
    <3>1. q \in Holders(i, a) /\ recorded'[i] = recorded[i] + 1
      BY <2>2 DEF Holders
    <3>2. recorded[i] + 1 + Cardinality(T) <= posted[i][a]
      BY <3>1, HolderRecords
    <3> HIDE DEF T
    <3> QED BY <2>1, <3>1, <3>2
  <2>3. CASE i \notin S
    <3>1. T \in SUBSET Holders(i, a) /\ recorded'[i] = recorded[i]
      BY <2>3
    <3> HIDE DEF T
    <3>2. recorded[i] + Cardinality(T) <= posted[i][a]
      BY <2>1, <3>1, NoNewHolders
    <3> QED BY <2>1, <3>1, <3>2
  <2> QED BY <2>2, <2>3
<1> QED BY <1>3, <1>4, <1>5, <1>7 DEF HonestInv

LEMMA WriteKeeps ==
    ASSUME HonestInv, NEW q \in Requests, Write(q)
    PROVE  HonestInv'
<1> DEFINE r == req[q]
           S == {i \in r.chosen : Result(r, i) = "published"}
<1>1. /\ r \in Request /\ r.todo = {} /\ End(q) /\ posted' = posted /\ batch \in BatchStatus
      /\ item \in [Items -> [status : ItemStatus, selected : BOOLEAN]] /\ r.chosen \subseteq Items
  BY DEF Write, HonestInv, BatchTypes, WritesLast, Request
<1>2. CASE UNCHANGED <<batch, item, recorded>>
  BY <1>1, <1>2, EndKeeps
<1>3. CASE /\ item' = [i \in Items |->
                  IF i \in r.chosen /\ Result(r, i) # r.saw[i]
                  THEN [item[i] EXCEPT !.status = Result(r, i)] ELSE item[i]]
           /\ recorded' = [i \in Items |->
                  IF i \in r.chosen /\ Result(r, i) = "published"
                  THEN recorded[i] + 1 ELSE recorded[i]]
           /\ batch' \in {BatchResult(r)} \cup
                  (IF BatchResult(r) = r.sawBatch THEN {batch} ELSE {})
  <2>1. /\ \A i \in Items : Result(r, i) \in ItemStatus
        /\ \A i \in S : i \in r.tried \ r.failed
        /\ BatchResult(r) \in BatchStatus
    BY DEF Result, ItemStatus, BatchResult, BatchStatus
  <2>2. \A i \in S, a \in Accounts : Holds(q, i, a)
    BY <1>1, <2>1 DEF Holds
  <2>3. item' \in [Items -> [status : ItemStatus, selected : BOOLEAN]]
    BY <1>1, <1>3, <2>1
  <2>4. \A i \in Items : item'[i].status = "published" => item[i].status = "published" \/ i \in S
    BY <1>1, <1>3
  <2>5. /\ recorded' = [i \in Items |-> IF i \in S THEN recorded[i] + 1 ELSE recorded[i]]
        /\ S \in SUBSET Items /\ batch' \in BatchStatus
    BY <1>1, <1>3, <2>1
  <2> HIDE DEF S, r
  <2> QED BY <1>1, <2>2, <2>3, <2>4, <2>5, RecordKeeps
<1> QED BY <1>2, <1>3 DEF Write

LEMMA CommitKeeps ==
    ASSUME HonestInv, NEW q \in Requests, RetryCommit(q)
    PROVE  HonestInv'
<1> DEFINE r == req[q]
<1>1. /\ r \in Request /\ r.todo = {} /\ r.failed = {} /\ End(q) /\ posted' = posted
      /\ batch \in BatchStatus
      /\ item \in [Items -> [status : ItemStatus, selected : BOOLEAN]] /\ r.tried \in SUBSET Items
  BY DEF RetryCommit, HonestInv, BatchTypes, WritesLast, Request
<1>2. CASE UNCHANGED <<batch, item, recorded>>
  BY <1>1, <1>2, EndKeeps
<1>3. CASE /\ item' = [i \in Items |->
                  IF i \in r.tried THEN [item[i] EXCEPT !.status = "published"] ELSE item[i]]
           /\ recorded' = [i \in Items |->
                  IF i \in r.tried THEN recorded[i] + 1 ELSE recorded[i]]
           /\ batch' = IF Retried(r) = r.sawBatch THEN batch ELSE Retried(r)
  <2>1. \A i \in r.tried, a \in Accounts : Holds(q, i, a)
    BY <1>1 DEF Holds
  <2>2. item' \in [Items -> [status : ItemStatus, selected : BOOLEAN]]
    BY <1>1, <1>3 DEF ItemStatus
  <2>3. \A i \in Items : item'[i].status = "published" => item[i].status = "published" \/ i \in r.tried
    BY <1>1, <1>3
  <2>4. batch' \in BatchStatus
    BY <1>1, <1>3 DEF Retried, BatchStatus, Request
  <2> HIDE DEF r
  <2> QED BY <1>1, <1>3, <2>1, <2>2, <2>3, <2>4, RecordKeeps
<1> QED BY <1>2, <1>3 DEF RetryCommit

(* What users do to the rows, and the end of the process.                   *)
LEMMA UsersKeep ==
    ASSUME HonestInv,
           (\E i \in Items : Select(i) \/ DeleteItem(i)) \/ DeleteBatch
    PROVE  HonestInv'
<1> DEFINE FewerRows ==
             /\ batch' \in BatchStatus /\ UNCHANGED <<posted, req>>
             /\ item' \in [Items -> [status : ItemStatus, selected : BOOLEAN]]
             /\ recorded' \in [Items -> Nat]
             /\ \A i \in Items : recorded'[i] <= recorded[i]
             /\ \A i \in Items : item'[i].status = "published" =>
                   item[i].status = "published" /\ recorded'[i] = recorded[i]
<1>1. FewerRows
  <2>0. /\ batch \in BatchStatus
        /\ item \in [Items -> [status : ItemStatus, selected : BOOLEAN]]
        /\ recorded \in [Items -> Nat]
        /\ Gone \in [status : ItemStatus, selected : BOOLEAN] /\ Gone.status = "gone"
    BY DEF HonestInv, BatchTypes, Gone, ItemStatus
  <2>1. ASSUME NEW i \in Items, Select(i) PROVE FewerRows
    <3>1. /\ \A j \in Items : item'[j].status = item[j].status
          /\ item' \in [Items -> [status : ItemStatus, selected : BOOLEAN]]
      BY <2>0, <2>1 DEF Select
    <3>2. UNCHANGED <<batch, recorded, posted, req>>
      BY <2>1 DEF Select
    <3>3. \A j \in Items : recorded'[j] <= recorded[j]
      BY <2>0, <3>2
    <3> QED BY <2>0, <3>1, <3>2, <3>3
  <2>2. ASSUME NEW i \in Items, DeleteItem(i) PROVE FewerRows
    <3>1. /\ item'[i].status = "gone" /\ \A j \in Items \ {i} : item'[j] = item[j]
          /\ item' \in [Items -> [status : ItemStatus, selected : BOOLEAN]]
      BY <2>0, <2>2 DEF DeleteItem
    <3>2. /\ recorded'[i] = 0 /\ \A j \in Items \ {i} : recorded'[j] = recorded[j]
          /\ recorded' \in [Items -> Nat] /\ UNCHANGED <<batch, posted, req>>
      BY <2>0, <2>2 DEF DeleteItem
    <3>3. \A j \in Items : recorded'[j] <= recorded[j]
      BY <2>0, <3>2
    <3> QED BY <2>0, <3>1, <3>2, <3>3
  <2>3. CASE DeleteBatch
    BY <2>0, <2>3 DEF DeleteBatch, BatchStatus
  <2> QED BY <2>1, <2>2, <2>3
<1>2. BatchTypes' /\ WritesLast'
  BY <1>1 DEF HonestInv, BatchTypes, WritesLast
<1>3. PublishedRecorded'
  BY <1>1 DEF HonestInv, PublishedRecorded
<1>4. Backed'
  <2> SUFFICES ASSUME NEW i \in Items, NEW a \in Accounts
               PROVE  recorded'[i] + Cardinality(Holders(i, a)') <= posted'[i][a]
    BY DEF Backed
  <2> DEFINE T == Holders(i, a)'
  <2>1. /\ T \in SUBSET Holders(i, a) /\ posted'[i][a] = posted[i][a]
        /\ posted'[i][a] \in Nat /\ recorded'[i] \in Nat /\ recorded'[i] <= recorded[i]
        /\ posted'[i][a] >= posted[i][a]
    BY <1>1 DEF Holders, Holds, HonestInv, BatchTypes
  <2> HIDE DEF T
  <2>2. recorded'[i] + Cardinality(T) <= posted'[i][a]
    BY <2>1, NoNewHolders
  <2> QED BY <2>2 DEF T
<1> QED BY <1>2, <1>3, <1>4 DEF HonestInv

LEMMA CrashKeeps ==
    ASSUME HonestInv, CrashBatch
    PROVE  HonestInv'
<1>1. Blank("done") \in Request /\ Blank("done").tried = {} /\ Blank("done").phase = "done"
  BY DEF Blank, Request, ItemStatus, BatchStatus
<1>2. /\ UNCHANGED <<batch, item, recorded, posted>>
      /\ \A q \in Requests : req'[q] = req[q] \/ req'[q] = Blank("done")
      /\ req' \in [Requests -> Request]
  BY <1>1 DEF CrashBatch, HonestInv, BatchTypes
<1>3. BatchTypes' /\ WritesLast' /\ PublishedRecorded'
  BY <1>1, <1>2 DEF HonestInv, BatchTypes, WritesLast, PublishedRecorded
<1>4. Backed'
  <2> SUFFICES ASSUME NEW i \in Items, NEW a \in Accounts
               PROVE  recorded[i] + Cardinality(Holders(i, a)') <= posted[i][a]
    BY <1>2 DEF Backed
  <2> DEFINE T == Holders(i, a)'
  <2>1. /\ T \in SUBSET Holders(i, a) /\ posted[i][a] \in Nat /\ recorded[i] \in Nat
        /\ posted[i][a] >= posted[i][a] /\ recorded[i] <= recorded[i]
    BY <1>1, <1>2 DEF Holders, Holds, HonestInv, BatchTypes
  <2> HIDE DEF T
  <2>2. recorded[i] + Cardinality(T) <= posted[i][a]
    BY <2>1, NoNewHolders
  <2> QED BY <2>2 DEF T
<1> QED BY <1>3, <1>4 DEF HonestInv

(* Every step keeps the invariant.                                         *)
LEMMA HonestStep == HonestInv /\ [BatchNext]_batchVars => HonestInv'
<1> SUFFICES ASSUME HonestInv, [BatchNext]_batchVars PROVE HonestInv'
  OBVIOUS
<1>1. CASE BatchNext
  BY <1>1, SubmitKeeps, RetryKeeps, PostKeeps, ReloadKeeps, WriteKeeps, FlushKeeps, CommitKeeps,
     UsersKeep, CrashKeeps DEF BatchNext
<1>2. CASE UNCHANGED batchVars
  BY <1>2 DEF batchVars, HonestInv, BatchTypes, Backed, Holders, Holds, WritesLast, PublishedRecorded
<1> QED BY <1>1, <1>2

-----------------------------------------------------------------------------
(* However submits, retries, deletions and crashes overlap, every attempt   *)
(* recorded as published stands for a post of its own on every account, and *)
(* an item says published only with such an attempt                        *)
(* (packages/publishing/sqlalchemy_repository.py 266-650).                 *)
THEOREM AlwaysHonest == BatchSpec => []HonestPublished
<1>1. HonestInv => HonestPublished
  <2> SUFFICES ASSUME HonestInv PROVE HonestPublished
    OBVIOUS
  <2>1. ASSUME NEW i \in Items, NEW a \in Accounts PROVE recorded[i] <= posted[i][a]
    <3>1. recorded[i] + Cardinality(Holders(i, a)) <= posted[i][a]
      BY DEF HonestInv, Backed
    <3>2. recorded[i] \in Nat /\ posted[i][a] \in Nat /\ Cardinality(Holders(i, a)) \in Nat
      BY HoldersFinite DEF HonestInv, BatchTypes
    <3> QED BY <3>1, <3>2
  <2> QED BY <2>1 DEF HonestPublished, HonestInv, PublishedRecorded
<1> QED BY <1>1, HonestInit, HonestStep, PTL DEF BatchSpec

-----------------------------------------------------------------------------
(* DesktopConnector implements PublishPort                                 *)

(* A call has no task before it has asked for one.                          *)
NoTaskYet ==
    \A q \in Calls :
        postCall[q].pc \in {"unused", "connecting", "creating"} => task[q].status = "none"

ConnectorInv == ConnectorTypeOK /\ NoTaskYet

(* What PublishPort sees of the state.                                      *)
Outcome(q) == IF postCall[q].pc \in Answered THEN postCall[q].pc ELSE "none"
OnPlatform == {q \in Calls : task[q].status = "published"}

-----------------------------------------------------------------------------
(* Initially there are no calls and no tasks.                               *)
LEMMA ConnectorInvInit == ConnectorInit => ConnectorInv /\ Port!PortInit
<1> SUFFICES ASSUME ConnectorInit PROVE ConnectorInv /\ Port!PortInit
  OBVIOUS
<1>1. ConnectorTypeOK
  BY DEF ConnectorInit, ConnectorTypeOK, NoTask, TaskStatus, PublishCall
<1>2. \A q \in Calls : task[q].status = "none" /\ postCall[q].pc = "unused"
  BY DEF ConnectorInit, NoTask
<1>3. Port!PortInit
  BY <1>2 DEF Port!PortInit, Answered
<1> QED BY <1>1, <1>2, <1>3 DEF ConnectorInv, NoTaskYet

(* A step changes one call, and no task is published or unpublished by it:  *)
(* PublishPort stutters or gives the call its answer.                       *)
LEMMA CallMoves ==
    ASSUME ConnectorInv, NEW q \in Calls, NEW call \in PublishCall,
           postCall[q].pc \notin Answered,
           postCall' = [postCall EXCEPT ![q] = call],
           call.pc = "published" => q \in OnPlatform,
           OnPlatform' = OnPlatform
    PROVE  [Port!PortNext]_Port!portVars
<1>1. /\ Outcome(q) = "none" /\ Outcome(q)' = IF call.pc \in Answered THEN call.pc ELSE "none"
      /\ \A r \in Calls \ {q} : Outcome(r)' = Outcome(r)
  BY DEF Outcome, ConnectorInv, ConnectorTypeOK
<1>2. CASE call.pc \notin Answered
  BY <1>1, <1>2 DEF Port!portVars, Outcome, OnPlatform
<1>3. CASE call.pc \in Answered
  <2>1. [r \in Calls |-> Outcome(r)]' = [[r \in Calls |-> Outcome(r)] EXCEPT ![q] = call.pc]
    BY <1>1, <1>3
  <2>2. Port!Answer(q, call.pc)
    BY <1>1, <1>3, <2>1 DEF Port!Answer, Outcome, OnPlatform
  <2>3. call.pc \in {"published", "scheduled", "failed"}
    BY <1>3 DEF Answered
  <2> QED BY <2>2, <2>3 DEF Port!PortNext
<1> QED BY <1>2, <1>3

(* The moves of a call, which leave what is published as it is.             *)
LEMMA PublishStep ==
    ASSUME ConnectorInv, NEW q \in Calls, Publish(q)
    PROVE  ConnectorInv' /\ [Port!PortNext]_Port!portVars
<1>1. PICK want \in Uids \cup {NoUid}, grouped \in BOOLEAN, scheduled \in BOOLEAN :
        postCall' = [postCall EXCEPT ![q] = [pc |-> "connecting", want |-> want,
                                             grouped |-> grouped, scheduled |-> scheduled]]
  BY DEF Publish
<1> DEFINE call == [pc |-> "connecting", want |-> want, grouped |-> grouped, scheduled |-> scheduled]
<1>2. /\ call \in PublishCall /\ call.pc = "connecting" /\ postCall[q].pc = "unused"
      /\ UNCHANGED <<app, task>> /\ postCall' = [postCall EXCEPT ![q] = call]
  BY <1>1 DEF Publish, PublishCall
<1> HIDE DEF call
<1>3. ConnectorInv'
  BY <1>2 DEF ConnectorInv, ConnectorTypeOK, NoTaskYet
<1>4. OnPlatform' = OnPlatform /\ postCall[q].pc \notin Answered
  BY <1>2 DEF OnPlatform, Answered
<1> QED BY <1>2, <1>3, <1>4, CallMoves

(* What Step(q, pc) makes of a call, together with a task of its own.       *)
LEMMA StepMoves ==
    ASSUME ConnectorInv, NEW q \in Calls,
           NEW pc \in {"creating", "starting", "polling", "published", "scheduled", "failed"},
           Step(q, pc), app' = app,
           task' \in [Calls -> [uid : Uids \cup {NoUid}, status : TaskStatus, started : BOOLEAN]],
           postCall[q].pc \notin Answered, pc = "published" => q \in OnPlatform,
           \A r \in Calls \ {q} : task'[r].status = task[r].status,
           task'[q].status = task[q].status
               \/ (task[q].status = "none" /\ task'[q].status = "waiting"),
           pc = "creating" => task'[q].status = "none"
    PROVE  ConnectorInv' /\ [Port!PortNext]_Port!portVars
<1> DEFINE call == [postCall[q] EXCEPT !.pc = pc]
<1>1. /\ call \in PublishCall /\ call.pc = pc /\ postCall' = [postCall EXCEPT ![q] = call]
  BY DEF Step, ConnectorInv, ConnectorTypeOK, PublishCall
<1> HIDE DEF call
<1>2. postCall'[q].pc = pc /\ \A r \in Calls \ {q} : postCall'[r] = postCall[r]
  BY <1>1 DEF ConnectorInv, ConnectorTypeOK
<1>3. ConnectorTypeOK'
  BY <1>1 DEF ConnectorInv, ConnectorTypeOK
<1>4. NoTaskYet'
  BY <1>2 DEF ConnectorInv, NoTaskYet
<1>5. OnPlatform' = OnPlatform
  BY DEF OnPlatform
<1> QED BY <1>1, <1>3, <1>4, <1>5, CallMoves DEF ConnectorInv

LEMMA ConnectorMoves ==
    ASSUME ConnectorInv, NEW q \in Calls,
           ChooseAccount(q) \/ CreateTask(q) \/ StartTasks(q) \/ Poll(q)
    PROVE  ConnectorInv' /\ [Port!PortNext]_Port!portVars
<1>0. /\ task \in [Calls -> [uid : Uids \cup {NoUid}, status : TaskStatus, started : BOOLEAN]]
      /\ "waiting" \in TaskStatus
      /\ \A pc \in Answered : pc \notin {"connecting", "creating", "starting", "polling"}
  BY DEF ConnectorInv, ConnectorTypeOK, TaskStatus, Answered
<1>1. CASE ChooseAccount(q)
  <2>1. postCall[q].pc = "connecting" /\ app' = app /\ task[q].status = "none"
    BY <1>1 DEF ChooseAccount, ConnectorInv, NoTaskYet
  <2>2. CASE Step(q, "failed") /\ UNCHANGED task
    BY <1>0, <2>1, <2>2, StepMoves
  <2>3. ASSUME NEW u \in Matches(q), task' = [task EXCEPT ![q].uid = u], Step(q, "creating")
        PROVE  ConnectorInv' /\ [Port!PortNext]_Port!portVars
    <3>1. u \in Uids
      BY <2>3 DEF Matches, Candidates
    <3>2. task' \in [Calls -> [uid : Uids \cup {NoUid}, status : TaskStatus, started : BOOLEAN]]
      BY <1>0, <2>3, <3>1
    <3>3. \A r \in Calls : task'[r].status = task[r].status
      BY <1>0, <2>3
    <3> QED BY <1>0, <2>1, <2>3, <3>2, <3>3, StepMoves
  <2> QED BY <1>1, <2>2, <2>3 DEF ChooseAccount
<1>2. CASE CreateTask(q)
  <2>1. postCall[q].pc = "creating" /\ app' = app /\ task[q].status = "none"
    BY <1>2 DEF CreateTask, ConnectorInv, NoTaskYet
  <2>2. CASE Step(q, "failed") /\ UNCHANGED task
    BY <1>0, <2>1, <2>2, StepMoves
  <2>3. ASSUME task' = [task EXCEPT ![q].status = "waiting"], NEW pc \in {"starting", "failed"}, Step(q, pc)
        PROVE  ConnectorInv' /\ [Port!PortNext]_Port!portVars
    <3>1. task' \in [Calls -> [uid : Uids \cup {NoUid}, status : TaskStatus, started : BOOLEAN]]
      BY <1>0, <2>3
    <3>2. task'[q].status = "waiting" /\ \A r \in Calls \ {q} : task'[r].status = task[r].status
      BY <1>0, <2>3
    <3> QED BY <1>0, <2>1, <2>3, <3>1, <3>2, StepMoves
  <2> QED BY <1>2, <2>2, <2>3 DEF CreateTask
<1>3. CASE StartTasks(q)
  <2>1. postCall[q].pc = "starting" /\ app' = app
    BY <1>3 DEF StartTasks
  <2>2. CASE Step(q, "failed") /\ UNCHANGED task
    BY <1>0, <2>1, <2>2, StepMoves
  <2>3. ASSUME task' = [r \in Calls |-> [task[r] EXCEPT !.started = @ \/ task[r].status # "none"]],
               NEW pc \in {"polling", "failed"}, Step(q, pc)
        PROVE  ConnectorInv' /\ [Port!PortNext]_Port!portVars
    <3>1. task' \in [Calls -> [uid : Uids \cup {NoUid}, status : TaskStatus, started : BOOLEAN]]
      BY <1>0, <2>3
    <3>2. \A r \in Calls : task'[r].status = task[r].status
      BY <1>0, <2>3
    <3> QED BY ZenonT(60), <1>0, <2>1, <2>3, <3>1, <3>2, StepMoves
  <2> QED BY <1>3, <2>2, <2>3 DEF StartTasks
<1>4. CASE Poll(q)
  <2>1. PICK verdict \in Verdicts(q) \cup {"failed"} : Step(q, verdict)
    BY <1>4 DEF Poll
  <2>2. /\ verdict \in {"polling", "published", "scheduled", "failed"}
        /\ verdict = "published" => q \in OnPlatform
    BY <2>1 DEF Verdicts, OnPlatform
  <2>3. postCall[q].pc = "polling" /\ app' = app /\ task' = task
    BY <1>4 DEF Poll
  <2> QED BY <1>0, <2>1, <2>2, <2>3, StepMoves
<1> QED BY <1>1, <1>2, <1>3, <1>4

(* The application posts a task once at most, whoever still waits for it.   *)
LEMMA AppMoves ==
    ASSUME ConnectorInv, NEW q \in Calls, AppWorks(q)
    PROVE  ConnectorInv' /\ [Port!PortNext]_Port!portVars
<1>1. PICK status \in TaskStatus :
        <<task[q].status, status>> \in TaskMoves /\ task' = [task EXCEPT ![q].status = status]
  BY DEF AppWorks
<1>2. /\ app' = app /\ postCall' = postCall
      /\ task \in [Calls -> [uid : Uids \cup {NoUid}, status : TaskStatus, started : BOOLEAN]]
      /\ task[q].status \notin {"none", "published"}
  BY <1>1 DEF AppWorks, TaskMoves, ConnectorInv, ConnectorTypeOK
<1>3. task'[q].status = status /\ \A r \in Calls \ {q} : task'[r] = task[r]
  BY <1>1, <1>2
<1>4. ConnectorInv'
  <2>1. ConnectorTypeOK'
    BY <1>1, <1>2 DEF ConnectorInv, ConnectorTypeOK
  <2>2. NoTaskYet'
    BY <1>2, <1>3 DEF ConnectorInv, NoTaskYet
  <2> QED BY <2>1, <2>2 DEF ConnectorInv
<1>5. CASE status = "published"
  <2>1. Port!PostOnce(q)
    BY <1>2, <1>3, <1>5 DEF Port!PostOnce
  <2> QED BY <1>4, <2>1 DEF Port!PortNext
<1>6. CASE status # "published"
  <2>1. UNCHANGED Port!portVars
    BY <1>2, <1>3, <1>6 DEF Port!portVars
  <2> QED BY <1>4, <2>1
<1> QED BY <1>5, <1>6

(* Every step keeps the invariant, and is a step of PublishPort or none.    *)
LEMMA ConnectorStep ==
    ConnectorInv /\ [ConnectorNext]_connectorVars => ConnectorInv' /\ [Port!PortNext]_Port!portVars
<1> SUFFICES ASSUME ConnectorInv, [ConnectorNext]_connectorVars
             PROVE  ConnectorInv' /\ [Port!PortNext]_Port!portVars
  OBVIOUS
<1>1. ASSUME NEW u \in Uids, UserLogsIn(u)
      PROVE  ConnectorInv' /\ [Port!PortNext]_Port!portVars
  <2>1. UNCHANGED <<task, postCall>> /\ app' \in [Uids -> AppAccount]
    BY <1>1 DEF UserLogsIn, ConnectorInv, ConnectorTypeOK, AppAccount
  <2> QED BY <2>1 DEF ConnectorInv, ConnectorTypeOK, NoTaskYet, Port!portVars
<1>2. CASE UNCHANGED connectorVars
  BY <1>2 DEF connectorVars, ConnectorInv, ConnectorTypeOK, NoTaskYet, Port!portVars
<1> QED BY <1>1, <1>2, PublishStep, ConnectorMoves, AppMoves DEF ConnectorNext

-----------------------------------------------------------------------------
(* The connector is a PublishPort: whatever commands get lost and whatever  *)
(* the application does with its tasks, meanwhile or afterwards, it tells of*)
(* a publication only that has happened (xiaovmao_cdp.py 10, 1413-1548).    *)
THEOREM NeverFabricated == ConnectorSpec => NothingFabricated
<1>1. ConnectorSpec => []ConnectorInv
  BY ConnectorInvInit, ConnectorStep, PTL DEF ConnectorSpec
<1>2. ConnectorInit => Port!PortInit
  BY ConnectorInvInit
<1>3. ConnectorInv /\ [ConnectorNext]_connectorVars => [Port!PortNext]_Port!portVars
  BY ConnectorStep
<1> QED BY <1>1, <1>2, <1>3, PTL DEF ConnectorSpec, NothingFabricated, Port!PortSpec

-----------------------------------------------------------------------------
(* PublishBatch: what is known once the requests are over                  *)

(* Requests that take turns, while nobody edits the batch. Then before the *)
(* first submit no item was tried, and after it all were; and a request    *)
(* that writes has read what the rows are.                                 *)
InFlight(q) == req[q].phase \in {"posting", "writing"}

Fresh ==
    /\ batch \in {"draft", "review_ready"}
    /\ \A i \in Items : item[i].status \in {"uploaded", "review_ready"}

Tried ==
    /\ batch \in {"partial_failed", "publishing", "completed"}
    /\ \A i \in Items : item[i].status \in {"published", "publish_failed"}
    /\ batch = "completed" <=> \A i \in Items : item[i].status = "published"
    /\ batch = "publishing" => \E i \in Items : item[i].status = "published"

Reread(r) == r.phase = "writing" => r.chosen = Items /\ r.saw = Statuses /\ r.sawBatch = batch

SubmitSound(r) ==
    /\ r.kind = "submit" /\ r.tried = Items /\ Reread(r)
    /\ batch \in Open /\ \A i \in Items : Submittable(item[i].status)

DryRunSound(r) ==
    /\ r.kind = "dry_run" /\ r.todo = {} /\ Reread(r)
    /\ r.phase = "writing" => Fresh

RetrySound(r) ==
    /\ r.kind = "retry" /\ Tried /\ r.sawBatch = batch
    /\ \E i \in Items :
          /\ r.tried = {i} /\ item[i].status = "publish_failed"
          /\ r.phase = "writing" => r.saw = [Statuses EXCEPT ![i] = "published"]

RequestSound(r) == SubmitSound(r) \/ DryRunSound(r) \/ RetrySound(r)

AllSelected == \A i \in Items : item[i].selected
OneInFlight == \A p, q \in Requests : InFlight(p) /\ InFlight(q) => p = q
FreshUnposted ==
    Fresh => \A i \in Items, a \in Accounts : posted[i][a] > 0 =>
        \E q \in Requests : InFlight(q) /\ req[q].kind = "submit"

TellInv ==
    /\ AllSelected /\ (Fresh \/ Tried) /\ OneInFlight /\ FreshUnposted
    /\ \A q \in Requests : InFlight(q) => RequestSound(req[q])

(* Initially nothing was tried.                                            *)
LEMMA TellInit == BatchInit => TellInv
<1> SUFFICES ASSUME BatchInit PROVE TellInv
  OBVIOUS
<1>1. \A q \in Requests : ~InFlight(q)
  BY DEF BatchInit, Blank, InFlight
<1>2. AllSelected /\ Fresh
  BY DEF BatchInit, AllSelected, Fresh
<1>3. \A i \in Items, a \in Accounts : ~(posted[i][a] > 0)
  BY DEF BatchInit
<1> QED BY <1>1, <1>2, <1>3 DEF TellInv, OneInFlight, FreshUnposted

(* While nobody deletes, all items are there, and all are selected.        *)
LEMMA AllThere ==
    ASSUME HonestInv, TellInv
    PROVE  Selected = Items /\ batch # "gone" /\ \A i \in Items : item[i].status # "gone"
BY DEF TellInv, AllSelected, Fresh, Tried, Selected

(* A step of a request that leaves the rows as they are.                   *)
LEMMA TellRequest ==
    ASSUME HonestInv, TellInv, NEW q \in Requests, NEW new,
           req' = [req EXCEPT ![q] = new],
           InFlight(q) \/ Idle,
           new.phase \in {"posting", "writing"} => RequestSound(new),
           InFlight(q) /\ req[q].kind = "submit" /\ Fresh =>
               new.phase \in {"posting", "writing"} /\ new.kind = "submit",
           UNCHANGED <<batch, item>>,
           \A i \in Items, a \in Accounts : posted'[i][a] > 0 =>
               posted[i][a] > 0 \/ (new.phase \in {"posting", "writing"} /\ new.kind = "submit") \/ Tried
    PROVE  TellInv'
<1>1. req'[q] = new /\ \A p \in Requests \ {q} : req'[p] = req[p]
  BY DEF HonestInv, BatchTypes
<1>2. \A p \in Requests \ {q} : ~InFlight(p)
  <2>1. CASE InFlight(q)
    BY <2>1 DEF TellInv, OneInFlight
  <2>2. CASE Idle
    BY <2>2 DEF Idle, InFlight
  <2> QED BY <2>1, <2>2
<1>3. /\ \A p \in Requests \ {q} : ~InFlight(p)'
      /\ InFlight(q)' <=> new.phase \in {"posting", "writing"}
  BY <1>1, <1>2 DEF InFlight
<1>4. (Fresh' <=> Fresh) /\ (Tried' <=> Tried) /\ Statuses' = Statuses /\ AllSelected'
  BY DEF Fresh, Tried, Statuses, TellInv, AllSelected
<1>5. RequestSound(new) => RequestSound(new)'
  BY <1>4 DEF RequestSound, SubmitSound, DryRunSound, RetrySound, Reread
<1>6. ASSUME NEW p \in Requests, InFlight(p)' PROVE RequestSound(req[p])'
  BY <1>1, <1>3, <1>5, <1>6
<1>7. FreshUnposted'
  <2> SUFFICES ASSUME Fresh, NEW i \in Items, NEW a \in Accounts, posted'[i][a] > 0
               PROVE  \E p \in Requests : InFlight(p)' /\ req'[p].kind = "submit"
    BY <1>4 DEF FreshUnposted
  <2>1. ~Tried
    BY DEF Fresh, Tried
  <2>2. CASE posted[i][a] > 0
    <3>1. PICK p \in Requests : InFlight(p) /\ req[p].kind = "submit"
      BY <2>2 DEF TellInv, FreshUnposted
    <3>2. p = q
      BY <1>2, <3>1
    <3> QED BY <1>1, <1>3, <3>1, <3>2
  <2>3. CASE new.phase \in {"posting", "writing"} /\ new.kind = "submit"
    BY <1>1, <1>3, <2>3
  <2> QED BY <2>1, <2>2, <2>3
<1> QED BY <1>3, <1>4, <1>6, <1>7 DEF TellInv, OneInFlight

(* A request that begins finds nobody at work.                             *)
LEMMA TellBegin ==
    ASSUME HonestInv, TellInv, "overlap" \notin Ops, NEW q \in Requests,
           \/ \E kind \in {"submit", "dry_run"} : Submit(q, kind)
           \/ \E i \in Items : Retry(q, i)
    PROVE  TellInv'
<1>1. Idle /\ ~InFlight(q) /\ UNCHANGED <<batch, item, recorded, posted>>
  BY DEF Submit, Retry, MayBegin, Idle, InFlight
<1>2. ASSUME NEW kind \in {"submit", "dry_run"}, Submit(q, kind) PROVE TellInv'
  <2> DEFINE new == [Blank("posting") EXCEPT
                      !.kind = kind,
                      !.tried = IF kind = "submit" THEN Selected ELSE {},
                      !.todo = IF kind = "submit" THEN Selected \X Accounts ELSE {}]
  <2>1. /\ new.kind = kind /\ new.phase = "posting"
        /\ new.tried = IF kind = "submit" THEN Selected ELSE {}
        /\ new.todo = IF kind = "submit" THEN Selected \X Accounts ELSE {}
    BY DEF Blank
  <2>2. req' = [req EXCEPT ![q] = new]
    BY <1>2 DEF Submit
  <2> HIDE DEF new
  <2>3. /\ Selected = Items
        /\ \A i \in Items : Submittable(item[i].status)
    BY <1>2, AllThere DEF Submit
  <2>4. batch \in Open
    <3>1. PICK i \in Items : TRUE
      BY PublishConstants DEF Items
    <3>2. \A j \in Items : item[j].status # "published"
      BY <2>3 DEF Submittable
    <3> QED BY <3>1, <3>2 DEF TellInv, Fresh, Tried, Open
  <2>5. RequestSound(new)
    BY <2>1, <2>3, <2>4 DEF RequestSound, SubmitSound, DryRunSound, Reread
  <2> QED BY <1>1, <2>2, <2>5, TellRequest
<1>3. ASSUME NEW i \in Items, Retry(q, i) PROVE TellInv'
  <2> DEFINE new == [Blank("posting") EXCEPT !.kind = "retry", !.tried = {i},
                                           !.todo = {i} \X Accounts, !.sawBatch = batch]
  <2>1. /\ new.kind = "retry" /\ new.phase = "posting" /\ new.tried = {i} /\ new.sawBatch = batch
    BY DEF Blank
  <2>2. req' = [req EXCEPT ![q] = new] /\ item[i].status = "publish_failed"
    BY <1>3 DEF Retry
  <2> HIDE DEF new
  <2>3. Tried
    BY <2>2 DEF TellInv, Fresh
  <2>4. RequestSound(new)
    BY <2>1, <2>2, <2>3 DEF RequestSound, RetrySound
  <2> QED BY <1>1, <2>2, <2>4, TellRequest
<1> QED BY <1>2, <1>3

(* The posts of a request.                                                 *)
LEMMA TellPost ==
    ASSUME HonestInv, TellInv, NEW q \in Requests, Post(q)
    PROVE  TellInv'
<1>1. req[q].phase = "posting" /\ req[q].todo # {} /\ UNCHANGED <<batch, item>>
  BY DEF Post
<1>2. PICK todo, failed :
          req' = [req EXCEPT ![q] = [req[q] EXCEPT !.todo = todo, !.failed = failed]]
  <2> DEFINE T == req[q].todo
             j == Min({t[1] : t \in T})
  <2>1. req[q] \in Request /\ req \in [Requests -> Request]
    BY DEF HonestInv, BatchTypes
  <2> HIDE DEF j
  <2> DEFINE Goes(todo, failed) ==
               req' = [req EXCEPT ![q] = [req[q] EXCEPT !.todo = todo, !.failed = failed]]
             Posts(S) == req' = [req EXCEPT ![q].todo = @ \ S]
             Fails(S) == req' = [req EXCEPT ![q].todo = @ \ S, ![q].failed = @ \cup {j}]
  <2>2. \E todo, failed : Goes(todo, failed)
    <3>1. ASSUME NEW S, Posts(S) PROVE Goes(T \ S, req[q].failed)
      <4>1. [req[q] EXCEPT !.todo = T \ S] = [req[q] EXCEPT !.todo = T \ S, !.failed = req[q].failed]
        BY <2>1 DEF Request
      <4>2. req' = [req EXCEPT ![q] = [req[q] EXCEPT !.todo = T \ S]]
        BY <2>1, <3>1
      <4> QED BY <4>1, <4>2
    <3>2. ASSUME NEW S, Fails(S) PROVE Goes(T \ S, req[q].failed \cup {j})
      BY <2>1, <3>2 DEF Request
    <3>3. \/ \E a \in Accounts : Posts({<<j, a>>})
          \/ \E a \in Accounts : Fails({<<j, a>>})
          \/ Fails({j} \X Accounts)
      BY DEF Post, j
    <3> HIDE DEF Goes, Posts, Fails
    <3>4. (\E S : Posts(S)) \/ (\E S : Fails(S))
      BY <3>3
    <3>5. CASE \E S : Posts(S)
      <4>1. PICK S : Posts(S)
        BY <3>5
      <4> QED BY <3>1, <4>1
    <3>6. CASE \E S : Fails(S)
      <4>1. PICK S : Fails(S)
        BY <3>6
      <4> QED BY <3>2, <4>1
    <3> QED BY <3>4, <3>5, <3>6
  <2> QED BY <2>2
<1> DEFINE new == [req[q] EXCEPT !.todo = todo, !.failed = failed]
<1>3. /\ new.kind = req[q].kind /\ new.phase = "posting" /\ new.tried = req[q].tried
      /\ new.sawBatch = req[q].sawBatch
  BY <1>1 DEF HonestInv, BatchTypes, Request
<1>4. req' = [req EXCEPT ![q] = new]
  BY <1>2
<1>5. InFlight(q) /\ RequestSound(req[q])
  BY <1>1 DEF InFlight, TellInv
<1> HIDE DEF new
<1>6. RequestSound(new) /\ (new.kind = "submit" \/ Tried)
  BY <1>1, <1>3, <1>5 DEF RequestSound, SubmitSound, DryRunSound, RetrySound, Reread
<1> QED BY <1>1, <1>3, <1>4, <1>5, <1>6, TellRequest

(* Rereading the rows: nobody changed them, so a submit goes on.           *)
LEMMA TellReload ==
    ASSUME HonestInv, TellInv, NEW q \in Requests, Reload(q)
    PROVE  TellInv'
<1> DEFINE new == [req[q] EXCEPT !.phase = "writing", !.chosen = Selected,
                                 !.saw = Statuses, !.sawBatch = batch]
<1>1. /\ req[q].kind \in {"submit", "dry_run"} /\ req[q].phase = "posting" /\ InFlight(q)
      /\ RequestSound(req[q]) /\ UNCHANGED <<batch, item, posted>>
      /\ req[q] \in Request /\ req \in [Requests -> Request]
  BY DEF Reload, InFlight, TellInv, HonestInv, BatchTypes
<1>2. Selected = Items
  BY AllThere
<1>3. CASE /\ batch \in IF req[q].kind = "dry_run" THEN {"draft"} ELSE Open
           /\ \A i \in Selected : Accepts(req[q].kind, item[i].status)
  <2>1. req' = [req EXCEPT ![q] = new]
    <3>1. req' = [req EXCEPT ![q].phase = "writing", ![q].chosen = Selected,
                               ![q].saw = Statuses, ![q].sawBatch = batch]
      BY <1>3 DEF Reload
    <3> QED BY <1>1, <3>1 DEF Request
  <2>2. /\ new.kind = req[q].kind /\ new.phase = "writing" /\ new.tried = req[q].tried
        /\ new.todo = req[q].todo
        /\ new.chosen = Items /\ new.saw = Statuses /\ new.sawBatch = batch
    BY <1>1, <1>2 DEF Request
  <2> HIDE DEF new
  <2>3. req[q].kind = "dry_run" => Fresh
    BY <1>2, <1>3 DEF Accepts, Fresh
  <2>4. RequestSound(new)
    BY <1>1, <2>2, <2>3 DEF RequestSound, SubmitSound, DryRunSound, RetrySound, Reread
  <2> QED BY <1>1, <2>1, <2>2, <2>4, TellRequest
<1>4. CASE End(q) /\ ~(/\ batch \in IF req[q].kind = "dry_run" THEN {"draft"} ELSE Open
                       /\ \A i \in Selected : Accepts(req[q].kind, item[i].status))
  <2>1. req[q].kind = "dry_run"
    BY <1>1, <1>2, <1>4 DEF Accepts, RequestSound, SubmitSound, DryRunSound, RetrySound
  <2>2. req' = [req EXCEPT ![q] = Blank("done")] /\ Blank("done").phase = "done"
    BY <1>4 DEF End, Blank
  <2> QED BY <1>1, <2>1, <2>2, TellRequest
<1> QED BY <1>3, <1>4 DEF Reload

(* A retry that failed leaves its item failed, and one that succeeded has  *)
(* read the others as they are.                                            *)
LEMMA TellFlush ==
    ASSUME HonestInv, TellInv, NEW q \in Requests, RetryFlush(q)
    PROVE  TellInv'
<1> DEFINE seen == [j \in Items |-> IF j \in req[q].tried THEN "published" ELSE item[j].status]
           new == [req[q] EXCEPT !.phase = "writing", !.saw = seen]
<1>1. /\ req[q].kind = "retry" /\ req[q].phase = "posting" /\ InFlight(q)
      /\ RequestSound(req[q]) /\ UNCHANGED <<batch, item, posted>>
      /\ req[q] \in Request /\ req \in [Requests -> Request]
  BY DEF RetryFlush, InFlight, TellInv, HonestInv, BatchTypes
<1>2. CASE End(q)
  <2>1. req' = [req EXCEPT ![q] = Blank("done")] /\ Blank("done").phase = "done"
    BY <1>2 DEF End, Blank
  <2> QED BY <1>1, <2>1, TellRequest
<1>3. CASE req' = [req EXCEPT ![q].phase = "writing", ![q].saw = seen]
  <2> HIDE DEF seen
  <2>1. req' = [req EXCEPT ![q] = new]
    BY <1>1, <1>3 DEF Request
  <2>2. /\ new.kind = "retry" /\ new.phase = "writing" /\ new.tried = req[q].tried
        /\ new.sawBatch = req[q].sawBatch /\ new.saw = seen
    BY <1>1 DEF Request
  <2> HIDE DEF new
  <2>3. PICK i \in Items : req[q].tried = {i} /\ item[i].status = "publish_failed"
    BY <1>1 DEF RequestSound, SubmitSound, DryRunSound, RetrySound
  <2>4. seen = [Statuses EXCEPT ![i] = "published"]
    BY <2>3 DEF seen, Statuses
  <2>5. Tried /\ new.sawBatch = batch
    BY <1>1, <2>2 DEF RequestSound, SubmitSound, DryRunSound, RetrySound
  <2>6. RetrySound(new)
    BY <2>2, <2>3, <2>4, <2>5 DEF RetrySound
  <2> QED BY <1>1, <2>1, <2>2, <2>6, TellRequest DEF RequestSound
<1> QED BY <1>2, <1>3 DEF RetryFlush

(* The write that ends a request leaves no request at work.                *)
LEMMA TellEnd ==
    ASSUME HonestInv, TellInv, NEW q \in Requests, InFlight(q), End(q), AllSelected',
           Tried' \/ (Fresh' /\ \A i \in Items, a \in Accounts : ~(posted'[i][a] > 0))
    PROVE  TellInv'
<1>1. \A p \in Requests : ~InFlight(p)'
  <2>1. Blank("done").phase = "done"
    BY DEF Blank
  <2>2. \A p \in Requests : IF p = q THEN req'[p] = Blank("done") ELSE req'[p] = req[p]
    BY DEF End, HonestInv, BatchTypes
  <2>3. \A p \in Requests \ {q} : ~InFlight(p)
    BY DEF TellInv, OneInFlight
  <2> QED BY <2>1, <2>2, <2>3 DEF InFlight
<1>2. FreshUnposted'
  BY DEF FreshUnposted, Fresh, Tried
<1> QED BY <1>1, <1>2 DEF TellInv, OneInFlight

(* A submit writes what it found for every item; a dry run, that the batch *)
(* may be submitted.                                                       *)
LEMMA TellWrite ==
    ASSUME HonestInv, TellInv, NEW q \in Requests, Write(q)
    PROVE  TellInv'
<1> DEFINE r == req[q]
<1>1. /\ r.kind \in {"submit", "dry_run"} /\ r.phase = "writing" /\ InFlight(q) /\ End(q)
      /\ RequestSound(r) /\ posted' = posted
  BY DEF Write, InFlight, TellInv
<1>2. r.chosen = Items /\ r.saw = Statuses /\ r.sawBatch = batch
  BY <1>1 DEF RequestSound, SubmitSound, DryRunSound, RetrySound, Reread
<1>3. item \in [Items -> [status : ItemStatus, selected : BOOLEAN]]
  BY DEF HonestInv, BatchTypes
<1>4. /\ batch' = BatchResult(r)
      /\ item' = [i \in Items |->
                    IF Result(r, i) # item[i].status
                    THEN [item[i] EXCEPT !.status = Result(r, i)] ELSE item[i]]
  <2>1. batch # "gone" /\ \A i \in r.chosen : item[i].status # "gone"
    BY <1>2, AllThere
  <2>2. \A i \in Items : r.saw[i] = item[i].status
    BY <1>2 DEF Statuses
  <2> QED BY <1>2, <2>1, <2>2 DEF Write
<1>5. \A i \in Items : item'[i].status = Result(r, i) /\ item'[i].selected = item[i].selected
  BY <1>3, <1>4
<1>6. AllSelected'
  BY <1>5 DEF TellInv, AllSelected
<1>7. CASE r.kind = "submit"
  <2>1. \A i \in Items : item'[i].status \in {"published", "publish_failed"}
    BY <1>5, <1>7 DEF Result
  <2>2. batch' = IF \E i \in Items : item'[i].status = "publish_failed"
                 THEN "partial_failed" ELSE "completed"
    BY <1>2, <1>4, <1>5, <1>7 DEF BatchResult
  <2>3. Tried'
    BY <2>1, <2>2 DEF Tried
  <2> QED BY <1>1, <1>6, <2>3, TellEnd
<1>8. CASE r.kind = "dry_run"
  <2>1. Fresh
    BY <1>1, <1>8 DEF RequestSound, SubmitSound, DryRunSound, RetrySound
  <2>2. Fresh'
    BY <1>4, <1>5, <1>8 DEF Fresh, BatchResult, Result
  <2>3. \A p \in Requests : InFlight(p) => req[p].kind = "dry_run"
    BY <1>1, <1>8 DEF TellInv, OneInFlight
  <2>4. \A i \in Items, a \in Accounts : ~(posted'[i][a] > 0)
    BY <1>1, <2>1, <2>3 DEF TellInv, FreshUnposted
  <2> QED BY <1>1, <1>6, <2>2, <2>4, TellEnd
<1> QED BY <1>1, <1>7, <1>8

(* A retry that succeeded completes the batch if it was the last one.      *)
LEMMA TellCommit ==
    ASSUME HonestInv, TellInv, NEW q \in Requests, RetryCommit(q)
    PROVE  TellInv'
<1> DEFINE r == req[q]
<1>1. /\ r.kind = "retry" /\ r.phase = "writing" /\ InFlight(q) /\ End(q)
      /\ RetrySound(r) /\ posted' = posted
  BY DEF RetryCommit, InFlight, TellInv, RequestSound, SubmitSound, DryRunSound
<1>2. PICK i \in Items : /\ r.tried = {i} /\ item[i].status = "publish_failed"
                         /\ r.saw = [Statuses EXCEPT ![i] = "published"]
  BY <1>1 DEF RetrySound
<1>3. Tried /\ r.sawBatch = batch /\ batch # "gone"
  BY <1>1, AllThere DEF RetrySound
<1>4. item \in [Items -> [status : ItemStatus, selected : BOOLEAN]]
  BY DEF HonestInv, BatchTypes
<1>5. /\ item' = [j \in Items |->
                    IF j \in {i} THEN [item[j] EXCEPT !.status = "published"] ELSE item[j]]
      /\ batch' = IF Retried(r) = batch THEN batch ELSE Retried(r)
  BY <1>2, <1>3 DEF RetryCommit
<1>6. \A j \in Items : /\ item'[j].status = IF j = i THEN "published" ELSE item[j].status
                       /\ item'[j].selected = item[j].selected
  BY <1>4, <1>5
<1>7. \A j \in Items : r.saw[j] = item'[j].status
  BY <1>2, <1>6 DEF Statuses
<1>8. AllSelected'
  BY <1>6 DEF TellInv, AllSelected
<1>9. batch \in {"partial_failed", "publishing"}
  BY <1>2, <1>3 DEF Tried
<1>10. \A j \in Items : item'[j].status \in {"published", "publish_failed"}
  BY <1>3, <1>6 DEF Tried
<1>11. batch' = IF \A j \in Items : item'[j].status = "published" THEN "completed"
                ELSE "publishing"
  BY <1>3, <1>5, <1>7, <1>9, <1>10 DEF Retried
<1>12. Tried'
  BY <1>6, <1>10, <1>11 DEF Tried
<1> QED BY <1>1, <1>8, <1>12, TellEnd

(* Every step of a batch that is only submitted, retried and rehearsed.    *)
LEMMA TellStep ==
    ASSUME HonestInv, TellInv, Ops \subseteq {"dry_run"}, [BatchNext]_batchVars
    PROVE  TellInv'
<1>1. CASE UNCHANGED batchVars
  <2>1. \A q \in Requests : InFlight(q)' <=> InFlight(q)
    BY <1>1 DEF batchVars, InFlight
  <2>2. (Fresh' <=> Fresh) /\ (Tried' <=> Tried) /\ (AllSelected' <=> AllSelected)
        /\ Statuses' = Statuses /\ req' = req /\ batch' = batch /\ item' = item /\ posted' = posted
    BY <1>1 DEF batchVars, Fresh, Tried, AllSelected, Statuses
  <2>3. \A q \in Requests : RequestSound(req[q]) => RequestSound(req[q])'
    BY <2>2 DEF RequestSound, SubmitSound, DryRunSound, RetrySound, Reread
  <2>4. OneInFlight' /\ FreshUnposted'
    BY <2>1, <2>2 DEF TellInv, OneInFlight, FreshUnposted
  <2> QED BY <2>1, <2>2, <2>3, <2>4 DEF TellInv
<1>2. "overlap" \notin Ops /\ "select" \notin Ops /\ "delete" \notin Ops /\ "crash" \notin Ops
  OBVIOUS
<1>3. ASSUME NEW q \in Requests,
             \/ \E kind \in {"submit", "dry_run"} : Submit(q, kind)
             \/ \E i \in Items : Retry(q, i)
             \/ Post(q) \/ Reload(q) \/ Write(q) \/ RetryFlush(q) \/ RetryCommit(q)
      PROVE  TellInv'
  BY <1>2, <1>3, TellBegin, TellPost, TellReload, TellWrite, TellFlush, TellCommit
<1>4. CASE (\E i \in Items : Select(i) \/ DeleteItem(i)) \/ DeleteBatch \/ CrashBatch
  BY <1>2, <1>4 DEF Select, DeleteItem, DeleteBatch, CrashBatch
<1> QED BY <1>1, <1>3, <1>4 DEF BatchNext

(* Once the requests are over, the invariant says what the batch tells.    *)
LEMMA TellTells ==
    ASSUME HonestInv, TellInv
    PROVE  BatchTellsAll
<1> SUFFICES ASSUME Idle PROVE BatchTellsAll
  BY DEF BatchTellsAll
<1>1. \A q \in Requests : ~InFlight(q)
  BY DEF Idle, InFlight
<1>2. PICK i \in Items : TRUE
  BY PublishConstants DEF Items
<1>3. CASE Fresh
  <2>1. \A j \in Items, a \in Accounts : ~(posted[j][a] > 0)
    BY <1>1, <1>3 DEF TellInv, FreshUnposted
  <2>2. batch # "completed" /\ item[i].status # "published"
    BY <1>2, <1>3 DEF Fresh
  <2> QED BY <1>2, <2>1, <2>2 DEF BatchTellsAll
<1>4. CASE Tried
  BY <1>4 DEF Tried, BatchTellsAll
<1> QED BY <1>3, <1>4 DEF TellInv

(* BatchTellsAll: "once every item has published" and not before           *)
(* (sqlalchemy_repository.py 531-532). Requests take turns and nobody      *)
(* edits or deletes: two that overlap may lose the last status, and a crash*)
(* between the posts and transaction B leaves items that look untried.     *)
THEOREM BatchAlwaysTells ==
    ASSUME Ops \subseteq {"dry_run"}
    PROVE  BatchSpec => []BatchTellsAll
<1>1. BatchInit => HonestInv /\ TellInv
  BY HonestInit, TellInit
<1>2. HonestInv /\ TellInv /\ [BatchNext]_batchVars => HonestInv' /\ TellInv'
  BY HonestStep, TellStep
<1>3. HonestInv /\ TellInv => BatchTellsAll
  BY TellTells
<1> QED BY <1>1, <1>2, <1>3, PTL DEF BatchSpec
=============================================================================
