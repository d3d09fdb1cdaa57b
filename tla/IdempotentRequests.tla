------------------------- MODULE IdempotentRequests -------------------------
(***************************************************************************)
(* Write requests of one user that carry one Idempotency-Key               *)
(* (apps/api/dependencies.py, core/storage/sqlalchemy_idempotency.py).     *)
(*                                                                         *)
(* The middleware looks the key up, runs the handler when it finds nothing,*)
(* and stores a successful answer for a day. These are three steps, each   *)
(* with a transaction of its own. An answer is named by the request that   *)
(* made it. Bodies that are too large to be taken are left out.            *)
(***************************************************************************)
EXTENDS Integers, FiniteSets

CONSTANTS
    Writes,        \* requests with the key, the first one and its retries
    Bodies,        \* what a request may ask for
    WriteHazards   \* what may go wrong

(* overlap    a request need not wait for the answer to another            *)
(* crash      the API process dies while it serves a request               *)
(* expiry     a record gets older than a day                               *)
(* uncached   an answer is too long, or no JSON, and is not stored         *)
ASSUME WriteConstants ==
    /\ IsFiniteSet(Writes)
    /\ WriteHazards \subseteq {"overlap", "crash", "expiry", "uncached"}

VARIABLES
    hazards,    \* those of a behaviour
    write,      \* the requests: how far each is, its body and its answer
    record,     \* the row of the key
    succeeded   \* requests whose handler had its effect

writeVars == <<hazards, write, record, succeeded>>

NoAnswer == [kind |-> "none"]
NoRecord == [kind |-> "none"]

Answers ==
    {NoAnswer} \cup [kind : {"error", "conflict"}] \cup
    [kind : {"made", "replayed"}, by : Writes]

Records == {NoRecord} \cup [kind : {"fresh", "expired"}, body : Bodies, by : Writes]

WriteTypeOK ==
    /\ hazards \in SUBSET WriteHazards
    /\ write \in [Writes ->
          [pc : {"unsent", "arrived", "executing", "answered", "done"}, body : Bodies,
           answer : Answers]]
    /\ record \in Records
    /\ succeeded \subseteq Writes

WriteInit ==
    /\ hazards \in SUBSET WriteHazards
    /\ write \in [Writes -> [pc : {"unsent"}, body : Bodies, answer : {NoAnswer}]]
    /\ record = NoRecord
    /\ succeeded = {}

-----------------------------------------------------------------------------
Unanswered == {w \in Writes : write[w].pc \notin {"unsent", "done"}}

Send(w) ==
    /\ write[w].pc = "unsent"
    /\ Unanswered = {} \/ "overlap" \in hazards
    /\ write' = [write EXCEPT ![w].pc = "arrived"]
    /\ UNCHANGED <<hazards, record, succeeded>>

Reply(w, answer) == write' = [write EXCEPT ![w].pc = "done", ![w].answer = answer]

LookUpKeyOnly(w) ==   \* mutant: the hash of the body is not compared
    /\ write[w].pc = "arrived"
    /\ IF record.kind = "fresh"
       THEN Reply(w, [kind |-> "replayed", by |-> record.by]) /\ UNCHANGED record
       ELSE /\ record' = NoRecord
            /\ write' = [write EXCEPT ![w].pc = "executing"]
    /\ UNCHANGED <<hazards, succeeded>>

(* get: an expired record is deleted on sight.                             *)
LookUp(w) ==
    /\ write[w].pc = "arrived"
    /\ \/ /\ record.kind = "fresh"
          /\ Reply(w, IF record.body = write[w].body
                      THEN [kind |-> "replayed", by |-> record.by]
                      ELSE [kind |-> "conflict"])
          /\ UNCHANGED record
       \/ /\ record.kind # "fresh"
          /\ record' = NoRecord
          /\ write' = [write EXCEPT ![w].pc = "executing"]
    /\ UNCHANGED <<hazards, succeeded>>

(* call_next: only a 2xx answer goes on to be stored.                      *)
Execute(w) ==
    /\ write[w].pc = "executing"
    /\ \/ /\ succeeded' = succeeded \cup {w}
          /\ write' = [write EXCEPT ![w].pc = "answered",
                                    ![w].answer = [kind |-> "made", by |-> w]]
       \/ Reply(w, [kind |-> "error"]) /\ UNCHANGED succeeded
    /\ UNCHANGED <<hazards, record>>

StoreNothing(w) ==   \* mutant: the answer is not kept
    /\ write[w].pc = "answered"
    /\ write' = [write EXCEPT ![w].pc = "done"]
    /\ UNCHANGED <<hazards, record, succeeded>>

(* put merges: it replaces whatever is stored by now.                      *)
StoreAnswer(w) ==
    /\ write[w].pc = "answered"
    /\ write' = [write EXCEPT ![w].pc = "done"]
    /\ record' \in {[kind |-> "fresh", body |-> write[w].body, by |-> w]} \cup
                   (IF "uncached" \in hazards THEN {record} ELSE {})
    /\ UNCHANGED <<hazards, succeeded>>

Expire ==
    /\ "expiry" \in hazards /\ record.kind = "fresh"
    /\ record' = [record EXCEPT !.kind = "expired"]
    /\ UNCHANGED <<hazards, write, succeeded>>

CrashWrite(w) ==
    /\ "crash" \in hazards /\ w \in Unanswered
    /\ Reply(w, [kind |-> "error"])
    /\ UNCHANGED <<hazards, record, succeeded>>

WriteNext ==
    \/ \E w \in Writes :
          Send(w) \/ LookUp(w) \/ Execute(w) \/ StoreAnswer(w) \/ CrashWrite(w)
    \/ Expire

WriteSpec == WriteInit /\ [][WriteNext]_writeVars

-----------------------------------------------------------------------------
(* What the key is for: however often a request is sent with it, it takes  *)
(* effect once, and everybody who gets an answer gets the same one. That   *)
(* needs requests that wait for each other, a process that lives, a record *)
(* that lasts and an answer that fits.                                     *)
TakesEffectOnce ==
    hazards = {} =>
        /\ Cardinality(succeeded) <= 1
        /\ \A v, w \in Writes :
              {write[v].answer.kind, write[w].answer.kind} \subseteq {"made", "replayed"}
                  => write[v].answer.by = write[w].answer.by

(* Whatever goes wrong, a replay answers the question that was asked: it   *)
(* repeats what a request with the same body was told, and that one did    *)
(* take effect ("Spec 32.11: Idempotency-Key hit replays the original      *)
(* body", dependencies.py 218-219).                                        *)
ReplaysAreMine ==
    \A w \in Writes :
        write[w].answer.kind = "replayed" =>
            /\ write[w].answer.by \in succeeded
            /\ write[write[w].answer.by].body = write[w].body
=============================================================================
