---------------------------- MODULE EventStream ----------------------------
(***************************************************************************)
(* The events of one run, from the transaction that stores them to the page *)
(* that shows them.                                                        *)
(*                                                                         *)
(* A worker stores events as pending rows of the outbox, with the rest of   *)
(* its snapshot. The dispatcher of every API replica polls for pending     *)
(* rows, hands them to its fanout hub, which passes them on over Redis, and *)
(* marks them published. A page opens a WebSocket on one replica, Home: it  *)
(* is sent the rows after its cursor, is then subscribed to the hub, and   *)
(* reconnects with the last event it has seen.                             *)
(*                                                                         *)
(* An event is its place in the order of (created_at, id).                 *)
(***************************************************************************)
EXTENDS Integers, Sequences, FiniteSets, SequencesExt

CONSTANTS
    MaxEvents,       \* bound on the events of the run
    Activities,      \* of the run, which overlap
    Replicas, Home,  \* the API replicas, and the one the page talks to
    MaxDrops,        \* bound on lost connections
    MaxQueue,        \* bound on what waits for the page after a failed commit
    StreamFaults     \* what the environment may do

(* db_error  a transaction of a dispatcher fails                           *)
(* restart   a replica is restarted                                        *)
(* redis     Redis is away for a moment                                    *)
AllStreamFaults == {"db_error", "restart", "redis"}

ASSUME StreamConstants ==
    /\ MaxEvents \in Nat /\ MaxDrops \in Nat /\ MaxQueue \in Nat
    /\ Home \in Replicas /\ IsFiniteSet(Replicas)
    /\ StreamFaults \subseteq AllStreamFaults

Events == 1..MaxEvents

VARIABLES
    born,     \* how many events have been created
    held,     \* what every writer has in its Repository
    outbox,   \* outbox_events
    alive,    \* whether the dispatcher task of a replica runs
    conn,     \* the connection: what it does, what it replays, what it sent
    waiting,  \* the Queue the hub of Home fills for it
    wire,     \* what Redis carries to Home
    heard,    \* whether the hub of Home listens to Redis
    shown,    \* the events of the page, in the order it got them
    cursor,   \* its lastEventId, 0 for none
    drops,
    due       \* history: what was published while the page was subscribed

pageVars == <<shown, cursor>>
streamVars == <<born, held, outbox, alive, conn, waiting, wire, heard, pageVars, drops, due>>

Closed == [phase |-> "closed", todo |-> <<>>, sent |-> {}]

(* The variables have their types.                                         *)
StreamTypeOK ==
    /\ born \in 0..MaxEvents
    /\ held \in [Activities -> SUBSET (1..born)]
    /\ outbox \in [Events -> {"absent", "pending", "published"}]
    /\ alive \in [Replicas -> BOOLEAN]
    /\ conn.phase \in {"closed", "replay", "live"}
    /\ conn.todo \in Seq(Events) /\ conn.sent \subseteq Events
    /\ waiting \in Seq(Events) /\ wire \in Seq(Events)
    /\ heard \in BOOLEAN
    /\ shown \in Seq(Events) /\ cursor \in {0} \cup Events
    /\ drops \in 0..MaxDrops
    /\ due \subseteq Events

StreamInit ==
    /\ born = 0
    /\ held = [w \in Activities |-> {}]
    /\ outbox = [e \in Events |-> "absent"]
    /\ alive = [p \in Replicas |-> TRUE]
    /\ conn = Closed
    /\ waiting = <<>> /\ wire = <<>>
    /\ heard = FALSE
    /\ shown = <<>> /\ cursor = 0
    /\ drops = 0
    /\ due = {}

-----------------------------------------------------------------------------
(* Storing                                                                 *)

(* ORDER BY created_at, id: the k-th of the rows is the one that k of them  *)
(* do not come after.                                                      *)
InOrder(S) ==
    [k \in 1..Cardinality(S) |-> CHOOSE e \in S : Cardinality({f \in S : f <= e}) = k]

StoredRows == {e \in Events : outbox[e] # "absent"}
PendingRows == {e \in Events : outbox[e] = "pending"}

(* create_event                                                            *)
Create(w) ==
    /\ born < MaxEvents
    /\ born' = born + 1
    /\ held' = [held EXCEPT ![w] = @ \cup {born + 1}]
    /\ UNCHANGED <<outbox, alive, conn, waiting, wire, heard, pageVars, drops, due>>

(* The write that ends an activity stores its events as pending.           *)
Sync(w) ==
    /\ held[w] # {}
    /\ outbox' = [e \in Events |-> IF e \in held[w] THEN "pending" ELSE outbox[e]]
    /\ held' = [held EXCEPT ![w] = {}]
    /\ UNCHANGED <<born, alive, conn, waiting, wire, heard, pageVars, drops, due>>

-----------------------------------------------------------------------------
(* Dispatching                                                             *)

Subscribed == conn.phase = "live"

ClaimsLater(p) ==   \* mutant: the dispatcher goes on from the last row it published
    {{e \in PendingRows : \A f \in StoredRows \ PendingRows : f < e}} \ {{}}

(* FOR UPDATE SKIP LOCKED: while another dispatcher polls, it may hold any  *)
(* of the rows.                                                            *)
Claims(p) ==
    IF \E q \in Replicas \ {p} : alive[q] THEN SUBSET PendingRows \ {{}}
    ELSE {PendingRows} \ {{}}

FanoutFirst(p, batch) ==   \* mutant: one event is fanned out for a batch
    IF Subscribed /\ p = Home
    THEN waiting' = Append(waiting, InOrder(batch)[1]) /\ UNCHANGED wire
    ELSE UNCHANGED <<waiting, wire>>

(* hub.publish, for every row: the local subscribers, then Redis.          *)
Fanout(p, batch) ==
    /\ waiting' = IF Subscribed /\ p = Home THEN waiting \o InOrder(batch) ELSE waiting
    /\ wire' = IF Subscribed /\ p # Home /\ heard THEN wire \o InOrder(batch) ELSE wire

(* While the hub of Home does not listen to Redis, other replicas owe nothing. *)
Owed(p, batch) ==
    due' = IF Subscribed /\ (p = Home \/ heard) THEN due \cup batch ELSE due

Dispatch(p) ==
    /\ alive[p]
    /\ \E batch \in Claims(p) :
          /\ Fanout(p, batch) /\ Owed(p, batch)
          /\ outbox' = [e \in Events |-> IF e \in batch THEN "published" ELSE outbox[e]]
    /\ UNCHANGED <<born, held, alive, conn, heard, pageVars, drops>>

(* The SELECT or the commit raises. Nothing catches it: the task is over.  *)
DispatchFails(p) ==
    /\ "db_error" \in StreamFaults
    /\ alive[p]
    /\ \/ UNCHANGED <<waiting, wire, due>>
       \/ /\ \E batch \in Claims(p) : Fanout(p, batch) /\ Owed(p, batch)
          /\ Len(waiting') + Len(wire') <= MaxQueue
    /\ alive' = [alive EXCEPT ![p] = FALSE]
    /\ UNCHANGED <<born, held, outbox, conn, heard, pageVars, drops>>

-----------------------------------------------------------------------------
(* The connection                                                          *)

(* replay_sqlalchemy_outbox(after_event_id)                                *)
Replay == InOrder({e \in StoredRows : e > cursor})

(* Without anything to send, nothing is awaited before the subscription.   *)
Connect ==
    /\ conn.phase = "closed"
    /\ LET todo == Replay IN
       IF todo = <<>>
       THEN conn' = [Closed EXCEPT !.phase = "live"] /\ heard' = TRUE
       ELSE /\ conn' = [phase |-> "replay", todo |-> todo, sent |-> ToSet(todo)]
            /\ UNCHANGED heard
    /\ UNCHANGED <<born, held, outbox, alive, waiting, wire, pageVars, drops, due>>

ShowAny(e) ==   \* mutant: the page does not look at what it has seen
    shown' = Append(shown, e) /\ cursor' = e

(* onmessage                                                               *)
Show(e) ==
    IF e \in ToSet(shown) THEN UNCHANGED pageVars
    ELSE shown' = Append(shown, e) /\ cursor' = e

SendReplayed ==
    /\ conn.phase = "replay" /\ conn.todo # <<>>
    /\ Show(Head(conn.todo))
    /\ conn' = [conn EXCEPT !.todo = Tail(@)]
    /\ UNCHANGED <<born, held, outbox, alive, waiting, wire, heard, drops, due>>

(* hub.subscribe, which starts a Redis listener when there is none.        *)
Subscribe ==
    /\ conn.phase = "replay" /\ conn.todo = <<>>
    /\ conn' = [conn EXCEPT !.phase = "live"]
    /\ heard' = TRUE
    /\ UNCHANGED <<born, held, outbox, alive, waiting, wire, pageVars, drops, due>>

(* _listen_to_subscription                                                 *)
Carry ==
    /\ wire # <<>>
    /\ waiting' = Append(waiting, Head(wire))
    /\ wire' = Tail(wire)
    /\ UNCHANGED <<born, held, outbox, alive, conn, heard, pageVars, drops, due>>

(* The loop of run_websocket, with what was sent to this connection.       *)
SendLive ==
    /\ Subscribed /\ waiting # <<>>
    /\ waiting' = Tail(waiting)
    /\ LET e == Head(waiting) IN
       IF e \in conn.sent THEN UNCHANGED <<conn, pageVars>>
       ELSE Show(e) /\ conn' = [conn EXCEPT !.sent = @ \cup {e}]
    /\ UNCHANGED <<born, held, outbox, alive, wire, heard, drops, due>>

(* The subscriber leaves the hub, and the last one stops the listener.     *)
Hangup ==
    /\ conn' = Closed
    /\ waiting' = <<>> /\ wire' = <<>> /\ due' = {}
    /\ heard' = FALSE

Drop ==
    /\ conn.phase # "closed"
    /\ drops < MaxDrops
    /\ drops' = drops + 1
    /\ Hangup
    /\ UNCHANGED <<born, held, outbox, alive, pageVars>>

Restart(p) ==
    /\ "restart" \in StreamFaults
    /\ ~alive[p]
    /\ alive' = [alive EXCEPT ![p] = TRUE]
    /\ IF p = Home THEN Hangup ELSE UNCHANGED <<conn, waiting, wire, due, heard>>
    /\ UNCHANGED <<born, held, outbox, pageVars, drops>>

(* _degrade ends the listener. The client is made anew when it is needed,   *)
(* the listener when a connection subscribes.                              *)
LoseRedis ==
    /\ "redis" \in StreamFaults
    /\ heard
    /\ heard' = FALSE /\ wire' = <<>>
    /\ due' = due \ ToSet(wire)
    /\ UNCHANGED <<born, held, outbox, alive, conn, waiting, pageVars, drops>>

-----------------------------------------------------------------------------
StreamNext ==
    \/ \E w \in Activities : Create(w) \/ Sync(w)
    \/ \E p \in Replicas : Dispatch(p) \/ DispatchFails(p) \/ Restart(p)
    \/ Connect \/ SendReplayed \/ Subscribe \/ Carry \/ SendLive
    \/ Drop \/ LoseRedis

StreamSpec == StreamInit /\ [][StreamNext]_streamVars

(* The dispatchers poll for ever, and the page reconnects. Nothing obliges *)
(* an activity to create or store an event, nor a replica to be restarted. *)
StreamFairness ==
    /\ \A p \in Replicas : WF_streamVars(Dispatch(p))
    /\ WF_streamVars(Connect) /\ WF_streamVars(SendReplayed)
    /\ WF_streamVars(Subscribe)
    /\ WF_streamVars(Carry) /\ WF_streamVars(SendLive)

FairStreamSpec == StreamSpec /\ StreamFairness

-----------------------------------------------------------------------------
(* Properties                                                              *)

(* What any replica publishes while the page is subscribed is on its way to *)
(* it or has arrived ("no double-publish / lost websocket tail", events.py  *)
(* 325), and the page shows no event twice, although rows are published     *)
(* again after a failed commit and a replay overlaps what follows it        *)
(* (sent_event_ids, and the page's own set). What Redis loses is not        *)
(* counted.                                                                *)
TailShownOnce ==
    /\ due \subseteq ToSet(shown) \cup ToSet(waiting) \cup ToSet(wire)
    /\ \A i, j \in DOMAIN shown : shown[i] = shown[j] => i = j

(* As long as the dispatcher of one replica goes on, every stored event is  *)
(* published, whichever replicas fail, and however late it is stored.      *)
EveryEventPublished ==
    (\E p \in Replicas : <>[]alive[p])
        => \A e \in Events : outbox[e] = "pending" ~> outbox[e] = "published"

(* A page that stays open shows every stored event.                        *)
EveryEventArrives == \A e \in Events : outbox[e] # "absent" ~> e \in ToSet(shown)
=============================================================================
