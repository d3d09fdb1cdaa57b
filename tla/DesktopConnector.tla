-------------------------- MODULE DesktopConnector --------------------------
(***************************************************************************)
(* Posts through the desktop application, over its debugging port          *)
(* (packages/publishing/connectors/xiaovmao_cdp.py).                       *)
(*                                                                         *)
(* A call is one XiaoVmaoPublishAdapter.publish for one platform: it reads *)
(* the accounts of the application, picks one, creates a task there, starts*)
(* the tasks and polls the task until it has ended or time is up. Every    *)
(* command may fail, with or without its effect; any exception becomes a   *)
(* failure of the call. The application works on its tasks all the while.  *)
(***************************************************************************)
EXTENDS FiniteSets

CONSTANTS
    Uids,    \* accounts of the platform that the application may know
    Calls    \* calls of publish, one at a time: the executor is sequential

ASSUME ConnectorConstants == IsFiniteSet(Uids) /\ IsFiniteSet(Calls)

VARIABLES
    app,     \* the application's accounts
    task,    \* its PublishLog: the task of each call
    postCall \* the calls

connectorVars == <<app, task, postCall>>

(* in_group: the names of the account contain the account group, or the    *)
(* name of the case.                                                       *)
AppAccount == [login : {"unknown", "out", "in"}, in_group : BOOLEAN]

(* PUBLISH_LOG_STATUS_LABELS, and "none" for no task. A task that waits    *)
(* starts only if startPublishTask was called since it was created.        *)
TaskStatus ==
    {"none", "waiting", "running", "published", "paused", "failed", "cancelled", "timed"}

NoUid == {}
NoTask == [uid |-> NoUid, status |-> "none", started |-> FALSE]

(* want: account_uid of the payload, or NoUid; grouped: whether a group or *)
(* a case name filters the accounts.                                       *)
PublishCall ==
    [pc : {"unused", "connecting", "creating", "starting", "polling", "published",
           "scheduled", "failed"},
     want : Uids \cup {NoUid}, grouped : BOOLEAN, scheduled : BOOLEAN]

ConnectorTypeOK ==
    /\ app \in [Uids -> AppAccount]
    /\ task \in [Calls -> [uid : Uids \cup {NoUid}, status : TaskStatus, started : BOOLEAN]]
    /\ postCall \in [Calls -> PublishCall]

ConnectorInit ==
    /\ app \in [Uids -> AppAccount]
    /\ task = [q \in Calls |-> NoTask]
    /\ postCall = [q \in Calls |->
          [pc |-> "unused", want |-> NoUid, grouped |-> FALSE, scheduled |-> FALSE]]

-----------------------------------------------------------------------------
Answered == {"published", "scheduled", "failed"}

Step(q, pc) == postCall' = [postCall EXCEPT ![q].pc = pc]

(* The accounts of the list, less those that are not of the group.         *)
Candidates(q) ==
    {u \in Uids : app[u].login # "unknown" /\ (postCall[q].grouped => app[u].in_group)}

(* match_account: the account that was asked for, else the first one.      *)
Matches(q) ==
    IF postCall[q].want \in Candidates(q) THEN {postCall[q].want} ELSE Candidates(q)

Publish(q) ==
    /\ postCall[q].pc = "unused"
    /\ \A r \in Calls : postCall[r].pc \in Answered \cup {"unused"}
    /\ \E want \in Uids \cup {NoUid}, grouped, scheduled \in BOOLEAN :
          postCall' = [postCall EXCEPT ![q] = [pc |-> "connecting", want |-> want,
                                       grouped |-> grouped, scheduled |-> scheduled]]
    /\ UNCHANGED <<app, task>>

(* connect, _read_accounts and the choice; the task is built.              *)
ChooseAccount(q) ==
    /\ postCall[q].pc = "connecting"
    /\ \/ \E u \in Matches(q) :
             /\ app[u].login = "in"
             /\ task' = [task EXCEPT ![q].uid = u]
             /\ Step(q, "creating")
       \/ Step(q, "failed") /\ UNCHANGED task
    /\ UNCHANGED app

(* bulkCreateWithStat. An error, a timeout of CDP_RESPONSE_TIMEOUT_SECONDS *)
(* or a lost connection does not say whether there is a task now.          *)
CreateTask(q) ==
    /\ postCall[q].pc = "creating"
    /\ \/ /\ task' = [task EXCEPT ![q].status = "waiting"]
          /\ Step(q, "starting") \/ Step(q, "failed")
       \/ Step(q, "failed") /\ UNCHANGED task
    /\ UNCHANGED app

(* startPublishTask, which names no task: whatever waits may run.          *)
StartTasks(q) ==
    /\ postCall[q].pc = "starting"
    /\ \/ /\ task' = [r \in Calls |->
                [task[r] EXCEPT !.started = @ \/ task[r].status # "none"]]
          /\ Step(q, "polling") \/ Step(q, "failed")
       \/ Step(q, "failed") /\ UNCHANGED task
    /\ UNCHANGED app

RunningWillDo(q) ==   \* mutant: a task that runs will be published
    IF task[q].status \in {"published", "running"} THEN {"published"}
    ELSE IF postCall[q].scheduled /\ task[q].status \in {"waiting", "timed"} THEN {"scheduled"}
    ELSE IF task[q].status \in {"paused", "failed", "cancelled"} THEN {"failed"}
    ELSE {"polling", "failed"}

(* What _wait_for_publish_record makes of the record: it goes on polling,  *)
(* until PUBLISH_TASK_TIMEOUT_SECONDS are over.                            *)
Verdicts(q) ==
    IF task[q].status = "published" THEN {"published"}
    ELSE IF postCall[q].scheduled /\ task[q].status \in {"waiting", "timed"} THEN {"scheduled"}
    ELSE IF task[q].status \in {"paused", "failed", "cancelled"} THEN {"failed"}
    ELSE {"polling", "failed"}

(* A query may fail, or not find the record yet.                           *)
Poll(q) ==
    /\ postCall[q].pc = "polling"
    /\ \E verdict \in Verdicts(q) \cup {"failed"} : Step(q, verdict)
    /\ UNCHANGED <<app, task>>

-----------------------------------------------------------------------------
(* The application, and those who use it.                                  *)

TaskMoves ==
    {<<"waiting", "running">>, <<"waiting", "timed">>, <<"timed", "running">>,
     <<"running", "published">>, <<"running", "failed">>} \cup
    ({"waiting", "timed", "running"} \X {"paused", "cancelled"})

AppWorks(q) ==
    \E status \in TaskStatus :
        /\ <<task[q].status, status>> \in TaskMoves
        /\ status \in {"running", "timed"} => task[q].started
        /\ task' = [task EXCEPT ![q].status = status]
        /\ UNCHANGED <<app, postCall>>

UserLogsIn(u) ==
    \E login \in {"unknown", "out", "in"} :
        /\ login # app[u].login
        /\ app' = [app EXCEPT ![u].login = login]
        /\ UNCHANGED <<task, postCall>>

ConnectorNext ==
    \/ \E q \in Calls :
          Publish(q) \/ ChooseAccount(q) \/ CreateTask(q) \/ StartTasks(q) \/ Poll(q) \/ AppWorks(q)
    \/ \E u \in Uids : UserLogsIn(u)

ConnectorSpec == ConnectorInit /\ [][ConnectorNext]_connectorVars

-----------------------------------------------------------------------------
Port == INSTANCE PublishPort WITH
    PortCalls <- Calls,
    answer <- [q \in Calls |-> IF postCall[q].pc \in Answered THEN postCall[q].pc ELSE "none"],
    onPlatform <- {q \in Calls : task[q].status = "published"}

(* "still never fabricates a published result" (xiaovmao_cdp.py 10): the   *)
(* connector is a PublishPort, whatever commands get lost and whatever     *)
(* becomes of its tasks meanwhile, also after it has given up on them.     *)
NothingFabricated == Port!PortSpec

(* "Thread the exact account uid so multi-account-per-platform routes to   *)
(* the right account (not just the first platform match)" (publishing.py   *)
(* 222-223): the account that a call names is the one its task is for.     *)
RightAccount ==
    \A q \in Calls :
        postCall[q].want # NoUid /\ task[q].status # "none" => task[q].uid = postCall[q].want
=============================================================================
