---------------------------- MODULE DesktopLogin ----------------------------
(***************************************************************************)
(* Logins of publish accounts to one platform, through the desktop         *)
(* application: XiaoVmaoLoginManager, its threads and the socket that      *)
(* streams their events.                                                   *)
(*                                                                         *)
(* A thread remembers the accounts the application knows, opens the login  *)
(* page and looks for a new account, or for the one it was begun for, until*)
(* there is one, time is up or it is cancelled. What it finds it binds to  *)
(* the publish account. loginStatus is what the API shows of it.           *)
(***************************************************************************)
EXTENDS FiniteSets, Sequences, SequencesExt

CONSTANTS
    PublishAccounts,   \* active accounts of the platform, until archived
    AppUids,           \* accounts the application may have
    Logins             \* identifiers of login sessions, each used once

ASSUME LoginConstants ==
    /\ IsFiniteSet(PublishAccounts) /\ IsFiniteSet(AppUids) /\ IsFiniteSet(Logins)

VARIABLES
    bound,      \* xiaovmao_uid of the accounts
    archived,   \* accounts that are archived
    inApp,      \* the accounts of the application
    thread,     \* the threads
    loginStatus,    \* status of the sessions, "gone" when the manager forgot it
    events,     \* the queues
    cancelled,  \* the threads' cancel events
    stream      \* the sockets, and what each has sent

loginVars == <<bound, archived, inApp, thread, loginStatus, events, cancelled, stream>>

NoAppUid == {}
Event == {"qr", "status", "account", "error"}
Terminal == {"active", "failed"}

Thread ==
    [pc : {"unused", "begun", "opening", "looking", "found", "binding", "bound", "unbound",
           "broken", "shown", "ended"},
     account : PublishAccounts, target : AppUids \cup {NoAppUid}, known : SUBSET AppUids,
     uid : AppUids \cup {NoAppUid}, sent_qr : BOOLEAN]

LoginTypeOK ==
    /\ bound \in [PublishAccounts -> AppUids \cup {NoAppUid}]
    /\ archived \subseteq PublishAccounts
    /\ inApp \in [AppUids -> {"unknown", "out", "in"}]
    /\ \A l \in Logins : thread[l] \in Thread
    /\ loginStatus \in [Logins -> {"none", "pending", "verifying", "active", "failed", "gone"}]
    /\ \A l \in Logins : events[l] \in Seq(Event) /\ Len(events[l]) <= 4
    /\ cancelled \subseteq Logins
    /\ stream \in [Logins -> [pc : {"none", "taking", "polling", "waited", "closed"},
                              sent : SUBSET Event]]

LoginInit ==
    /\ bound \in [PublishAccounts -> AppUids \cup {NoAppUid}]
    /\ \A a, b \in PublishAccounts : a # b /\ bound[a] # NoAppUid => bound[a] # bound[b]
    /\ archived = {}
    /\ inApp \in [AppUids -> {"unknown", "out", "in"}]
    /\ \E a \in PublishAccounts :
          thread = [l \in Logins |->
              [pc |-> "unused", account |-> a, target |-> NoAppUid, known |-> {},
               uid |-> NoAppUid, sent_qr |-> FALSE]]
    /\ loginStatus = [l \in Logins |-> "none"]
    /\ events = [l \in Logins |-> <<>>]
    /\ cancelled = {}
    /\ stream = [l \in Logins |-> [pc |-> "none", sent |-> {}]]

-----------------------------------------------------------------------------
ThreadGoes(l, pc) == thread' = [thread EXCEPT ![l].pc = pc]

Live(l) == loginStatus[l] \notin {"none", "gone"}

(* _emit: the queue of a session that is gone takes nothing.               *)
Emit(l, event) ==
    events' = [events EXCEPT ![l] = IF Live(l) THEN Append(@, event) ELSE @]

(* _set_status                                                             *)
SetStatus(l, status) ==
    loginStatus' = [loginStatus EXCEPT ![l] = IF Live(l) THEN status ELSE @]

(* begin_login, and begin.                                                 *)
Begin(l, a) ==
    /\ loginStatus[l] = "none" /\ a \notin archived
    /\ thread' = [thread EXCEPT ![l] = [@ EXCEPT !.pc = "begun", !.account = a,
                                                 !.target = bound[a]]]
    /\ loginStatus' = [loginStatus EXCEPT ![l] = "pending"]
    /\ UNCHANGED <<bound, archived, inApp, events, cancelled, stream>>

(* find_completed_account, among those that are logged in now.             *)
Completed(l, known, target) ==
    {u \in AppUids : inApp[u] = "in" /\ IF target # NoAppUid THEN u = target ELSE u \notin known}

Find(l, u) == thread' = [thread EXCEPT ![l].pc = "found", ![l].uid = u]

(* connect and the first look, which may find the account that is asked    *)
(* for. Anything that fails on the way breaks the login off.               *)
ReadKnown(l) ==
    /\ thread[l].pc = "begun"
    /\ LET known == {u \in AppUids : inApp[u] # "unknown"}
           target == thread[l].target
       IN  \/ target # NoAppUid /\ \E u \in Completed(l, {}, target) : Find(l, u)
           \/ /\ target = NoAppUid \/ Completed(l, {}, target) = {}
              /\ thread' = [thread EXCEPT ![l].pc = "opening", ![l].known = known]
           \/ ThreadGoes(l, "broken")
    /\ UNCHANGED <<bound, archived, inApp, loginStatus, events, cancelled, stream>>

OpenLoginPage(l) ==
    /\ thread[l].pc = "opening"
    /\ ThreadGoes(l, "looking") \/ ThreadGoes(l, "broken")
    /\ UNCHANGED <<bound, archived, inApp, loginStatus, events, cancelled, stream>>

(* A turn of the loop: the code it shows to the user, a second factor, the *)
(* accounts. It ends when stop() says so, and when time is up.             *)
Look(l) ==
    /\ thread[l].pc = "looking" /\ l \notin cancelled
    /\ \/ /\ ~thread[l].sent_qr
          /\ thread' = [thread EXCEPT ![l].sent_qr = TRUE]
          /\ Emit(l, "qr")
          /\ UNCHANGED loginStatus
       \/ /\ loginStatus[l] = "pending"
          /\ SetStatus(l, "verifying") /\ Emit(l, "status")
          /\ UNCHANGED thread
       \/ /\ \E u \in Completed(l, thread[l].known, thread[l].target) : Find(l, u)
          /\ UNCHANGED <<loginStatus, events>>
    /\ UNCHANGED <<bound, archived, inApp, cancelled, stream>>

BreakOff(l) ==
    /\ thread[l].pc = "looking"
    /\ ThreadGoes(l, "broken")
    /\ UNCHANGED <<bound, archived, inApp, loginStatus, events, cancelled, stream>>

(* cancel_event, then on_account: get_account and patch_account.           *)
CheckCancelled(l) ==
    /\ thread[l].pc = "found"
    /\ ThreadGoes(l, IF l \in cancelled THEN "ended"
               ELSE IF thread[l].account \in archived THEN "unbound" ELSE "binding")
    /\ UNCHANGED <<bound, archived, inApp, loginStatus, events, cancelled, stream>>

Bind(l) ==
    /\ thread[l].pc = "binding"
    /\ bound' = [bound EXCEPT ![thread[l].account] = thread[l].uid]
    /\ ThreadGoes(l, "bound")
    /\ UNCHANGED <<archived, inApp, loginStatus, events, cancelled, stream>>

(* The outcome: status first, then the events.                             *)
SayActive(l) ==
    /\ thread[l].pc = "bound"
    /\ SetStatus(l, "active") /\ ThreadGoes(l, "shown")
    /\ UNCHANGED <<bound, archived, inApp, events, cancelled, stream>>

SayAccount(l) ==
    /\ thread[l].pc = "shown"
    /\ events' = [events EXCEPT ![l] = IF Live(l) THEN @ \o <<"status", "account">> ELSE @]
    /\ ThreadGoes(l, "ended")
    /\ UNCHANGED <<bound, archived, inApp, loginStatus, cancelled, stream>>

FailedQuietly(l) ==   \* mutant: an exception of the thread leaves its status alone
    /\ thread[l].pc \in {"unbound", "broken"}
    /\ UNCHANGED <<loginStatus, events>>
    /\ ThreadGoes(l, "ended")
    /\ UNCHANGED <<bound, archived, inApp, cancelled, stream>>

SayFailed(l) ==
    /\ thread[l].pc \in {"unbound", "broken"}
    /\ IF thread[l].pc = "broken" /\ l \in cancelled
       THEN UNCHANGED <<loginStatus, events>>
       ELSE SetStatus(l, "failed") /\ Emit(l, "error")
    /\ ThreadGoes(l, "ended")
    /\ UNCHANGED <<bound, archived, inApp, cancelled, stream>>

-----------------------------------------------------------------------------
(* cancel: by a request, by poll_login of an archived account, by _sweep   *)
(* and when a socket closes.                                               *)
Forget(l) ==
    /\ loginStatus' = [loginStatus EXCEPT ![l] = IF @ = "none" THEN @ ELSE "gone"]
    /\ events' = [events EXCEPT ![l] = <<>>]
    /\ cancelled' = cancelled \cup {l}

CancelLogin(l) ==
    /\ Live(l)
    /\ Forget(l)
    /\ UNCHANGED <<bound, archived, inApp, thread, stream>>

Archive(a) ==
    /\ a \notin archived
    /\ archived' = archived \cup {a}
    /\ UNCHANGED <<bound, inApp, thread, loginStatus, events, cancelled, stream>>

OpenStream(l) ==
    /\ Live(l) /\ stream[l].pc = "none"
    /\ stream' = [stream EXCEPT ![l].pc = "taking"]
    /\ UNCHANGED <<bound, archived, inApp, thread, loginStatus, events, cancelled>>

(* next_event: an event, nothing in time, or no queue any more.            *)
TakeEvent(l) ==
    /\ stream[l].pc = "taking"
    /\ IF events[l] # <<>>
       THEN /\ stream' = [stream EXCEPT ![l] = [pc |-> "polling",
                                                sent |-> @.sent \cup {Head(events[l])}]]
            /\ events' = [events EXCEPT ![l] = Tail(@)]
       ELSE stream' = [stream EXCEPT ![l].pc = "waited"] /\ UNCHANGED events
    /\ UNCHANGED <<bound, archived, inApp, thread, loginStatus, cancelled>>

(* The socket ends with its session, or on a terminal status when there    *)
(* was no event to wait for.                                               *)
PollSession(l) ==
    /\ stream[l].pc \in {"polling", "waited"}
    /\ IF ~Live(l) \/ (stream[l].pc = "waited" /\ loginStatus[l] \in Terminal)
       THEN stream' = [stream EXCEPT ![l].pc = "closed"] /\ Forget(l)
       ELSE /\ stream' = [stream EXCEPT ![l].pc = "taking"]
            /\ UNCHANGED <<loginStatus, events, cancelled>>
    /\ UNCHANGED <<bound, archived, inApp, thread>>

Disconnect(l) ==
    /\ stream[l].pc \in {"taking", "polling", "waited"}
    /\ stream' = [stream EXCEPT ![l].pc = "closed"]
    /\ Forget(l)
    /\ UNCHANGED <<bound, archived, inApp, thread>>

(* Users log in to the application, and out.                               *)
AppChanges(u) ==
    \E login \in {"unknown", "out", "in"} :
        /\ login # inApp[u]
        /\ inApp' = [inApp EXCEPT ![u] = login]
        /\ UNCHANGED <<bound, archived, thread, loginStatus, events, cancelled, stream>>

ThreadStep(l) ==
    \/ ReadKnown(l) \/ OpenLoginPage(l) \/ BreakOff(l) \/ CheckCancelled(l)
    \/ Bind(l) \/ SayActive(l) \/ SayAccount(l) \/ SayFailed(l)

LoginNext ==
    \/ \E l \in Logins :
          \/ \E a \in PublishAccounts : Begin(l, a)
          \/ ThreadStep(l) \/ Look(l) \/ CancelLogin(l)
          \/ OpenStream(l) \/ TakeEvent(l) \/ PollSession(l) \/ Disconnect(l)
    \/ \E a \in PublishAccounts : Archive(a)
    \/ \E u \in AppUids : AppChanges(u)

(* Threads run, and run out of time; so does the wait of a socket.         *)
LoginFairness ==
    \A l \in Logins :
        /\ WF_loginVars(ThreadStep(l))
        /\ WF_loginVars(TakeEvent(l)) /\ WF_loginVars(PollSession(l))

LoginSpec == LoginInit /\ [][LoginNext]_loginVars /\ LoginFairness

-----------------------------------------------------------------------------
(* "a dropped socket never leaves a login running" (publish_accounts.py    *)
(* 144-146), and no login leaves a socket open: every stream ends, and so  *)
(* does the thread behind it.                                              *)
StreamsEnd ==
    \A l \in Logins :
        stream[l].pc # "none" ~> stream[l].pc = "closed" /\ thread[l].pc = "ended"
=============================================================================
