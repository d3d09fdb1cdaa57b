---------------------------- MODULE StateMachines ----------------------------
(***************************************************************************)
(* The transition tables every durable status of the system obeys, and the *)
(* assertion the code makes before it changes one of them                  *)
(* (packages/core/contracts/state_machines.py).                            *)
(*                                                                         *)
(* A table is a function from a status to the statuses it may move to.     *)
(***************************************************************************)

JobTransitions ==
    [ draft     |-> {"queued", "cancelled"},
      queued    |-> {"running", "cancelled", "failed"},
      running   |-> {"succeeded", "failed", "cancelled"},
      succeeded |-> {"queued", "archived"},
      failed    |-> {"queued", "archived"},
      cancelled |-> {"archived"},
      archived  |-> {} ]

RunTransitions ==
    [ created    |-> {"admitted", "cancelled"},
      admitted   |-> {"running", "cancelled", "failed"},
      running    |-> {"succeeded", "failed", "cancelling", "cancelled"},
      cancelling |-> {"cancelled"},
      succeeded  |-> {},
      failed     |-> {},
      cancelled  |-> {} ]

JobStatus ==
    {"draft", "queued", "running", "succeeded", "failed", "cancelled",
     "archived"}

RunStatus ==
    {"created", "admitted", "running", "cancelling", "succeeded", "failed",
     "cancelled"}

(* No row, or no entry in the memory of the process.                       *)
Absent == "absent"

JobState == JobStatus \cup {Absent}
RunState == RunStatus \cup {Absent}

(* assert_transition: staying put is always allowed, and leaving a status  *)
(* only along its table. A FALSE here is a NodeExecutionError in the code. *)
Allowed(table, from, to) == to = from \/ to \in table[from]

(* The statuses no transition leaves.                                      *)
RunTerminal == {"succeeded", "failed", "cancelled"}

(* What one durable write may do to a status when several transitions are  *)
(* applied in memory before it: zero or more moves along the table.        *)
Successors(table, S) == S \cup UNION {table[s] : s \in S}

Reachable(table, s) ==
    Successors(table, Successors(table, Successors(table, {s})))
==============================================================================
