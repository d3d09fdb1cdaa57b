----------------------------- MODULE RunOutcome -----------------------------
(***************************************************************************)
(* What the rest of the system is promised about the durable status of a   *)
(* run: it appears as admitted, moves along the run table only, and a      *)
(* terminal status is the end of it. The several moves that one            *)
(* transaction makes in memory are one step here.                          *)
(***************************************************************************)
EXTENDS StateMachines

CONSTANT Runs

VARIABLE status

Init == status = [r \in Runs |-> Absent]

Appear(r) ==
    /\ status[r] = Absent
    /\ status' = [status EXCEPT ![r] = "admitted"]

Advance(r) ==
    /\ status[r] # Absent
    /\ \E s \in Reachable(RunTransitions, status[r]) :
          status' = [status EXCEPT ![r] = s]

Next == \E r \in Runs : Appear(r) \/ Advance(r)

Spec == Init /\ [][Next]_status
=============================================================================
