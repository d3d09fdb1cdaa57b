------------------------------ MODULE SlotLock ------------------------------
(***************************************************************************)
(* What planning is promised about the assets of a case: each is held by   *)
(* at most one run at a time, and passes from one run to another only      *)
(* through a moment when nobody holds it.                                  *)
(***************************************************************************)
CONSTANTS Runs, Assets, Nobody

VARIABLE holder

Init == holder = [a \in Assets |-> Nobody]

(* One write, or the passing of time, may take and free several assets.    *)
Next ==
    /\ holder' \in [Assets -> Runs \cup {Nobody}]
    /\ \A a \in Assets :
          holder[a] = Nobody \/ holder'[a] \in {holder[a], Nobody}

Spec == Init /\ [][Next]_holder
=============================================================================
