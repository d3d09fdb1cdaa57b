---------------------- MODULE MCSelectionReservations ----------------------
(* Constants of SelectionReservations for TLC: of two runs, one meets every *)
(* late writer, the other only loses workers.                              *)
EXTENDS SelectionReservations

CONSTANTS late, timely

TwoRuns == {late, timely}
Mixed == [r \in TwoRuns |-> IF r = late THEN {"zombie", "force", "api"}
                                        ELSE {"worker_loss"}]
=============================================================================
