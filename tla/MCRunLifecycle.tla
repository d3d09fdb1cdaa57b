--------------------------- MODULE MCRunLifecycle ---------------------------
(* Constants of RunLifecycle for TLC: two nodes, of which the first may     *)
(* have two attempts, as MaterialPackPlanning has several.                 *)
EXTENDS RunLifecycle, TLC

MCMaxAttempts == [i \in 1..N |-> IF i = 1 THEN 2 ELSE 1]
MCSingleAttempts == [i \in 1..N |-> 1]

NoNever == {}
LastNever == {N}

OpsStart == {"new", "retry", "resume", "concurrent"}
OpsStop == {"new", "resume", "cancel", "force_cancel"}
OpsResume == {"new", "resume"}
OpsCancel == {"new", "cancel"}

NoFaults == {}
SlowApi == {"slow_api"}
WorkerFaults == {"worker_loss", "unreachable"}
(* The API writes its row before any worker acts on its call.               *)
PromptApiFaults == AllFaults \ {"slow_api"}

(* Runs differ in nothing but their name.                                  *)
RunSymmetry == Permutations(Runs)
=============================================================================
