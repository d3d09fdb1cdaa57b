----------------------------- MODULE PublishPort -----------------------------
(***************************************************************************)
(* What a publish adapter promises for each call of publish                *)
(* (packages/publishing/platform_adapter.py): a success is told only of a  *)
(* video that the platform has, or of one that waits for its time; a call  *)
(* posts once at most. A failure promises nothing, not even that the video *)
(* will not be posted.                                                     *)
(***************************************************************************)
CONSTANTS PortCalls
VARIABLES answer, onPlatform

portVars == <<answer, onPlatform>>

PortInit ==
    /\ answer = [q \in PortCalls |-> "none"]
    /\ onPlatform = {}

Answer(q, outcome) ==
    /\ answer[q] = "none"
    /\ outcome = "published" => q \in onPlatform
    /\ answer' = [answer EXCEPT ![q] = outcome]
    /\ UNCHANGED onPlatform

PostOnce(q) ==
    /\ q \notin onPlatform
    /\ onPlatform' = onPlatform \cup {q}
    /\ UNCHANGED answer

PortNext ==
    \E q \in PortCalls :
        \/ \E outcome \in {"published", "scheduled", "failed"} : Answer(q, outcome)
        \/ PostOnce(q)

PortSpec == PortInit /\ [][PortNext]_portVars
=============================================================================
