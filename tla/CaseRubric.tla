----------------------------- MODULE CaseRubric -----------------------------
(***************************************************************************)
(* The scoring cards of a case (apps/api/services/case_rubric.py and        *)
(* SqlAlchemyCaseRubricRepository). The first reader stores a cold-start     *)
(* card; a proposal carries a candidate fitted against the active card, and *)
(* a user accepts it, which makes the candidate the active card, or rejects *)
(* it. Requests run beside each other; each reads in one transaction and    *)
(* decides in another.                                                     *)
(*                                                                         *)
(* A card is named after what made it: the request that stored a cold-start *)
(* card, or the proposal whose candidate it is.                            *)
(***************************************************************************)
EXTENDS Naturals, FiniteSets

CONSTANTS CardReaders,   \* requests that read the active card
          Bumps,         \* requests for a proposal, and the proposals they make
          Decisions      \* requests that accept or reject a proposal

VARIABLES
    card,       \* rows of cards: version and status
    proposal,   \* rows of proposals: status and the version they were compared with
    doing       \* what each request is about to do, and what it has read

rubricVars == <<card, proposal, doing>>

Cards == CardReaders \cup Bumps
NoCard == [version |-> 0, status |-> "absent"]
NoProposal == [status |-> "absent", base |-> 0]
NewRequest == [at |-> "start", on |-> "none", saw |-> "none"]

Active == {c \in Cards : card[c].status = "active"}
Goto(q, at) == doing' = [doing EXCEPT ![q].at = at]

-----------------------------------------------------------------------------
(* ensure_active_rubric: no card was seen, and a cold-start card is stored  *)
(* unless the unique index knows an active one by then.                    *)
LookForCard(q) ==
    /\ doing[q].at = "start"
    /\ Goto(q, IF Active = {} THEN "cold_start" ELSE "done")
    /\ UNCHANGED <<card, proposal>>

StoreColdStart(q) ==
    /\ doing[q].at = "cold_start"
    /\ card' = IF Active = {} THEN [card EXCEPT ![q] = [version |-> 1, status |-> "active"]] ELSE card
    /\ Goto(q, "done")
    /\ UNCHANGED proposal

(* bump_proposal: an open proposal is returned; without one the active card *)
(* is read, and if a refitted candidate ranks the samples better it becomes *)
(* a proposal. The card is there: calibration has read it before.          *)
LookForProposal(b) ==
    /\ doing[b].at = "start" /\ Active # {}
    /\ Goto(b, IF \E o \in Bumps : proposal[o].status = "proposed" THEN "done" ELSE "fit")
    /\ UNCHANGED <<card, proposal>>

FitCandidate(b) ==
    /\ doing[b].at = "fit"
    /\ \E c \in Active :
        \/ doing' = [doing EXCEPT ![b] = [at |-> "propose", on |-> c, saw |-> "none"]]
        \/ Goto(b, "done")
    /\ UNCHANGED <<card, proposal>>

Propose(b) ==
    /\ doing[b].at = "propose"
    /\ proposal' = [proposal EXCEPT ![b] = [status |-> "proposed", base |-> card[doing[b].on].version]]
    /\ Goto(b, "done")
    /\ UNCHANGED card

(* accept_bump and reject_bump of the service: RUBRIC_BUMP_TRANSITIONS.      *)
ReadProposal(d) ==
    /\ doing[d].at = "start"
    /\ \E b \in Bumps, decision \in {"accept", "reject"} :
        /\ proposal[b].status = "proposed"
        /\ doing' = [doing EXCEPT ![d] = [at |-> decision, on |-> b, saw |-> "none"]]
    /\ UNCHANGED <<card, proposal>>

(* update_bump_proposal writes the status it was given.                    *)
WriteRejected(d) ==
    /\ doing[d].at = "reject"
    /\ proposal' = [proposal EXCEPT ![doing[d].on].status = "rejected"]
    /\ Goto(d, "done")
    /\ UNCHANGED card

(* accept_bump of the repository reads proposal and active card anew.       *)
ReadForAccept(d) ==
    /\ doing[d].at = "accept"
    /\ IF proposal[doing[d].on].status = "proposed"
       THEN \E c \in Active : doing' = [doing EXCEPT ![d].at = "activate", ![d].saw = c]
       ELSE Goto(d, "done")
    /\ UNCHANGED <<card, proposal>>

(* What the flush finds: the row of the candidate, or an active card beside *)
(* the one it supersedes. Mutant: no unique index on active cards.         *)
CandidateExists(d) == card[doing[d].on].status # "absent"

Refused(d) == CandidateExists(d) \/ Active \ {doing[d].saw} # {}

Activate(d) ==
    /\ doing[d].at = "activate"
    /\ IF Refused(d) THEN UNCHANGED <<card, proposal>>
       ELSE LET b == doing[d].on
            IN  /\ card' = [card EXCEPT ![doing[d].saw].status = "superseded",
                                        ![b] = [version |-> proposal[b].base + 1, status |-> "active"]]
                /\ proposal' = [proposal EXCEPT ![b].status = "accepted"]
    /\ Goto(d, "done")

-----------------------------------------------------------------------------
RubricInit ==
    /\ card = [c \in Cards |-> NoCard]
    /\ proposal = [b \in Bumps |-> NoProposal]
    /\ doing = [q \in CardReaders \cup Bumps \cup Decisions |-> NewRequest]

RubricNext ==
    \/ \E q \in CardReaders : LookForCard(q) \/ StoreColdStart(q)
    \/ \E b \in Bumps : LookForProposal(b) \/ FitCandidate(b) \/ Propose(b)
    \/ \E d \in Decisions : ReadProposal(d) \/ WriteRejected(d) \/ ReadForAccept(d) \/ Activate(d)

RubricSpec == RubricInit /\ [][RubricNext]_rubricVars

-----------------------------------------------------------------------------
RubricTypeOK ==
    /\ card \in [Cards -> [version : Nat, status : {"absent", "active", "superseded"}]]
    /\ proposal \in [Bumps -> [status : {"absent", "proposed", "accepted", "rejected"}, base : Nat]]
    /\ \A q \in DOMAIN doing :
        doing[q].at \in {"start", "cold_start", "fit", "propose", "accept", "reject", "activate", "done"}

(* A case that has a card has one active card: decisions that meet neither  *)
(* leave two cards to score with nor none.                                 *)
OneActiveCard ==
    (\E c \in Cards : card[c].status # "absent") => \E c \in Cards : Active = {c}

(* A candidate supersedes the card it was shown to rank better than.        *)
SupersedesItsBase ==
    [][\A b \in Bumps : card'[b].status = "active" /\ card[b].status = "absent" =>
            \E c \in Active : card[c].version = proposal[b].base]_rubricVars
=============================================================================
