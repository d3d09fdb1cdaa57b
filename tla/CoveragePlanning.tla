-------------------------- MODULE CoveragePlanning --------------------------
(***************************************************************************)
(* A video that shows nothing but B-roll: clips one after the other until  *)
(* the narration is covered, and the frames of that (plan_coverage and     *)
(* BrollTimelinePlanning).                                                 *)
(*                                                                         *)
(* As in InsertPlanning the order of the clips, and where in its slack the *)
(* footage of one begins, are any choice. A clip may be offered with       *)
(* several spans, between the parts of it that are to be avoided.          *)
(***************************************************************************)
EXTENDS FrameGrid, FiniteSets, FiniteSetsExt, SequencesExt

CONSTANTS
    Spoken,           \* durations of the narration
    Offers,           \* sets of at most four spans [name, asset, look, from, to]
    LeastCover        \* broll.min_segment_duration

ASSUME CoverConstants ==
    /\ LeastCover \in Nat /\ Spoken \subseteq Nat
    /\ \A spans \in Offers : IsFiniteSet(spans) /\ \A s \in spans : s.from \in Nat /\ s.to \in Nat

VARIABLES
    demand,           \* duration of the narration
    offers,           \* spans that are left, in their order
    cover,            \* segments [span, from, to, source]
    outcome           \* "planning", "insufficient", "invalid" or "ready"

coverVars == <<demand, offers, cover, outcome>>

CoverTolerance == 40

Footprint(span) == span.to - span.from

CoverInit ==
    /\ demand \in Spoken
    /\ offers \in UNION {SetToSeqs(set) : set \in Offers}
    /\ cover = <<>>
    /\ outcome = "planning"

-----------------------------------------------------------------------------
Covered == IF cover = <<>> THEN 0 ELSE Last(cover).to
Enough == Covered >= demand - CoverTolerance

Shown == {cover[k].span : k \in DOMAIN cover}

(* _has_usable_span: long enough, or as long as what is left to cover.     *)
Usable(span) ==
    LET room == demand - Covered
    IN  Footprint(span) > 0
            /\ (Footprint(span) >= LeastCover \/ Footprint(span) >= room - CoverTolerance)

(* _passes_diversity_phase                                                 *)
SameAsset(span) == \E s \in Shown : s.asset = span.asset
SameLook(span) == span.look # "" /\ \E s \in Shown : s.look = span.look

Diverse(span, phase) ==
    /\ phase \in {0, 1} => ~SameAsset(span)
    /\ phase \in {0, 2} => ~SameLook(span)

StrictPhases == 0..2                                        \* mutant
Phases == 0..3

(* _select_coverage_candidate: the first one of the strictest phase that   *)
(* has one.                                                                *)
Eligible(phase) ==
    {k \in DOMAIN offers :
        /\ \A s \in Shown : s.name # offers[k].name
        /\ Diverse(offers[k], phase) /\ Usable(offers[k])}

NextOffer ==
    LET phases == {phase \in Phases : Eligible(phase) # {}}
    IN  IF phases = {} THEN {} ELSE {Min(Eligible(Min(phases)))}

CoverNext ==
    /\ outcome = "planning" /\ ~Enough
    /\ \E k \in NextOffer :
          LET span == offers[k]
              length == Smaller(Footprint(span), demand - Covered)
              slack == Footprint(span) - length
          IN  /\ offers' = RemoveAt(offers, k)
              /\ \E from \in {span.from, span.from + slack \div 2, span.from + slack} :
                    cover' = Append(cover, [span |-> span, from |-> Covered, to |-> Covered + length,
                                            source |-> [from |-> from, to |-> from + length]])
    /\ UNCHANGED <<demand, outcome>>

(* The total of BrollTimelinePlanning is round(duration * fps), to even.   *)
TotalFrames ==
    LET below == (3 * demand) \div 100
    IN  Larger(1, IF (3 * demand) % 100 = 50 THEN below + (below % 2) ELSE Frame(demand))

Frames(segments) == [k \in DOMAIN segments |-> [from |-> Frame(segments[k].from), to |-> Frame(segments[k].to)]]

(* material_insufficient_broll and render_invalid_timeline fail the run.   *)
Conclude ==
    /\ outcome = "planning" /\ (Enough \/ NextOffer = {})
    /\ outcome' = IF ~Enough THEN "insufficient"
                  ELSE IF ValidTrack(Frames(cover), TotalFrames) THEN "ready" ELSE "invalid"
    /\ UNCHANGED <<demand, offers, cover>>

CoverageNext == CoverNext \/ Conclude

CoverageSpec == CoverInit /\ [][CoverageNext]_coverVars

-----------------------------------------------------------------------------
(* The variables have their types.                                         *)
CoverTypeOK ==
    /\ demand \in Spoken
    /\ Range(offers) \cup Shown \in Offers
    /\ Len(offers) + Len(cover) = Cardinality(Range(offers) \cup Shown)
    /\ outcome \in {"planning", "insufficient", "invalid", "ready"}

OneOfEach(spans) == \A s, t \in spans : s.name = t.name => s = t

(* Spans that would cover the narration: all of them long enough but for   *)
(* the one that comes last.                                                *)
WouldCover(spans) ==
    /\ OneOfEach(spans)
    /\ SumFunctionOnSet([s \in spans |-> Footprint(s)], spans) >= demand - CoverTolerance
    /\ \E last \in spans : \A s \in spans \ {last} : Footprint(s) >= LeastCover

(* A cover that is found shows each clip once, its footage and no other,   *)
(* and leaves no gap; and a run fails for want of material only when no    *)
(* choice of the clips would do, in whatever order their looks and their   *)
(* assets were preferred (_select_coverage_candidate "diversity constraints *)
(* that relax in phases"). Of a clip with several spans only the first is  *)
(* used, so nothing is said where one is offered.                          *)
CoverIsHonest ==
    /\ outcome \in {"invalid", "ready"} =>
          /\ cover # <<>> => cover[1].from = 0
          /\ Enough /\ Covered <= demand
          /\ OneOfEach(Shown) /\ Len(cover) = Cardinality(Shown)
          /\ \A k \in 1..(Len(cover) - 1) : cover[k].to = cover[k + 1].from
          /\ \A k \in DOMAIN cover :
                /\ cover[k].span.from <= cover[k].source.from
                /\ cover[k].source.to <= cover[k].span.to
                /\ Footprint(cover[k].source) = cover[k].to - cover[k].from
    /\ outcome = "insufficient" /\ OneOfEach(Range(offers) \cup Shown) =>
          \A spans \in SUBSET (Range(offers) \cup Shown) : ~WouldCover(spans)

(* A narration that is covered can be rendered: its frames are those of    *)
(* its end (_timeline_grid.py "Keep the round-half-up boundary invariant"). *)
CoverageRenders == outcome # "invalid"
=============================================================================
