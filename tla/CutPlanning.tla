---------------------------- MODULE CutPlanning ----------------------------
(***************************************************************************)
(* The portrait track of one video: where it is cut, which clip of which   *)
(* asset shows in between, and the frames of both (planning/editing, as    *)
(* PortraitPlanning drives it).                                            *)
(*                                                                         *)
(* Times are integers, as round_time keeps milliseconds. A cut is a point  *)
(* of the narration, chunks are given by the set of their cuts, and an     *)
(* assignment is a sequence of windows, one for each chunk. Scores rank    *)
(* windows; here the order is part of the input, and what a beam keeps is  *)
(* any choice.                                                             *)
(***************************************************************************)
EXTENDS FrameGrid, FiniteSets, FiniteSetsExt, SequencesExt

CONSTANTS
    Narrations,    \* [target, units, pauses]: units end at, pauses are from and to
    Inventories,   \* sequences of windows [asset, from, to, fresh, original], best first
    BeamWidth      \* BOUNDARY_BEAM_WIDTH

ASSUME CutConstants ==
    /\ BeamWidth \in Nat \ {0}
    /\ \A n \in Narrations :
          /\ n.target \in Nat
          /\ IsFiniteSet(n.units) /\ n.units \subseteq [end : Int, primary : BOOLEAN, score : Int]
          /\ n.pauses \subseteq [from : Int, to : Int]
    /\ Inventories \subseteq Seq([asset : Int, from : Int, to : Int, fresh : BOOLEAN, original : BOOLEAN])

VARIABLES
    narration,     \* what is spoken
    windows,       \* portrait candidates of the material pack
    ladder,        \* the stage of _plan_with_escalation
    track          \* segments of the plan that was found

cutVars == <<narration, windows, ladder, track>>

None == 0                    \* no max_chunk_duration
NoPlan == <<>>
Shortest == 80               \* what is not longer does not count as a duration
HardGap == 12000             \* BOUNDARY_LONG_GAP_HARD_MAX_DURATION

(* Members of S with the least, or the greatest, value of f.               *)
Least(S, f(_)) == {x \in S : \A y \in S : f(x) <= f(y)}
Most(S, f(_)) == {x \in S : \A y \in S : f(x) >= f(y)}

Clamp(x, low, high) == Larger(low, Smaller(high, x))

-----------------------------------------------------------------------------
(* Cuts that the narration offers. Only pauses of 0.12 s and more are used.*)

Strong(p) == p.to - p.from >= 120

(* match_audio_pause_window with allow_advance = False: the first pause    *)
(* after the boundary, else one around it, else one just before.           *)
MatchedPauses(b) ==
    LET near == {p \in narration.pauses : Strong(p) /\ p.to >= b - 180 /\ p.from <= b + 220}
        Side(p) == IF p.from >= b THEN 0 ELSE IF p.to >= b THEN 1 ELSE 2
        Distance(p) == IF p.from > b THEN p.from - b ELSE IF p.to < b THEN b - p.to ELSE 0
        Shortness(p) == p.from - p.to
    IN  Least(Least(Least(near, Side), Distance), Shortness)

CutIn(p, b) ==
    LET cut == IF p.from > b THEN p.from + 20
               ELSE IF p.to < b THEN Larger(p.from + 20, p.to - 20)
               ELSE Larger(b, p.from + 20)
    IN  Clamp(cut, b, b + 220)

Inside(cut) == Shortest < cut /\ cut < narration.target - Shortest

(* Where the sentence of a unit may be cut, {} for nowhere.                *)
PauseCuts(u) == {cut \in {CutIn(p, u.end) : p \in MatchedPauses(u.end)} : Inside(cut)}

Units == {u \in narration.units : Inside(u.end)}

(* semantic_candidates: fallbacks for gaps that are too long.              *)
FallbacksOf(u, cuts) == IF u.primary /\ cuts = {} THEN {u.end} ELSE cuts

Fallbacks ==
    IF narration.pauses = {} THEN {u.end : u \in Units}
    ELSE UNION {FallbacksOf(u, PauseCuts(u)) : u \in Units}

Cuts ==
    UNION {{[at |-> cut, score |-> u.score] :
                cut \in IF narration.pauses = {} THEN {u.end} ELSE PauseCuts(u)} :
           u \in {v \in Units : v.primary}}

(* Of cuts that are too close the first, or a later one with a better      *)
(* score, is kept.                                                         *)
Apart(kept, cut) ==
    LET last == CHOOSE c \in kept : \A d \in kept : d.at <= c.at
    IN  IF kept = {} \/ cut.at > last.at + Shortest THEN kept \cup {cut}
        ELSE IF cut.score > last.score THEN (kept \ {last}) \cup {cut}
        ELSE kept

KeptApart(sorted) ==
    LET kept[n \in 0..Len(sorted)] == IF n = 0 THEN {} ELSE Apart(kept[n - 1], sorted[n])
    IN  kept[Len(sorted)]

Sooner(cuts) ==
    {pair \in cuts \X cuts : \/ pair[1].at < pair[2].at
                             \/ pair[1].at = pair[2].at /\ pair[1].score <= pair[2].score}

ByTime(cuts) == Sorted(cuts, Sooner(cuts))

Boundaries ==
    IF narration.target <= Shortest THEN {}
    ELSE {0, narration.target} \cup {cut.at : cut \in KeptApart(ByTime(Cuts))}

-----------------------------------------------------------------------------
(* Gaps that are longer than the limit are split once more, by a sentence  *)
(* end or, for the capacity of the material, by a pause.                   *)

MinSegment(gap) == Smaller(3000, Larger(1500, (gap * 35 + 50) \div 100))

Between(S, from, to, gap) ==
    {cut \in S : from + MinSegment(gap) < cut /\ cut < to - MinSegment(gap)}

(* The last one within reach, else the first.                              *)
Farthest(S, limit) ==
    LET near == {cut \in S : cut <= limit}
    IN  IF near # {} THEN {Max(near)} ELSE IF S # {} THEN {Min(S)} ELSE {}

(* A pause that only begins within reach is cut there, not after 20 ms.    *)
PauseFallback(from, to, gap) ==
    LET limit == from + gap
        strong == {p \in narration.pauses : Strong(p)}
        cuts == Between({p.from + 20 : p \in strong}, from, to, gap)
        usable == {p \in strong : p.from + 20 \in cuts /\ p.from <= limit /\ p.from <= p.to - 20}
        nudged == Between({Smaller(limit, p.to - 20) : p \in usable}, from, to, gap)
    IN  IF (\E cut \in cuts : cut <= limit) \/ nudged = {} THEN Farthest(cuts, limit)
        ELSE {Max(nudged)}

(* Where a gap is split: a set of one, or none where it need not or cannot *)
(* be. Nothing that lies between is a cut already, as from and to are next *)
(* to each other.                                                          *)
Split(from, to, gap, byPause, fallbacks) ==
    LET semantic == Farthest(Between(fallbacks, from, to, gap), from + gap)
    IN  IF to - from <= gap THEN {}
        ELSE IF byPause /\ ~\E cut \in semantic : cut <= from + gap THEN PauseFallback(from, to, gap)
        ELSE semantic

SplitGap(from, to, gap, byPause, fallbacks) ==
    LET splits[at \in from..to] ==
            UNION {{cut} \cup splits[cut] : cut \in Split(at, to, gap, byPause, fallbacks)}
    IN  splits[from]

Following(cuts, from) == {cut \in cuts : cut > from}

(* inject_semantic_fallbacks_for_long_gaps                                 *)
WithFallbacks(cuts, fallbacks, maxChunk) ==
    LET gap == IF maxChunk = None THEN HardGap ELSE maxChunk
        byPause == maxChunk # None /\ maxChunk < HardGap
    IN  IF narration.pauses = {} /\ maxChunk = None THEN cuts
        ELSE cuts \cup UNION {SplitGap(from, Min(Following(cuts, from)), gap, byPause, fallbacks) :
                              from \in {cut \in cuts : Following(cuts, cut) # {}}}

Protected(maxChunk) == WithFallbacks(Boundaries, Fallbacks, maxChunk)

-----------------------------------------------------------------------------
(* Chunks end on cuts, at a pleasant distance (build_boundary_locked_chunks).*)

(* Ten times the cost, as the weights have tenths.                         *)
Cost(duration, opening, isLast, remaining) ==
    LET preferred == IF opening THEN 6500 ELSE 7500
        least == IF opening THEN 4000 ELSE 6000
    IN  10 * (IF duration > preferred THEN duration - preferred ELSE preferred - duration)
        + (IF ~isLast /\ duration < least THEN 18 * (least - duration) ELSE 0)
        + (IF ~isLast /\ Shortest < remaining /\ remaining < 3000 THEN 30000 ELSE 0)

(* The cut at which the chunk that begins with one of them ends.           *)
NextCut(cuts, from, maxChunk) ==
    LET allowed(cut) == LET most == IF cut = Max(cuts) THEN 10000 ELSE 9000
                        IN  IF maxChunk = None THEN most ELSE Smaller(most, maxChunk)
        after == {cut \in cuts : cut - from > Shortest}
        over == {cut \in after : cut - from > allowed(cut)}
        tried == {cut \in after : \A c \in over : cut < c}
        Costs(cut) == Cost(cut - from, from = 0, cut = Max(cuts), narration.target - cut)
    IN  IF tried # {} THEN Min(Least(tried, Costs))
        ELSE IF over # {} THEN Min(over) ELSE Min(Following(cuts, from))

ChunkEnds(cuts, maxChunk) ==
    LET ends[from \in cuts] ==
            {from} \cup IF Following(cuts, from) = {} THEN {} ELSE ends[NextCut(cuts, from, maxChunk)]
    IN  IF cuts = {} THEN {} ELSE ends[0]

(* A short last chunk joins the one before, unless that gets too long.     *)
MergeTail(cuts, maxChunk) ==
    LET end == Max(cuts)
        last == Max(cuts \ {end})
        start == Max(cuts \ {end, last})
    IN  IF Cardinality(cuts) > 2 /\ end - last < 3000 /\ (maxChunk # None => end - start <= maxChunk)
        THEN cuts \ {last} ELSE cuts

Chunks(maxChunk) == ChunkEnds(Protected(maxChunk), maxChunk)

Lengths(cuts) == [k \in 1..(Len(cuts) - 1) |-> cuts[k + 1] - cuts[k]]

-----------------------------------------------------------------------------
(* Caps for chunks that suit the inventory (derive_capacity_cap_durations).*)

LengthOf(w) == w.to - w.from

(* In tenths of the way through the lengths.                               *)
Percentile(sorted, tenths) ==
    LET place == (Len(sorted) - 1) * tenths
        low == sorted[place \div 10 + 1]
        high == sorted[Smaller(place \div 10 + 2, Len(sorted))]
    IN  (low * (10 - (place % 10)) + high * (place % 10) + 5) \div 10

(* The members of a sequence at some of its places.                        *)
PickedOf(all, places) ==
    LET kept == Rising(places)
    IN  [k \in DOMAIN kept |-> all[kept[k]]]

(* At most three, as no more are derived; each 250 ms below the one before.*)
FarApart(caps) ==
    LET lower(cap) == {c \in caps : cap - c >= 250}
        rest[cap \in caps] == <<cap>> \o IF lower(cap) = {} THEN <<>> ELSE rest[Max(lower(cap))]
    IN  IF caps = {} THEN <<>> ELSE rest[Max(caps)]

CapsFrom(lengths, maxChunk) ==
    LET others == Range(lengths) \ {Max(Range(lengths))}
        raw == {Percentile(lengths, 7), Percentile(lengths, 5)} \cup
               (IF others = {} THEN {} ELSE {Max(others)})
    IN  IF lengths = <<>> THEN <<>> ELSE FarApart(raw \cap (6000..(maxChunk - 50)))

Shorter(a, b) == a < b

Caps(maxChunk) ==
    LET usable == PickedOf(windows, {k \in DOMAIN windows : LengthOf(windows[k]) > Shortest})
    IN  CapsFrom(SortSeq([k \in DOMAIN usable |-> LengthOf(usable[k])], Shorter), maxChunk)

(* boundary_chunk_variants, in tiers: the later ones only serve when no    *)
(* earlier one can be covered. A variant is the sequence of its cuts.      *)
Free(cuts, maxChunk) == {Rising(MergeTail(cuts, maxChunk)), Rising(cuts)}

Honouring(cap, cuts) == {c \in {cuts} : \A k \in DOMAIN Lengths(c) : Lengths(c)[k] <= cap}

Capped(caps) == [k \in DOMAIN caps |-> Honouring(caps[k], Rising(MergeTail(Chunks(caps[k]), caps[k])))]

Tiers(maxChunk) ==
    <<Free(Chunks(maxChunk), maxChunk)>> \o Capped(IF maxChunk = None THEN <<>> ELSE Caps(maxChunk))

-----------------------------------------------------------------------------
(* Windows for the chunks of one variant, from a pool. An asset is used    *)
(* once ("Asset-level uniqueness is HARD", packing.py 8-9).                *)

Covers(w, duration, chosen, original) ==
    /\ LengthOf(w) + 1 >= duration
    /\ \A k \in DOMAIN chosen : chosen[k].asset # w.asset
    /\ w.original => original

(* What the beam may keep after each chunk: any BeamWidth of the successors.*)
NextChoices(beam, pool, duration, original) ==
    {Append(next[1], next[2]) :
        next \in {n \in beam \X Range(pool) : Covers(n[2], duration, n[1], original)}}

Beams(pool, lengths, original) ==
    LET beams[n \in 0..Len(lengths)] ==
            IF n = 0 THEN {{<<>>}}
            ELSE UNION {LET fit == NextChoices(beam, pool, lengths[n], original)
                        IN  kSubset(Smaller(BeamWidth, Cardinality(fit)), fit) : beam \in beams[n - 1]}
    IN  beams[Len(lengths)]

(* The search that backtracks. A node is given by its depth and by what    *)
(* may not be used any more; one that failed is not entered again. It is   *)
(* entered with next = 0, and then tries one window of the pool after the  *)
(* other. As long as nothing is found, visited grows.                      *)

Node(chosen, lengths) ==
    <<Len(chosen), IF chosen = <<>> THEN 0 ELSE Last(chosen).asset,
      {<<chosen[k], lengths[k]>> : k \in DOMAIN chosen}>>

HardestFits(pool, lengths, chosen) ==
    LET left == {lengths[k] : k \in (Len(chosen) + 1)..Len(lengths)}
    IN  \E w \in Range(pool) : Covers(w, Max(left), chosen, TRUE)

Search(pool, lengths) ==
    LET Places == [chosen : Seq(Range(pool)), next : 0..(Len(pool) + 1),
                   visited : SUBSET (Nat \X Int \X SUBSET (Range(pool) \X Int))]
        search[at \in Places] ==
            LET chosen == at.chosen
                node == Node(chosen, lengths)
                Failed(visited) == [found |-> {}, visited |-> visited]
            IN  IF Len(chosen) >= Len(lengths) THEN [found |-> {chosen}, visited |-> at.visited]
                ELSE IF at.next > Len(pool) \/ (at.next = 0 /\ node \in at.visited) THEN Failed(at.visited)
                ELSE IF at.next = 0
                THEN IF HardestFits(pool, lengths, chosen)
                     THEN search[[at EXCEPT !.next = 1, !.visited = @ \cup {node}]]
                     ELSE Failed(at.visited \cup {node})
                ELSE LET below == IF Covers(pool[at.next], lengths[Len(chosen) + 1], chosen, TRUE)
                                  THEN search[[at EXCEPT !.chosen = Append(@, pool[at.next]), !.next = 0]]
                                  ELSE Failed(at.visited)
                     IN  IF below.found # {} THEN below
                         ELSE search[[at EXCEPT !.next = @ + 1, !.visited = below.visited]]
    IN  search[[chosen |-> <<>>, next |-> 0, visited |-> {}]]

NoRescue(pool, lengths) == {}                              \* mutant

Rescue(pool, lengths) == Search(pool, lengths).found

(* assign_boundary_windows_for_chunks: a pass without original footage, a  *)
(* pass with it, and the rescue. A beam that dropped what it needed is {}; *)
(* NoPlan among the outcomes: the chunks may end without windows.          *)
Else(beams, next) == UNION {IF beam = {} THEN next ELSE beam : beam \in beams}

Assignments(pool, cuts) ==
    LET lengths == Lengths(cuts)
        Pass(original) == Beams(pool, lengths, original)
    IN  IF Len(cuts) < 2 \/ pool = <<>> THEN {NoPlan}
        ELSE Else(Pass(FALSE), Else(Pass(TRUE), Else({Rescue(pool, lengths)}, {NoPlan})))

-----------------------------------------------------------------------------
Segment(w, from, to) ==
    [window |-> w, from |-> Frame(from), to |-> Frame(to),
     source |-> Slice(w, Frame(to) - Frame(from))]

(* _quantize_plan                                                          *)
Quantized(cuts, chosen) ==
    LET all == [k \in DOMAIN chosen |-> Segment(chosen[k], cuts[k], cuts[k + 1])]
    IN  PickedOf(all, {k \in DOMAIN all : all[k].to > all[k].from})

(* build_boundary_locked_portrait_plan: fresh windows before all windows.  *)
Fresh == PickedOf(windows, {k \in DOMAIN windows : windows[k].fresh})

(* The best of the variants is any one of them that was covered.           *)
AnyCovered(outcomes) ==
    (UNION {plans \ {NoPlan} : plans \in outcomes})
        \cup (IF \A plans \in outcomes : NoPlan \in plans THEN {NoPlan} ELSE {})

Plans(pool, variants) ==
    AnyCovered({{Quantized(cuts, chosen) : chosen \in Assignments(pool, cuts)} : cuts \in variants})

(* The plans of the first that has any.                                    *)
FirstFound(outcomes) ==
    (UNION {outcomes[k] \ {NoPlan} : k \in {j \in DOMAIN outcomes : \A i \in 1..(j - 1) : NoPlan \in outcomes[i]}})
        \cup (IF \A k \in DOMAIN outcomes : NoPlan \in outcomes[k] THEN {NoPlan} ELSE {})

PlansIn(tiers) ==
    LET InTiers(pool) == [k \in DOMAIN tiers |-> Plans(pool, tiers[k])]
    IN  FirstFound(InTiers(Fresh) \o InTiers(windows))

PlansFor(maxChunk) == PlansIn(Tiers(maxChunk))

-----------------------------------------------------------------------------
Longest == IF windows = <<>> THEN 0 ELSE Max({LengthOf(w) : w \in Range(windows)})

(* The stages of _plan_with_escalation, each with its max_chunk_duration.  *)
Escalation ==
    <<[stage |-> "full_pool", maxChunk |-> None]>> \o
    (IF Longest > Shortest THEN <<[stage |-> "split", maxChunk |-> Longest]>> ELSE <<>>) \o
    (IF narration.pauses # {} /\ Longest > 8050 THEN <<[stage |-> "pause_split", maxChunk |-> 8000]>> ELSE <<>>)

CutInit ==
    /\ narration \in Narrations
    /\ windows \in Inventories
    /\ ladder = 1
    /\ track = NoPlan

Planned == track # NoPlan
Exhausted == ~Planned /\ ladder > Len(Escalation)

PlanStage ==
    /\ ~Planned /\ ~Exhausted
    /\ track' \in PlansFor(Escalation[ladder].maxChunk)
    /\ ladder' = ladder + 1
    /\ UNCHANGED <<narration, windows>>

CutNext == PlanStage

CutSpec == CutInit /\ [][CutNext]_cutVars

-----------------------------------------------------------------------------
(* The variables have their types.                                         *)
CutTypeOK ==
    /\ narration \in Narrations /\ windows \in Inventories
    /\ ladder \in 1..(Len(Escalation) + 1)
    /\ \A k \in DOMAIN track : track[k].window \in Range(windows)

(* A plan that is found fills the narration without a gap or an overlap,   *)
(* shows no asset twice, and never shows a frame outside the window it cuts*)
(* from, however the cuts were moved into pauses, split for the capacity   *)
(* and merged at the end (plan.py:_quantize_plan, packing.py).             *)
TrackIsWhole ==
    Planned =>
        /\ track[1].from = 0 /\ Last(track).to = Frame(narration.target)
        /\ \A k \in 1..(Len(track) - 1) : track[k].to = track[k + 1].from
        /\ \A j, k \in DOMAIN track : track[j].window.asset = track[k].window.asset => j = k
        /\ \A k \in DOMAIN track :
              /\ Frame(track[k].window.from) <= track[k].source.from
              /\ track[k].source.to <= Frame(track[k].window.to)

(* Windows of different assets for all the chunks, by some choice.         *)
CanCover(cuts) ==
    Len(cuts) > 1 /\ \E choice \in [DOMAIN Lengths(cuts) -> DOMAIN windows] :
        /\ \A k \in DOMAIN choice : LengthOf(windows[choice[k]]) + 1 >= Lengths(cuts)[k]
        /\ \A j, k \in DOMAIN choice : windows[choice[j]].asset = windows[choice[k]].asset => j = k

(* A run fails for want of material only when there is none: no variant of *)
(* any stage can be covered, whatever the beam dropped on its way          *)
(* (rescue.py "fixed-width beam can spend a scarce window early").         *)
ShortageIsReal ==
    Exhausted =>
        \A stage \in DOMAIN Escalation :
            \A tier \in Range(Tiers(Escalation[stage].maxChunk)) : \A cuts \in tier : ~CanCover(cuts)
=============================================================================
