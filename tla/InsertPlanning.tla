--------------------------- MODULE InsertPlanning ---------------------------
(***************************************************************************)
(* B-roll over the portrait track: which clip is shown in which sentence,  *)
(* from when to when, and how the inserts meet the cuts of the portrait    *)
(* (plan_insertions, as BrollPlanning drives it).                          *)
(*                                                                         *)
(* Clips come in the order of their rank, except that a hash of the run    *)
(* permutes every four of them; the same hash says where in its slack an   *)
(* insert and its footage begin. Both are any choice here. A clip that     *)
(* matched no sentence (beat = 0) is a filler.                             *)
(***************************************************************************)
EXTENDS CutAlignment, SequencesExt

CONSTANTS
    Scripts,       \* [units, cuts, limit]: sentences, frames of the portrait cuts, max_inserts
    Footage        \* sets of at most four clips [name, look, from, to, beat]

ASSUME InsertConstants ==
    /\ \A script \in Scripts :
          /\ script.units \in Seq([from : Nat, to : Nat])
          /\ IsFiniteSet(script.cuts) /\ script.cuts \subseteq Nat
    /\ \A set \in Footage : IsFiniteSet(set) /\ \A clip \in set :
          /\ clip.from \in Nat /\ clip.to \in Nat
          /\ \A script \in Scripts : clip.beat \in 0..Len(script.units)

VARIABLES
    spoken,        \* the script
    clips,         \* _fresh_candidate_order
    tried,         \* how many of them were tried in this pass
    gaps,          \* numbers of the sentences that are to get a filler
    placed,        \* inserts, by their start
    pass           \* of plan_insertions

insertVars == <<spoken, clips, tried, gaps, placed, pass>>

ShortestInsert == 1500
LongestInsert == 4000
Readable == 2000       \* BROLL_MIN_VISIBLE_AROLL_SECONDS

Span(x) == x.to - x.from

InsertInit ==
    /\ spoken \in Scripts
    /\ clips \in UNION {SetToSeqs(set) : set \in Footage}
    /\ tried = 0 /\ gaps = {} /\ placed = <<>>
    /\ pass = "match"

-----------------------------------------------------------------------------
(* The portrait is seen for too short a time before, after or between the  *)
(* inserts in a shot (_has_short_visible_portrait_gap).                    *)
Shots ==
    {shot \in spoken.cuts \X spoken.cuts :
        shot[1] < shot[2] /\ \A cut \in spoken.cuts : cut <= shot[1] \/ shot[2] <= cut}

FlashIn(shot, inserts) ==
    LET over == {i \in Range(inserts) : First(i) < shot[2] /\ shot[1] < Past(i)}
        starts == {shot[1]} \cup {Past(i) : i \in over}
        ends == {shot[2]} \cup {First(i) : i \in over}
    IN  \E i \in over, a \in starts, b \in ends :
            /\ a < b /\ b - a < Frame(Readable)
            /\ \A j \in over : Past(j) <= a \/ b <= First(j)

Flash(inserts) == \E shot \in Shots : FlashIn(shot, inserts)

-----------------------------------------------------------------------------
(* One insert in a sentence, from some time on (_build_insertion).         *)

InSlack(from, slack) == {from, from + slack \div 2, from + slack}

LengthOfInsert(clip, room) == Smaller(Smaller(Span(clip), LongestInsert), room)

Inserts(clip, unit, start) ==
    LET room == unit.to - start
        length == LengthOfInsert(clip, room)
    IN  IF Span(clip) < ShortestInsert \/ room < ShortestInsert THEN {}
        ELSE {[clip |-> clip, unit |-> unit, from |-> from, to |-> from + length,
               source |-> [from |-> cut, to |-> cut + length], padStart |-> 0, padEnd |-> 0] :
                 from \in InSlack(start, room - length), cut \in InSlack(clip.from, Span(clip) - length)}

(* Where else it may start: at the ends of its sentence, or where it meets *)
(* a cut or leaves enough of a shot to be seen.                            *)
Starts(insert, start) ==
    LET length == Span(insert)
        AtShot(shot) == {Ms(shot[1]), Ms(shot[2]) - length,
                         Ms(shot[1]) + Readable, Ms(shot[2]) - Readable - length}
        latest == insert.unit.to - length
    IN  {s \in {insert.from, start, latest} \cup UNION {AtShot(shot) : shot \in Shots} :
            start <= s /\ s <= latest}

StartingAt(insert, s) == [insert EXCEPT !.from = s, !.to = s + Span(insert)]

(* The inserts are in the order of their starts, and stay so.              *)
With(inserts, insert) ==
    InsertAt(inserts, Cardinality({k \in DOMAIN inserts : inserts[k].from <= insert.from}) + 1, insert)

(* _accept_insertion_if_safe: of the starts that are safe the closest.     *)
Closest(starts, from) ==
    LET Off(s) == Larger(s - from, from - s)
        off == Min({Off(s) : s \in starts})
    IN  IF starts = {} THEN {} ELSE {Min({s \in starts : Off(s) = off})}

AcceptingAlone(inserts, insert, start) ==     \* mutant: looks at the new one only
    LET Moved(s) == Align(spoken.cuts, With(inserts, StartingAt(insert, s)))
        safe == {s \in Starts(insert, start) : ~Flash(Align(spoken.cuts, <<StartingAt(insert, s)>>))}
    IN  {Moved(s) : s \in Closest(safe, insert.from)}

Accepting(inserts, insert, start) ==
    LET Moved(s) == Align(spoken.cuts, With(inserts, StartingAt(insert, s)))
        safe == {s \in Starts(insert, start) : ~Flash(Moved(s))}
    IN  {Moved(s) : s \in Closest(safe, insert.from)}

Trying(inserts, clip, unit, start) ==
    LET results == {Accepting(inserts, insert, start) : insert \in Inserts(clip, unit, start)}
    IN  (UNION results) \cup (IF results = {} \/ {} \in results THEN {inserts} ELSE {})

-----------------------------------------------------------------------------
(* Clips that matched a sentence go into it, after those that went before. *)

Used(clip) == \E k \in DOMAIN placed : placed[k].clip.name = clip.name
LookUsed(clip) == clip.look # "" /\ \E k \in DOMAIN placed : placed[k].clip.look = clip.look

Cursor == Max({0} \cup {placed[k].to : k \in DOMAIN placed})
Full == Len(placed) >= spoken.limit

MatchClip ==
    /\ pass = "match" /\ tried < Len(clips) /\ ~Full
    /\ tried' = tried + 1
    /\ LET clip == clips[tried + 1]
           unit == spoken.units[clip.beat]
       IN  placed' \in IF clip.beat = 0 \/ Used(clip) \/ LookUsed(clip) THEN {placed}
                       ELSE Trying(placed, clip, unit, Larger(unit.from, Cursor))
    /\ UNCHANGED <<spoken, clips, gaps, pass>>

(* The others are spread over the sentences that have none, one in each.   *)
Even(total, count) == {((2 * k - 1) * total) \div (2 * count) + 1 : k \in 1..count}

Empty(unit) == unit.to - unit.from >= ShortestInsert /\ \A k \in DOMAIN placed : placed[k].unit # unit

SpreadFillers ==
    /\ pass = "match" /\ (tried = Len(clips) \/ Full)
    /\ LET fit == {u \in DOMAIN spoken.units : Empty(spoken.units[u])}
           total == Cardinality(fit)
           count == Smaller(spoken.limit - Len(placed), total)
       IN  gaps' = {u \in fit : Cardinality({v \in fit : v <= u}) \in Even(total, count)}
    /\ tried' = 0
    /\ pass' = "fill"
    /\ UNCHANGED <<spoken, clips, placed>>

FillGap ==
    /\ pass = "fill" /\ gaps # {}
    /\ LET left == {k \in DOMAIN clips : k > tried /\ clips[k].beat = 0 /\ ~Used(clips[k])}
           gap == Min(gaps)
           unit == spoken.units[gap]
       IN  IF left = {}
           THEN gaps' = {} /\ UNCHANGED <<tried, placed>>
           ELSE /\ gaps' = gaps \ {gap} /\ tried' = Min(left)
                /\ placed' \in Trying(placed, clips[Min(left)], unit, unit.from)
    /\ UNCHANGED <<spoken, clips, pass>>

(* What is planned in the end: none when there is nothing, and then the    *)
(* node is degraded.                                                       *)
FinishInserts ==
    /\ pass = "fill" /\ gaps = {}
    /\ placed' = IF Flash(Align(spoken.cuts, placed)) THEN <<>> ELSE Align(spoken.cuts, placed)
    /\ pass' = "planned"
    /\ UNCHANGED <<spoken, clips, tried, gaps>>

InsertNext == MatchClip \/ SpreadFillers \/ FillGap \/ FinishInserts

InsertSpec == InsertInit /\ [][InsertNext]_insertVars

-----------------------------------------------------------------------------
(* The variables have their types.                                         *)
InsertTypeOK ==
    /\ spoken \in Scripts /\ Range(clips) \in Footage
    /\ tried \in 0..Len(clips)
    /\ gaps \subseteq DOMAIN spoken.units
    /\ Len(placed) <= spoken.limit
    /\ pass \in {"match", "fill", "planned"}

(* However often an insert was moved and aligned again while others joined *)
(* it: it shows nothing but its clip, for as long as its footage and its   *)
(* pads last (a frame may go to rounding), it is padded by no more than    *)
(* 0.15 s on a side, and it stays that close to its sentence               *)
(* (align_insertions_to_portrait_cuts "the SOURCE window is never pulled   *)
(* past its clean span").                                                  *)
InsertsFit ==
    \A k \in DOMAIN placed :
        LET i == placed[k]
            shown == Past(i) - First(i) - i.padStart - i.padEnd
        IN  /\ i.clip.from <= i.source.from /\ i.source.to <= i.clip.to
            /\ shown - (Frame(i.source.to) - Frame(i.source.from)) \in -1..1
            /\ i.padStart \in 0..MaxPad /\ i.padEnd \in 0..MaxPad
            /\ First(i) >= First(i.unit) - MaxPad /\ Past(i) <= Past(i.unit) + MaxPad

(* What was once accepted is planned: aligning everything again at the end *)
(* finds nothing to move and no flash, so that a run never loses all of    *)
(* its B-roll to the last check (plan_insertions "return aligned or []").  *)
AcceptedStays == [][pass' = "planned" => placed' = placed]_insertVars

(* No two inserts overlap (plan_insertions "Inserts never overlap (at most *)
(* one per window) and never spill past their window"); TimelinePlanning   *)
(* rejects a plan in which they do.                                        *)
InsertsDisjoint ==
    pass = "planned" => Disjoint(FramesOf(placed))
=============================================================================
