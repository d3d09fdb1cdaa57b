---------------------------- MODULE CutAlignment ----------------------------
(***************************************************************************)
(* How B-roll meets the cuts of the portrait under it, for BrollPlanning   *)
(* and for the editing agent (align_insertions_to_portrait_cuts). Cuts are *)
(* a set of frames; inserts are a sequence by their start, in milliseconds.*)
(***************************************************************************)
EXTENDS FrameGrid, FiniteSets, FiniteSetsExt

MaxPad == 4            \* frames: the strictest of the frame and the 0.15 s limits

First(i) == Frame(i.from)
Past(i) == Frame(i.to)

(* A boundary a few frames inside a shot moves to its cut.                 *)
Back(cuts, frame) ==
    LET near == {cut \in cuts : frame - MaxPad <= cut /\ cut < frame}
    IN  IF frame \in cuts \/ near = {} \/ frame > Max(cuts) THEN frame ELSE Max(near)

On(cuts, frame) ==
    LET near == {cut \in cuts : frame < cut /\ cut <= frame + MaxPad}
    IN  IF frame \in cuts \/ near = {} \/ frame < Min(cuts) THEN frame ELSE Min(near)

(* It does not when it would get into a neighbour.                         *)
Reaches(cuts, inserts, k) ==
    \/ k > 1 /\ Back(cuts, First(inserts[k])) < Past(inserts[k - 1])
    \/ k < Len(inserts) /\ On(cuts, Past(inserts[k])) > First(inserts[k + 1])

PaddedOnce(cuts, i) ==            \* mutant: forgets how it was padded before
    [i EXCEPT !.from = Ms(Back(cuts, First(i))), !.to = Ms(On(cuts, Past(i))),
              !.padStart = First(i) - Back(cuts, First(i)), !.padEnd = On(cuts, Past(i)) - Past(i)]

(* What is shown for longer than the footage lasts is padded.              *)
Snapped(cuts, i) ==
    [i EXCEPT !.from = Ms(Back(cuts, First(i))), !.to = Ms(On(cuts, Past(i))),
              !.padStart = @ + First(i) - Back(cuts, First(i)),
              !.padEnd = @ + On(cuts, Past(i)) - Past(i)]

OnGrid(i) == [i EXCEPT !.from = Ms(First(i)), !.to = Ms(Past(i))]

AlignedAnyway(cuts, inserts) ==   \* mutant: whatever a neighbour holds
    [k \in DOMAIN inserts |-> Snapped(cuts, inserts[k])]

Align(cuts, inserts) ==
    [k \in DOMAIN inserts |->
        IF Reaches(cuts, inserts, k) THEN OnGrid(inserts[k]) ELSE Snapped(cuts, inserts[k])]

FramesOf(inserts) == [k \in DOMAIN inserts |-> [from |-> First(inserts[k]), to |-> Past(inserts[k])]]
=============================================================================
