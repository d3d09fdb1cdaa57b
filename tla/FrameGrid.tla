----------------------------- MODULE FrameGrid -----------------------------
(***************************************************************************)
(* The grid of 30 frames in a second on which every track is cut           *)
(* (planning/editing/frame_grid.py, pipeline/_timeline_grid.py). Times are *)
(* integers, milliseconds.                                                 *)
(***************************************************************************)
EXTENDS Orders

Smaller(a, b) == IF a < b THEN a ELSE b
Larger(a, b) == IF a > b THEN a ELSE b

(* frame_index, to_frame: half a frame counts as a whole one.              *)
Frame(t) == (3 * t + 50) \div 100

(* round(frame / fps, 3)                                                   *)
Ms(frame) == (200 * frame + 3) \div 6

SliceWhole(w, frames) ==                                   \* mutant
    [from |-> Frame(w.from), to |-> Frame(w.from) + frames]

(* slice_source_window from the start of a window; what pad_end_frames     *)
(* says is dropped by both of its callers.                                 *)
Slice(w, frames) ==
    LET overshoot == Larger(0, Frame(w.from) + frames - Frame(w.to))
    IN  [from |-> Frame(w.from),
         to |-> Frame(w.from) + IF overshoot > 0 THEN Larger(1, frames - overshoot) ELSE frames]

-----------------------------------------------------------------------------
(* validate_timeline, for one track that is a sequence of frame intervals. *)

Disjoint(track) ==
    \A j, k \in DOMAIN track :
        j < k => track[j].to <= track[k].from \/ track[k].to <= track[j].from

InBounds(track, total) ==
    \A k \in DOMAIN track : 0 <= track[k].from /\ track[k].from < track[k].to /\ track[k].to <= total

ValidTrack(track, total) == InBounds(track, total) /\ Disjoint(track)
=============================================================================
