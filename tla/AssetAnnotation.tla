-------------------------- MODULE AssetAnnotation --------------------------
(***************************************************************************)
(* The annotation of one media asset: the model call for each window with  *)
(* its retries, the row that planning reads, edits by a user, and sources  *)
(* that are replaced under it (packages/media, apps/api/services).         *)
(*                                                                         *)
(* Times are milliseconds. Of an annotation the model keeps its status,    *)
(* the duration it was timed against, and its clips and usage windows as   *)
(* intervals.                                                              *)
(***************************************************************************)
EXTENDS Integers, FiniteSets

CONSTANTS
    Tasks,              \* requests, numbers in the order in which they begin
    Durations,          \* of sources
    WindowCount,        \* windows of an asset
    Retries,            \* [schema, semantic, runtime]: caps of V4Config
    OverlapEdits        \* whether a patch or a replacement may overlap others

ASSUME AnnotationConstants ==
    /\ Tasks \subseteq Nat /\ Durations \subseteq Nat \ {0} /\ WindowCount \in Nat \ {0}
    /\ \A kind \in DOMAIN Retries : Retries[kind] \in Nat

VARIABLES
    media,      \* duration of the source the asset points to
    noted,      \* media_assets.duration_sec, 0 for NULL
    status,     \* media_assets.annotation_status
    usable,     \* media_assets.usable
    canon,      \* canonical of the annotation row
    work        \* what each request is doing

annotationVars == <<media, noted, status, usable, canon, work>>

Drift == 150            \* DEFAULT_DURATION_DRIFT_THRESHOLD
EndpointTolerance == 200

NoRow == [kind |-> "none", ok |-> FALSE, duration |-> 0, clips |-> {}, windows |-> {}]
Stub == [NoRow EXCEPT !.kind = "stub"]
V4(ok, duration, clips, windows) ==
    [kind |-> "v4", ok |-> ok, duration |-> duration, clips |-> clips, windows |-> windows]

Zero == [kind \in DOMAIN Retries |-> 0]
NoWork == [kind |-> "none", at |-> "new", window |-> 0, tried |-> Zero,
           duration |-> 0, ok |-> FALSE, canon |-> NoRow]

Edits == {"patch", "replace"}
Ongoing(t) == work[t].at \notin {"new", "done"}

(* Two clips, or one, up to some duration.                                 *)
ClipSets(d) == {{}, {<<0, d>>}, {<<0, d \div 2>>, <<d \div 2, d>>}}

AnnotationInit ==
    /\ media \in Durations
    /\ noted \in {0, media}
    /\ status = "pending" /\ usable = TRUE
    /\ canon = NoRow
    /\ work = [t \in Tasks |-> NoWork]

MayStart(t, kind) ==
    /\ work[t].at = "new" /\ \A u \in Tasks : u < t => work[u].at # "new"
    /\ OverlapEdits \/ \A u \in Tasks :
          Ongoing(u) => kind \notin Edits /\ work[u].kind \notin Edits

Goes(t, change) == work' = [work EXCEPT ![t] = change]
RowsStay == UNCHANGED <<media, noted, status, usable, canon>>

-----------------------------------------------------------------------------
(* Rerun and batch. Without a profile or a readable source the annotation  *)
(* is degraded, which is a failed one.                                     *)

(* asset_source_duration: what the row notes is preferred.                 *)
SourceDuration == IF noted # 0 THEN noted ELSE media

BeginRerun(t, batch) ==
    /\ MayStart(t, "rerun")
    /\ \E configured \in BOOLEAN :
          Goes(t, [NoWork EXCEPT !.kind = "rerun", !.duration = SourceDuration,
                       !.at = IF batch /\ status = "annotated" THEN "done"
                              ELSE IF configured THEN "window" ELSE "persist",
                       !.window = 1])
    /\ RowsStay

(* A window succeeds, or fails in a way that is retried as often as its    *)
(* cap says; the first window that gives up fails the asset.               *)
AnalyzeWindow(t) ==
    /\ work[t].kind = "rerun" /\ work[t].at = "window"
    /\ \/ LET last == work[t].window = WindowCount
          IN  Goes(t, [work[t] EXCEPT !.window = @ + 1, !.tried = Zero,
                           !.at = IF last THEN "persist" ELSE "window", !.ok = last])
       \/ \E kind \in DOMAIN Retries :
             Goes(t, IF work[t].tried[kind] >= Retries[kind]
                      THEN [work[t] EXCEPT !.at = "persist"]
                      ELSE [work[t] EXCEPT !.tried[kind] = @ + 1])
       \/ Goes(t, [work[t] EXCEPT !.at = "persist"])
       \/ Goes(t, [work[t] EXCEPT !.at = "done"])       \* its frames cannot be read
    /\ RowsStay

(* persist_annotation_v4                                                   *)
PersistLabelled(t) ==       \* mutant: usable whatever the model said
    /\ canon' = V4(work[t].ok, work[t].duration, {}, {})
    /\ usable' = TRUE

PersistAnnotation(t) ==
    \E clips \in IF work[t].ok THEN ClipSets(work[t].duration) ELSE {{}} :
        \E windows \in SUBSET clips :
            /\ canon' = V4(work[t].ok, work[t].duration, clips, windows)
            /\ usable' = (work[t].ok /\ windows # {})

Persist(t) ==
    /\ work[t].kind = "rerun" /\ work[t].at = "persist"
    /\ PersistAnnotation(t)
    /\ status' = IF work[t].ok THEN "annotated" ELSE "annotation_failed"
    /\ Goes(t, [work[t] EXCEPT !.at = "done"])
    /\ UNCHANGED <<media, noted>>

-----------------------------------------------------------------------------
(* A patch replaces clips, or touches none of them. What is no annotation  *)
(* yet becomes an empty completed one without a duration, in which         *)
(* any end is within bounds.                                               *)

Parsed(c) == IF c.kind = "v4" THEN c ELSE V4(TRUE, 0, {}, {})

ReadForPatch(t) ==
    /\ MayStart(t, "patch")
    /\ Goes(t, [NoWork EXCEPT !.kind = "patch", !.at = "write", !.canon = Parsed(canon)])
    /\ RowsStay

WithinBounds(clips, duration) == duration = 0 \/ \A c \in clips : c[2] <= duration

WritePatched(t) ==
    /\ work[t].kind = "patch" /\ work[t].at = "write"
    /\ \/ \E clips \in ClipSets(media) :
             /\ WithinBounds(clips, work[t].canon.duration)
             /\ canon' = [work[t].canon EXCEPT !.clips = clips]
             /\ status' = "annotated"
       \/ canon' = work[t].canon /\ status' = "annotated"
       \/ UNCHANGED <<canon, status>>      \* refused with 400
    /\ Goes(t, [work[t] EXCEPT !.at = "done"])
    /\ UNCHANGED <<media, noted, usable>>

(* The editor that opens makes a row of labels (get_or_create_annotation). *)
OpenEditor ==
    /\ canon = NoRow /\ canon' = Stub
    /\ UNCHANGED <<media, noted, status, usable, work>>

-----------------------------------------------------------------------------
(* A source is replaced by an upload, and the annotation follows when the  *)
(* durations differ by more than Drift.                                    *)

AnnotatedDuration == IF canon.duration > 0 THEN canon.duration ELSE media

MeasureSources(t) ==
    /\ MayStart(t, "replace")
    /\ \E upload \in Durations :
          Goes(t, [NoWork EXCEPT !.kind = "replace", !.at = "swap", !.duration = upload,
                                  !.canon = V4(FALSE, AnnotatedDuration, {}, {})])
    /\ RowsStay

SwapSource(t) ==
    /\ work[t].kind = "replace" /\ work[t].at = "swap"
    /\ media' = work[t].duration
    /\ Goes(t, [work[t] EXCEPT !.at = "compare"])
    /\ UNCHANGED <<noted, status, usable, canon>>

Difference(a, b) == IF a > b THEN a - b ELSE b - a
DriftedLonger(old, new) == new - old > Drift      \* mutant
Drifted(old, new) == Difference(new, old) > Drift

(* done with ok: preserved_annotation.                                     *)
CompareDurations(t) ==
    /\ work[t].kind = "replace" /\ work[t].at = "compare"
    /\ LET drifted == Drifted(work[t].canon.duration, work[t].duration)
       IN  Goes(t, IF canon # NoRow /\ drifted
                    THEN [work[t] EXCEPT !.at = "reclip"]
                    ELSE [work[t] EXCEPT !.at = "done", !.ok = canon # NoRow])
    /\ RowsStay

SnapClamp(x, old, new) ==
    LET snapped == IF Difference(x, old) <= EndpointTolerance THEN new ELSE x
    IN  IF snapped > new THEN new ELSE snapped

(* reclip_canonical_to_duration, for what is an annotation.                *)
Reclipped(c, old, new) ==
    LET Moved(intervals) ==
            {i \in {<<SnapClamp(i[1], old, new), SnapClamp(i[2], old, new)>> : i \in intervals} : i[1] < i[2]}
    IN  [c EXCEPT !.duration = new, !.clips = Moved(@), !.windows = Moved(@)]

ReadForReclip(t) ==
    /\ work[t].kind = "replace" /\ work[t].at = "reclip"
    /\ Goes(t, IF canon = NoRow THEN [work[t] EXCEPT !.at = "done"]
                ELSE [work[t] EXCEPT !.at = "set", !.canon =
                        IF canon.kind = "v4" THEN Reclipped(canon, work[t].canon.duration, work[t].duration)
                        ELSE Stub])
    /\ RowsStay

(* set_annotation_canonical, or invalidate_annotation.                     *)
SetReclipped(t) ==
    /\ work[t].kind = "replace" /\ work[t].at = "set"
    /\ IF work[t].canon.kind = "v4"
       THEN /\ canon' = IF canon = NoRow THEN canon ELSE work[t].canon
            /\ UNCHANGED <<status, usable>>
       ELSE canon' = NoRow /\ status' = "pending" /\ usable' = FALSE
    /\ Goes(t, [work[t] EXCEPT !.at = "done", !.ok = work[t].canon.kind = "v4"])
    /\ UNCHANGED <<media, noted>>

(* Trimming, stabilizing and matching by name change the source and leave  *)
(* the annotation as it is.                                                *)
BeginProcessing(t) ==
    /\ MayStart(t, "process")
    /\ \E result \in Durations :
          Goes(t, [NoWork EXCEPT !.kind = "process", !.at = "store", !.duration = result])
    /\ RowsStay

StoreProcessed(t) ==
    /\ work[t].kind = "process" /\ work[t].at = "store"
    /\ media' = work[t].duration
    /\ Goes(t, [work[t] EXCEPT !.at = "done"])
    /\ UNCHANGED <<noted, status, usable, canon>>

-----------------------------------------------------------------------------
AnnotationNext ==
    \/ OpenEditor
    \/ \E t \in Tasks :
          \/ \E batch \in BOOLEAN : BeginRerun(t, batch)
          \/ AnalyzeWindow(t) \/ Persist(t)
          \/ ReadForPatch(t) \/ WritePatched(t)
          \/ MeasureSources(t) \/ SwapSource(t) \/ CompareDurations(t)
          \/ ReadForReclip(t) \/ SetReclipped(t)
          \/ BeginProcessing(t) \/ StoreProcessed(t)

AnnotationSpec == AnnotationInit /\ [][AnnotationNext]_annotationVars

-----------------------------------------------------------------------------
(* The variables have their types.                                         *)
AnnotationTypeOK ==
    /\ media \in Durations /\ noted \in Durations \cup {0}
    /\ status \in {"pending", "annotated", "annotation_failed"} /\ usable \in BOOLEAN
    /\ canon.kind \in {"none", "stub", "v4"}
    /\ \A t \in Tasks :
          work[t].at \in {"new", "window", "persist", "write", "swap", "compare", "reclip", "set", "store", "done"}

(* An asset whose analysis failed is not offered to planning, also not     *)
(* after edits and replacements ("marked annotation_failed, never entering *)
(* the usable pool", annotation_batch.py:14).                              *)
FailedStaysOut == usable /\ canon.kind = "v4" => canon.ok

(* A replacement that says it preserved the annotation leaves one that     *)
(* fits the new source ("we never report a preserved annotation whose      *)
(* timestamps diverge from the media", media_processing.py:105). Only of   *)
(* annotations that were timed: a patched stub has no duration.            *)
Preserves(t) ==
    work[t].kind = "replace" /\ work[t].at # "done" /\ work'[t].at = "done" /\ work'[t].ok

ReportedFits ==
    [][\A t \in Tasks : Preserves(t) /\ canon'.duration > 0 =>
          \A i \in canon'.clips \cup canon'.windows : i[2] <= media' + Drift]_annotationVars
=============================================================================
