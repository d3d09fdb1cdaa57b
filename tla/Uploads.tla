------------------------------ MODULE Uploads ------------------------------
(***************************************************************************)
(* One upload session: the browser puts an object, and requests complete or*)
(* cancel the session (apps/api/services/uploads.py).                      *)
(*                                                                         *)
(* A completion verifies the object, may rewrite it (normalize, stabilize),*)
(* moves it to its final key and drops the staging object. Each write to   *)
(* the object store and to the row is a step; nothing locks the row in     *)
(* between. A failure deletes what this request knows of. Sizes, digests   *)
(* and content types are a check that passes or fails.                     *)
(***************************************************************************)
EXTENDS Integers, FiniteSets

CONSTANTS
    Completions,   \* requests that complete the upload, each made once
    UploadFaults   \* what may go wrong

(* overlap  requests need not wait for each other                          *)
(* crash    the API process dies while it serves a request                 *)
ASSUME UploadConstants ==
    /\ IsFiniteSet(Completions)
    /\ UploadFaults \subseteq {"overlap", "crash"}

VARIABLES
    upload,     \* status and object_uri of the row
    objects,     \* what the object store has
    registered,  \* what stands for the upload: an artifact, then an asset
    processing,  \* whether the upload is normalized and stabilized
    completion,  \* the completions
    cancelling   \* the object_uri a cancel request has loaded

uploadVars == <<upload, objects, registered, processing, completion, cancelling>>

(* Keys: staging and final derive from the session, the others are new.    *)
Staging == <<"staging">>
NoUri == <<>>
Final == <<"final">>
Uris == {Staging, Final} \cup ({"normalized", "stabilized"} \X Completions)

(* from: staging_uri; at: upload.object_uri as last returned; made: derived_uris*)
NewCompletion(pc) == [pc |-> pc, from |-> Staging, at |-> Staging, made |-> {}]

UploadTypeOK ==
    /\ upload \in [status : {"prepared", "uploading", "completed", "failed", "cancelled"},
                    uri : Uris]
    /\ objects \subseteq Uris
    /\ registered \in {"nothing", "artifact", "asset"}
    /\ processing \subseteq {"normalize", "stabilize"}
    /\ completion \in [Completions ->
          [pc : {"unused", "loaded", "verify", "normalize", "stabilize", "move", "moved",
                 "drop", "complete", "register", "failing", "done"},
           from : Uris, at : Uris, made : SUBSET Uris]]
    /\ cancelling \in Uris \cup {NoUri}

(* prepare_upload; the browser may or may not put its object.              *)
UploadInit ==
    /\ upload = [status |-> "prepared", uri |-> Staging]
    /\ objects = {}
    /\ registered = "nothing"
    /\ processing \in SUBSET {"normalize", "stabilize"}
    /\ completion = [r \in Completions |-> NewCompletion("unused")]
    /\ cancelling = NoUri

-----------------------------------------------------------------------------
(* UPLOAD_SESSION_TRANSITIONS; a status may always be assigned again.      *)
MayBecome(from, to) ==
    \/ from = to
    \/ from = "prepared" /\ to \in {"uploading", "failed", "cancelled"}
    \/ from = "uploading" /\ to \in {"completed", "failed", "cancelled"}

Quiet ==
    /\ \A r \in Completions : completion[r].pc \in {"unused", "done"}
    /\ cancelling = NoUri

CompletionGoes(r, pc) == completion' = [completion EXCEPT ![r].pc = pc]

BrowserPuts ==
    /\ upload.status = "prepared" /\ objects = {}
    /\ objects' = {Staging}
    /\ UNCHANGED <<upload, registered, processing, completion, cancelling>>

StartCompletion(r) ==
    /\ completion[r].pc = "unused"
    /\ Quiet \/ "overlap" \in UploadFaults
    /\ completion' = [completion EXCEPT
          ![r] = [NewCompletion("loaded") EXCEPT !.from = upload.uri, !.at = upload.uri]]
    /\ UNCHANGED <<upload, objects, registered, processing, cancelling>>

(* The first hop. It is outside of what cleans up.                         *)
MarkUploading(r) ==
    /\ completion[r].pc = "loaded"
    /\ IF MayBecome(upload.status, "uploading")
       THEN /\ upload' = [upload EXCEPT !.status = "uploading"]
            /\ completion' = [completion EXCEPT ![r].pc = "verify", ![r].at = upload.uri]
       ELSE CompletionGoes(r, "done") /\ UNCHANGED upload
    /\ UNCHANGED <<objects, registered, processing, cancelling>>

AfterVerify(r) ==
    IF "normalize" \in processing THEN "normalize"
    ELSE IF "stabilize" \in processing THEN "stabilize" ELSE "move"

(* head, probe, sha256, and the patch with the digest.                     *)
Verify(r) ==
    /\ completion[r].pc = "verify"
    /\ \/ /\ completion[r].from \in objects
          /\ completion' = [completion EXCEPT ![r].pc = AfterVerify(r), ![r].at = upload.uri]
       \/ CompletionGoes(r, "failing")
    /\ UNCHANGED <<upload, objects, registered, processing, cancelling>>

(* _normalize_upload_video and _stabilize_upload_video store a new object, *)
(* which is known to the request once the row names it.                    *)
Rewrite(r, what, key, then) ==
    /\ completion[r].pc = what
    /\ \/ /\ completion[r].at \in objects
          /\ objects' = objects \cup {<<key, r>>}
          /\ upload' = [upload EXCEPT !.uri = <<key, r>>]
          /\ completion' = [completion EXCEPT ![r].pc = then, ![r].at = <<key, r>>,
                                              ![r].made = @ \cup {<<key, r>>}]
       \/ /\ CompletionGoes(r, "failing")
          /\ UNCHANGED <<upload, objects>>
    /\ UNCHANGED <<registered, processing, cancelling>>

Normalize(r) ==
    Rewrite(r, "normalize", "normalized",
            IF "stabilize" \in processing THEN "stabilize" ELSE "move")

Stabilize(r) == Rewrite(r, "stabilize", "stabilized", "move")

(* An object that was not rewritten is copied to its final key.            *)
CopyToFinal(r) ==
    /\ completion[r].pc = "move"
    /\ IF completion[r].at # completion[r].from
       THEN CompletionGoes(r, "drop") /\ UNCHANGED objects
       ELSE \/ /\ completion[r].from \in objects
               /\ objects' = objects \cup {Final}
               /\ CompletionGoes(r, "moved")
            \/ /\ CompletionGoes(r, "failing")
               /\ UNCHANGED objects
    /\ UNCHANGED <<upload, registered, processing, cancelling>>

NameFinal(r) ==
    /\ completion[r].pc = "moved"
    /\ upload' = [upload EXCEPT !.uri = Final]
    /\ completion' = [completion EXCEPT ![r].pc = "drop", ![r].at = Final]
    /\ UNCHANGED <<objects, registered, processing, cancelling>>

DropStagingAlways(r) ==   \* mutant: what a retry completes is not told from staging
    /\ completion[r].pc = "drop"
    /\ objects' = objects \ {completion[r].from}
    /\ CompletionGoes(r, "complete")
    /\ UNCHANGED <<upload, registered, processing, cancelling>>

(* A deletion that fails is ignored.                                       *)
DropStaging(r) ==
    /\ completion[r].pc = "drop"
    /\ objects' \in {objects} \cup
          (IF completion[r].at # completion[r].from THEN {objects \ {completion[r].from}} ELSE {})
    /\ CompletionGoes(r, "complete")
    /\ UNCHANGED <<upload, registered, processing, cancelling>>

(* _fail_upload                                                            *)
Fail(r) ==
    /\ completion[r].pc = "failing"
    /\ objects' = objects \ ({completion[r].from} \cup completion[r].made)
    /\ upload' = IF MayBecome(upload.status, "failed")
                  THEN [upload EXCEPT !.status = "failed"] ELSE upload
    /\ CompletionGoes(r, "done")
    /\ UNCHANGED <<registered, processing, cancelling>>

(* The second hop.                                                         *)
MarkCompleted(r) ==
    /\ completion[r].pc = "complete"
    /\ IF MayBecome(upload.status, "completed")
       THEN /\ upload' = [upload EXCEPT !.status = "completed"]
            /\ completion' = [completion EXCEPT ![r].pc = "register", ![r].at = upload.uri]
       ELSE CompletionGoes(r, "done") /\ UNCHANGED upload
    /\ UNCHANGED <<objects, registered, processing, cancelling>>

(* The artifact, then thumbnails, which may fail, then the asset.          *)
Register(r) ==
    /\ completion[r].pc = "register"
    /\ registered' \in {registered, "asset"} \cup (IF registered = "nothing" THEN {"artifact"} ELSE {})
    /\ CompletionGoes(r, "done")
    /\ UNCHANGED <<upload, objects, processing, cancelling>>

(* cancel_upload loads the row, deletes by what it loaded, and patches.    *)
LoadForCancel ==
    /\ cancelling = NoUri
    /\ Quiet \/ "overlap" \in UploadFaults
    /\ upload.status \in {"prepared", "uploading"}
    /\ cancelling' = upload.uri
    /\ UNCHANGED <<upload, objects, registered, processing, completion>>

Cancel ==
    /\ cancelling # NoUri
    /\ objects' = objects \ {cancelling}
    /\ upload' = IF MayBecome(upload.status, "cancelled")
                  THEN [upload EXCEPT !.status = "cancelled"] ELSE upload
    /\ cancelling' = NoUri
    /\ UNCHANGED <<registered, processing, completion>>

CrashUpload(r) ==
    /\ "crash" \in UploadFaults
    /\ completion[r].pc \notin {"unused", "done"}
    /\ CompletionGoes(r, "done")
    /\ UNCHANGED <<upload, objects, registered, processing, cancelling>>

UploadNext ==
    \/ BrowserPuts
    \/ \E r \in Completions :
          \/ StartCompletion(r) \/ MarkUploading(r) \/ Verify(r) \/ Normalize(r)
          \/ Stabilize(r) \/ CopyToFinal(r) \/ NameFinal(r) \/ DropStaging(r)
          \/ Fail(r) \/ MarkCompleted(r) \/ Register(r) \/ CrashUpload(r)
    \/ LoadForCancel
    \/ Cancel

UploadSpec == UploadInit /\ [][UploadNext]_uploadVars

-----------------------------------------------------------------------------
(* complete_upload: "server-side copies the verified object to its final,  *)
(* kind-routed key and drops staging". A completed session has the object  *)
(* it names, also when an earlier completion died anywhere on the way.     *)
CompletedHasObject == upload.status = "completed" => upload.uri \in objects
=============================================================================
