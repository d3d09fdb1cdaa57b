--------------------------- MODULE MCPublishBatch ---------------------------
(* Constants of PublishBatch for TLC: items are selected between requests. *)
EXTENDS PublishBatch

Selecting == {"select"}
=============================================================================
