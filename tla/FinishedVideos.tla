--------------------------- MODULE FinishedVideos ---------------------------
(***************************************************************************)
(* Numbers of the finished videos of one case.                             *)
(*                                                                         *)
(* Each writer is the export of a run with one video, whose number is only *)
(* decided when sync_workflow_snapshot stores it: the largest committed    *)
(* number and one. Two transactions may choose the same number; the unique *)
(* constraint refuses the second, which starts over, at most               *)
(* _FINISHED_VIDEO_NUMBER_RETRY_LIMIT times. Users delete videos.          *)
(***************************************************************************)
EXTENDS Integers, FiniteSets, FiniteSetsExt

CONSTANTS
    Writers,       \* runs that export a video of the case
    RetryLimit,    \* _FINISHED_VIDEO_NUMBER_RETRY_LIMIT
    MaxNumber,     \* numbers that are given out, a bound
    StaleCopies    \* whether a deleted video may still be synced from memory

ASSUME VideoConstants ==
    /\ IsFiniteSet(Writers)
    /\ RetryLimit \in Nat \ {0} /\ MaxNumber \in Nat
    /\ StaleCopies \in BOOLEAN

VARIABLES
    number,    \* of the stored videos, 0 for one that is not stored
    syncing,   \* the transactions that store them
    deleted,   \* videos that users deleted
    gaveUp     \* history: syncs that raised on the number

videoVars == <<number, syncing, deleted, gaveUp>>

NoSync == [stage |-> "none", tries |-> 0, chosen |-> 0]

VideoTypeOK ==
    /\ number \in [Writers -> 0..MaxNumber]
    /\ syncing \in [Writers ->
          [stage : {"none", "begun", "chosen", "flushed"}, tries : 0..RetryLimit,
           chosen : 0..MaxNumber]]
    /\ deleted \subseteq Writers
    /\ gaveUp \subseteq Writers

VideoInit ==
    /\ number = [w \in Writers |-> 0]
    /\ syncing = [w \in Writers |-> NoSync]
    /\ deleted = {}
    /\ gaveUp = {}

-----------------------------------------------------------------------------
Stored == {w \in Writers : number[w] # 0}

(* next_finished_video_number, over the rows that are committed.           *)
NextNumber == Max({0} \cup {number[w] : w \in Stored}) + 1

ChooseAnew(w) == NextNumber   \* mutant: a stored video gets a new number

(* A video keeps the number it is stored with.                             *)
Choose(w) == IF w \in Stored THEN number[w] ELSE NextNumber

StartSync(w) ==
    /\ syncing[w].stage = "none"
    /\ w \notin deleted \/ StaleCopies
    /\ syncing' = [syncing EXCEPT ![w] = [NoSync EXCEPT !.stage = "begun"]]
    /\ UNCHANGED <<number, deleted, gaveUp>>

ChooseNumber(w) ==
    /\ syncing[w].stage = "begun"
    /\ Choose(w) <= MaxNumber
    /\ syncing' = [syncing EXCEPT ![w].stage = "chosen", ![w].chosen = Choose(w)]
    /\ UNCHANGED <<number, deleted, gaveUp>>

Clashes(w, S) == \E v \in S \ {w} : number[v] = syncing[w].chosen

MayTryAgain(w) == syncing[w].tries < RetryLimit - 1

(* The flush waits for an open transaction that has flushed the number. It *)
(* fails on a number that is taken, and on the row of a video that was     *)
(* deleted since it was read.                                              *)
Flush(w) ==
    /\ syncing[w].stage = "chosen"
    /\ ~\E v \in Writers \ {w} :
          syncing[v].stage = "flushed" /\ syncing[v].chosen = syncing[w].chosen
    /\ \/ /\ ~Clashes(w, Stored)
          /\ syncing' = [syncing EXCEPT ![w].stage = "flushed"]
          /\ UNCHANGED gaveUp
       \/ /\ Clashes(w, Stored) /\ MayTryAgain(w)
          /\ syncing' = [syncing EXCEPT ![w] = [NoSync EXCEPT !.stage = "begun",
                                                              !.tries = syncing[w].tries + 1]]
          /\ UNCHANGED gaveUp
       \/ /\ Clashes(w, Stored) /\ ~MayTryAgain(w)
          /\ syncing' = [syncing EXCEPT ![w] = NoSync]
          /\ gaveUp' = gaveUp \cup {w}
    /\ UNCHANGED <<number, deleted>>

(* The rest of the snapshot is written, or fails and undoes all.           *)
CommitVideo(w) ==
    /\ syncing[w].stage = "flushed"
    /\ number' \in {number, [number EXCEPT ![w] = syncing[w].chosen]}
    /\ syncing' = [syncing EXCEPT ![w] = NoSync]
    /\ UNCHANGED <<deleted, gaveUp>>

(* delete_finished_video waits for a transaction that has written the row. *)
DeleteVideo(w) ==
    /\ w \in Stored /\ syncing[w].stage # "flushed"
    /\ number' = [number EXCEPT ![w] = 0]
    /\ deleted' = deleted \cup {w}
    /\ syncing' = [syncing EXCEPT ![w] = NoSync]
    /\ UNCHANGED gaveUp

VideoNext ==
    \E w \in Writers :
        StartSync(w) \/ ChooseNumber(w) \/ Flush(w) \/ CommitVideo(w) \/ DeleteVideo(w)

VideoSpec == VideoInit /\ [][VideoNext]_videoVars

-----------------------------------------------------------------------------
(* A number identifies its video for good: storing a video again keeps it, *)
(* whatever was stored and deleted meanwhile, and no two videos share one. *)
NumbersStay ==
    [][\A w \in Writers : number'[w] # 0 =>
          /\ number[w] # 0 => number'[w] = number[w]
          /\ \A v \in Writers \ {w} : number'[v] # number'[w]]_number
=============================================================================
