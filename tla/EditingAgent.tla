---------------------------- MODULE EditingAgent ----------------------------
(***************************************************************************)
(* The editing agent: a model is asked which window fills which slot and   *)
(* which clip covers which sentence; what it says is checked, repaired a   *)
(* few times, and turned into the tracks that TimelinePlanning verifies    *)
(* (pipeline/_editing_agent.py, nodes/editing_agent_planning.py, and       *)
(* nodes/narration_boundary_planning.py, which gives the slots).           *)
(*                                                                         *)
(* Slots and candidates are numbered as the code numbers them, windows by  *)
(* their score. Fonts and music are the one bit whether the ones it names  *)
(* are candidates.                                                         *)
(***************************************************************************)
EXTENDS CutAlignment, SequencesExt

CONSTANTS
    Briefs,        \* [cuts, units, limit]: safe cuts and sentences in ms, max_inserts
    Pools,         \* [portrait, broll]: sequences of windows [asset, from, to], best first
    Replies,       \* [portrait, broll, styled]: sequences of [slot, of], and a Boolean
    MaxRepairs     \* edit.max_repair_attempts

(* A brief has a cut at 0 and one at its end, each on a frame of its own;  *)
(* its sentences do not overlap (validate_selection "slots never overlap   *)
(* by construction"). Clips have a length.                                 *)
ASSUME AgentConstants ==
    /\ MaxRepairs \in Nat
    /\ \A b \in Briefs :
          /\ b.cuts \in Seq(Nat) /\ b.units \in Seq([from : Nat, to : Nat]) /\ b.limit \in Nat
          /\ Len(b.cuts) > 1 /\ b.cuts[1] = 0
          /\ \A j, k \in DOMAIN b.cuts : j < k => Frame(b.cuts[j]) < Frame(b.cuts[k])
          /\ b.units # <<>> /\ b.cuts[Len(b.cuts)] = Max({b.units[k].to : k \in DOMAIN b.units})
          /\ \A j, k \in DOMAIN b.units : j < k => b.units[j].to <= b.units[k].from
    /\ \A p \in Pools :
          /\ p.portrait \in Seq([asset : Nat, from : Nat, to : Nat])
          /\ p.broll \in Seq([asset : Nat, from : Nat, to : Nat])
          /\ \A k \in DOMAIN p.broll : p.broll[k].from < p.broll[k].to
    /\ \A reply \in Replies :
          /\ reply.portrait \in Seq([slot : Nat, of : Nat])
          /\ reply.broll \in Seq([slot : Nat, of : Nat])

VARIABLES
    brief,         \* the narration
    pool,          \* the material pack
    asked,         \* invocations of the model
    choice,        \* the selection
    edit           \* "asking", "llm", "fallback", "failed", "invalid" or "ready"

agentVars == <<brief, pool, asked, choice, edit>>

NoChoice == [portrait |-> <<>>, broll |-> <<>>, styled |-> TRUE]

AgentInit ==
    /\ brief \in Briefs /\ pool \in Pools
    /\ asked = 0 /\ choice = NoChoice
    /\ edit = "asking"

-----------------------------------------------------------------------------
(* The slots: from cut to cut, and the sentences.                          *)
Interval(from, to) == [from |-> Frame(from), to |-> Frame(to)]
FramesIn(slot) == slot.to - slot.from

PortraitSlots == [k \in 1..(Len(brief.cuts) - 1) |-> Interval(brief.cuts[k], brief.cuts[k + 1])]

LastFrame == Frame(Max({brief.units[k].to : k \in DOMAIN brief.units}))

SpokenFrames ==
    [k \in DOMAIN brief.units |->
        [from |-> Frame(brief.units[k].from), to |-> Smaller(Frame(brief.units[k].to), LastFrame)]]

BrollSlots ==
    LET kept == Rising({k \in DOMAIN SpokenFrames : FramesIn(SpokenFrames[k]) >= 1})
    IN  [k \in DOMAIN kept |-> SpokenFrames[kept[k]]]

-----------------------------------------------------------------------------
(* What a reply may say (validate_selection).                              *)

Available(window) == Larger(0, Frame(window.to) - Frame(window.from))
LongEnough(window, slot) == Available(window) >= FramesIn(slot)

(* portrait_asset_reuse_cap: once, unless there are more slots than assets.*)
ReuseCap ==
    LET assets == Cardinality({window.asset : window \in Range(pool.portrait)})
        slots == Len(PortraitSlots)
    IN  IF assets = 0 \/ assets >= slots THEN 1 ELSE (slots + assets - 1) \div assets

Uses(portrait, asset) == Cardinality({k \in DOMAIN portrait : pool.portrait[portrait[k].of].asset = asset})

OncePerSlot(picks) == \A j, k \in DOMAIN picks : picks[j].slot = picks[k].slot => j = k

KnownPicks(picks, slots, candidates) ==
    \A k \in DOMAIN picks : picks[k].slot \in DOMAIN slots /\ picks[k].of \in DOMAIN candidates

AnyLength(reply) ==              \* mutant: windows that are too short
    /\ KnownPicks(reply.portrait, PortraitSlots, pool.portrait)
    /\ OncePerSlot(reply.portrait) /\ Len(reply.portrait) = Len(PortraitSlots)
    /\ \A k \in DOMAIN reply.portrait :
          Uses(reply.portrait, pool.portrait[reply.portrait[k].of].asset) <= ReuseCap
    /\ KnownPicks(reply.broll, BrollSlots, pool.broll) /\ OncePerSlot(reply.broll)
    /\ reply.styled

Valid(reply) ==
    /\ KnownPicks(reply.portrait, PortraitSlots, pool.portrait)
    /\ OncePerSlot(reply.portrait) /\ Len(reply.portrait) = Len(PortraitSlots)
    /\ \A k \in DOMAIN reply.portrait :
          LET window == pool.portrait[reply.portrait[k].of]
          IN  /\ LongEnough(window, PortraitSlots[reply.portrait[k].slot])
              /\ Uses(reply.portrait, window.asset) <= ReuseCap
    /\ KnownPicks(reply.broll, BrollSlots, pool.broll) /\ OncePerSlot(reply.broll)
    /\ reply.styled

-----------------------------------------------------------------------------
(* select_with_repair: a reply that is not valid is asked for again.       *)
AskAgent ==
    /\ edit = "asking" /\ asked <= MaxRepairs
    /\ asked' = asked + 1
    /\ \E reply \in Replies :
          IF Valid(reply)
          THEN choice' = reply /\ edit' = "llm"
          ELSE choice' = choice /\ edit' = IF asked = MaxRepairs THEN "failed" ELSE "asking"
    /\ UNCHANGED <<brief, pool>>

ProviderFails ==
    /\ edit = "asking"
    /\ edit' = "failed"
    /\ UNCHANGED <<brief, pool, asked, choice>>

(* deterministic_selection, where no provider is configured and a sandbox  *)
(* may do without: the best window that is long enough and not yet used    *)
(* too often, one that is, or else the best.                               *)
PickFor(picked, slot) ==
    LET long == {w \in DOMAIN pool.portrait : LongEnough(pool.portrait[w], PortraitSlots[slot])}
        spare == {w \in long : Uses(picked, pool.portrait[w].asset) < ReuseCap}
        best == IF spare # {} THEN Min(spare) ELSE IF long # {} THEN Min(long) ELSE 1
    IN  Append(picked, [slot |-> slot, of |-> best])

(* One slot after the other; each pick counts for the next.                *)
Picked[n \in 0..(Len(brief.cuts) - 1)] == IF n = 0 THEN <<>> ELSE PickFor(Picked[n - 1], n)

Fallback ==
    [portrait |-> IF pool.portrait = <<>> THEN <<>> ELSE Picked[Len(PortraitSlots)],
     broll |-> IF pool.broll = <<>> THEN <<>>
               ELSE [k \in 1..Smaller(brief.limit, Len(BrollSlots)) |-> [slot |-> k, of |-> 1]],
     styled |-> TRUE]

NoProvider ==
    /\ edit = "asking" /\ asked = 0
    /\ choice' = Fallback /\ edit' = "fallback"
    /\ UNCHANGED <<brief, pool, asked>>

-----------------------------------------------------------------------------
(* materialize_portrait: the slots that have a window, in their order.     *)
Filled == Rising({choice.portrait[k].slot : k \in DOMAIN choice.portrait})

WindowOf(slot) ==
    LET last == Max({k \in DOMAIN choice.portrait : choice.portrait[k].slot = slot})
    IN  pool.portrait[choice.portrait[last].of]

PortraitPlan ==
    [k \in DOMAIN Filled |->
        LET slot == PortraitSlots[Filled[k]]
            window == WindowOf(Filled[k])
        IN  [window |-> window, from |-> slot.from, to |-> slot.to, source |-> Slice(window, FramesIn(slot))]]

PortraitCuts == UNION {{PortraitPlan[k].from, PortraitPlan[k].to} : k \in DOMAIN PortraitPlan}

(* materialize_broll: a slot, or as much of it as the clip can fill.       *)
Overlay(slot, clip) ==
    LET room == Ms(slot.to) - Ms(slot.from)
        footage == clip.to - clip.from
        length == IF footage > 0 THEN Smaller(room, footage) ELSE room
    IN  [clip |-> clip, from |-> Ms(slot.from), to |-> Ms(slot.from) + length,
         source |-> [from |-> clip.from, to |-> clip.from + length], padStart |-> 0, padEnd |-> 0]

(* By their start, without what lasts less than a frame.                   *)
ShownByStart(all) ==
    LET shown == {k \in DOMAIN all : all[k].to - all[k].from > 33}
        order == {pair \in shown \X shown :
                     \/ all[pair[1]].from < all[pair[2]].from
                     \/ all[pair[1]].from = all[pair[2]].from /\ pair[1] <= pair[2]}
        sorted == Sorted(shown, order)
    IN  [k \in DOMAIN sorted |-> all[sorted[k]]]

Overlays ==
    ShownByStart([k \in 1..Smaller(brief.limit, Len(choice.broll)) |->
                     Overlay(BrollSlots[choice.broll[k].slot], pool.broll[choice.broll[k].of])])

BrollPlan == IF PortraitCuts = {} THEN Overlays ELSE Align(PortraitCuts, Overlays)

(* TimelinePlanning, with the duration that the portrait plan has.         *)
VerifyTracks ==
    /\ edit \in {"llm", "fallback"}
    /\ LET total == IF PortraitPlan = <<>> THEN 0 ELSE Last(PortraitPlan).to
       IN  edit' = IF /\ total > 0
                      /\ ValidTrack(PortraitPlan, total) /\ ValidTrack(FramesOf(BrollPlan), total)
                   THEN "ready" ELSE "invalid"
    /\ UNCHANGED <<brief, pool, asked, choice>>

AgentNext == AskAgent \/ ProviderFails \/ NoProvider \/ VerifyTracks

AgentSpec == AgentInit /\ [][AgentNext]_agentVars

-----------------------------------------------------------------------------
(* The variables have their types.                                         *)
AgentTypeOK ==
    /\ brief \in Briefs /\ pool \in Pools
    /\ asked \in 0..(MaxRepairs + 1)
    /\ choice \in Replies \cup {NoChoice} \/ choice = Fallback
    /\ edit \in {"asking", "llm", "fallback", "failed", "invalid", "ready"}

(* Whatever the model answers, what is accepted is a timeline: portraits   *)
(* without a gap from the first frame to the last, each with as many       *)
(* frames of its window as it is shown and no asset more often than the    *)
(* cap allows, and B-roll that shows its clip where the portrait is, does  *)
(* not overlap, and is padded by 0.15 s at most. TimelinePlanning rejects  *)
(* neither this nor the selection of the fallback, unless there is no      *)
(* portrait at all; and that selection is one the validator would accept   *)
(* when all the windows are long enough (_editing_agent.py "a hallucinated *)
(* timeline can never reach the renderer").                                *)
AgentRenders ==
    LET made == edit \in {"llm", "fallback", "ready", "invalid"}
        long == \A window \in Range(pool.portrait), slot \in Range(PortraitSlots) : LongEnough(window, slot)
    IN  /\ made /\ pool.portrait # <<>> =>
              /\ edit # "invalid"
              /\ PortraitPlan[1].from = 0 /\ Last(PortraitPlan).to = LastFrame
              /\ \A k \in 1..(Len(PortraitPlan) - 1) : PortraitPlan[k].to = PortraitPlan[k + 1].from
              /\ \A k \in DOMAIN BrollPlan :
                    /\ BrollPlan[k].clip.from <= BrollPlan[k].source.from
                    /\ BrollPlan[k].source.to <= BrollPlan[k].clip.to
                    /\ BrollPlan[k].padStart \in 0..MaxPad /\ BrollPlan[k].padEnd \in 0..MaxPad
        /\ made /\ (asked > 0 \/ long) =>
              \A k \in DOMAIN PortraitPlan :
                    /\ FramesIn(PortraitPlan[k].source) = FramesIn(PortraitPlan[k])
                    /\ PortraitPlan[k].source.to <= Frame(PortraitPlan[k].window.to)
        /\ edit = "fallback" /\ long /\ pool.portrait # <<>> => Valid(Fallback)
=============================================================================
