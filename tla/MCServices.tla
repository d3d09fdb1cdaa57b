----------------------------- MODULE MCServices -----------------------------
(***************************************************************************)
(* The components around a run that share no state with each other. TLC     *)
(* checks them in one model: in each behaviour one part moves, and the      *)
(* others rest in an initial state of theirs.                              *)
(***************************************************************************)
EXTENDS AdminGuard, SignIn, IdempotentRequests, Uploads, RunRecords,
        FinishedVideos, ProviderCalls, ProviderLimiter, PublishBatch,
        DesktopConnector, DesktopLogin, CutPlanning, InsertPlanning,
        CoveragePlanning, EditingAgent, AssetAnnotation, NodeGraph, RunFiles,
        CaseRubric

CONSTANTS Parts   \* those of which one moves

VARIABLE part     \* the one that does

AllParts ==
    {"accounts", "sign_in", "requests", "uploads", "records", "videos", "provider",
     "limiter", "publishing", "connector", "login", "cuts", "inserts", "coverage",
     "agent", "annotation", "graph", "files", "rubric"}

(* Each part has the types of its variables while it moves.                *)
ServicesTypeOK ==
    CASE part = "accounts" -> AdminTypeOK
      [] part = "sign_in" -> SignInTypeOK
      [] part = "requests" -> WriteTypeOK
      [] part = "uploads" -> UploadTypeOK
      [] part = "records" -> RecordTypeOK
      [] part = "videos" -> VideoTypeOK
      [] part = "provider" -> ProviderTypeOK
      [] part = "limiter" -> LimiterTypeOK
      [] part = "publishing" -> BatchTypeOK
      [] part = "connector" -> ConnectorTypeOK
      [] part = "login" -> LoginTypeOK
      [] part = "cuts" -> CutTypeOK
      [] part = "inserts" -> InsertTypeOK
      [] part = "coverage" -> CoverTypeOK
      [] part = "agent" -> AgentTypeOK
      [] part = "annotation" -> AnnotationTypeOK
      [] part = "graph" -> GraphTypeOK
      [] part = "files" -> FileTypeOK
      [] part = "rubric" -> RubricTypeOK

-----------------------------------------------------------------------------
(* Of a part that has several initial states, the one in which it rests: it *)
(* is given first, so that TLC need not enumerate the others.              *)
Rests(p, state) == part # p => state

ServicesInit ==
    /\ part \in Parts
    /\ Rests("graph", edges = <<>>) /\ GraphInit
    /\ Rests("accounts", account = [u \in Users |-> ActiveAdmin]) /\ AdminInit
    /\ Rests("sign_in", kind = "login") /\ SignInInit
    /\ Rests("requests", hazards = {}) /\ WriteInit
    /\ Rests("requests", \A w \in Writes : write[w].body = CHOOSE b \in Bodies : TRUE)
    /\ Rests("uploads", processing = {}) /\ UploadInit
    /\ RecordInit
    /\ VideoInit
    /\ Rests("provider", setting = CHOOSE s \in Settings : TRUE) /\ ProviderInit
    /\ LimiterInit
    /\ BatchInit
    /\ Rests("connector", app = [u \in Uids |-> [login |-> "out", in_group |-> FALSE]]) /\ ConnectorInit
    /\ Rests("login", bound = [a \in PublishAccounts |-> NoAppUid])
    /\ Rests("login", inApp = [u \in AppUids |-> "out"]) /\ LoginInit
    /\ Rests("cuts", narration = CHOOSE n \in Narrations : TRUE)
    /\ Rests("cuts", windows = CHOOSE w \in Inventories : TRUE) /\ CutInit
    /\ Rests("inserts", spoken = CHOOSE s \in Scripts : TRUE)
    /\ Rests("inserts", clips = SetToSeq(CHOOSE f \in Footage : TRUE)) /\ InsertInit
    /\ Rests("coverage", demand = CHOOSE t \in Spoken : TRUE)
    /\ Rests("coverage", offers = SetToSeq(CHOOSE o \in Offers : TRUE)) /\ CoverInit
    /\ Rests("agent", brief = CHOOSE b \in Briefs : TRUE)
    /\ Rests("agent", pool = CHOOSE p \in Pools : TRUE) /\ AgentInit
    /\ Rests("annotation", media = CHOOSE d \in Durations : TRUE)
    /\ Rests("annotation", noted = 0) /\ AnnotationInit
    /\ FileInit
    /\ RubricInit

(* The step of a part in its turn.                                         *)
Turn(p, Action, vars) == IF part = p THEN Action ELSE UNCHANGED vars

ServicesNext ==
    /\ UNCHANGED part
    /\ Turn("accounts", AdminNext, adminVars)
    /\ Turn("sign_in", SignInNext, signInVars)
    /\ Turn("requests", WriteNext, writeVars)
    /\ Turn("uploads", UploadNext, uploadVars)
    /\ Turn("records", RecordNext, recordVars)
    /\ Turn("videos", VideoNext, videoVars)
    /\ Turn("provider", ProviderNext, providerVars)
    /\ Turn("limiter", LimiterNext, limiterVars)
    /\ Turn("publishing", BatchNext, batchVars)
    /\ Turn("connector", ConnectorNext, connectorVars)
    /\ Turn("login", LoginNext, loginVars)
    /\ Turn("cuts", CutNext, cutVars)
    /\ Turn("inserts", InsertNext, insertVars)
    /\ Turn("coverage", CoverageNext, coverVars)
    /\ Turn("agent", AgentNext, agentVars)
    /\ Turn("annotation", AnnotationNext, annotationVars)
    /\ Turn("graph", GraphNext, graphVars)
    /\ Turn("files", FileNext, fileVars)
    /\ Turn("rubric", RubricNext, rubricVars)

servicesVars ==
    <<part, adminVars, signInVars, writeVars, uploadVars, recordVars, videoVars,
      providerVars, limiterVars, batchVars, connectorVars, loginVars, cutVars,
      insertVars, coverVars, agentVars, annotationVars, graphVars, fileVars,
      rubricVars>>

ServicesSpec == ServicesInit /\ [][ServicesNext]_servicesVars

-----------------------------------------------------------------------------
(* Values for TLC.                                                         *)
TwoProcesses == [t \in SignIns |-> IF t = 3 THEN 2 ELSE 1]
EverySetting == AllSettings
EveryWriteHazard == {"overlap", "crash", "expiry", "uncached"}
Overlapping == AllOps \ {"dry_run"}
Failing == {"redis_error", "crash"}
OneMoreTry == [schema |-> 0, semantic |-> 1, runtime |-> 0]
FilesOnly == {"files"}
InsertsOnly == {"inserts"}
CoverageOnly == {"coverage"}

(* Every set of edges among four nodes up to four edges, every list of two  *)
(* edges or fewer with unknown names, and every three edges written twice.  *)
SomeEdgeLists ==
    LET pairs == (1 .. 4) \X (1 .. 4)
        small == UNION {kSubset(k, pairs) : k \in 0 .. 4}
        named == (0 .. 4) \X (0 .. 4)
        twice(s) == LET l == SetToSeq(s) IN l \o l
    IN  {SetToSeq(s) : s \in small} \cup {<<e>> : e \in named} \cup
        {<<e, f>> : e \in named, f \in named} \cup
        {twice(s) : s \in kSubset(3, pairs)}

(* Narrations with sentences that end before, in and after a pause, and    *)
(* pauses at which a chunk of eight seconds can and cannot be cut.         *)
Sentence(end, primary, score) == [end |-> end, primary |-> primary, score |-> score]
Silence(from, to) == [from |-> from, to |-> to]

Sentences ==
    {Sentence(4117, TRUE, 6), Sentence(9700, TRUE, 9), Sentence(9990, FALSE, 5), Sentence(15200, TRUE, 8)}

Silences == {Silence(4980, 5200), Silence(8070, 8300), Silence(9600, 9900), Silence(12580, 12800)}

SomeNarrations ==
    {[target |-> 18000, units |-> u, pauses |-> {}] : u \in SUBSET Sentences} \cup
    {[target |-> t, units |-> u, pauses |-> p] :
        t \in {15600, 18000}, u \in {{}, Sentences}, p \in SUBSET Silences}

(* Material that is long and scarce, short, used before, or original, and  *)
(* a window that has the length of a chunk but one frame less.             *)
Clip(asset, from, to, fresh, original) ==
    [asset |-> asset, from |-> from, to |-> to, fresh |-> fresh, original |-> original]

SomeInventories ==
    LET long == Clip(1, 115, 9015, TRUE, FALSE)
        longest == Clip(1, 9050, 19550, TRUE, FALSE)
        medium == Clip(2, 0, 6200, TRUE, FALSE)
        stale == Clip(3, 1000, 9900, FALSE, FALSE)
        raw == Clip(4, 17, 4134, TRUE, TRUE)
    IN  {<<longest, long, stale, medium>>, <<raw, medium, long, stale>>, <<stale, raw>>,
         <<Clip(1, 0, 8100, TRUE, FALSE), Clip(2, 0, 5500, TRUE, FALSE), Clip(3, 0, 5400, TRUE, FALSE)>>}

(* Sentences that follow one another, and cuts that a pause moved a few    *)
(* frames behind the end of one. The clips are longer than the sentence,   *)
(* about as long, shorter, and too short; some look alike, and one is      *)
(* offered with two spans.                                                 *)
Script(ends, cuts, limit) ==
    [units |-> [k \in DOMAIN ends |-> [from |-> IF k = 1 THEN 0 ELSE ends[k - 1], to |-> ends[k]]],
     cuts |-> cuts, limit |-> limit]

SomeScripts ==
    {Script(<<4100, 8300, 14000>>, {0, 126, 420}, 3), Script(<<4100, 8300, 14000>>, {0, 126, 249, 420}, 2),
     Script(<<6317, 8000, 13050>>, {0, 191, 392}, 3), Script(<<1700, 7750, 11233>>, {0, 236, 337}, 3)}

Matched(name, look, from, to, beat) ==
    [name |-> name, look |-> look, from |-> from, to |-> to, beat |-> beat]

SomeFootage ==
    {{Matched(1, "", 0, 3970, 1), Matched(2, "", 517, 4630, 0), Matched(3, "", 8000, 12950, 2)},
     {Matched(1, "a", 33, 2850, 3), Matched(2, "a", 517, 4630, 2), Matched(3, "", 0, 2117, 0),
      Matched(3, "", 5000, 9100, 1)},
     {Matched(1, "", 33, 4850, 2), Matched(2, "", 117, 2630, 0), Matched(3, "", 0, 3217, 0),
      Matched(4, "", 10, 1300, 3)}}

Offer(name, asset, look, from, to) ==
    [name |-> name, asset |-> asset, look |-> look, from |-> from, to |-> to]

SomeDemands == {10150, 10117, 6035, 8700}

SomeOffers ==
    {{Offer(1, 1, "a", 0, 4000), Offer(2, 1, "a", 5000, 8983), Offer(3, 2, "b", 100, 2600), Offer(4, 3, "", 0, 700)},
     {Offer(1, 1, "a", 0, 4000), Offer(2, 2, "a", 17, 8283), Offer(3, 2, "", 9100, 12600), Offer(3, 2, "", 12900, 15000)},
     {Offer(1, 1, "", 0, 2000), Offer(1, 1, "", 5000, 14000), Offer(2, 1, "", 17, 1500)}}

(* Three slots and two assets, two slots and three, no material; replies    *)
(* with every window in every slot, some with a mistake, and every B-roll  *)
(* of up to two picks, known or not.                                       *)
Source(asset, from, to) == [asset |-> asset, from |-> from, to |-> to]

SomeBriefs ==
    {Script(<<4100, 8300, 14000>>, <<0, 4200, 8420, 14000>>, 2),
     Script(<<1700, 6217, 11233>>, <<0, 6317, 11233>>, 3)}

SomePools ==
    {[portrait |-> <<Source(1, 0, 6000), Source(1, 6100, 12300), Source(2, 17, 5900)>>,
      broll |-> <<Source(3, 100, 4900), Source(4, 0, 9000)>>],
     [portrait |-> <<Source(1, 0, 7000), Source(2, 0, 6400), Source(3, 1000, 5200)>>,
      broll |-> <<Source(3, 100, 4237), Source(4, 0, 3100)>>],
     [portrait |-> <<>>, broll |-> <<>>]}

SomeReplies ==
    LET Of(slot, window) == [slot |-> slot, of |-> window]
        fills == UNION {[1..n -> 1..3] : n \in {2, 3}}
        complete == {[k \in DOMAIN f |-> Of(k, f[k])] : f \in fills}
        wrong == {<<Of(1, 1), Of(1, 2), Of(2, 3)>>, <<Of(1, 1), Of(2, 2), Of(4, 3)>>,
                  <<Of(1, 0), Of(2, 1), Of(3, 3)>>, <<Of(3, 1), Of(1, 2), Of(2, 3)>>}
        over == UNION {[1..n -> {Of(slot, clip) : slot \in 0..3, clip \in 0..2}] : n \in 0..2}
    IN  {[portrait |-> p, broll |-> b, styled |-> TRUE] : p \in complete \cup wrong, b \in over} \cup
        {[portrait |-> p, broll |-> <<>>, styled |-> FALSE] : p \in complete}
=============================================================================
