------------------------- MODULE CutPlanningProofs -------------------------
(***************************************************************************)
(* Proofs about CutPlanning, for every narration, every inventory of       *)
(* windows and every width of the beam.                                    *)
(*                                                                         *)
(* Each algorithm of the planner is taken for what its result is known by: *)
(* the cuts of a variant ascend from 0 to the end of the narration, more   *)
(* than what counts as a duration apart (CutLists); the windows that a     *)
(* pass of the beam or the rescue gives fit the chunks (Fitting); and the  *)
(* rescue fails only where no windows fit (SearchIs).                      *)
(***************************************************************************)
EXTENDS CutPlanning, FiniteSums

-----------------------------------------------------------------------------
(* CutPlanning: the cuts of a narration                                    *)

(* The cuts that are offered lie inside of the narration and are finitely   *)
(* many.                                                                    *)
LEMMA PauseCutsInside ==
    ASSUME narration \in Narrations, NEW u \in narration.units
    PROVE  \A cut \in PauseCuts(u) : cut \in Int /\ Inside(cut)
<1> SUFFICES ASSUME NEW cut \in PauseCuts(u) PROVE cut \in Int /\ Inside(cut)
  OBVIOUS
<1>1. PICK p \in MatchedPauses(u.end) : cut = CutIn(p, u.end) /\ Inside(cut)
  BY DEF PauseCuts
<1>2. p \in narration.pauses
  BY <1>1 DEF MatchedPauses, Least
<1>3. p.from \in Int /\ p.to \in Int /\ u.end \in Int
  BY <1>2, CutConstants
<1>4. CutIn(p, u.end) \in Int
  BY <1>3 DEF CutIn, Clamp, Larger, Smaller
<1> QED BY <1>1, <1>4

LEMMA CutsSound ==
    ASSUME narration \in Narrations
    PROVE  /\ narration.target \in Nat
           /\ IsFiniteSet(Cuts)
           /\ \A cut \in Cuts : cut.at \in Int /\ Inside(cut.at) /\ cut.score \in Int
           /\ \A cut \in Cuts : cut = [at |-> cut.at, score |-> cut.score]
           /\ \A cut \in Fallbacks : cut \in Int
<1>1. /\ narration.target \in Nat /\ IsFiniteSet(narration.units)
      /\ \A u \in narration.units : u.end \in Int /\ u.score \in Int
  BY CutConstants
<1>2. \A u \in Units : u \in narration.units /\ u.end \in Int /\ u.score \in Int /\ Inside(u.end)
  BY <1>1 DEF Units
<1>3. ASSUME NEW cut \in Cuts
      PROVE  /\ cut.at \in Int /\ Inside(cut.at) /\ cut.score \in Int
             /\ cut = [at |-> cut.at, score |-> cut.score]
             /\ \E u \in narration.units : cut.score = u.score
  <2>1. PICK u \in Units : cut \in {[at |-> c, score |-> u.score] :
                                     c \in IF narration.pauses = {} THEN {u.end} ELSE PauseCuts(u)}
    BY <1>3 DEF Cuts
  <2>2. PICK c \in (IF narration.pauses = {} THEN {u.end} ELSE PauseCuts(u)) :
              cut = [at |-> c, score |-> u.score]
    BY <2>1
  <2>3. c \in Int /\ Inside(c)
    <3>1. CASE narration.pauses = {}
      BY <1>2, <2>2, <3>1
    <3>2. CASE narration.pauses # {}
      BY <1>2, <2>2, <3>2, PauseCutsInside
    <3> QED BY <3>1, <3>2
  <2> QED BY <1>2, <2>1, <2>2, <2>3
<1>4. IsFiniteSet(Cuts)
  <2> DEFINE scores == {u.score : u \in narration.units}
             f == [u \in narration.units |-> u.score]
             all == (0..narration.target) \X scores
             g == [cut \in Cuts |-> <<cut.at, cut.score>>]
  <2>1. f \in Surjection(narration.units, scores)
    BY DEF Surjection
  <2>2. IsFiniteSet(scores)
    BY <1>1, <2>1, FS_Surjection
  <2>3. IsFiniteSet(0..narration.target)
    BY <1>1, FS_Interval
  <2>4. \A cut \in Cuts : cut.at \in 0..narration.target /\ cut.score \in scores
    <3>1. \A x \in Int : Inside(x) => x \in 0..narration.target
      BY <1>1 DEF Inside, Shortest
    <3> QED BY <1>3, <3>1
  <2> HIDE DEF scores, f
  <2>5. IsFiniteSet(all)
    BY <2>2, <2>3, FS_Product
  <2>6. g \in [Cuts -> all]
    BY <2>4
  <2>7. \A x, y \in Cuts : g[x] = g[y] => x = y
    <3> SUFFICES ASSUME NEW x \in Cuts, NEW y \in Cuts, g[x] = g[y] PROVE x = y
      OBVIOUS
    <3>1. x.at = y.at /\ x.score = y.score
      OBVIOUS
    <3> QED BY ONLY <3>1, <1>3, x \in Cuts, y \in Cuts
  <2> HIDE DEF all, g
  <2>8. g \in Injection(Cuts, all)
    BY <2>6, <2>7 DEF Injection, IsInjective
  <2> QED BY <2>5, <2>8, FS_Injection
<1>5. ASSUME NEW cut \in Fallbacks PROVE cut \in Int
  <2>1. CASE narration.pauses = {}
    BY <1>2, <1>5, <2>1 DEF Fallbacks
  <2>2. CASE narration.pauses # {}
    <3>1. PICK u \in Units : cut \in FallbacksOf(u, PauseCuts(u))
      BY <1>5, <2>2 DEF Fallbacks
    <3>2. cut = u.end \/ cut \in PauseCuts(u)
      BY <3>1 DEF FallbacksOf
    <3> QED BY <1>2, <3>2, PauseCutsInside
  <2> QED BY <2>1, <2>2
<1> QED BY <1>1, <1>3, <1>4, <1>5

(* Of two that are kept, the later one is more than 80 ms behind.           *)
KeptBy(kept, C, limit) ==
    /\ kept \subseteq C /\ IsFiniteSet(kept)
    /\ \A c \in kept : c.at <= limit
    /\ \A c, d \in kept : c.at < d.at => c.at + Shortest < d.at
    /\ \A c, d \in kept : c.at = d.at => c = d

LEMMA ApartKeeps ==
    ASSUME NEW C, \A c \in C : c.at \in Int /\ c.score \in Int,
           NEW limit \in Int, NEW kept, KeptBy(kept, C, limit),
           NEW cut \in C, limit <= cut.at
    PROVE  KeptBy(Apart(kept, cut), C, cut.at)
<1> DEFINE last == CHOOSE c \in kept : \A d \in kept : d.at <= c.at
           new == Apart(kept, cut)
<1>1. /\ kept \subseteq C /\ IsFiniteSet(kept)
      /\ \A c \in kept : c.at \in Int /\ c.score \in Int /\ c.at <= limit
      /\ \A c, d \in kept : c.at < d.at => c.at + 80 < d.at
      /\ \A c, d \in kept : c.at = d.at => c = d
      /\ cut.at \in Int /\ cut.score \in Int
  BY DEF KeptBy, Shortest
<1>2. CASE kept = {}
  <2>1. new = {cut}
    BY <1>2 DEF Apart
  <2>2. IsFiniteSet({cut})
    BY FS_Singleton
  <2> QED BY <1>1, <2>1, <2>2 DEF KeptBy
<1>3. CASE kept # {}
  <2> DEFINE ats == {c.at : c \in kept}
             f == [c \in kept |-> c.at]
  <2>1. f \in Surjection(kept, ats) /\ ats \subseteq Int /\ ats # {}
    BY <1>1, <1>3 DEF Surjection
  <2>2. IsFiniteSet(ats)
    BY <1>1, <2>1, FS_Surjection
  <2>3. \E m \in ats : \A y \in ats : m >= y
    <3> HIDE DEF ats
    <3> QED BY <2>1, <2>2, HasMax
  <2>4. \E c \in kept : \A d \in kept : d.at <= c.at
    BY <1>1, <2>3
  <2>5. last \in kept /\ \A d \in kept : d.at <= last.at
    BY <2>4
  <2>6. new = IF cut.at > last.at + 80 THEN kept \cup {cut}
              ELSE IF cut.score > last.score THEN (kept \ {last}) \cup {cut} ELSE kept
    BY <1>3 DEF Apart, Shortest
  <2> SUFFICES KeptBy(new, C, cut.at)
    OBVIOUS
  <2> HIDE DEF last, new, ats, f
  <2>7. IsFiniteSet(kept \cup {cut}) /\ IsFiniteSet((kept \ {last}) \cup {cut})
    <3>1. IsFiniteSet(kept \ {last})
      BY <1>1, FS_RemoveElement
    <3> QED BY <1>1, <3>1, FS_AddElement
  <2>8. CASE cut.at > last.at + 80
    <3>1. new = kept \cup {cut}
      BY <2>6, <2>8
    <3>2. \A c \in kept : c.at + 80 < cut.at /\ c.at <= cut.at
      BY <1>1, <2>5, <2>8
    <3>3. \A c, d \in kept \cup {cut} : /\ c.at < d.at => c.at + 80 < d.at
                                       /\ c.at = d.at => c = d
      BY ONLY <1>1, <3>2
    <3> QED BY <1>1, <2>7, <3>1, <3>2, <3>3 DEF KeptBy, Shortest
  <2>9. CASE ~(cut.at > last.at + 80) /\ cut.score > last.score
    <3>1. new = (kept \ {last}) \cup {cut}
      BY <2>6, <2>9
    <3>2. last.at <= cut.at /\ last.at \in Int
      BY <1>1, <2>5
    <3>3. \A c \in kept \ {last} : c.at + 80 < cut.at /\ c.at <= cut.at /\ c \in kept
      <4> SUFFICES ASSUME NEW c \in kept \ {last} PROVE c.at + 80 < cut.at /\ c.at <= cut.at
        OBVIOUS
      <4>1. c.at <= last.at /\ c.at # last.at /\ c.at \in Int
        BY <1>1, <2>5
      <4>2. c.at + 80 < last.at
        BY <1>1, <2>5, <4>1
      <4> QED BY ONLY <1>1, <3>2, <4>1, <4>2
    <3>4. \A c, d \in (kept \ {last}) \cup {cut} : /\ c.at < d.at => c.at + 80 < d.at
                                                  /\ c.at = d.at => c = d
      BY ONLY <1>1, <3>3
    <3>5. (kept \ {last}) \cup {cut} \subseteq C
      BY <1>1
    <3> QED BY <1>1, <2>7, <3>1, <3>3, <3>4, <3>5 DEF KeptBy, Shortest
  <2>10. CASE ~(cut.at > last.at + 80) /\ ~(cut.score > last.score)
    <3>1. new = kept
      BY <2>6, <2>10
    <3>2. \A c \in kept : c.at <= cut.at
      BY <1>1
    <3> QED BY <1>1, <3>1, <3>2 DEF KeptBy, Shortest
  <2> QED BY <2>8, <2>9, <2>10
<1> QED BY <1>2, <1>3

(* The cuts that are kept are found one after the other.                    *)
KeepsStepwise(kept, sorted, n) ==
    /\ kept[0] = {} /\ KeptApart(sorted) = kept[n]
    /\ \A k \in 1..n : kept[k] = Apart(kept[k - 1], sorted[k])

LEMMA KeptApartStepwise ==
    ASSUME NEW n \in Nat, NEW C, NEW sorted \in [1..n -> C], Len(sorted) = n
    PROVE  \E kept : KeepsStepwise(kept, sorted, n)
<1> DEFINE D == 0..n
           R == SUBSET C
           G == [p \in [D -> R] \X D |-> IF p[2] = 0 THEN {} ELSE Apart(p[1][p[2] - 1], sorted[p[2]])]
           rank == [k \in D |-> k]
           Right(f) == f = [k \in 0..Len(sorted) |-> IF k = 0 THEN {} ELSE Apart(f[k - 1], sorted[k])]
           kept == CHOOSE f : Right(f)
<1>1. \A f \in [D -> R], k \in D :
         /\ G[<<f, k>>] = IF k = 0 THEN {} ELSE Apart(f[k - 1], sorted[k])
         /\ G[<<f, k>>] \in R
  <2> SUFFICES ASSUME NEW f \in [D -> R], NEW k \in D
               PROVE  /\ G[<<f, k>>] = IF k = 0 THEN {} ELSE Apart(f[k - 1], sorted[k])
                      /\ G[<<f, k>>] \in R
    OBVIOUS
  <2>1. G[<<f, k>>] = IF k = 0 THEN {} ELSE Apart(f[k - 1], sorted[k])
    OBVIOUS
  <2>2. CASE k # 0
    <3>1. f[k - 1] \in R /\ sorted[k] \in C
      BY <2>2
    <3>2. Apart(f[k - 1], sorted[k]) \in R
      BY <3>1 DEF Apart
    <3> QED BY <2>1, <2>2, <3>2
  <2> QED BY <2>1, <2>2
<1>2. \A k \in D : rank[k] \in 0..n /\ (k # 0 => k - 1 \in D /\ rank[k - 1] < rank[k])
  OBVIOUS
<1>3. R # {}
  OBVIOUS
<1>4. KeptApart(sorted) = kept[n]
  BY DEF KeptApart
<1>5. \A f \in [D -> R] : f = [k \in D |-> f[k]]
  OBVIOUS
<1> HIDE DEF G, R, rank, kept
<1>6. \A f, g \in [D -> R], k \in D :
         (\A j \in D : rank[j] < rank[k] => f[j] = g[j]) => G[<<f, k>>] = G[<<g, k>>]
  BY <1>1, <1>2
<1>7. PICK f \in [D -> R] : \A k \in D : f[k] = G[<<f, k>>]
  <2> HIDE DEF D
  <2>1. Graded(D, R, n, rank, G)
    BY ONLY <1>1, <1>2, <1>3, <1>6, n \in Nat DEF Graded
  <2> QED BY ONLY <2>1, RecursiveByRank
<1>8. \A k \in D : f[k] = IF k = 0 THEN {} ELSE Apart(f[k - 1], sorted[k])
  <2> HIDE DEF D
  <2> QED BY ONLY <1>1, <1>7
<1>9. Right(f)
  BY <1>5, <1>8
<1>10. Right(kept)
  BY <1>9 DEF kept
<1>11. \A k \in 0..n : kept[k] = IF k = 0 THEN {} ELSE Apart(kept[k - 1], sorted[k])
  BY <1>10
<1> QED BY <1>4, <1>11 DEF KeepsStepwise

LEMMA KeptApartIs ==
    ASSUME NEW n \in Nat, NEW C, \A c \in C : c.at \in Int /\ c.score \in Int,
           NEW sorted \in [1..n -> C], Len(sorted) = n,
           \A j, k \in 1..n : j < k => sorted[j].at <= sorted[k].at
    PROVE  \E limit : KeptBy(KeptApart(sorted), C, limit)
<1>0. PICK kept : KeepsStepwise(kept, sorted, n)
  BY KeptApartStepwise
<1>1. /\ KeptApart(sorted) = kept[n] /\ kept[0] = {}
      /\ \A k \in 1..n : kept[k] = Apart(kept[k - 1], sorted[k])
  BY <1>0 DEF KeepsStepwise
<1> DEFINE own == [k \in 0..n |-> k]
           D == 0..n
           limit == [k \in 0..n |-> IF k = 0 THEN 0 ELSE sorted[k].at]
           P == {k \in 0..n : KeptBy(kept[k], C, limit[k])}
<1>2. ASSUME NEW k \in D, \A j \in D : own[j] < own[k] => j \in P PROVE k \in P
  <2>1. CASE k = 0
    <3>1. kept[0] = {} /\ IsFiniteSet({})
      BY <1>1, FS_EmptySet
    <3>2. KeptBy(kept[0], C, limit[0])
      BY <3>1 DEF KeptBy
    <3> QED BY <2>1, <3>2
  <2>2. CASE k # 0
    <3>1. k \in 1..n /\ k - 1 \in D /\ own[k - 1] < own[k]
      BY <2>2
    <3>2. KeptBy(kept[k - 1], C, limit[k - 1])
      BY <1>2, <3>1
    <3>3. sorted[k] \in C /\ kept[k] = Apart(kept[k - 1], sorted[k]) /\ limit[k] = sorted[k].at
      BY <1>1, <3>1
    <3>4. CASE k = 1
      <4>1. kept[0] = {} /\ IsFiniteSet({})
        BY <1>1, FS_EmptySet
      <4>2. KeptBy(kept[0], C, sorted[k].at) /\ sorted[k].at \in Int
        BY <3>3, <4>1 DEF KeptBy
      <4>3. KeptBy(Apart(kept[0], sorted[k]), C, sorted[k].at)
        BY ONLY <3>3, <4>2, \A c \in C : c.at \in Int /\ c.score \in Int, ApartKeeps
      <4> QED BY <3>3, <3>4, <4>3
    <3>5. CASE k # 1
      <4>1. k - 1 \in 1..n /\ k - 1 < k
        BY <3>1, <3>5
      <4>2. limit[k - 1] = sorted[k - 1].at /\ sorted[k - 1] \in C
        BY <4>1
      <4>3. sorted[k - 1].at <= sorted[k].at /\ sorted[k - 1].at \in Int
        BY <3>1, <4>1, <4>2
      <4>4. KeptBy(Apart(kept[k - 1], sorted[k]), C, sorted[k].at)
        BY <3>2, <3>3, <4>2, <4>3, ApartKeeps
      <4> QED BY <3>3, <4>4
    <3> QED BY <3>4, <3>5
  <2> QED BY <2>1, <2>2
<1>3. \A k \in D : own[k] \in Nat
  OBVIOUS
<1>4. n \in D
  OBVIOUS
<1>5. n \in P => KeptBy(kept[n], C, limit[n])
  OBVIOUS
<1> HIDE DEF P, D, own, limit
<1>6. \A k \in D : (\A j \in D : own[j] < own[k] => j \in P) => k \in P
  BY ONLY <1>2
<1>7. \A k \in D : k \in P
  BY ONLY <1>3, <1>6, RankInduction
<1> QED BY <1>1, <1>4, <1>5, <1>7

(* A list of cuts: none at all, or from 0 to the end and more than 80 ms    *)
(* apart.                                                                   *)
Spaced(cuts) ==
    /\ cuts \subseteq 0..narration.target
    /\ cuts # {} => 0 \in cuts /\ narration.target \in cuts /\ Shortest < narration.target
    /\ \A x, y \in cuts : x < y => x + Shortest < y

LEMMA SpacedIs ==
    ASSUME narration.target \in Nat, NEW cuts, Spaced(cuts)
    PROVE  /\ IsFiniteSet(cuts) /\ cuts \subseteq Int
           /\ cuts # {} => Max(cuts) = narration.target
           /\ \A x \in cuts : x \in 0..narration.target
<1>1. IsFiniteSet(0..narration.target)
  BY FS_Interval
<1>2. cuts \in SUBSET (0..narration.target)
  BY DEF Spaced
<1>3. IsFiniteSet(cuts) /\ cuts \subseteq Int
  <2>1. IsFiniteSet(cuts)
    BY ONLY <1>1, <1>2, FS_Subset
  <2> QED BY <1>2, <2>1
<1>4. ASSUME cuts # {} PROVE Max(cuts) = narration.target
  <2>1. Max(cuts) \in cuts /\ \A y \in cuts : Max(cuts) >= y
    BY <1>3, <1>4, HasMax
  <2>2. narration.target \in cuts
    BY <1>4 DEF Spaced
  <2>3. Max(cuts) \in 0..narration.target /\ Max(cuts) >= narration.target
    BY <1>2, <2>1, <2>2
  <2>4. \A m \in 0..narration.target : m >= narration.target => m = narration.target
    OBVIOUS
  <2> QED BY ONLY <2>3, <2>4
<1> QED BY <1>2, <1>3, <1>4

LEMMA ByTimeIs ==
    ASSUME NEW C, IsFiniteSet(C),
           \A c \in C : c.at \in Int /\ c.score \in Int /\ c = [at |-> c.at, score |-> c.score]
    PROVE  /\ Cardinality(C) \in Nat /\ Len(ByTime(C)) = Cardinality(C)
           /\ ByTime(C) \in [1..Cardinality(C) -> C]
           /\ \A j, k \in 1..Cardinality(C) : j < k => ByTime(C)[j].at <= ByTime(C)[k].at
<1> DEFINE order == Sooner(C)
           s == Sorted(C, order)
           n == Cardinality(C)
<1>1. \A x, y \in C : <<x, y>> \in order <=> (x.at < y.at \/ (x.at = y.at /\ x.score <= y.score))
  BY DEF Sooner
<1>2. \A x \in C : x.at \in Int /\ x.score \in Int
  OBVIOUS
<1>3. s = ByTime(C)
  BY DEF ByTime
<1>4. \A x, y \in C : x.at = y.at /\ x.score = y.score => x = y
  OBVIOUS
<1> HIDE DEF order, s
<1>5. /\ \A x \in C : <<x, x>> \in order
      /\ \A x, y \in C : <<x, y>> \in order \/ <<y, x>> \in order
      /\ \A x, y \in C : <<x, y>> \in order /\ <<y, x>> \in order => x = y
  BY ONLY <1>1, <1>2, <1>4
<1>6. \A x, y, z \in C : <<x, y>> \in order /\ <<y, z>> \in order => <<x, z>> \in order
  BY ONLY <1>1, <1>2
<1>7. /\ DOMAIN s = 1..n /\ n \in Nat
      /\ \A k \in 1..n : s[k] \in C
      /\ \A j, k \in 1..n : j < k => <<s[j], s[k]>> \in order
  BY <1>5, <1>6, SortedIs DEF s
<1>8. Len(s) = n /\ s \in [1..n -> C]
  <2> HIDE DEF n
  <2>1. s = [k \in 1..n |-> s[k]]
    BY <1>7 DEF s, Sorted, n
  <2>2. s \in Seq(C)
    BY ONLY <1>7, <2>1
  <2> QED BY <1>7, <2>2
<1> HIDE DEF n
<1>9. ASSUME NEW j \in 1..n, NEW k \in 1..n, j < k PROVE s[j].at <= s[k].at
  <2>1. s[j] \in C /\ s[k] \in C /\ <<s[j], s[k]>> \in order
    BY <1>7, <1>9
  <2> QED BY ONLY <1>1, <1>2, <2>1
<1> QED BY ONLY <1>3, <1>7, <1>8, <1>9 DEF n

LEMMA BoundariesSpaced ==
    ASSUME narration \in Narrations
    PROVE  Spaced(Boundaries)
<1>1. /\ narration.target \in Nat /\ IsFiniteSet(Cuts)
      /\ \A cut \in Cuts : cut.at \in Int /\ Inside(cut.at) /\ cut.score \in Int
      /\ \A cut \in Cuts : cut = [at |-> cut.at, score |-> cut.score]
  BY CutsSound
<1>2. CASE narration.target <= Shortest
  BY <1>2 DEF Boundaries, Spaced
<1>3. CASE ~(narration.target <= Shortest)
  <2> DEFINE kept == KeptApart(ByTime(Cuts))
  <2>1. \E limit : KeptBy(kept, Cuts, limit)
    <3> DEFINE n == Cardinality(Cuts)
               s == ByTime(Cuts)
    <3>1. /\ n \in Nat /\ Len(s) = n /\ s \in [1..n -> Cuts]
          /\ \A j, k \in 1..n : j < k => s[j].at <= s[k].at
      BY <1>1, ByTimeIs
    <3>2. \A c \in Cuts : c.at \in Int /\ c.score \in Int
      BY <1>1
    <3> HIDE DEF n, s
    <3>3. \E limit : KeptBy(KeptApart(s), Cuts, limit)
      BY ONLY <3>1, <3>2, KeptApartIs
    <3> QED BY <3>3 DEF s
  <2>2. Boundaries = {0, narration.target} \cup {cut.at : cut \in kept}
    BY <1>3 DEF Boundaries
  <2>3. /\ \A c \in kept : c.at \in Int /\ 80 < c.at /\ c.at < narration.target - 80
        /\ \A c, d \in kept : c.at < d.at => c.at + 80 < d.at
    BY <1>1, <2>1 DEF KeptBy, Inside, Shortest
  <2>4. 80 < narration.target
    BY <1>1, <1>3 DEF Shortest
  <2> HIDE DEF kept
  <2>5. ASSUME NEW x \in Boundaries, NEW y \in Boundaries, x < y PROVE x + 80 < y
    <3>1. x = 0 \/ x = narration.target \/ \E c \in kept : x = c.at
      BY <2>2
    <3>2. y = 0 \/ y = narration.target \/ \E c \in kept : y = c.at
      BY <2>2
    <3> QED BY ONLY <1>1, <2>3, <2>4, <2>5, <3>1, <3>2
  <2>6. Boundaries \subseteq 0..narration.target
    BY ONLY <1>1, <2>2, <2>3, <2>4
  <2> QED BY <2>2, <2>4, <2>5, <2>6 DEF Spaced, Shortest
<1> QED BY <1>2, <1>3

-----------------------------------------------------------------------------
(* Where long gaps are split                                               *)

LEMMA BetweenIs ==
    ASSUME NEW S \in SUBSET Int, NEW from \in Int, NEW to \in Int, NEW gap \in Int
    PROVE  /\ IsFiniteSet(Between(S, from, to, gap))
           /\ \A cut \in Between(S, from, to, gap) : cut \in Int /\ from + 1500 < cut /\ cut < to - 1500
<1>1. MinSegment(gap) \in Int /\ MinSegment(gap) >= 1500
  BY DEF MinSegment, Smaller, Larger
<1>2. \A cut \in Between(S, from, to, gap) : cut \in Int /\ from + 1500 < cut /\ cut < to - 1500
  BY <1>1 DEF Between
<1>3. Between(S, from, to, gap) \in SUBSET (from..to)
  BY <1>2
<1>4. IsFiniteSet(from..to)
  BY FS_Interval
<1>5. IsFiniteSet(Between(S, from, to, gap))
  BY ONLY <1>3, <1>4, FS_Subset
<1> QED BY <1>2, <1>5

LEMMA FarthestIs ==
    ASSUME NEW S \in SUBSET Int, IsFiniteSet(S), NEW limit \in Int
    PROVE  Farthest(S, limit) \subseteq S /\ \A c, d \in Farthest(S, limit) : c = d
<1> DEFINE near == {cut \in S : cut <= limit}
<1>1. near \subseteq Int /\ S \subseteq Int /\ near \in SUBSET S
  OBVIOUS
<1>2. IsFiniteSet(near)
  BY ONLY <1>1, IsFiniteSet(S), FS_Subset
<1>3. Farthest(S, limit) = IF near # {} THEN {Max(near)} ELSE IF S # {} THEN {Min(S)} ELSE {}
  BY DEF Farthest
<1> HIDE DEF near
<1>4. near # {} => Max(near) \in near
  BY ONLY <1>1, <1>2, HasMax
<1>5. S # {} => Min(S) \in S
  BY ONLY <1>1, IsFiniteSet(S), HasMin
<1> QED BY ONLY <1>1, <1>3, <1>4, <1>5

LEMMA PauseFallbackIs ==
    ASSUME narration \in Narrations, NEW from \in Int, NEW to \in Int, NEW gap \in Int
    PROVE  /\ \A cut \in PauseFallback(from, to, gap) : cut \in Int /\ from + 1500 < cut /\ cut < to - 1500
           /\ \A c, d \in PauseFallback(from, to, gap) : c = d
<1> DEFINE limit == from + gap
           strong == {p \in narration.pauses : Strong(p)}
           starts == {p.from + 20 : p \in strong}
           cuts == Between(starts, from, to, gap)
           usable == {p \in strong : p.from + 20 \in cuts /\ p.from <= limit /\ p.from <= p.to - 20}
           ends == {Smaller(limit, p.to - 20) : p \in usable}
           nudged == Between(ends, from, to, gap)
<1>1. PauseFallback(from, to, gap) =
          IF (\E cut \in cuts : cut <= limit) \/ nudged = {} THEN Farthest(cuts, limit) ELSE {Max(nudged)}
  BY DEF PauseFallback
<1>2. \A p \in narration.pauses : p.from \in Int /\ p.to \in Int
  BY CutConstants
<1>3. starts \in SUBSET Int
  BY <1>2
<1>4. limit \in Int
  OBVIOUS
<1> HIDE DEF limit
<1>5. ends \in SUBSET Int
  <2>1. \A p \in usable : p.to \in Int
    BY <1>2
  <2> HIDE DEF usable
  <2>2. \A p \in usable : Smaller(limit, p.to - 20) \in Int
    BY ONLY <1>4, <2>1 DEF Smaller
  <2> QED BY <2>2
<1> HIDE DEF starts, ends, limit
<1>6. /\ IsFiniteSet(cuts) /\ IsFiniteSet(nudged)
      /\ \A cut \in cuts : cut \in Int /\ from + 1500 < cut /\ cut < to - 1500
      /\ \A cut \in nudged : cut \in Int /\ from + 1500 < cut /\ cut < to - 1500
  BY ONLY <1>3, <1>5, from \in Int, to \in Int, gap \in Int, BetweenIs
<1> HIDE DEF cuts, nudged
<1>7. Farthest(cuts, limit) \subseteq cuts /\ \A c, d \in Farthest(cuts, limit) : c = d
  <2>1. cuts \in SUBSET Int
    BY <1>6
  <2> QED BY ONLY <1>4, <1>6, <2>1, FarthestIs
<1>8. ASSUME nudged # {} PROVE Max(nudged) \in nudged
  <2>1. nudged \subseteq Int
    BY <1>6
  <2>2. IsFiniteSet(nudged)
    BY <1>6
  <2> QED BY ONLY <1>8, <2>1, <2>2, HasMax
<1> QED BY ONLY <1>1, <1>6, <1>7, <1>8

LEMMA SplitIs ==
    ASSUME narration \in Narrations, NEW from \in Int, NEW to \in Int, NEW gap \in Int, NEW byPause,
           NEW fallbacks \in SUBSET Int
    PROVE  /\ \A cut \in Split(from, to, gap, byPause, fallbacks) :
                 cut \in Int /\ from + 1500 < cut /\ cut < to - 1500
           /\ \A c, d \in Split(from, to, gap, byPause, fallbacks) : c = d
<1> DEFINE all == Between(fallbacks, from, to, gap)
           semantic == Farthest(all, from + gap)
<1>1. /\ IsFiniteSet(all)
      /\ \A cut \in all : cut \in Int /\ from + 1500 < cut /\ cut < to - 1500
  BY BetweenIs
<1>2. Split(from, to, gap, byPause, fallbacks) =
          IF to - from <= gap THEN {}
          ELSE IF byPause /\ ~\E cut \in semantic : cut <= from + gap THEN PauseFallback(from, to, gap)
          ELSE semantic
  BY DEF Split
<1>3. from + gap \in Int
  OBVIOUS
<1> HIDE DEF all
<1>4. semantic \subseteq all /\ \A c, d \in semantic : c = d
  <2>1. all \in SUBSET Int
    BY <1>1
  <2> QED BY ONLY <1>1, <1>3, <2>1, FarthestIs
<1>5. /\ \A cut \in PauseFallback(from, to, gap) : cut \in Int /\ from + 1500 < cut /\ cut < to - 1500
      /\ \A c, d \in PauseFallback(from, to, gap) : c = d
  BY PauseFallbackIs
<1> HIDE DEF semantic
<1> QED BY ONLY <1>1, <1>2, <1>4, <1>5

SplitsOnwards(splits, from, to, gap, byPause, fallbacks) ==
    /\ SplitGap(from, to, gap, byPause, fallbacks) = splits[from]
    /\ \A at \in from..to :
          splits[at] = UNION {{cut} \cup splits[cut] : cut \in Split(at, to, gap, byPause, fallbacks)}

LEMMA SplitGapOnwards ==
    ASSUME narration \in Narrations, NEW from \in Int, NEW to \in Int, from < to, NEW gap \in Int,
           NEW byPause, NEW fallbacks \in SUBSET Int
    PROVE  \E splits : SplitsOnwards(splits, from, to, gap, byPause, fallbacks)
<1> DEFINE D == from..to
           R == SUBSET D
           Of(at) == Split(at, to, gap, byPause, fallbacks)
           G == [p \in [D -> R] \X D |-> UNION {{cut} \cup p[1][cut] : cut \in Of(p[2])}]
           rank == [at \in D |-> to - at]
           Right(f) == f = [at \in D |-> UNION {{cut} \cup f[cut] : cut \in Of(at)}]
           splits == CHOOSE f : Right(f)
<1>1. ASSUME NEW at \in D PROVE \A cut \in Of(at) : cut \in D /\ rank[cut] < rank[at]
  <2>1. at \in Int
    OBVIOUS
  <2>2. \A cut \in Of(at) : cut \in Int /\ at + 1500 < cut /\ cut < to - 1500
    BY ONLY <2>1, narration \in Narrations, to \in Int, gap \in Int, fallbacks \in SUBSET Int, SplitIs
  <2> HIDE DEF Of
  <2> QED BY <2>2
<1>2. \A at \in D : rank[at] \in 0..(to - from)
  OBVIOUS
<1>3. to - from \in Nat /\ R # {}
  <2>1. {} \in R
    OBVIOUS
  <2>2. to - from \in Nat
    BY ONLY from \in Int, to \in Int, from < to
  <2> QED BY <2>1, <2>2
<1>4. SplitGap(from, to, gap, byPause, fallbacks) = splits[from]
  BY DEF SplitGap
<1>5. \A f \in [D -> R] : f = [at \in D |-> f[at]]
  OBVIOUS
<1> HIDE DEF Of, rank, splits
<1>6. \A f \in [D -> R], at \in D : G[<<f, at>>] = UNION {{cut} \cup f[cut] : cut \in Of(at)}
  OBVIOUS
<1>7. \A f \in [D -> R], at \in D : G[<<f, at>>] \in R
  <2> SUFFICES ASSUME NEW f \in [D -> R], NEW at \in D PROVE G[<<f, at>>] \in R
    OBVIOUS
  <2>1. G[<<f, at>>] = UNION {{cut} \cup f[cut] : cut \in Of(at)}
    BY <1>6
  <2>2. \A cut \in Of(at) : cut \in D /\ f[cut] \subseteq D
    BY <1>1
  <2> HIDE DEF G, D
  <2> QED BY <2>1, <2>2
<1> HIDE DEF G
<1>8. \A f, g \in [D -> R], at \in D :
         (\A x \in D : rank[x] < rank[at] => f[x] = g[x]) => G[<<f, at>>] = G[<<g, at>>]
  <2> SUFFICES ASSUME NEW f \in [D -> R], NEW g \in [D -> R], NEW at \in D,
                      \A x \in D : rank[x] < rank[at] => f[x] = g[x]
               PROVE  G[<<f, at>>] = G[<<g, at>>]
    OBVIOUS
  <2>1. \A cut \in Of(at) : f[cut] = g[cut]
    BY <1>1
  <2>2. UNION {{cut} \cup f[cut] : cut \in Of(at)} = UNION {{cut} \cup g[cut] : cut \in Of(at)}
    BY ONLY <2>1
  <2> QED BY <1>6, <2>2
<1> HIDE DEF R, D
<1>9. PICK f \in [D -> R] : \A at \in D : f[at] = G[<<f, at>>]
  <2>1. Graded(D, R, to - from, rank, G)
    BY ONLY <1>2, <1>3, <1>7, <1>8 DEF Graded
  <2> QED BY ONLY <2>1, RecursiveByRank
<1>10. \A at \in D : f[at] = UNION {{cut} \cup f[cut] : cut \in Of(at)}
  BY ONLY <1>6, <1>9
<1>11. Right(f)
  BY <1>5, <1>10
<1>12. Right(splits)
  BY <1>11 DEF splits
<1>13. \A at \in D : splits[at] = UNION {{cut} \cup splits[cut] : cut \in Of(at)}
  BY <1>12
<1> QED BY <1>4, <1>13 DEF SplitsOnwards, Of, D

(* What a gap is split into is more than 1.5 s long.                        *)
LEMMA SplitGapIs ==
    ASSUME narration \in Narrations, NEW from \in Int, NEW to \in Int, from < to, NEW gap \in Int,
           NEW byPause, NEW fallbacks \in SUBSET Int
    PROVE  LET cuts == SplitGap(from, to, gap, byPause, fallbacks)
           IN  /\ \A x \in cuts : x \in Int /\ from + 1500 < x /\ x < to - 1500
               /\ \A x, y \in cuts : x < y => x + 1500 < y
<1> DEFINE Of(at) == Split(at, to, gap, byPause, fallbacks)
           D == from..to
           rank == [at \in D |-> to - at]
           Good(cuts, at) == /\ \A x \in cuts : x \in Int /\ at + 1500 < x /\ x < to - 1500
                             /\ \A x, y \in cuts : x < y => x + 1500 < y
<1>1. PICK splits : SplitsOnwards(splits, from, to, gap, byPause, fallbacks)
  BY SplitGapOnwards
<1>2. /\ SplitGap(from, to, gap, byPause, fallbacks) = splits[from]
      /\ \A at \in D : splits[at] = UNION {{cut} \cup splits[cut] : cut \in Of(at)}
  BY <1>1 DEF SplitsOnwards
<1> DEFINE P == {at \in D : Good(splits[at], at)}
<1>3. ASSUME NEW at \in D PROVE /\ \A cut \in Of(at) : cut \in Int /\ at + 1500 < cut /\ cut < to - 1500
                                /\ \A c, d \in Of(at) : c = d
  <2>1. at \in Int
    OBVIOUS
  <2> QED BY ONLY <2>1, narration \in Narrations, to \in Int, gap \in Int, fallbacks \in SUBSET Int, SplitIs
<1> HIDE DEF Of
<1>4. ASSUME NEW at \in D, \A x \in D : rank[x] < rank[at] => x \in P PROVE at \in P
  <2>1. at \in Int
    OBVIOUS
  <2>2. CASE Of(at) = {}
    <3>1. splits[at] = {}
      BY <1>2, <2>2
    <3> QED BY <3>1
  <2>3. CASE Of(at) # {}
    <3>1. PICK cut \in Of(at) : TRUE
      BY <2>3
    <3>2. splits[at] = {cut} \cup splits[cut]
      <4>1. Of(at) = {cut}
        BY <1>3, <3>1
      <4> QED BY <1>2, <4>1
    <3>3. cut \in Int /\ at + 1500 < cut /\ cut < to - 1500
      BY <1>3, <3>1
    <3>4. cut \in D /\ rank[cut] < rank[at]
      BY <2>1, <3>3
    <3>5. Good(splits[cut], cut)
      BY <1>4, <3>4
    <3> HIDE DEF P, D, rank
    <3>6. Good(splits[at], at)
      BY ONLY <2>1, <3>2, <3>3, <3>5, to \in Int
    <3> QED BY <3>6 DEF P
  <2> QED BY <2>2, <2>3
<1>5. \A at \in D : rank[at] \in Nat
  OBVIOUS
<1>6. from \in D
  BY from < to
<1>9. from \in P => Good(splits[from], from)
  OBVIOUS
<1> HIDE DEF rank, P, D
<1>7. from \in P
  <2>1. \A at \in D : (\A x \in D : rank[x] < rank[at] => x \in P) => at \in P
    BY ONLY <1>4
  <2>2. \A at \in D : at \in P
    BY ONLY <1>5, <2>1, RankInduction
  <2> QED BY <1>6, <2>2
<1> QED BY <1>2, <1>7, <1>9

(* The cut that comes next.                                                 *)
LEMMA FollowingIs ==
    ASSUME narration.target \in Nat, NEW cuts, Spaced(cuts), NEW from \in cuts
    PROVE  /\ Following(cuts, from) # {} <=> from # narration.target
           /\ Following(cuts, from) # {} =>
                 /\ Min(Following(cuts, from)) \in cuts
                 /\ from < Min(Following(cuts, from))
                 /\ \A c \in cuts : from < c => Min(Following(cuts, from)) <= c
<1> DEFINE S == Following(cuts, from)
<1>1. S = {cut \in cuts : cut > from}
  BY DEF Following
<1>2. IsFiniteSet(cuts) /\ cuts \subseteq Int /\ \A x \in cuts : x \in 0..narration.target
  BY SpacedIs
<1>3. narration.target \in cuts
  BY DEF Spaced
<1> HIDE DEF S
<1>4. S \in SUBSET cuts /\ S \subseteq Int
  BY <1>1, <1>2
<1>5. IsFiniteSet(S)
  BY ONLY <1>2, <1>4, FS_Subset
<1>6. S # {} => Min(S) \in S /\ \A y \in S : Min(S) <= y
  BY ONLY <1>4, <1>5, HasMin
<1>7. S # {} <=> from # narration.target
  <2>1. from \in 0..narration.target /\ narration.target \in Int
    BY <1>2
  <2>2. CASE from = narration.target
    <3>1. \A c \in cuts : ~(c > from)
      BY <1>2, <2>2
    <3> QED BY <1>1, <2>2, <3>1
  <2>3. CASE from # narration.target
    <3>1. narration.target > from
      BY ONLY <2>1, <2>3
    <3> QED BY <1>1, <1>3, <2>3, <3>1
  <2> QED BY <2>2, <2>3
<1>8. ASSUME S # {} PROVE Min(S) \in cuts /\ from < Min(S) /\ \A c \in cuts : from < c => Min(S) <= c
  <2>1. Min(S) \in S /\ from \in Int /\ Min(S) \in Int
    BY <1>2, <1>4, <1>6, <1>8
  <2>2. Min(S) \in cuts /\ Min(S) > from
    BY <1>1, <2>1
  <2>3. \A c \in cuts : from < c => c \in S
    BY <1>1, <1>2
  <2> QED BY <1>6, <1>8, <2>1, <2>2, <2>3
<1> QED BY <1>7, <1>8 DEF S

(* Splits leave the cuts apart.                                             *)
LEMMA WithFallbacksSpaced ==
    ASSUME narration \in Narrations, NEW cuts, Spaced(cuts), NEW maxChunk \in Int,
           NEW fallbacks \in SUBSET Int
    PROVE  Spaced(WithFallbacks(cuts, fallbacks, maxChunk))
<1> DEFINE gap == IF maxChunk = None THEN HardGap ELSE maxChunk
           byPause == maxChunk # None /\ maxChunk < HardGap
           To(from) == Min(Following(cuts, from))
           In(from) == SplitGap(from, To(from), gap, byPause, fallbacks)
           open == {cut \in cuts : Following(cuts, cut) # {}}
           new == cuts \cup UNION {In(from) : from \in open}
<1>1. narration.target \in Nat
  BY CutConstants
<1>2. gap \in Int
  BY DEF HardGap
<1>3. WithFallbacks(cuts, fallbacks, maxChunk) =
          IF narration.pauses = {} /\ maxChunk = None THEN cuts ELSE new
  BY DEF WithFallbacks
<1>4. IsFiniteSet(cuts) /\ \A x \in cuts : x \in 0..narration.target /\ x \in Int
  BY <1>1, SpacedIs
<1> HIDE DEF gap, byPause
<1>5. ASSUME NEW from \in open
      PROVE  /\ from \in cuts /\ To(from) \in cuts /\ from < To(from)
             /\ \A c \in cuts : from < c => To(from) <= c
  <2>1. from \in cuts /\ Following(cuts, from) # {}
    OBVIOUS
  <2> HIDE DEF open
  <2> QED BY ONLY <1>1, <2>1, Spaced(cuts), FollowingIs
<1> HIDE DEF To
<1>6. ASSUME NEW from \in open
      PROVE  /\ \A x \in In(from) : x \in Int /\ from + 1500 < x /\ x < To(from) - 1500
             /\ \A x, y \in In(from) : x < y => x + 1500 < y
  <2>1. from \in Int /\ To(from) \in Int /\ from < To(from)
    BY <1>4, <1>5
  <2> HIDE DEF open
  <2> QED BY ONLY <1>2, <2>1, narration \in Narrations, fallbacks \in SUBSET Int, SplitGapIs
<1>7. \A x \in new : x \in cuts \/ \E from \in open : x \in In(from)
  OBVIOUS
<1>8. cuts \subseteq new
  OBVIOUS
<1> HIDE DEF In, open, new
<1>9. \A x, y \in cuts : x < y => x + 80 < y
  BY DEF Spaced, Shortest
<1>10. ASSUME NEW x \in new, NEW y \in new, x < y PROVE x + 80 < y
  <2>1. CASE x \in cuts /\ y \in cuts
    BY <1>9, <1>10, <2>1
  <2>2. ASSUME x \in cuts, NEW g \in open, y \in In(g) PROVE x + 80 < y
    <3>1. g + 1500 < y /\ y < To(g) - 1500 /\ y \in Int
      BY <1>6, <2>2
    <3>2. g \in Int /\ To(g) \in Int /\ x \in Int /\ (g < x => To(g) <= x)
      BY <1>4, <1>5, <2>2
    <3> QED BY ONLY <1>10, <3>1, <3>2
  <2>3. ASSUME NEW f \in open, x \in In(f), y \in cuts PROVE x + 80 < y
    <3>1. f + 1500 < x /\ x < To(f) - 1500 /\ x \in Int
      BY <1>6, <2>3
    <3>2. f \in Int /\ To(f) \in Int /\ y \in Int /\ (f < y => To(f) <= y)
      BY <1>4, <1>5, <2>3
    <3> QED BY ONLY <1>10, <3>1, <3>2
  <2>4. ASSUME NEW f \in open, x \in In(f), NEW g \in open, y \in In(g) PROVE x + 80 < y
    <3>1. f + 1500 < x /\ x < To(f) - 1500 /\ x \in Int /\ g + 1500 < y /\ y < To(g) - 1500 /\ y \in Int
      BY <1>6, <2>4
    <3>2. f \in Int /\ To(f) \in Int /\ g \in Int /\ To(g) \in Int
      BY <1>4, <1>5
    <3>3. (f < g => To(f) <= g) /\ (g < f => To(g) <= f)
      BY <1>5
    <3>4. CASE f = g
      <4>1. x + 1500 < y
        BY <1>6, <1>10, <2>4, <3>4
      <4> QED BY ONLY <3>1, <4>1
    <3>5. CASE f < g
      BY ONLY <1>10, <3>1, <3>2, <3>3, <3>5
    <3>6. CASE g < f
      BY ONLY <1>10, <3>1, <3>2, <3>3, <3>6
    <3> QED BY ONLY <3>2, <3>4, <3>5, <3>6
  <2> QED BY <1>7, <2>1, <2>2, <2>3, <2>4
<1>11. ASSUME NEW x \in new PROVE x \in 0..narration.target
  <2>1. CASE x \in cuts
    BY <1>4, <2>1
  <2>2. ASSUME NEW f \in open, x \in In(f) PROVE x \in 0..narration.target
    <3>1. f + 1500 < x /\ x < To(f) - 1500 /\ x \in Int
      BY <1>6, <2>2
    <3>2. f \in 0..narration.target /\ To(f) \in 0..narration.target
      BY <1>4, <1>5
    <3> QED BY ONLY <1>1, <3>1, <3>2
  <2> QED BY <1>7, <2>1, <2>2
<1>12. new # {} => 0 \in new /\ narration.target \in new /\ Shortest < narration.target
  <2>1. new # {} => cuts # {}
    <3>1. \A from \in open : from \in cuts
      BY <1>5
    <3> QED BY <1>7, <3>1
  <2> QED BY <1>8, <2>1 DEF Spaced
<1>13. Spaced(new)
  BY <1>10, <1>11, <1>12 DEF Spaced, Shortest
<1> QED BY <1>3, <1>13

-----------------------------------------------------------------------------
(* The chunks                                                              *)

LEMMA CheapestIs ==
    ASSUME NEW S, IsFiniteSet(S), S # {}, NEW cost, \A x \in S : cost[x] \in Int
    PROVE  {x \in S : \A y \in S : cost[x] <= cost[y]} # {}
<1> DEFINE costs == {cost[x] : x \in S}
           f == [x \in S |-> cost[x]]
<1>1. f \in Surjection(S, costs) /\ costs \subseteq Int /\ costs # {}
  BY DEF Surjection
<1>2. IsFiniteSet(costs)
  BY <1>1, FS_Surjection
<1>3. \E m \in costs : \A y \in costs : m <= y
  <2> HIDE DEF costs
  <2> QED BY <1>1, <1>2, HasMin
<1> QED BY <1>3

(* A chunk ends on a later cut.                                             *)
LEMMA NextCutIs ==
    ASSUME narration.target \in Nat, NEW cuts, Spaced(cuts), NEW from \in cuts, NEW maxChunk,
           Following(cuts, from) # {}
    PROVE  NextCut(cuts, from, maxChunk) \in Following(cuts, from)
<1> DEFINE allowed(cut) == LET most == IF cut = Max(cuts) THEN 10000 ELSE 9000
                           IN  IF maxChunk = None THEN most ELSE Smaller(most, maxChunk)
           after == {cut \in cuts : cut - from > Shortest}
           over == {cut \in after : cut - from > allowed(cut)}
           tried == {cut \in after : \A c \in over : cut < c}
           Costs(cut) == Cost(cut - from, from = 0, cut = Max(cuts), narration.target - cut)
           cost == [cut \in tried |-> Costs(cut)]
           cheap == Least(tried, Costs)
<1>1. NextCut(cuts, from, maxChunk) =
          IF tried # {} THEN Min(cheap) ELSE IF over # {} THEN Min(over) ELSE Min(Following(cuts, from))
  BY DEF NextCut
<1>2. IsFiniteSet(cuts) /\ cuts \subseteq Int
  BY SpacedIs
<1>3. after \in SUBSET Following(cuts, from) /\ after \in SUBSET cuts
  <2>1. from \in Int /\ \A cut \in cuts : cut \in Int
    BY <1>2
  <2>2. \A cut \in cuts : cut - from > 80 => cut > from
    BY ONLY <2>1
  <2> QED BY <2>2 DEF Following, Shortest
<1>4. over \in SUBSET after /\ tried \in SUBSET after
  OBVIOUS
<1> HIDE DEF over, after
<1>6. \A cut \in tried : cost[cut] \in Int
  <2> SUFFICES ASSUME NEW cut \in tried PROVE Costs(cut) \in Int
    OBVIOUS
  <2>1. cut \in Int /\ from \in Int /\ narration.target \in Int
    BY <1>2, <1>3, <1>4
  <2> HIDE DEF tried
  <2> QED BY <2>1 DEF Cost, Shortest
<1> HIDE DEF tried
<1>13. \A x \in tried : cost[x] = Costs(x)
  OBVIOUS
<1>14. cheap = {x \in tried : \A y \in tried : Costs(x) <= Costs(y)}
  BY DEF Least
<1> HIDE DEF cost, cheap, Costs
<1>5. cheap = {x \in tried : \A y \in tried : cost[x] <= cost[y]}
  BY ONLY <1>13, <1>14
<1>7. tried \in SUBSET cuts /\ over \in SUBSET cuts /\ Following(cuts, from) \in SUBSET cuts
      /\ tried \subseteq Int /\ over \subseteq Int /\ Following(cuts, from) \subseteq Int
  BY <1>2, <1>3, <1>4 DEF Following
<1>8. IsFiniteSet(tried) /\ IsFiniteSet(over) /\ IsFiniteSet(Following(cuts, from))
  BY ONLY <1>2, <1>7, FS_Subset
<1>9. tried # {} => cheap # {} /\ cheap \in SUBSET tried /\ cheap \subseteq Int
  <2>1. tried # {} => {x \in tried : \A y \in tried : cost[x] <= cost[y]} # {}
    BY ONLY <1>6, <1>8, CheapestIs
  <2> QED BY <1>5, <1>7, <2>1
<1>10. tried # {} => Min(cheap) \in cheap
  <2> SUFFICES ASSUME tried # {} PROVE Min(cheap) \in cheap
    OBVIOUS
  <2>1. cheap # {} /\ cheap \in SUBSET tried /\ cheap \subseteq Int
    BY <1>9
  <2>2. IsFiniteSet(cheap)
    BY ONLY <1>8, <2>1, FS_Subset
  <2> QED BY ONLY <2>1, <2>2, HasMin
<1>11. over # {} => Min(over) \in over
  BY ONLY <1>7, <1>8, HasMin
<1>12. Min(Following(cuts, from)) \in Following(cuts, from)
  BY ONLY <1>7, <1>8, Following(cuts, from) # {}, HasMin
<1> QED BY ONLY <1>1, <1>3, <1>4, <1>9, <1>10, <1>11, <1>12

(* The ends of the chunks, from each cut on.                                *)
EndsOnwards(ends, cuts, maxChunk) ==
    /\ cuts # {} => ChunkEnds(cuts, maxChunk) = ends[0]
    /\ \A from \in cuts :
          ends[from] = {from} \cup (IF Following(cuts, from) = {} THEN {} ELSE ends[NextCut(cuts, from, maxChunk)])

LEMMA ChunkEndsOnwards ==
    ASSUME narration.target \in Nat, NEW cuts, Spaced(cuts), NEW maxChunk
    PROVE  \E ends : EndsOnwards(ends, cuts, maxChunk)
<1> DEFINE R == SUBSET cuts
           Open(from) == Following(cuts, from) # {}
           To(from) == NextCut(cuts, from, maxChunk)
           G == [p \in [cuts -> R] \X cuts |-> {p[2]} \cup (IF Open(p[2]) THEN p[1][To(p[2])] ELSE {})]
           rank == [from \in cuts |-> narration.target - from]
           Right(f) == f = [from \in cuts |->
                              {from} \cup IF Following(cuts, from) = {} THEN {} ELSE f[NextCut(cuts, from, maxChunk)]]
           ends == CHOOSE f : Right(f)
<1>1. \A x \in cuts : x \in 0..narration.target
  BY SpacedIs
<1>2. \A from \in cuts : rank[from] \in 0..narration.target
  BY <1>1
<1>3. ASSUME NEW from \in cuts, Open(from) PROVE To(from) \in cuts /\ rank[To(from)] < rank[from]
  <2>1. To(from) \in Following(cuts, from)
    BY <1>3, NextCutIs
  <2>2. To(from) \in cuts /\ To(from) > from
    BY <2>1 DEF Following
  <2>3. To(from) \in Int /\ from \in Int
    BY <1>1, <2>2
  <2> HIDE DEF To
  <2> QED BY <2>2, <2>3
<1>4. cuts # {} => ChunkEnds(cuts, maxChunk) = ends[0]
  BY DEF ChunkEnds
<1>5. \A f \in [cuts -> R] : f = [from \in cuts |-> f[from]]
  OBVIOUS
<1>6. \A f : Right(f) <=> f = [from \in cuts |-> {from} \cup (IF Open(from) THEN f[To(from)] ELSE {})]
  OBVIOUS
<1>7. R # {}
  <2>1. {} \in R
    OBVIOUS
  <2> QED BY <2>1
<1> HIDE DEF Open, To, rank, Right, ends
<1>8. \A f \in [cuts -> R], from \in cuts :
         G[<<f, from>>] = {from} \cup (IF Open(from) THEN f[To(from)] ELSE {})
  OBVIOUS
<1> HIDE DEF G
<1>9. ASSUME NEW f \in [cuts -> R], NEW from \in cuts PROVE G[<<f, from>>] \in R
  <2>1. CASE Open(from)
    <3>1. f[To(from)] \subseteq cuts
      BY <1>3, <2>1
    <3> QED BY <1>8, <2>1, <3>1
  <2>2. CASE ~Open(from)
    BY <1>8, <2>2
  <2> QED BY <2>1, <2>2
<1>10. ASSUME NEW f \in [cuts -> R], NEW g \in [cuts -> R], NEW from \in cuts,
              \A x \in cuts : rank[x] < rank[from] => f[x] = g[x]
       PROVE  G[<<f, from>>] = G[<<g, from>>]
  <2>1. Open(from) => f[To(from)] = g[To(from)]
    BY <1>3, <1>10
  <2> QED BY <1>8, <2>1
<1> HIDE DEF R
<1>11. PICK f \in [cuts -> R] : \A from \in cuts : f[from] = G[<<f, from>>]
  <2>1. Graded(cuts, R, narration.target, rank, G)
    BY ONLY <1>2, <1>7, <1>9, <1>10, narration.target \in Nat DEF Graded
  <2> QED BY ONLY <2>1, RecursiveByRank
<1>12. \A from \in cuts : f[from] = {from} \cup (IF Open(from) THEN f[To(from)] ELSE {})
  BY ONLY <1>8, <1>11
<1>13. Right(f)
  BY <1>5, <1>6, <1>12
<1>14. Right(ends)
  BY <1>13 DEF ends
<1>15. \A from \in cuts : ends[from] = {from} \cup (IF Open(from) THEN ends[To(from)] ELSE {})
  BY <1>6, <1>14
<1> QED BY <1>4, <1>15 DEF EndsOnwards, Open, To

LEMMA ChunkEndsSpaced ==
    ASSUME narration.target \in Nat, NEW cuts, Spaced(cuts), NEW maxChunk
    PROVE  Spaced(ChunkEnds(cuts, maxChunk))
<1>1. PICK ends : EndsOnwards(ends, cuts, maxChunk)
  BY ChunkEndsOnwards
<1> DEFINE rank == [from \in cuts |-> narration.target - from]
           To(from) == NextCut(cuts, from, maxChunk)
           Good(from) == ends[from] \subseteq cuts /\ from \in ends[from] /\ narration.target \in ends[from]
           P == {from \in cuts : Good(from)}
<1>2. \A from \in cuts :
          ends[from] = {from} \cup (IF Following(cuts, from) = {} THEN {} ELSE ends[To(from)])
  BY <1>1 DEF EndsOnwards
<1>3. \A x \in cuts : x \in 0..narration.target
  BY SpacedIs
<1>4. \A from \in cuts : rank[from] \in Nat
  BY <1>3
<1>5. ASSUME NEW from \in cuts, \A x \in cuts : rank[x] < rank[from] => x \in P PROVE from \in P
  <2>1. CASE Following(cuts, from) = {}
    <3>1. from = narration.target
      BY <2>1, FollowingIs
    <3>2. ends[from] = {from}
      BY <1>2, <2>1
    <3> QED BY <3>1, <3>2
  <2>2. CASE Following(cuts, from) # {}
    <3>1. To(from) \in Following(cuts, from)
      BY <2>2, NextCutIs
    <3>2. To(from) \in cuts /\ To(from) > from
      BY <3>1 DEF Following
    <3> HIDE DEF To
    <3>3. rank[To(from)] < rank[from]
      BY <1>3, <3>2
    <3>4. Good(To(from))
      BY <1>5, <3>2, <3>3
    <3>5. ends[from] = {from} \cup ends[To(from)]
      BY <1>2, <2>2
    <3> QED BY <3>4, <3>5
  <2> QED BY <2>1, <2>2
<1>6. \A from \in P : Good(from)
  OBVIOUS
<1> HIDE DEF rank, P
<1>7. \A from \in cuts : from \in P
  BY ONLY <1>4, <1>5, RankInduction
<1>8. CASE cuts = {}
  BY <1>8 DEF ChunkEnds, Spaced
<1>9. CASE cuts # {}
  <2>1. 0 \in cuts /\ Shortest < narration.target
    BY <1>9 DEF Spaced
  <2>2. ChunkEnds(cuts, maxChunk) = ends[0]
    BY <1>1, <1>9 DEF EndsOnwards
  <2>3. Good(0)
    BY <1>6, <1>7, <2>1
  <2> QED BY <2>1, <2>2, <2>3 DEF Spaced
<1> QED BY <1>8, <1>9

LEMMA MergeTailSpaced ==
    ASSUME narration.target \in Nat, NEW cuts, Spaced(cuts), NEW maxChunk
    PROVE  Spaced(MergeTail(cuts, maxChunk))
<1> DEFINE end == Max(cuts)
           last == Max(cuts \ {end})
<1> DEFINE start == Max(cuts \ {end, last})
           joins == Cardinality(cuts) > 2 /\ end - last < 3000 /\ (maxChunk # None => end - start <= maxChunk)
<1>1. MergeTail(cuts, maxChunk) = IF joins THEN cuts \ {last} ELSE cuts
  BY DEF MergeTail
<1>2. IsFiniteSet(cuts) /\ cuts \subseteq Int /\ (\A x \in cuts : x \in 0..narration.target)
      /\ (cuts # {} => end = narration.target)
  BY SpacedIs
<1> HIDE DEF end
<1>3. ASSUME Cardinality(cuts) > 2 PROVE Spaced(cuts \ {last})
  <2>1. cuts # {}
    BY <1>3, FS_EmptySet
  <2>2. end = narration.target /\ 0 \in cuts /\ narration.target \in cuts /\ Shortest < narration.target
    BY <1>2, <2>1 DEF Spaced
  <2>3. IsFiniteSet(cuts \ {end}) /\ Cardinality(cuts \ {end}) = Cardinality(cuts) - 1
    BY <1>2, <2>2, FS_RemoveElement
  <2>4. Cardinality(cuts) \in Nat
    BY <1>2, FS_CardinalityType
  <2>5. 0 \in cuts \ {end}
    BY <2>2 DEF Shortest
  <2>6. \E x \in cuts \ {end} : x # 0
    <3>1. Cardinality((cuts \ {end}) \ {0}) = Cardinality(cuts) - 2
      BY <2>3, <2>4, <2>5, FS_RemoveElement
    <3>2. Cardinality({}) = 0
      BY FS_EmptySet
    <3>3. (cuts \ {end}) \ {0} # {}
      BY ONLY <1>3, <2>4, <3>1, <3>2
    <3> QED BY <3>3
  <2>7. last \in cuts \ {end} /\ \A y \in cuts \ {end} : last >= y
    <3> DEFINE S == cuts \ {end}
    <3>1. S \subseteq Int /\ S # {} /\ IsFiniteSet(S)
      BY <1>2, <2>3, <2>5
    <3> HIDE DEF S
    <3>2. Max(S) \in S /\ \A y \in S : Max(S) >= y
      BY ONLY <3>1, HasMax
    <3> QED BY <3>2 DEF S
  <2> HIDE DEF last
  <2>8. last # 0
    <3>1. PICK x \in cuts \ {end} : x # 0
      BY <2>6
    <3>2. x \in 0..narration.target /\ last >= x
      BY <1>2, <2>7, <3>1
    <3> QED BY <3>1, <3>2
  <2> QED BY <2>2, <2>7, <2>8 DEF Spaced
<1>4. joins => Cardinality(cuts) > 2
  OBVIOUS
<1> HIDE DEF joins, last
<1> QED BY <1>1, <1>3, <1>4

-----------------------------------------------------------------------------
(* The variants                                                            *)

(* A variant has no cuts, or those of a list in their order.                *)
CutList(cuts) ==
    /\ Len(cuts) \in Nat /\ cuts \in [1..Len(cuts) -> 0..narration.target]
    /\ Len(cuts) > 0 => Len(cuts) > 1 /\ cuts[1] = 0 /\ cuts[Len(cuts)] = narration.target
    /\ \A k \in 1..(Len(cuts) - 1) : cuts[k] + Shortest < cuts[k + 1]

LEMMA RisingAll ==
    ASSUME NEW S, IsFiniteSet(S), S \subseteq Int
    PROVE  /\ Cardinality(S) \in Nat /\ Len(Rising(S)) = Cardinality(S)
           /\ Rising(S) \in [1..Cardinality(S) -> S]
           /\ \A j, k \in 1..Cardinality(S) : j < k => Rising(S)[j] < Rising(S)[k]
           /\ \A x \in S : \E k \in 1..Cardinality(S) : Rising(S)[k] = x
<1> DEFINE order == {pair \in S \X S : pair[1] <= pair[2]}
           s == Rising(S)
           n == Cardinality(S)
<1>1. /\ DOMAIN s = 1..n /\ n \in Nat
      /\ \A k \in 1..n : s[k] \in S
      /\ \A j, k \in 1..n : j < k => s[j] < s[k]
  BY RisingIs
<1>2. \A x, y \in S : <<x, y>> \in order <=> x <= y
  OBVIOUS
<1>3. s = Sorted(S, order)
  BY DEF Rising
<1>4. \A x \in S : x \in Int
  OBVIOUS
<1> HIDE DEF order
<1>5. /\ \A x \in S : <<x, x>> \in order
      /\ \A x, y \in S : <<x, y>> \in order \/ <<y, x>> \in order
      /\ \A x, y \in S : <<x, y>> \in order /\ <<y, x>> \in order => x = y
      /\ \A x, y, z \in S : <<x, y>> \in order /\ <<y, z>> \in order => <<x, z>> \in order
  BY <1>2, <1>4
<1>6. \A x \in S : \E k \in 1..n : Sorted(S, order)[k] = x
  BY <1>5, SortedIs
<1>7. s = [k \in 1..n |-> s[k]]
  BY <1>1, <1>3 DEF Sorted
<1> HIDE DEF n
<1>8. Sorted(S, order) = s
  BY <1>3
<1> HIDE DEF s
<1>9. s \in [1..n -> S] /\ s \in Seq(S)
  BY ONLY <1>1, <1>7
<1>10. Len(s) = n
  BY <1>1, <1>9
<1> QED BY <1>1, <1>6, <1>8, <1>9, <1>10 DEF s, n

LEMMA RisingIsList ==
    ASSUME narration.target \in Nat, NEW cuts, Spaced(cuts)
    PROVE  CutList(Rising(cuts))
<1> DEFINE s == Rising(cuts)
           n == Cardinality(cuts)
<1>1. IsFiniteSet(cuts) /\ cuts \subseteq Int /\ \A x \in cuts : x \in 0..narration.target
  BY SpacedIs
<1>2. /\ n \in Nat /\ Len(s) = n /\ s \in [1..n -> cuts]
      /\ \A j, k \in 1..n : j < k => s[j] < s[k]
      /\ \A x \in cuts : \E k \in 1..n : s[k] = x
  BY <1>1, RisingAll
<1> HIDE DEF s, n
<1>3. s \in [1..n -> 0..narration.target]
  BY <1>1, <1>2
<1>4. \A k \in 1..(n - 1) : s[k] + 80 < s[k + 1]
  <2> SUFFICES ASSUME NEW k \in 1..(n - 1) PROVE s[k] + 80 < s[k + 1]
    OBVIOUS
  <2>1. k \in 1..n /\ k + 1 \in 1..n /\ k < k + 1
    BY <1>2
  <2>2. s[k] \in cuts /\ s[k + 1] \in cuts /\ s[k] < s[k + 1]
    BY <1>2, <2>1
  <2> QED BY <2>2 DEF Spaced, Shortest
<1>5. ASSUME n > 0 PROVE n > 1 /\ s[1] = 0 /\ s[n] = narration.target
  <2>1. 1 \in 1..n /\ n \in 1..n
    BY <1>2, <1>5
  <2>2. 0 \in cuts /\ narration.target \in cuts /\ 0 # narration.target
    BY <1>2, <2>1 DEF Spaced, Shortest
  <2>3. PICK j \in 1..n : s[j] = 0
    BY <1>2, <2>2
  <2>4. PICK k \in 1..n : s[k] = narration.target
    BY <1>2, <2>2
  <2>5. j = 1
    <3>1. 1 < j => s[1] < s[j]
      BY <1>2, <2>1
    <3>2. s[1] \in 0..narration.target
      BY <1>3, <2>1
    <3> QED BY <2>3, <3>1, <3>2
  <2>6. k = n
    <3>1. k < n => s[k] < s[n]
      BY <1>2, <2>1
    <3>2. s[n] \in 0..narration.target
      BY <1>3, <2>1
    <3> QED BY <1>2, <2>4, <3>1, <3>2
  <2> QED BY <1>2, <1>5, <2>2, <2>3, <2>4, <2>5, <2>6
<1> QED BY <1>2, <1>3, <1>4, <1>5 DEF CutList, s, Shortest

(* Caps that are far apart, from each one down.                             *)
CapsOnwards(rest, caps) ==
    /\ caps # {} => FarApart(caps) = rest[Max(caps)]
    /\ \A top \in caps :
          rest[top] = <<top>> \o (IF {c \in caps : top - c >= 250} = {} THEN <<>>
                                  ELSE rest[Max({c \in caps : top - c >= 250})])

LEMMA LowerCap ==
    ASSUME NEW caps, caps \subseteq Int, IsFiniteSet(caps), NEW top \in caps,
           {c \in caps : top - c >= 250} # {}
    PROVE  /\ Max({c \in caps : top - c >= 250}) \in caps
           /\ Max({c \in caps : top - c >= 250}) < top
<1> DEFINE S == {c \in caps : top - c >= 250}
<1>1. top \in Int /\ \A c \in caps : c \in Int
  OBVIOUS
<1>2. S \subseteq Int /\ S \subseteq caps /\ S # {} /\ \A c \in S : c < top
  <2>1. S \subseteq Int
    OBVIOUS
  <2>2. S \subseteq caps
    OBVIOUS
  <2>3. \A c \in S : c < top
    OBVIOUS
  <2> QED BY <2>1, <2>2, <2>3
<1> HIDE DEF S
<1>3. IsFiniteSet(S)
  BY <1>2, FS_Subset
<1>4. Max(S) \in S
  BY ONLY <1>2, <1>3, HasMax
<1>5. Max(S) \in caps /\ Max(S) < top
  BY <1>2, <1>4
<1> QED BY <1>5 DEF S

LEMMA CapsRecursion ==
    ASSUME NEW caps, caps \subseteq Int, IsFiniteSet(caps)
    PROVE  \E rest : CapsOnwards(rest, caps)
<1> DEFINE R == Seq(Int)
           S(top) == {c \in caps : top - c >= 250}
           Open(top) == S(top) # {}
           To(top) == Max(S(top))
           G == [p \in [caps -> R] \X caps |-> <<p[2]>> \o (IF Open(p[2]) THEN p[1][To(p[2])] ELSE <<>>)]
           low == Min(caps)
           rank == [top \in caps |-> top - low]
           N == IF caps = {} THEN 0 ELSE Max(caps) - low
           Right(f) == f = [top \in caps |->
                              <<top>> \o IF S(top) = {} THEN <<>> ELSE f[Max(S(top))]]
           rest == CHOOSE f : Right(f)
<1>1. \A x \in caps : x \in Int
  OBVIOUS
<1>2a. ASSUME caps # {} PROVE low \in caps /\ \A x \in caps : low <= x
  BY ONLY <1>1, <1>2a, caps \subseteq Int, IsFiniteSet(caps), HasMin
<1>2. N \in Nat /\ \A top \in caps : rank[top] \in 0..N
  <2>1. CASE caps = {}
    BY <2>1
  <2>2. CASE caps # {}
    <3>1. low \in caps /\ \A x \in caps : low <= x
      BY <1>2a, <2>2
    <3>2. Max(caps) \in caps /\ \A x \in caps : Max(caps) >= x
      BY ONLY <1>1, <2>2, caps \subseteq Int, IsFiniteSet(caps), HasMax
    <3> DEFINE high == Max(caps)
    <3>3. N = high - low /\ \A top \in caps : rank[top] = top - low
      BY <2>2
    <3>4. high \in caps /\ \A x \in caps : high >= x
      BY <3>2
    <3> HIDE DEF low, high, rank, N
    <3> QED BY ONLY <1>1, <3>1, <3>3, <3>4
  <2> QED BY <2>1, <2>2
<1>3. ASSUME NEW top \in caps, Open(top) PROVE To(top) \in caps /\ rank[To(top)] < rank[top]
  <2>1. To(top) \in caps /\ To(top) < top
    BY <1>3, LowerCap
  <2>2. low \in Int
    BY <1>2a, <1>3
  <2> HIDE DEF To, low
  <2>3. top \in Int /\ To(top) \in Int
    BY <1>1, <2>1
  <2>4. rank[top] = top - low /\ rank[To(top)] = To(top) - low
    BY <2>1
  <2> HIDE DEF rank
  <2> QED BY ONLY <2>1, <2>2, <2>3, <2>4
<1>4. caps # {} => FarApart(caps) = rest[Max(caps)]
  BY DEF FarApart
<1>5. \A f \in [caps -> R] : f = [top \in caps |-> f[top]]
  OBVIOUS
<1>6. \A f : Right(f) <=> f = [top \in caps |-> <<top>> \o (IF Open(top) THEN f[To(top)] ELSE <<>>)]
  <2>1. \A f, top : (IF S(top) = {} THEN <<>> ELSE f[Max(S(top))]) = (IF Open(top) THEN f[To(top)] ELSE <<>>)
    OBVIOUS
  <2> QED BY <2>1, Zenon
<1>7. R # {}
  <2>1. <<>> \in R
    OBVIOUS
  <2> QED BY <2>1
<1> HIDE DEF S, Open, To, rank, Right, rest, N, low
<1>8. \A f \in [caps -> R], top \in caps :
         G[<<f, top>>] = <<top>> \o (IF Open(top) THEN f[To(top)] ELSE <<>>)
  OBVIOUS
<1> HIDE DEF G
<1>9. ASSUME NEW f \in [caps -> R], NEW top \in caps PROVE G[<<f, top>>] \in R
  <2>1. <<top>> \in R
    BY <1>1
  <2>2. CASE Open(top)
    <3>1. f[To(top)] \in R
      BY <1>3, <2>2
    <3>2. G[<<f, top>>] = <<top>> \o f[To(top)]
      BY <1>8, <2>2
    <3> QED BY ONLY <2>1, <3>1, <3>2 DEF R
  <2>3. CASE ~Open(top)
    <3>1. G[<<f, top>>] = <<top>> \o <<>>
      BY <1>8, <2>3
    <3> QED BY ONLY <2>1, <3>1 DEF R
  <2> QED BY <2>2, <2>3
<1>10. ASSUME NEW f \in [caps -> R], NEW g \in [caps -> R], NEW top \in caps,
              \A x \in caps : rank[x] < rank[top] => f[x] = g[x]
       PROVE  G[<<f, top>>] = G[<<g, top>>]
  <2>1. Open(top) => f[To(top)] = g[To(top)]
    BY <1>3, <1>10
  <2> QED BY <1>8, <2>1
<1> HIDE DEF R
<1>11. PICK f \in [caps -> R] : \A top \in caps : f[top] = G[<<f, top>>]
  <2>1. Graded(caps, R, N, rank, G)
    BY ONLY <1>2, <1>7, <1>9, <1>10 DEF Graded
  <2> QED BY ONLY <2>1, RecursiveByRank
<1>12. \A top \in caps : f[top] = <<top>> \o (IF Open(top) THEN f[To(top)] ELSE <<>>)
  BY ONLY <1>8, <1>11
<1>13. Right(f)
  BY <1>5, <1>6, <1>12
<1>14. Right(rest)
  BY <1>13 DEF rest
<1>15. \A top \in caps : rest[top] = <<top>> \o (IF Open(top) THEN rest[To(top)] ELSE <<>>)
  BY <1>6, <1>14
<1> QED BY <1>4, <1>15, Zenon DEF CapsOnwards, Open, To, S

LEMMA FarApartIs ==
    ASSUME NEW caps, caps \subseteq Int, IsFiniteSet(caps)
    PROVE  FarApart(caps) \in Seq(Int)
<1>1. PICK rest : CapsOnwards(rest, caps)
  BY CapsRecursion
<1> DEFINE S(top) == {c \in caps : top - c >= 250}
           low == Min(caps)
           rank == [top \in caps |-> top - low]
           P == {top \in caps : rest[top] \in Seq(Int)}
<1>2a. ASSUME caps # {} PROVE low \in caps /\ \A x \in caps : low <= x
  BY ONLY <1>2a, caps \subseteq Int, IsFiniteSet(caps), HasMin
<1> HIDE DEF low
<1>2. \A top \in caps : rank[top] \in Nat
  <2> SUFFICES ASSUME NEW top \in caps PROVE rank[top] \in Nat
    OBVIOUS
  <2>1. top \in Int /\ low \in Int /\ low <= top /\ rank[top] = top - low
    BY <1>2a
  <2> QED BY ONLY <2>1
<1>3. ASSUME NEW top \in caps, \A x \in caps : rank[x] < rank[top] => x \in P PROVE top \in P
  <2>1. <<top>> \in Seq(Int)
    OBVIOUS
  <2>2. ASSUME S(top) = {} PROVE rest[top] \in Seq(Int)
    <3>1. rest[top] = <<top>> \o <<>>
      BY <1>1, <2>2 DEF CapsOnwards
    <3> QED BY ONLY <2>1, <3>1
  <2>3. ASSUME S(top) # {} PROVE rest[top] \in Seq(Int)
    <3> DEFINE to == Max(S(top))
    <3>1. to \in caps /\ to < top
      BY <2>3, LowerCap
    <3>2. rest[top] = <<top>> \o rest[to]
      BY <1>1, <2>3 DEF CapsOnwards
    <3> HIDE DEF to
    <3>3. rank[to] < rank[top]
      <4>1. top \in Int /\ to \in Int /\ low \in Int
        BY <1>2a, <3>1
      <4>2. rank[top] = top - low /\ rank[to] = to - low
        BY <3>1
      <4> QED BY ONLY <3>1, <4>1, <4>2
    <3>4. rest[to] \in Seq(Int)
      BY <1>3, <3>1, <3>3
    <3>5. rest[top] \in Seq(Int)
      BY ONLY <2>1, <3>2, <3>4
    <3> QED BY <3>5
  <2> QED BY <2>2, <2>3
<1>4. \A top \in P : rest[top] \in Seq(Int)
  OBVIOUS
<1> HIDE DEF rank, P
<1>5. \A top \in caps : top \in P
  BY ONLY <1>2, <1>3, RankInduction
<1>6. CASE caps = {}
  BY <1>6 DEF FarApart
<1>7. CASE caps # {}
  <2>2. caps \subseteq Int
    OBVIOUS
  <2>3. Max(caps) \in caps
    BY ONLY IsFiniteSet(caps), <1>7, <2>2, HasMax
  <2> QED BY <1>1, <1>4, <1>5, <1>7, <2>3 DEF CapsOnwards
<1> QED BY <1>6, <1>7

LEMMA CapsAre ==
    ASSUME NEW maxChunk \in Int
    PROVE  Caps(maxChunk) \in Seq(Int)
<1>1. ASSUME NEW lengths PROVE CapsFrom(lengths, maxChunk) \in Seq(Int)
  <2> DEFINE others == Range(lengths) \ {Max(Range(lengths))}
             raw == {Percentile(lengths, 7), Percentile(lengths, 5)} \cup
                    (IF others = {} THEN {} ELSE {Max(others)})
             caps == raw \cap (6000..(maxChunk - 50))
  <2>1. CapsFrom(lengths, maxChunk) = IF lengths = <<>> THEN <<>> ELSE FarApart(caps)
    BY DEF CapsFrom
  <2> HIDE DEF raw
  <2>2. caps \subseteq Int /\ IsFiniteSet(caps)
    <3>1. maxChunk - 50 \in Int /\ IsFiniteSet(6000..(maxChunk - 50))
      BY FS_Interval
    <3>2. caps \subseteq 6000..(maxChunk - 50)
      OBVIOUS
    <3> QED BY <3>1, <3>2, FS_Subset
  <2> HIDE DEF caps
  <2>3. FarApart(caps) \in Seq(Int)
    BY <2>2, FarApartIs
  <2> QED BY <2>1, <2>3
<1> QED BY <1>1 DEF Caps

(* Lists of cuts are what every tier of variants is made of.                *)
CutLists == {cuts \in Seq(Int) : CutList(cuts)}

LEMMA RisingInLists ==
    ASSUME narration.target \in Nat, NEW cuts, Spaced(cuts)
    PROVE  Rising(cuts) \in CutLists
<1>1. CutList(Rising(cuts))
  BY RisingIsList
<1> DEFINE s == Rising(cuts)
<1>2. Len(s) \in Nat /\ s \in [1..Len(s) -> 0..narration.target]
  BY <1>1 DEF CutList
<1>3. s \in Seq(Int)
  <2> HIDE DEF s
  <2> QED BY <1>2
<1> QED BY <1>1, <1>3 DEF CutLists

LEMMA ChunksSpaced ==
    ASSUME narration \in Narrations, NEW maxChunk \in Int
    PROVE  Spaced(Chunks(maxChunk))
<1>1. narration.target \in Nat /\ Spaced(Boundaries) /\ Fallbacks \in SUBSET Int
  BY CutConstants, BoundariesSpaced, CutsSound
<1>2. Spaced(Protected(maxChunk))
  BY <1>1, WithFallbacksSpaced DEF Protected
<1> QED BY <1>1, <1>2, ChunkEndsSpaced DEF Chunks

LEMMA TiersAre ==
    ASSUME narration \in Narrations, NEW maxChunk \in Int
    PROVE  Tiers(maxChunk) \in Seq(SUBSET CutLists)
<1> DEFINE caps == IF maxChunk = None THEN <<>> ELSE Caps(maxChunk)
<1>1. narration.target \in Nat
  BY CutConstants
<1>2. Free(Chunks(maxChunk), maxChunk) \in SUBSET CutLists
  <2>1. Spaced(Chunks(maxChunk)) /\ Spaced(MergeTail(Chunks(maxChunk), maxChunk))
    BY <1>1, ChunksSpaced, MergeTailSpaced
  <2>2. Rising(Chunks(maxChunk)) \in CutLists /\ Rising(MergeTail(Chunks(maxChunk), maxChunk)) \in CutLists
    BY <1>1, <2>1, RisingInLists
  <2> QED BY <2>2 DEF Free
<1>3. caps \in Seq(Int)
  BY CapsAre
<1> HIDE DEF caps
<1>4. ASSUME NEW k \in 1..Len(caps) PROVE Capped(caps)[k] \in SUBSET CutLists
  <2>1. caps[k] \in Int /\ k \in DOMAIN caps
    BY <1>3
  <2>2. Spaced(MergeTail(Chunks(caps[k]), caps[k]))
    BY <1>1, <2>1, ChunksSpaced, MergeTailSpaced
  <2>3. Rising(MergeTail(Chunks(caps[k]), caps[k])) \in CutLists
    BY <1>1, <2>2, RisingInLists
  <2>4. Capped(caps)[k] = Honouring(caps[k], Rising(MergeTail(Chunks(caps[k]), caps[k])))
    BY <2>1 DEF Capped
  <2> QED BY <2>3, <2>4 DEF Honouring
<1>5. Capped(caps) \in Seq(SUBSET CutLists)
  <2>1. DOMAIN caps = 1..Len(caps) /\ Len(caps) \in Nat
    BY <1>3
  <2>2. Capped(caps) = [k \in 1..Len(caps) |-> Capped(caps)[k]]
    BY <2>1 DEF Capped
  <2> QED BY <1>4, <2>1, <2>2
<1>6. Tiers(maxChunk) = <<Free(Chunks(maxChunk), maxChunk)>> \o Capped(caps)
  BY DEF Tiers, caps
<1> QED BY <1>2, <1>5, <1>6

-----------------------------------------------------------------------------
(* Windows for the chunks                                                  *)

PackWindow == [asset : Int, from : Int, to : Int, fresh : BOOLEAN, original : BOOLEAN]

(* Windows of different assets, long enough for the first of the lengths.   *)
Fitting(chosen, pool, lengths) ==
    /\ chosen \in Seq(Range(pool)) /\ Len(chosen) <= Len(lengths)
    /\ \A k \in 1..Len(chosen) : LengthOf(chosen[k]) + 1 >= lengths[k]
    /\ \A j, k \in 1..Len(chosen) : chosen[j].asset = chosen[k].asset => j = k

LEMMA FittingNone ==
    ASSUME NEW pool, NEW lengths \in Seq(Int)
    PROVE  Fitting(<<>>, pool, lengths) /\ Len(<<>>) = 0
<1>1. <<>> \in Seq(Range(pool)) /\ Len(<<>>) = 0 /\ Len(lengths) \in Nat
  OBVIOUS
<1>2. 1..Len(<<>>) = {}
  BY <1>1
<1> QED BY <1>1, <1>2 DEF Fitting

LEMMA FittingAppend ==
    ASSUME NEW pool, NEW lengths \in Seq(Int), NEW chosen, Fitting(chosen, pool, lengths),
           Len(chosen) < Len(lengths), NEW w \in Range(pool), NEW original,
           Covers(w, lengths[Len(chosen) + 1], chosen, original)
    PROVE  /\ Fitting(Append(chosen, w), pool, lengths)
           /\ Len(Append(chosen, w)) = Len(chosen) + 1
<1> DEFINE next == Append(chosen, w)
           m == Len(chosen)
<1>1. chosen \in Seq(Range(pool)) /\ m \in Nat /\ Len(lengths) \in Nat
  BY DEF Fitting
<1>2. next \in Seq(Range(pool)) /\ Len(next) = m + 1 /\ next[m + 1] = w
      /\ \A k \in 1..m : next[k] = chosen[k]
  BY <1>1
<1>3. LengthOf(w) + 1 >= lengths[m + 1] /\ \A k \in 1..m : chosen[k].asset # w.asset
  <2>1. DOMAIN chosen = 1..m
    BY <1>1
  <2> QED BY <2>1 DEF Covers
<1> HIDE DEF next, m
<1>4. \A k \in 1..(m + 1) : LengthOf(next[k]) + 1 >= lengths[k]
  <2> SUFFICES ASSUME NEW k \in 1..(m + 1) PROVE LengthOf(next[k]) + 1 >= lengths[k]
    OBVIOUS
  <2>1. CASE k = m + 1
    BY <1>2, <1>3, <2>1
  <2>2. CASE k # m + 1
    <3>1. k \in 1..m
      BY <1>1, <2>2
    <3> QED BY <1>2, <3>1 DEF Fitting, m
  <2> QED BY <2>1, <2>2
<1>5. \A j, k \in 1..(m + 1) : next[j].asset = next[k].asset => j = k
  <2> SUFFICES ASSUME NEW j \in 1..(m + 1), NEW k \in 1..(m + 1), next[j].asset = next[k].asset
               PROVE  j = k
    OBVIOUS
  <2>1. (j \in 1..m \/ j = m + 1) /\ (k \in 1..m \/ k = m + 1)
    BY <1>1
  <2>2. CASE j \in 1..m /\ k \in 1..m
    BY <1>2, <2>2 DEF Fitting, m
  <2>3. CASE j \in 1..m /\ k = m + 1
    BY <1>2, <1>3, <2>3
  <2>4. CASE j = m + 1 /\ k \in 1..m
    BY <1>2, <1>3, <2>4
  <2> QED BY <2>1, <2>2, <2>3, <2>4
<1>6. m + 1 <= Len(lengths)
  BY <1>1 DEF m
<1> QED BY <1>2, <1>4, <1>5, <1>6 DEF Fitting, next, m

(* The beams one chunk wider.                                               *)
Wider(beams, pool, duration, original) ==
    UNION {LET fit == NextChoices(beam, pool, duration, original)
           IN  kSubset(Smaller(BeamWidth, Cardinality(fit)), fit) : beam \in beams}

BeamsStepwise(beams, pool, lengths, original) ==
    /\ Beams(pool, lengths, original) = beams[Len(lengths)]
    /\ \A n \in 0..Len(lengths) :
          beams[n] = IF n = 0 THEN {{<<>>}} ELSE Wider(beams[n - 1], pool, lengths[n], original)

LEMMA WiderIs ==
    ASSUME NEW pool, NEW duration, NEW original, NEW beams, NEW wide \in Wider(beams, pool, duration, original)
    PROVE  \E beam \in beams : wide \subseteq NextChoices(beam, pool, duration, original)
BY DEF Wider, kSubset

LEMMA BeamsRecursion ==
    ASSUME NEW pool, NEW lengths \in Seq(Int), NEW original
    PROVE  \E beams : BeamsStepwise(beams, pool, lengths, original)
<1> DEFINE N == Len(lengths)
           D == 0..N
           R == SUBSET SUBSET Seq(Range(pool))
           G == [p \in [D -> R] \X D |-> IF p[2] = 0 THEN {{<<>>}}
                                         ELSE Wider(p[1][p[2] - 1], pool, lengths[p[2]], original)]
           rank == [k \in D |-> k]
           Right(f) == f = [n \in 0..Len(lengths) |->
                              IF n = 0 THEN {{<<>>}} ELSE Wider(f[n - 1], pool, lengths[n], original)]
           beams == CHOOSE f : Right(f)
<1>0. N \in Nat
  OBVIOUS
<1>1. ASSUME NEW prev \in R, NEW duration PROVE Wider(prev, pool, duration, original) \in R
  <2> SUFFICES ASSUME NEW wide \in Wider(prev, pool, duration, original), NEW chosen \in wide
               PROVE  chosen \in Seq(Range(pool))
    OBVIOUS
  <2>1. PICK beam \in prev : wide \subseteq NextChoices(beam, pool, duration, original)
    BY WiderIs
  <2>2. PICK next \in beam \X Range(pool) : chosen = Append(next[1], next[2])
    BY <2>1 DEF NextChoices
  <2>3. next[1] \in Seq(Range(pool)) /\ next[2] \in Range(pool)
    BY <2>2
  <2> QED BY <2>2, <2>3
<1>2. \A f \in [D -> R], k \in D :
         /\ G[<<f, k>>] = IF k = 0 THEN {{<<>>}} ELSE Wider(f[k - 1], pool, lengths[k], original)
         /\ G[<<f, k>>] \in R
  <2> SUFFICES ASSUME NEW f \in [D -> R], NEW k \in D
               PROVE  /\ G[<<f, k>>] = IF k = 0 THEN {{<<>>}} ELSE Wider(f[k - 1], pool, lengths[k], original)
                      /\ G[<<f, k>>] \in R
    OBVIOUS
  <2>1. G[<<f, k>>] = IF k = 0 THEN {{<<>>}} ELSE Wider(f[k - 1], pool, lengths[k], original)
    OBVIOUS
  <2>2. CASE k = 0
    <3>1. {{<<>>}} \in R
      OBVIOUS
    <3> QED BY <2>1, <2>2, <3>1
  <2>3. CASE k # 0
    <3>1. k - 1 \in D
      BY <2>3
    <3> HIDE DEF D, R
    <3>2. f[k - 1] \in R
      BY <3>1
    <3>3. Wider(f[k - 1], pool, lengths[k], original) \in R
      BY <1>1, <3>2
    <3> HIDE DEF G
    <3> QED BY <2>1, <2>3, <3>3
  <2> QED BY <2>1, <2>2, <2>3
<1>3. \A k \in D : rank[k] \in 0..N /\ (k # 0 => k - 1 \in D /\ rank[k - 1] < rank[k])
  OBVIOUS
<1>4. R # {}
  OBVIOUS
<1>5. Beams(pool, lengths, original) = beams[N]
  BY DEF Beams, Wider
<1>6. \A f \in [D -> R] : f = [k \in D |-> f[k]]
  OBVIOUS
<1> HIDE DEF G, R, rank, beams
<1>7. \A f, g \in [D -> R], k \in D :
         (\A j \in D : rank[j] < rank[k] => f[j] = g[j]) => G[<<f, k>>] = G[<<g, k>>]
  <2> SUFFICES ASSUME NEW f \in [D -> R], NEW g \in [D -> R], NEW k \in D,
                      \A j \in D : rank[j] < rank[k] => f[j] = g[j]
               PROVE  G[<<f, k>>] = G[<<g, k>>]
    OBVIOUS
  <2> HIDE DEF D
  <2>1. k # 0 => f[k - 1] = g[k - 1]
    BY <1>3
  <2> QED BY <1>2, <2>1
<1>8. PICK f \in [D -> R] : \A k \in D : f[k] = G[<<f, k>>]
  <2> HIDE DEF D, N
  <2>1. Graded(D, R, N, rank, G)
    BY ONLY <1>0, <1>2, <1>3, <1>4, <1>7 DEF Graded
  <2> QED BY ONLY <2>1, RecursiveByRank
<1>9. \A k \in D : f[k] = IF k = 0 THEN {{<<>>}} ELSE Wider(f[k - 1], pool, lengths[k], original)
  <2> HIDE DEF D
  <2> QED BY ONLY <1>2, <1>8
<1>10. Right(f)
  BY <1>6, <1>9
<1>11. Right(beams)
  BY <1>10 DEF beams
<1>12. \A n \in 0..N : beams[n] = IF n = 0 THEN {{<<>>}} ELSE Wider(beams[n - 1], pool, lengths[n], original)
  BY <1>11
<1> QED BY <1>5, <1>12 DEF BeamsStepwise

(* Whatever a beam keeps covers every chunk.                                *)
LEMMA BeamsFit ==
    ASSUME NEW pool, NEW lengths \in Seq(Int), NEW original,
           NEW beam \in Beams(pool, lengths, original), NEW chosen \in beam
    PROVE  Fitting(chosen, pool, lengths) /\ Len(chosen) = Len(lengths)
<1> DEFINE N == Len(lengths)
           Good(c, n) == Fitting(c, pool, lengths) /\ Len(c) = n
<1>0. N \in Nat
  OBVIOUS
<1>1. PICK beams : BeamsStepwise(beams, pool, lengths, original)
  BY BeamsRecursion
<1> DEFINE rank == [n \in 0..N |-> n]
           P == {n \in 0..N : \A b \in beams[n] : \A c \in b : Good(c, n)}
<1>2. \A n \in 0..N : rank[n] = n /\ rank[n] \in Nat
  OBVIOUS
<1>3. ASSUME NEW n \in 0..N, \A k \in 0..N : rank[k] < rank[n] => k \in P PROVE n \in P
  <2>1. ASSUME n = 0, NEW b \in beams[n], NEW c \in b PROVE Good(c, n)
    <3>1. beams[0] = {{<<>>}}
      BY <1>1, <2>1 DEF BeamsStepwise
    <3>2. c = <<>>
      BY <2>1, <3>1
    <3> QED BY <2>1, <3>2, FittingNone
  <2>2. ASSUME n # 0, NEW b \in beams[n], NEW c \in b PROVE Good(c, n)
    <3>1. beams[n] = Wider(beams[n - 1], pool, lengths[n], original)
      BY <1>1, <2>2 DEF BeamsStepwise
    <3>2. PICK before \in beams[n - 1] : b \subseteq NextChoices(before, pool, lengths[n], original)
      BY <2>2, <3>1, WiderIs
    <3>3. PICK next \in before \X Range(pool) :
             Covers(next[2], lengths[n], next[1], original) /\ c = Append(next[1], next[2])
      BY <2>2, <3>2 DEF NextChoices
    <3>4. n - 1 \in P
      BY <1>2, <1>3, <2>2
    <3>5. next[1] \in before /\ next[2] \in Range(pool)
      BY <3>3
    <3>6. Good(next[1], n - 1)
      BY <3>2, <3>4, <3>5
    <3>7. Len(next[1]) < Len(lengths) /\ Len(next[1]) + 1 = n
      BY <1>0, <2>2, <3>6
    <3>8. Covers(next[2], lengths[Len(next[1]) + 1], next[1], original)
      BY <3>3, <3>7
    <3> QED BY <3>3, <3>5, <3>6, <3>7, <3>8, FittingAppend
  <2> QED BY <2>1, <2>2
<1>4. \A n \in P : \A b \in beams[n] : \A c \in b : Good(c, n)
  OBVIOUS
<1>5. N \in 0..N
  BY <1>0
<1> HIDE DEF rank, P, N
<1>6. \A n \in 0..N : n \in P
  <2> DEFINE D == 0..N
  <2>1. \A n \in D : rank[n] \in Nat
    BY ONLY <1>2
  <2>2. \A n \in D : (\A k \in D : rank[k] < rank[n] => k \in P) => n \in P
    BY ONLY <1>3
  <2> HIDE DEF D
  <2>3. \A n \in D : n \in P
    BY ONLY <2>1, <2>2, RankInduction
  <2> QED BY ONLY <2>3 DEF D
<1>7. beam \in beams[N]
  BY <1>1 DEF BeamsStepwise, N
<1> QED BY <1>4, <1>5, <1>6, <1>7 DEF N

(* Windows for all lengths that begin with those that are chosen.           *)
Completing(full, chosen, pool, lengths) ==
    /\ Fitting(full, pool, lengths) /\ Len(full) = Len(lengths)
    /\ Len(chosen) <= Len(full)
    /\ \A k \in 1..Len(chosen) : full[k] = chosen[k]

Completable(chosen, pool, lengths) == \E full : Completing(full, chosen, pool, lengths)

(* What a node says of the windows that led to it is all that the rest of   *)
(* the search depends on: the depth and the assets.                         *)
LEMMA SameNode ==
    ASSUME NEW pool, NEW lengths \in Seq(Int),
           NEW chosen, Fitting(chosen, pool, lengths), NEW other, Fitting(other, pool, lengths),
           Node(chosen, lengths) = Node(other, lengths), Completable(chosen, pool, lengths)
    PROVE  Completable(other, pool, lengths)
<1> DEFINE m == Len(chosen)
           n == Len(lengths)
<1>1. PICK full : Completing(full, chosen, pool, lengths)
  BY DEF Completable
<1> DEFINE whole == [k \in 1..n |-> IF k <= m THEN other[k] ELSE full[k]]
<1>2. /\ n \in Nat /\ m \in Nat /\ m <= n
      /\ chosen \in Seq(Range(pool)) /\ other \in Seq(Range(pool)) /\ full \in Seq(Range(pool))
      /\ Len(full) = n
  BY <1>1 DEF Fitting, Completing
<1>3. Len(other) = m
  BY DEF Node
<1>4. \A j \in 1..m : \E i \in 1..m : other[j] = full[i]
  <2> SUFFICES ASSUME NEW j \in 1..m PROVE \E i \in 1..m : other[j] = full[i]
    OBVIOUS
  <2> DEFINE Of(c) == {<<c[k], lengths[k]>> : k \in DOMAIN c}
  <2>1. Of(chosen) = Of(other)
    BY DEF Node
  <2>2. DOMAIN chosen = 1..m /\ DOMAIN other = 1..m
    BY <1>2, <1>3
  <2>3. <<other[j], lengths[j]>> \in Of(other)
    BY <2>2
  <2>4. PICK i \in 1..m : <<other[j], lengths[j]>> = <<chosen[i], lengths[i]>>
    BY <2>1, <2>2, <2>3
  <2>5. full[i] = chosen[i]
    BY <1>1 DEF Completing
  <2> QED BY <2>4, <2>5
<1>5. \A k \in 1..m : other[k] \in Range(pool)
  BY <1>2, <1>3
<1>6. \A k \in 1..n : full[k] \in Range(pool)
  BY <1>2
<1> HIDE DEF n, m
<1>7. /\ whole \in Seq(Range(pool)) /\ Len(whole) = n
      /\ \A k \in 1..n : whole[k] = IF k <= m THEN other[k] ELSE full[k]
  <2>1. whole \in [1..n -> Range(pool)]
    BY <1>2, <1>5, <1>6
  <2>2. \A k \in 1..n : whole[k] = IF k <= m THEN other[k] ELSE full[k]
    OBVIOUS
  <2> HIDE DEF whole
  <2>3. whole \in Seq(Range(pool)) /\ Len(whole) = n
    BY <1>2, <2>1
  <2> QED BY <2>2, <2>3
<1> HIDE DEF whole
<1>8. ASSUME NEW k \in 1..n PROVE LengthOf(whole[k]) + 1 >= lengths[k]
  <2>1. CASE k <= m
    <3>1. k \in 1..Len(other) /\ whole[k] = other[k]
      BY <1>2, <1>3, <1>7, <2>1
    <3> QED BY <3>1 DEF Fitting
  <2>2. CASE ~(k <= m)
    <3>1. k \in 1..Len(full) /\ whole[k] = full[k]
      BY <1>2, <1>7, <2>2
    <3> QED BY <1>1, <3>1 DEF Fitting, Completing
  <2> QED BY <2>1, <2>2
<1>9. ASSUME NEW j \in 1..n, NEW k \in 1..n, j < k, whole[j].asset = whole[k].asset PROVE FALSE
  <2>1. CASE k <= m
    <3>1. j \in 1..Len(other) /\ k \in 1..Len(other) /\ whole[k] = other[k] /\ whole[j] = other[j]
      BY <1>2, <1>3, <1>7, <1>9, <2>1
    <3> QED BY <1>9, <3>1 DEF Fitting
  <2>2. CASE j <= m /\ ~(k <= m)
    <3>0. j \in 1..m
      BY <1>2, <2>2
    <3>1. PICK i \in 1..m : other[j] = full[i]
      BY ONLY <1>4, <3>0
    <3>2. whole[j] = full[i] /\ whole[k] = full[k] /\ i \in 1..Len(full) /\ k \in 1..Len(full) /\ i # k
      BY <1>2, <1>7, <2>2, <3>1
    <3> QED BY <1>1, <1>9, <3>2 DEF Fitting, Completing
  <2>3. CASE ~(j <= m)
    <3>1. j \in 1..Len(full) /\ k \in 1..Len(full) /\ whole[k] = full[k] /\ whole[j] = full[j]
      BY <1>2, <1>7, <1>9, <2>3
    <3> QED BY <1>1, <1>9, <3>1 DEF Fitting, Completing
  <2> QED BY <2>1, <2>2, <2>3
<1>10. \A j, k \in 1..n : whole[j].asset = whole[k].asset => j = k
  <2> SUFFICES ASSUME NEW j \in 1..n, NEW k \in 1..n, whole[j].asset = whole[k].asset PROVE j = k
    OBVIOUS
  <2>1. ~(j < k) /\ ~(k < j)
    BY <1>9
  <2> QED BY <1>2, <2>1
<1>11. Fitting(whole, pool, lengths)
  BY <1>2, <1>7, <1>8, <1>10 DEF Fitting, n
<1>12. \A k \in 1..m : whole[k] = other[k]
  BY <1>2, <1>7
<1>13. Completing(whole, other, pool, lengths)
  BY <1>2, <1>3, <1>7, <1>11, <1>12 DEF Completing, n
<1> QED BY <1>13 DEF Completable

(* The longest chunk that is left fits some window that is left.            *)
LEMMA HardestIs ==
    ASSUME NEW pool, NEW lengths \in Seq(Int), NEW chosen, Fitting(chosen, pool, lengths),
           Len(chosen) < Len(lengths), Completable(chosen, pool, lengths)
    PROVE  HardestFits(pool, lengths, chosen)
<1> DEFINE m == Len(chosen)
           n == Len(lengths)
           left == {lengths[k] : k \in (m + 1)..n}
<1>1. PICK full : Completing(full, chosen, pool, lengths)
  BY DEF Completable
<1>2. /\ n \in Nat /\ m \in Nat /\ m < n
      /\ chosen \in Seq(Range(pool)) /\ full \in Seq(Range(pool)) /\ Len(full) = n
  BY <1>1 DEF Fitting, Completing
<1>3. IsFiniteSet(left)
  <2>1. IsFiniteSet((m + 1)..n)
    BY <1>2, FS_Interval
  <2> DEFINE f == [k \in (m + 1)..n |-> lengths[k]]
  <2>2. f \in Surjection((m + 1)..n, left)
    BY DEF Surjection
  <2> HIDE DEF f, left
  <2> QED BY ONLY <2>1, <2>2, FS_Surjection
<1>4. left \subseteq Int /\ lengths[n] \in left
  <2>1. \A k \in 1..n : lengths[k] \in Int
    OBVIOUS
  <2>2. n \in (m + 1)..n /\ \A k \in (m + 1)..n : k \in 1..n
    BY <1>2
  <2> HIDE DEF m, n
  <2> QED BY <2>1, <2>2
<1>5. \A x \in left : \E k \in (m + 1)..n : x = lengths[k]
  OBVIOUS
<1>6. HardestFits(pool, lengths, chosen) = \E w \in Range(pool) : Covers(w, Max(left), chosen, TRUE)
  BY DEF HardestFits
<1> HIDE DEF left
<1>7. left # {}
  BY <1>4
<1>8. Max(left) \in left
  BY ONLY <1>3, <1>4, <1>7, HasMax
<1>9. PICK k \in (m + 1)..n : Max(left) = lengths[k]
  BY <1>5, <1>8
<1>10. k \in 1..Len(full) /\ ~(k <= m)
  BY <1>2
<1>11. LengthOf(full[k]) + 1 >= lengths[k] /\ full[k] \in Range(pool)
  BY <1>1, <1>2, <1>10 DEF Completing, Fitting
<1>12. \A j \in DOMAIN chosen : chosen[j].asset # full[k].asset
  <2> SUFFICES ASSUME NEW j \in DOMAIN chosen, chosen[j].asset = full[k].asset PROVE FALSE
    OBVIOUS
  <2>1. j \in 1..m
    BY <1>2
  <2>2. full[j] = chosen[j] /\ j \in 1..Len(full)
    BY <1>1, <1>2, <2>1 DEF Completing
  <2>3. j = k
    BY <1>1, <1>10, <2>2 DEF Completing, Fitting
  <2> QED BY <1>2, <1>10, <2>1, <2>3
<1>13. Covers(full[k], Max(left), chosen, TRUE)
  BY <1>9, <1>11, <1>12 DEF Covers
<1> QED BY <1>6, <1>11, <1>13

(* What can be completed, can be completed by way of some window.           *)
LEMMA NextIs ==
    ASSUME NEW pool, NEW lengths \in Seq(Int), NEW chosen, Fitting(chosen, pool, lengths),
           Len(chosen) < Len(lengths), Completable(chosen, pool, lengths)
    PROVE  \E i \in DOMAIN pool : /\ Covers(pool[i], lengths[Len(chosen) + 1], chosen, TRUE)
                                  /\ Completable(Append(chosen, pool[i]), pool, lengths)
<1> DEFINE m == Len(chosen)
           n == Len(lengths)
<1>1. PICK full : Completing(full, chosen, pool, lengths)
  BY DEF Completable
<1>2. /\ n \in Nat /\ m \in Nat /\ m < n
      /\ chosen \in Seq(Range(pool)) /\ full \in Seq(Range(pool)) /\ Len(full) = n
  BY <1>1 DEF Fitting, Completing
<1> DEFINE k == m + 1
<1>3. k \in 1..Len(full) /\ ~(k <= m)
  BY <1>2
<1>4. LengthOf(full[k]) + 1 >= lengths[k] /\ full[k] \in Range(pool)
  BY <1>1, <1>2, <1>3 DEF Completing, Fitting
<1>5. PICK i \in DOMAIN pool : full[k] = pool[i]
  BY <1>4 DEF Range
<1>6. \A j \in DOMAIN chosen : chosen[j].asset # full[k].asset
  <2> SUFFICES ASSUME NEW j \in DOMAIN chosen, chosen[j].asset = full[k].asset PROVE FALSE
    OBVIOUS
  <2>1. j \in 1..m
    BY <1>2
  <2>2. full[j] = chosen[j] /\ j \in 1..Len(full)
    BY <1>1, <1>2, <2>1 DEF Completing
  <2>3. j = k
    BY <1>1, <1>3, <2>2 DEF Completing, Fitting
  <2> QED BY <1>2, <1>3, <2>1, <2>3
<1>7. Covers(full[k], lengths[k], chosen, TRUE)
  BY <1>4, <1>6 DEF Covers
<1>8. Len(Append(chosen, full[k])) = k /\ \A j \in 1..k : Append(chosen, full[k])[j] = full[j]
  <2>1. \A j \in 1..m : full[j] = chosen[j]
    BY <1>1 DEF Completing
  <2>2. Len(Append(chosen, full[k])) = k /\ Append(chosen, full[k])[k] = full[k]
        /\ \A j \in 1..m : Append(chosen, full[k])[j] = chosen[j]
    BY <1>2, <1>4
  <2>3. \A j \in 1..k : j \in 1..m \/ j = k
    BY <1>2
  <2> QED BY <2>1, <2>2, <2>3
<1>9. Completing(full, Append(chosen, full[k]), pool, lengths)
  BY <1>1, <1>2, <1>8 DEF Completing
<1> QED BY <1>5, <1>7, <1>9 DEF Completable

Nodes(pool) == Nat \X Int \X SUBSET (Range(pool) \X Int)

SearchPlaces(pool) == [chosen : Seq(Range(pool)), next : 0..(Len(pool) + 1), visited : SUBSET Nodes(pool)]

Outcomes(pool) == [found : SUBSET Seq(Range(pool)), visited : SUBSET Nodes(pool)]

(* The ways on from a place.                                                *)
Entered(at, lengths) == [at EXCEPT !.next = 1, !.visited = @ \cup {Node(at.chosen, lengths)}]
Deeper(at, w) == [at EXCEPT !.chosen = Append(@, w), !.next = 0]
Further(at, visited) == [at EXCEPT !.next = @ + 1, !.visited = visited]

Failing(visited) == [found |-> {}, visited |-> visited]

Tries(search, at, pool, lengths) ==
    IF Covers(pool[at.next], lengths[Len(at.chosen) + 1], at.chosen, TRUE)
    THEN search[Deeper(at, pool[at.next])] ELSE Failing(at.visited)

(* What the search finds from a place, from what it finds further on.       *)
Visit(search, at, pool, lengths) ==
    IF Len(at.chosen) >= Len(lengths) THEN [found |-> {at.chosen}, visited |-> at.visited]
    ELSE IF at.next > Len(pool) \/ (at.next = 0 /\ Node(at.chosen, lengths) \in at.visited)
    THEN Failing(at.visited)
    ELSE IF at.next = 0
    THEN IF HardestFits(pool, lengths, at.chosen) THEN search[Entered(at, lengths)]
         ELSE Failing(at.visited \cup {Node(at.chosen, lengths)})
    ELSE IF Tries(search, at, pool, lengths).found # {} THEN Tries(search, at, pool, lengths)
    ELSE search[Further(at, Tries(search, at, pool, lengths).visited)]

LEMMA NodeIs ==
    ASSUME NEW pool \in Seq(PackWindow), NEW lengths \in Seq(Int), NEW chosen \in Seq(Range(pool)),
           Len(chosen) < Len(lengths)
    PROVE  Node(chosen, lengths) \in Nodes(pool)
<1>1. Range(pool) \subseteq PackWindow
  BY DEF Range
<1>2. Len(chosen) \in Nat /\ DOMAIN chosen = 1..Len(chosen) /\ \A k \in DOMAIN chosen : chosen[k] \in Range(pool)
  OBVIOUS
<1>3. chosen # <<>> => Last(chosen).asset \in Int
  <2>1. ASSUME chosen # <<>> PROVE Last(chosen).asset \in Int
    <3>1. Len(chosen) \in DOMAIN chosen
      BY <2>1
    <3>2. Last(chosen) \in PackWindow
      BY <1>1, <1>2, <3>1 DEF Last
    <3> QED BY <3>2 DEF PackWindow
  <2> QED BY <2>1
<1>4. \A k \in DOMAIN chosen : lengths[k] \in Int
  BY <1>2
<1> DEFINE pairs == {<<chosen[k], lengths[k]>> : k \in DOMAIN chosen}
           last == IF chosen = <<>> THEN 0 ELSE Last(chosen).asset
<1>5. pairs \in SUBSET (Range(pool) \X Int)
  BY <1>2, <1>4
<1>6. last \in Int
  BY <1>3
<1>7. Node(chosen, lengths) = <<Len(chosen), last, pairs>>
  BY DEF Node
<1> HIDE DEF pairs, last
<1> QED BY <1>2, <1>5, <1>6, <1>7 DEF Nodes

LEMMA PlaceIs ==
    ASSUME NEW pool \in Seq(PackWindow), NEW at \in SearchPlaces(pool)
    PROVE  /\ at.chosen \in Seq(Range(pool)) /\ Len(at.chosen) \in Nat
           /\ at.next \in 0..(Len(pool) + 1) /\ at.visited \in SUBSET Nodes(pool)
           /\ Len(pool) \in Nat
BY DEF SearchPlaces

LEMMA EnteredIs ==
    ASSUME NEW pool \in Seq(PackWindow), NEW lengths \in Seq(Int), NEW at \in SearchPlaces(pool),
           Len(at.chosen) < Len(lengths)
    PROVE  /\ Entered(at, lengths) \in SearchPlaces(pool)
           /\ Entered(at, lengths).chosen = at.chosen /\ Entered(at, lengths).next = 1
           /\ Entered(at, lengths).visited = at.visited \cup {Node(at.chosen, lengths)}
<1>1. Node(at.chosen, lengths) \in Nodes(pool)
  BY PlaceIs, NodeIs
<1>2. 1 \in 0..(Len(pool) + 1)
  OBVIOUS
<1> DEFINE node == Node(at.chosen, lengths)
<1> HIDE DEF node
<1>3. Entered(at, lengths) = [at EXCEPT !.next = 1, !.visited = @ \cup {node}]
  BY DEF Entered, node
<1>4. node \in Nodes(pool)
  BY <1>1 DEF node
<1>5. at.visited \cup {node} \in SUBSET Nodes(pool)
  BY <1>4, PlaceIs
<1> QED BY <1>2, <1>3, <1>5 DEF SearchPlaces, node

LEMMA DeeperIs ==
    ASSUME NEW pool \in Seq(PackWindow), NEW at \in SearchPlaces(pool), NEW w \in Range(pool)
    PROVE  /\ Deeper(at, w) \in SearchPlaces(pool)
           /\ Deeper(at, w).chosen = Append(at.chosen, w) /\ Deeper(at, w).next = 0
           /\ Deeper(at, w).visited = at.visited
           /\ Len(Append(at.chosen, w)) = Len(at.chosen) + 1
<1>1. Append(at.chosen, w) \in Seq(Range(pool)) /\ Len(Append(at.chosen, w)) = Len(at.chosen) + 1
  BY PlaceIs
<1>2. 0 \in 0..(Len(pool) + 1)
  OBVIOUS
<1> QED BY <1>1, <1>2 DEF Deeper, SearchPlaces

LEMMA FurtherIs ==
    ASSUME NEW pool \in Seq(PackWindow), NEW at \in SearchPlaces(pool), at.next <= Len(pool),
           NEW visited \in SUBSET Nodes(pool)
    PROVE  /\ Further(at, visited) \in SearchPlaces(pool)
           /\ Further(at, visited).chosen = at.chosen /\ Further(at, visited).next = at.next + 1
           /\ Further(at, visited).visited = visited
<1>1. at.next + 1 \in 0..(Len(pool) + 1)
  BY PlaceIs
<1> QED BY <1>1 DEF Further, SearchPlaces

(* The search gets on: fewer chunks are left, or fewer windows.             *)
Remaining(pool, lengths) ==
    [at \in SearchPlaces(pool) |-> Larger(0, Len(lengths) - Len(at.chosen)) * (Len(pool) + 2) + (Len(pool) + 1 - at.next)]

LEMMA RemainingIs ==
    ASSUME NEW n \in Nat, NEW p \in Nat, NEW m \in Nat, NEW next \in 0..(p + 1)
    PROVE  /\ Larger(0, n - m) * (p + 2) + (p + 1 - next) \in 0..(n * (p + 2) + (p + 1))
           /\ m < n => Larger(0, n - m) * (p + 2) = Larger(0, n - (m + 1)) * (p + 2) + (p + 2)
           /\ Larger(0, n - m) * (p + 2) \in Nat
<1> DEFINE d == Larger(0, n - m)
           e == Larger(0, n - (m + 1))
           w == p + 2
<1>1. d \in Nat /\ d <= n /\ w \in Nat /\ n - d \in Nat
  BY DEF Larger
<1>2. m < n => d = e + 1 /\ e \in Nat
  BY DEF Larger
<1> HIDE DEF d, e, w
<1>3. d * w \in Nat /\ (n - d) * w \in Nat
  BY <1>1
<1>4. n * w = d * w + (n - d) * w
  BY <1>1
<1>5. d * w <= n * w
  BY <1>1, <1>3, <1>4
<1>6. ASSUME m < n PROVE d * w = e * w + w
  <2>1. d = e + 1 /\ e \in Nat
    BY <1>2, <1>6
  <2> QED BY <1>1, <2>1
<1>7. d * w + (p + 1 - next) \in 0..(n * w + (p + 1))
  <2> DEFINE a == d * w
             b == n * w
  <2>1. a \in Nat /\ b \in Nat /\ a <= b
    BY <1>1, <1>3, <1>5
  <2> HIDE DEF a, b
  <2>2. a + (p + 1 - next) \in 0..(b + (p + 1))
    BY <2>1
  <2> QED BY <2>2 DEF a, b
<1> QED BY <1>3, <1>6, <1>7 DEF d, e, w

LEMMA RemainingSinks ==
    ASSUME NEW pool \in Seq(PackWindow), NEW lengths \in Seq(Int), NEW at \in SearchPlaces(pool),
           Len(at.chosen) < Len(lengths), at.next <= Len(pool)
    PROVE  /\ at.next = 0 => Remaining(pool, lengths)[Entered(at, lengths)] < Remaining(pool, lengths)[at]
           /\ at.next # 0 => Remaining(pool, lengths)[Deeper(at, pool[at.next])] < Remaining(pool, lengths)[at]
           /\ \A visited \in SUBSET Nodes(pool) :
                 Remaining(pool, lengths)[Further(at, visited)] < Remaining(pool, lengths)[at]
<1> DEFINE n == Len(lengths)
           p == Len(pool)
           m == Len(at.chosen)
           a == Larger(0, n - m) * (p + 2)
           b == Larger(0, n - (m + 1)) * (p + 2)
           rank == Remaining(pool, lengths)
<1>1. n \in Nat /\ p \in Nat /\ m \in Nat /\ at.next \in 0..(p + 1) /\ m < n
  BY PlaceIs
<1>2. \A x \in SearchPlaces(pool) : rank[x] = Larger(0, n - Len(x.chosen)) * (p + 2) + (p + 1 - x.next)
  BY DEF Remaining
<1>3. a \in Nat /\ a = b + (p + 2)
  <2> HIDE DEF n, p, m
  <2> QED BY <1>1, RemainingIs
<1>4. b \in Nat
  <2>1. m + 1 \in Nat
    BY <1>1
  <2> HIDE DEF n, p, m
  <2> QED BY <1>1, <2>1, RemainingIs
<1>5. rank[at] = a + (p + 1 - at.next)
  BY <1>2
<1> HIDE DEF rank
<1>6. ASSUME at.next = 0 PROVE rank[Entered(at, lengths)] < rank[at]
  <2>1. rank[Entered(at, lengths)] = a + (p + 1 - 1)
    BY <1>2, EnteredIs
  <2> HIDE DEF a, b, p, n, m
  <2> QED BY ONLY <1>1, <1>3, <1>5, <1>6, <2>1
<1>7. ASSUME at.next # 0 PROVE rank[Deeper(at, pool[at.next])] < rank[at]
  <2>1. pool[at.next] \in Range(pool)
    <3>1. at.next \in DOMAIN pool
      BY <1>1, <1>7
    <3> QED BY <3>1 DEF Range
  <2>2. /\ Deeper(at, pool[at.next]) \in SearchPlaces(pool) /\ Deeper(at, pool[at.next]).next = 0
        /\ Len(Deeper(at, pool[at.next]).chosen) = m + 1
    BY <2>1, DeeperIs
  <2>3. rank[Deeper(at, pool[at.next])] = b + (p + 1 - 0)
    BY <1>2, <2>2
  <2>4. at.next <= p
    OBVIOUS
  <2> HIDE DEF a, b, p, n, m
  <2> QED BY ONLY <1>1, <1>3, <1>4, <1>5, <2>3, <2>4
<1>8. ASSUME NEW visited \in SUBSET Nodes(pool) PROVE rank[Further(at, visited)] < rank[at]
  <2>1. rank[Further(at, visited)] = a + (p + 1 - (at.next + 1))
    <3>1. /\ Further(at, visited) \in SearchPlaces(pool) /\ Further(at, visited).next = at.next + 1
          /\ Further(at, visited).chosen = at.chosen
      BY FurtherIs
    <3> HIDE DEF p, n
    <3> QED BY ONLY <1>2, <3>1
  <2> HIDE DEF a, b, p, n, m
  <2> QED BY ONLY <1>1, <1>3, <1>5, <2>1
<1> QED BY <1>6, <1>7, <1>8 DEF rank

(* What one visit looks at further on, and what it makes of it.             *)
LEMMA VisitIs ==
    ASSUME NEW pool \in Seq(PackWindow), NEW lengths \in Seq(Int), NEW at \in SearchPlaces(pool), NEW search
    PROVE  LET below == search[Deeper(at, pool[at.next])]
               visit == Visit(search, at, pool, lengths)
               covers == Covers(pool[at.next], lengths[Len(at.chosen) + 1], at.chosen, TRUE)
           IN  \/ /\ Len(at.chosen) >= Len(lengths)
                  /\ visit = [found |-> {at.chosen}, visited |-> at.visited]
               \/ /\ Len(at.chosen) < Len(lengths)
                  /\ at.next > Len(pool) \/ (at.next = 0 /\ Node(at.chosen, lengths) \in at.visited)
                  /\ visit = Failing(at.visited)
               \/ /\ Len(at.chosen) < Len(lengths)
                  /\ at.next = 0 /\ HardestFits(pool, lengths, at.chosen)
                  /\ visit = search[Entered(at, lengths)]
               \/ /\ Len(at.chosen) < Len(lengths)
                  /\ at.next = 0 /\ ~HardestFits(pool, lengths, at.chosen)
                  /\ visit = Failing(at.visited \cup {Node(at.chosen, lengths)})
               \/ /\ Len(at.chosen) < Len(lengths)
                  /\ at.next \in DOMAIN pool /\ covers /\ below.found # {} /\ visit = below
               \/ /\ Len(at.chosen) < Len(lengths)
                  /\ at.next \in DOMAIN pool /\ covers /\ below.found = {}
                  /\ visit = search[Further(at, below.visited)]
               \/ /\ Len(at.chosen) < Len(lengths)
                  /\ at.next \in DOMAIN pool /\ ~covers /\ visit = search[Further(at, at.visited)]
<1> DEFINE covers == Covers(pool[at.next], lengths[Len(at.chosen) + 1], at.chosen, TRUE)
           below == search[Deeper(at, pool[at.next])]
           visit == Visit(search, at, pool, lengths)
           tries == IF covers THEN below ELSE Failing(at.visited)
<1>1. Len(at.chosen) \in Nat /\ at.next \in 0..(Len(pool) + 1) /\ Len(pool) \in Nat /\ Len(lengths) \in Nat
  BY PlaceIs
<1>2. Tries(search, at, pool, lengths) = tries
  BY DEF Tries
<1>3. visit = IF Len(at.chosen) >= Len(lengths) THEN [found |-> {at.chosen}, visited |-> at.visited]
              ELSE IF at.next > Len(pool) \/ (at.next = 0 /\ Node(at.chosen, lengths) \in at.visited)
              THEN Failing(at.visited)
              ELSE IF at.next = 0
              THEN IF HardestFits(pool, lengths, at.chosen) THEN search[Entered(at, lengths)]
                   ELSE Failing(at.visited \cup {Node(at.chosen, lengths)})
              ELSE IF tries.found # {} THEN tries
              ELSE search[Further(at, tries.visited)]
  BY <1>2 DEF Visit
<1>4. Failing(at.visited).found = {} /\ Failing(at.visited).visited = at.visited
  BY DEF Failing
<1>5. DOMAIN pool = 1..Len(pool)
  OBVIOUS
<1>6. \/ Len(at.chosen) >= Len(lengths)
      \/ Len(at.chosen) < Len(lengths) /\ (at.next > Len(pool) \/ (at.next = 0 /\ Node(at.chosen, lengths) \in at.visited))
      \/ Len(at.chosen) < Len(lengths) /\ at.next = 0 /\ Node(at.chosen, lengths) \notin at.visited
      \/ Len(at.chosen) < Len(lengths) /\ at.next \in 1..Len(pool)
  BY <1>1
<1>7. at.next \in 1..Len(pool) => ~(at.next > Len(pool)) /\ at.next # 0
  BY <1>1
<1>8. at.next = 0 => ~(at.next > Len(pool))
  BY <1>1
<1>9. Len(at.chosen) < Len(lengths) => ~(Len(at.chosen) >= Len(lengths))
  BY <1>1
<1> HIDE DEF covers, below, visit
<1>10. covers => tries = below
  OBVIOUS
<1>11. ~covers => tries = Failing(at.visited)
  OBVIOUS
<1> HIDE DEF tries
<1>12. CASE Len(at.chosen) < Len(lengths) /\ at.next \in 1..Len(pool)
  <2>1. visit = IF tries.found # {} THEN tries ELSE search[Further(at, tries.visited)]
    BY <1>3, <1>7, <1>9, <1>12
  <2>2. CASE covers
    BY <1>5, <1>10, <1>12, <2>1, <2>2 DEF covers, below, visit
  <2>3. CASE ~covers
    BY <1>4, <1>5, <1>11, <1>12, <2>1, <2>3 DEF covers, below, visit
  <2> QED BY <2>2, <2>3
<1>13. CASE Len(at.chosen) >= Len(lengths)
  BY <1>3, <1>13 DEF visit
<1>14. CASE Len(at.chosen) < Len(lengths) /\ (at.next > Len(pool) \/ (at.next = 0 /\ Node(at.chosen, lengths) \in at.visited))
  BY <1>3, <1>9, <1>14 DEF visit
<1>15. CASE Len(at.chosen) < Len(lengths) /\ at.next = 0 /\ Node(at.chosen, lengths) \notin at.visited
  BY <1>3, <1>8, <1>9, <1>15 DEF visit
<1> QED BY <1>6, <1>12, <1>13, <1>14, <1>15

LEMMA VisitIn ==
    ASSUME NEW pool \in Seq(PackWindow), NEW lengths \in Seq(Int),
           NEW search \in [SearchPlaces(pool) -> Outcomes(pool)], NEW at \in SearchPlaces(pool)
    PROVE  Visit(search, at, pool, lengths) \in Outcomes(pool)
<1> DEFINE below == search[Deeper(at, pool[at.next])]
           visit == Visit(search, at, pool, lengths)
<1>1. at.chosen \in Seq(Range(pool)) /\ at.visited \in SUBSET Nodes(pool) /\ at.next \in 0..(Len(pool) + 1) /\ Len(pool) \in Nat
  BY PlaceIs
<1>2. \A o \in Outcomes(pool) : o.visited \in SUBSET Nodes(pool)
  BY DEF Outcomes
<1>3. \A v \in SUBSET Nodes(pool) : Failing(v) \in Outcomes(pool)
  BY DEF Failing, Outcomes
<1>4. [found |-> {at.chosen}, visited |-> at.visited] \in Outcomes(pool)
  BY <1>1 DEF Outcomes
<1>5. at.next \in DOMAIN pool => at.next <= Len(pool) /\ pool[at.next] \in Range(pool)
  BY <1>1 DEF Range
<1>6. at.next \in DOMAIN pool => below \in Outcomes(pool)
  BY <1>5, DeeperIs
<1>7. at.next \in DOMAIN pool => \A v \in SUBSET Nodes(pool) : search[Further(at, v)] \in Outcomes(pool)
  BY <1>5, FurtherIs
<1>8. Len(at.chosen) < Len(lengths) =>
          /\ search[Entered(at, lengths)] \in Outcomes(pool)
          /\ at.visited \cup {Node(at.chosen, lengths)} \in SUBSET Nodes(pool)
  <2>1. ASSUME Len(at.chosen) < Len(lengths)
        PROVE  /\ search[Entered(at, lengths)] \in Outcomes(pool)
               /\ at.visited \cup {Node(at.chosen, lengths)} \in SUBSET Nodes(pool)
    <3>1. Entered(at, lengths) \in SearchPlaces(pool) /\ Node(at.chosen, lengths) \in Nodes(pool)
      BY <1>1, <2>1, EnteredIs, NodeIs
    <3> QED BY <1>1, <3>1
  <2> QED BY <2>1
<1>9. \/ visit = [found |-> {at.chosen}, visited |-> at.visited]
      \/ visit = Failing(at.visited)
      \/ Len(at.chosen) < Len(lengths) /\ visit = search[Entered(at, lengths)]
      \/ Len(at.chosen) < Len(lengths) /\ visit = Failing(at.visited \cup {Node(at.chosen, lengths)})
      \/ at.next \in DOMAIN pool /\ visit = below
      \/ at.next \in DOMAIN pool /\ visit = search[Further(at, below.visited)]
      \/ at.next \in DOMAIN pool /\ visit = search[Further(at, at.visited)]
  <2> HIDE DEF visit, below
  <2> QED BY VisitIs DEF visit, below
<1> HIDE DEF visit, below
<1>10. visit \in Outcomes(pool)
  BY ONLY <1>1, <1>2, <1>3, <1>4, <1>6, <1>7, <1>8, <1>9
<1> QED BY <1>10 DEF visit

LEMMA VisitSame ==
    ASSUME NEW pool \in Seq(PackWindow), NEW lengths \in Seq(Int), NEW at \in SearchPlaces(pool),
           NEW f \in [SearchPlaces(pool) -> Outcomes(pool)], NEW g \in [SearchPlaces(pool) -> Outcomes(pool)],
           \A x \in SearchPlaces(pool) : Remaining(pool, lengths)[x] < Remaining(pool, lengths)[at] => f[x] = g[x]
    PROVE  Visit(f, at, pool, lengths) = Visit(g, at, pool, lengths)
<1> DEFINE rank == Remaining(pool, lengths)
           w == pool[at.next]
<1>0. at.visited \in SUBSET Nodes(pool) /\ at.next \in 0..(Len(pool) + 1) /\ Len(pool) \in Nat /\ Len(at.chosen) \in Nat /\ Len(lengths) \in Nat
  BY PlaceIs
<1>1. CASE Len(at.chosen) >= Len(lengths)
  BY <1>1 DEF Visit
<1>2. CASE at.next > Len(pool)
  BY <1>2 DEF Visit
<1>3. CASE Len(at.chosen) < Len(lengths) /\ at.next <= Len(pool) /\ at.next = 0
  <2>1. Entered(at, lengths) \in SearchPlaces(pool) /\ rank[Entered(at, lengths)] < rank[at]
    BY <1>3, EnteredIs, RemainingSinks
  <2>2. f[Entered(at, lengths)] = g[Entered(at, lengths)]
    BY <2>1
  <2> QED BY <1>3, <2>2 DEF Visit
<1>4. CASE Len(at.chosen) < Len(lengths) /\ at.next <= Len(pool) /\ at.next # 0
  <2>1. w \in Range(pool)
    <3>1. at.next \in DOMAIN pool
      BY <1>0, <1>4
    <3> QED BY <3>1 DEF Range
  <2>2. Deeper(at, w) \in SearchPlaces(pool) /\ rank[Deeper(at, w)] < rank[at]
    BY <1>4, <2>1, DeeperIs, RemainingSinks
  <2>3. f[Deeper(at, w)] = g[Deeper(at, w)] /\ f[Deeper(at, w)] \in Outcomes(pool)
    BY <2>2
  <2> DEFINE tries == Tries(f, at, pool, lengths)
  <2>4. tries = Tries(g, at, pool, lengths)
    BY <2>3 DEF Tries
  <2>5. tries.visited \in SUBSET Nodes(pool)
    <3>1. \A o \in Outcomes(pool) : o.visited \in SUBSET Nodes(pool)
      BY DEF Outcomes
    <3>2. Failing(at.visited).visited \in SUBSET Nodes(pool)
      BY <1>0 DEF Failing
    <3>3. tries = f[Deeper(at, w)] \/ tries = Failing(at.visited)
      BY DEF Tries
    <3> HIDE DEF tries
    <3> QED BY ONLY <2>3, <3>1, <3>2, <3>3
  <2> HIDE DEF tries
  <2>6. Further(at, tries.visited) \in SearchPlaces(pool) /\ rank[Further(at, tries.visited)] < rank[at]
    BY <1>4, <2>5, FurtherIs, RemainingSinks
  <2>7. f[Further(at, tries.visited)] = g[Further(at, tries.visited)]
    BY <2>6
  <2>8. \A h : Visit(h, at, pool, lengths) =
             IF Tries(h, at, pool, lengths).found # {} THEN Tries(h, at, pool, lengths)
             ELSE h[Further(at, Tries(h, at, pool, lengths).visited)]
    BY <1>0, <1>4 DEF Visit
  <2> QED BY <2>4, <2>7, <2>8 DEF tries
<1> QED BY <1>0, <1>1, <1>2, <1>3, <1>4

SearchStepwise(search, pool, lengths) ==
    /\ Search(pool, lengths) = search[[chosen |-> <<>>, next |-> 0, visited |-> {}]]
    /\ \A at \in SearchPlaces(pool) : search[at] = Visit(search, at, pool, lengths)

LEMMA SearchRecursion ==
    ASSUME NEW pool \in Seq(PackWindow), NEW lengths \in Seq(Int)
    PROVE  \E search : SearchStepwise(search, pool, lengths)
<1> DEFINE D == SearchPlaces(pool)
           R == Outcomes(pool)
           G == [p \in [D -> R] \X D |-> Visit(p[1], p[2], pool, lengths)]
           rank == Remaining(pool, lengths)
           N == Len(lengths) * (Len(pool) + 2) + (Len(pool) + 1)
           Right(f) == f = [at \in SearchPlaces(pool) |-> Visit(f, at, pool, lengths)]
           search == CHOOSE f : Right(f)
<1>1. Search(pool, lengths) = search[[chosen |-> <<>>, next |-> 0, visited |-> {}]]
  BY DEF Search, SearchPlaces, Nodes, Visit, Tries, Entered, Deeper, Further, Failing
<1>2. \A f \in [D -> R], at \in D : G[<<f, at>>] = Visit(f, at, pool, lengths)
  OBVIOUS
<1>3. R # {}
  <2>1. Failing({}) \in R
    BY DEF Failing, Outcomes
  <2> QED BY <2>1
<1>4. \A f \in [D -> R] : f = [at \in D |-> f[at]]
  OBVIOUS
<1>5. N \in Nat /\ \A at \in D : rank[at] \in 0..N
  <2>1. Len(lengths) \in Nat /\ Len(pool) \in Nat
    OBVIOUS
  <2>2. N \in Nat
    BY <2>1, RemainingIs
  <2>3. ASSUME NEW at \in D PROVE rank[at] \in 0..N
    <3>1. Len(at.chosen) \in Nat /\ at.next \in 0..(Len(pool) + 1)
      BY PlaceIs
    <3>2. rank[at] = Larger(0, Len(lengths) - Len(at.chosen)) * (Len(pool) + 2) + (Len(pool) + 1 - at.next)
      BY DEF Remaining
    <3> DEFINE n == Len(lengths)
               p == Len(pool)
               m == Len(at.chosen)
               next == at.next
    <3>3. n \in Nat /\ p \in Nat /\ m \in Nat /\ next \in 0..(p + 1)
      BY <2>1, <3>1
    <3> HIDE DEF rank, n, p, m, next
    <3>4. Larger(0, n - m) * (p + 2) + (p + 1 - next) \in 0..(n * (p + 2) + (p + 1))
      BY ONLY <3>3, RemainingIs
    <3> QED BY <3>2, <3>4 DEF n, p, m, next
  <2> QED BY <2>2, <2>3
<1>6. ASSUME NEW f \in [D -> R], NEW at \in D PROVE G[<<f, at>>] \in R
  BY <1>2, VisitIn
<1>7. ASSUME NEW f \in [D -> R], NEW g \in [D -> R], NEW at \in D,
             \A x \in D : rank[x] < rank[at] => f[x] = g[x]
      PROVE  G[<<f, at>>] = G[<<g, at>>]
  <2>1. Visit(f, at, pool, lengths) = Visit(g, at, pool, lengths)
    BY <1>7, VisitSame
  <2> QED BY <1>2, <2>1
<1> HIDE DEF G, R, rank, N, search
<1>8. PICK f \in [D -> R] : \A at \in D : f[at] = G[<<f, at>>]
  <2> HIDE DEF D
  <2>1. Graded(D, R, N, rank, G)
    BY ONLY <1>3, <1>5, <1>6, <1>7 DEF Graded
  <2> QED BY ONLY <2>1, RecursiveByRank
<1>9. \A at \in D : f[at] = Visit(f, at, pool, lengths)
  BY <1>2, <1>8
<1>10. Right(f)
  BY <1>4, <1>9
<1>11. Right(search)
  BY <1>10 DEF search
<1>12. \A at \in D : search[at] = Visit(search, at, pool, lengths)
  BY <1>11
<1> QED BY <1>1, <1>12 DEF SearchStepwise

(* Nothing that leads to the node can be completed.                         *)
Dead(node, pool, lengths) ==
    \A chosen : Fitting(chosen, pool, lengths) /\ Node(chosen, lengths) = node => ~Completable(chosen, pool, lengths)

(* The nodes that are entered from a place on.                              *)
Below(node, at) == IF at.next = 0 THEN Len(at.chosen) <= node[1] ELSE Len(at.chosen) < node[1]

(* A place the search comes to: what was visited further down, has failed.  *)
Ready(at, pool, lengths) ==
    /\ at \in SearchPlaces(pool) /\ Fitting(at.chosen, pool, lengths)
    /\ \A node \in at.visited : Below(node, at) => Dead(node, pool, lengths)

CanGoOn(i, chosen, pool, lengths) ==
    /\ Covers(pool[i], lengths[Len(chosen) + 1], chosen, TRUE)
    /\ Completable(Append(chosen, pool[i]), pool, lengths)

(* What is found covers the chunks; when nothing is, nothing does.          *)
Honest(o, at, pool, lengths) ==
    /\ o \in Outcomes(pool)
    /\ \A c \in o.found : Fitting(c, pool, lengths) /\ Len(c) = Len(lengths)
    /\ o.found = {} =>
          /\ \A node \in o.visited : node \in at.visited \/ Below(node, at)
          /\ \A node \in o.visited : Below(node, at) => Dead(node, pool, lengths)
          /\ at.next = 0 => ~Completable(at.chosen, pool, lengths)
          /\ at.next # 0 => \A i \in DOMAIN pool : i >= at.next => ~CanGoOn(i, at.chosen, pool, lengths)

LEMMA DeadNode ==
    ASSUME NEW pool, NEW lengths \in Seq(Int), NEW chosen, Fitting(chosen, pool, lengths),
           ~Completable(chosen, pool, lengths)
    PROVE  Dead(Node(chosen, lengths), pool, lengths)
<1> SUFFICES ASSUME NEW other, Fitting(other, pool, lengths), Node(other, lengths) = Node(chosen, lengths),
                    Completable(other, pool, lengths)
             PROVE  FALSE
  BY DEF Dead
<1>1. Completable(chosen, pool, lengths)
  BY SameNode
<1> QED BY <1>1

LEMMA DepthOf == ASSUME NEW chosen, NEW lengths PROVE Node(chosen, lengths)[1] = Len(chosen)
BY DEF Node

LEMMA DepthIs == ASSUME NEW pool, NEW node \in Nodes(pool) PROVE node[1] \in Nat
BY DEF Nodes

(* The window is passed over, by what was visited while it was tried.       *)
PassedOver(visited, at, pool, lengths) ==
    /\ visited \in SUBSET Nodes(pool)
    /\ \A node \in visited : node \in at.visited \/ Len(at.chosen) < node[1]
    /\ \A node \in visited : Len(at.chosen) < node[1] => Dead(node, pool, lengths)
    /\ ~CanGoOn(at.next, at.chosen, pool, lengths)

LEMMA EnteredHonest ==
    ASSUME NEW pool \in Seq(PackWindow), NEW lengths \in Seq(Int), NEW at, Ready(at, pool, lengths),
           Len(at.chosen) < Len(lengths), at.next = 0
    PROVE  /\ Ready(Entered(at, lengths), pool, lengths)
           /\ \A o : Honest(o, Entered(at, lengths), pool, lengths) => Honest(o, at, pool, lengths)
<1> DEFINE e == Entered(at, lengths)
           node == Node(at.chosen, lengths)
           m == Len(at.chosen)
<1>1. /\ at \in SearchPlaces(pool) /\ Fitting(at.chosen, pool, lengths)
      /\ \A nd \in at.visited : m <= nd[1] => Dead(nd, pool, lengths)
  BY DEF Ready, Below
<1>2. e \in SearchPlaces(pool) /\ e.chosen = at.chosen /\ e.next = 1 /\ e.visited = at.visited \cup {node}
  BY <1>1, EnteredIs
<1>3. node[1] = m /\ m \in Nat /\ at.visited \in SUBSET Nodes(pool)
  BY <1>1, DepthOf, PlaceIs
<1>4. \A nd \in Nodes(pool) : nd[1] \in Nat
  BY DepthIs
<1> HIDE DEF e, node, m
<1>5. \A nd : Below(nd, e) <=> m < nd[1]
  BY <1>2 DEF Below, m
<1>6. \A nd : Below(nd, at) <=> m <= nd[1]
  BY DEF Below, m
<1>7. \A nd \in e.visited : m < nd[1] => Dead(nd, pool, lengths)
  <2> SUFFICES ASSUME NEW nd \in e.visited, m < nd[1] PROVE Dead(nd, pool, lengths)
    OBVIOUS
  <2>1. nd # node
    BY <1>3
  <2>2. nd \in at.visited
    BY <1>2, <2>1
  <2>3. nd[1] \in Nat
    BY <1>3, <1>4, <2>2
  <2>4. m <= nd[1]
    BY ONLY <1>3, <2>3, m < nd[1]
  <2> QED BY <1>1, <2>2, <2>4
<1>8. Ready(e, pool, lengths)
  BY <1>1, <1>2, <1>5, <1>7 DEF Ready
<1>9. ASSUME NEW o, Honest(o, e, pool, lengths) PROVE Honest(o, at, pool, lengths)
  <2>1. ASSUME o.found = {}
        PROVE  /\ \A nd \in o.visited : nd \in at.visited \/ Below(nd, at)
               /\ \A nd \in o.visited : Below(nd, at) => Dead(nd, pool, lengths)
               /\ ~Completable(at.chosen, pool, lengths)
    <3>1. /\ \A nd \in o.visited : nd \in e.visited \/ m < nd[1]
          /\ \A nd \in o.visited : m < nd[1] => Dead(nd, pool, lengths)
          /\ o.visited \in SUBSET Nodes(pool)
      BY <1>5, <1>9, <2>1 DEF Honest, Outcomes
    <3>2. \A i \in DOMAIN pool : i >= 1 => ~CanGoOn(i, at.chosen, pool, lengths)
      BY <1>2, <1>9, <2>1 DEF Honest
    <3>3. ~Completable(at.chosen, pool, lengths)
      <4> SUFFICES ASSUME Completable(at.chosen, pool, lengths) PROVE FALSE
        OBVIOUS
      <4>1. PICK i \in DOMAIN pool : /\ Covers(pool[i], lengths[Len(at.chosen) + 1], at.chosen, TRUE)
                                     /\ Completable(Append(at.chosen, pool[i]), pool, lengths)
        BY <1>1, NextIs
      <4>2. i >= 1
        OBVIOUS
      <4> QED BY <3>2, <4>1, <4>2 DEF CanGoOn
    <3>4. Dead(node, pool, lengths)
      BY <1>1, <3>3, DeadNode DEF node
    <3>5. \A nd \in o.visited : nd[1] \in Nat /\ (m <= nd[1] <=> m < nd[1] \/ m = nd[1])
      <4> SUFFICES ASSUME NEW nd \in o.visited PROVE nd[1] \in Nat /\ (m <= nd[1] <=> m < nd[1] \/ m = nd[1])
        OBVIOUS
      <4>1. nd[1] \in Nat
        BY <1>4, <3>1
      <4> QED BY ONLY <1>3, <4>1
    <3>6. \A nd \in o.visited : nd \in at.visited \/ m <= nd[1]
      BY <1>2, <1>3, <3>1, <3>5
    <3>7. \A nd \in o.visited : m <= nd[1] => Dead(nd, pool, lengths)
      <4> SUFFICES ASSUME NEW nd \in o.visited, m <= nd[1] PROVE Dead(nd, pool, lengths)
        OBVIOUS
      <4>1. CASE m < nd[1]
        BY <3>1, <4>1
      <4>2. CASE m = nd[1] /\ ~(m < nd[1])
        BY <1>1, <1>2, <3>1, <3>4, <4>2
      <4> QED BY <3>5, <4>1, <4>2
    <3> QED BY <1>6, <3>3, <3>6, <3>7
  <2> QED BY <1>9, <2>1 DEF Honest
<1> QED BY <1>8, <1>9 DEF e

LEMMA DeeperReady ==
    ASSUME NEW pool \in Seq(PackWindow), NEW lengths \in Seq(Int), NEW at, Ready(at, pool, lengths),
           Len(at.chosen) < Len(lengths), at.next \in DOMAIN pool,
           Covers(pool[at.next], lengths[Len(at.chosen) + 1], at.chosen, TRUE)
    PROVE  /\ Ready(Deeper(at, pool[at.next]), pool, lengths)
           /\ \A o : /\ Honest(o, Deeper(at, pool[at.next]), pool, lengths)
                     /\ o.found = {}
                     => PassedOver(o.visited, at, pool, lengths)
<1> DEFINE w == pool[at.next]
           d == Deeper(at, w)
           m == Len(at.chosen)
<1>0. at.next # 0
  OBVIOUS
<1>1. /\ at \in SearchPlaces(pool) /\ Fitting(at.chosen, pool, lengths)
      /\ \A nd \in at.visited : m < nd[1] => Dead(nd, pool, lengths)
  BY <1>0 DEF Ready, Below
<1>2. w \in Range(pool)
  BY DEF Range
<1>3. /\ d \in SearchPlaces(pool) /\ d.chosen = Append(at.chosen, w) /\ d.next = 0
      /\ d.visited = at.visited /\ Len(d.chosen) = m + 1
  BY <1>1, <1>2, DeeperIs
<1>4. Fitting(d.chosen, pool, lengths)
  BY <1>1, <1>2, <1>3, FittingAppend
<1>5. m \in Nat /\ at.visited \in SUBSET Nodes(pool) /\ \A nd \in Nodes(pool) : nd[1] \in Nat
  BY <1>1, PlaceIs, DepthIs
<1> HIDE DEF d, m
<1>6. \A nd \in Nodes(pool) : Below(nd, d) <=> m < nd[1]
  <2> SUFFICES ASSUME NEW nd \in Nodes(pool) PROVE Below(nd, d) <=> m < nd[1]
    OBVIOUS
  <2>1. Below(nd, d) <=> m + 1 <= nd[1]
    BY <1>3 DEF Below
  <2>2. nd[1] \in Nat
    BY <1>5
  <2> QED BY ONLY <1>5, <2>1, <2>2
<1>7. Ready(d, pool, lengths)
  BY <1>1, <1>3, <1>4, <1>5, <1>6 DEF Ready
<1>8. ASSUME NEW o, Honest(o, d, pool, lengths), o.found = {} PROVE PassedOver(o.visited, at, pool, lengths)
  <2>1. o.visited \in SUBSET Nodes(pool)
    BY <1>8 DEF Honest, Outcomes
  <2>2. /\ \A nd \in o.visited : nd \in at.visited \/ m < nd[1]
        /\ \A nd \in o.visited : m < nd[1] => Dead(nd, pool, lengths)
    BY <1>3, <1>6, <1>8, <2>1 DEF Honest
  <2>3. ~Completable(Append(at.chosen, w), pool, lengths)
    BY <1>3, <1>8 DEF Honest
  <2> QED BY <2>1, <2>2, <2>3 DEF PassedOver, CanGoOn, m
<1> QED BY <1>7, <1>8 DEF d

LEMMA FurtherHonest ==
    ASSUME NEW pool \in Seq(PackWindow), NEW lengths \in Seq(Int), NEW at, Ready(at, pool, lengths),
           Len(at.chosen) < Len(lengths), at.next \in DOMAIN pool,
           NEW visited, PassedOver(visited, at, pool, lengths)
    PROVE  /\ Ready(Further(at, visited), pool, lengths)
           /\ \A o : Honest(o, Further(at, visited), pool, lengths) => Honest(o, at, pool, lengths)
<1> DEFINE f == Further(at, visited)
           m == Len(at.chosen)
<1>0. at.next # 0 /\ at.next \in Nat /\ at.next <= Len(pool) /\ at.next + 1 # 0
  OBVIOUS
<1>1. /\ at \in SearchPlaces(pool) /\ Fitting(at.chosen, pool, lengths)
  BY DEF Ready
<1>2. visited \in SUBSET Nodes(pool)
  BY DEF PassedOver
<1>3. f \in SearchPlaces(pool) /\ f.chosen = at.chosen /\ f.next = at.next + 1 /\ f.visited = visited
  BY <1>0, <1>1, <1>2, FurtherIs
<1> HIDE DEF f
<1>4. \A nd : (Below(nd, f) <=> m < nd[1]) /\ (Below(nd, at) <=> m < nd[1])
  BY <1>0, <1>3 DEF Below
<1>5. /\ \A nd \in visited : nd \in at.visited \/ m < nd[1]
      /\ \A nd \in visited : m < nd[1] => Dead(nd, pool, lengths)
      /\ ~CanGoOn(at.next, at.chosen, pool, lengths)
  BY DEF PassedOver
<1> HIDE DEF m
<1>6. Ready(f, pool, lengths)
  BY <1>1, <1>3, <1>4, <1>5 DEF Ready
<1>7. ASSUME NEW o, Honest(o, f, pool, lengths) PROVE Honest(o, at, pool, lengths)
  <2>1. ASSUME o.found = {}
        PROVE  /\ \A nd \in o.visited : nd \in at.visited \/ Below(nd, at)
               /\ \A nd \in o.visited : Below(nd, at) => Dead(nd, pool, lengths)
               /\ \A i \in DOMAIN pool : i >= at.next => ~CanGoOn(i, at.chosen, pool, lengths)
    <3>1. /\ \A nd \in o.visited : nd \in visited \/ m < nd[1]
          /\ \A nd \in o.visited : m < nd[1] => Dead(nd, pool, lengths)
      BY <1>3, <1>4, <1>7, <2>1 DEF Honest
    <3>2. \A i \in DOMAIN pool : i >= at.next + 1 => ~CanGoOn(i, at.chosen, pool, lengths)
      BY <1>0, <1>3, <1>7, <2>1 DEF Honest
    <3>3. \A i \in DOMAIN pool : i >= at.next => i = at.next \/ i >= at.next + 1
      BY <1>0
    <3> QED BY ONLY <1>4, <1>5, <3>1, <3>2, <3>3
  <2> QED BY <1>0, <1>7, <2>1 DEF Honest
<1> QED BY <1>6, <1>7 DEF f

(* A place at which the search ends without anything.                       *)
LEMMA FailingHonest ==
    ASSUME NEW pool \in Seq(PackWindow), NEW lengths \in Seq(Int), NEW at, Ready(at, pool, lengths),
           Len(at.chosen) < Len(lengths)
    PROVE  /\ at.next > Len(pool) => Honest(Failing(at.visited), at, pool, lengths)
           /\ at.next = 0 /\ Node(at.chosen, lengths) \in at.visited => Honest(Failing(at.visited), at, pool, lengths)
           /\ at.next = 0 /\ ~HardestFits(pool, lengths, at.chosen)
              => Honest(Failing(at.visited \cup {Node(at.chosen, lengths)}), at, pool, lengths)
<1> DEFINE node == Node(at.chosen, lengths)
           more == at.visited \cup {node}
<1>1. /\ at \in SearchPlaces(pool) /\ Fitting(at.chosen, pool, lengths)
      /\ \A nd \in at.visited : Below(nd, at) => Dead(nd, pool, lengths)
  BY DEF Ready
<1>2. /\ at.visited \in SUBSET Nodes(pool) /\ at.chosen \in Seq(Range(pool)) /\ Len(at.chosen) \in Nat
      /\ at.next \in 0..(Len(pool) + 1) /\ Len(pool) \in Nat
  BY <1>1, PlaceIs
<1>3. node \in Nodes(pool)
  BY <1>2, NodeIs
<1>4. node[1] = Len(at.chosen)
  BY DepthOf
<1> HIDE DEF node
<1>5. \A v : Failing(v).found = {} /\ Failing(v).visited = v
  BY DEF Failing
<1>6. \A v \in SUBSET Nodes(pool) : Failing(v) \in Outcomes(pool)
  BY DEF Failing, Outcomes
<1>7. ASSUME at.next > Len(pool) PROVE Honest(Failing(at.visited), at, pool, lengths)
  <2>1. at.next # 0 /\ \A i \in DOMAIN pool : ~(i >= at.next)
    BY <1>2, <1>7
  <2> QED BY <1>1, <1>2, <1>5, <1>6, <2>1 DEF Honest
<1>8. ASSUME at.next = 0, node \in at.visited PROVE Honest(Failing(at.visited), at, pool, lengths)
  <2>1. Below(node, at)
    BY <1>2, <1>4, <1>8 DEF Below
  <2>2. ~Completable(at.chosen, pool, lengths)
    BY <1>1, <1>8, <2>1 DEF Dead, node
  <2> QED BY <1>1, <1>2, <1>5, <1>6, <1>8, <2>2 DEF Honest
<1>9. ASSUME at.next = 0, ~HardestFits(pool, lengths, at.chosen) PROVE Honest(Failing(more), at, pool, lengths)
  <2>1. ~Completable(at.chosen, pool, lengths)
    BY <1>1, <1>9, HardestIs
  <2>2. Dead(node, pool, lengths)
    BY <1>1, <2>1, DeadNode DEF node
  <2>3. Below(node, at)
    BY <1>2, <1>4, <1>9 DEF Below
  <2>4. more \in SUBSET Nodes(pool)
    BY <1>2, <1>3
  <2> QED BY <1>1, <1>5, <1>6, <1>9, <2>1, <2>2, <2>3, <2>4 DEF Honest
<1> QED BY <1>7, <1>8, <1>9 DEF node

(* The search finds an assignment exactly when there is one.                *)
LEMMA SearchIs ==
    ASSUME NEW pool \in Seq(PackWindow), NEW lengths \in Seq(Int)
    PROVE  /\ \A c \in Rescue(pool, lengths) : Fitting(c, pool, lengths) /\ Len(c) = Len(lengths)
           /\ Rescue(pool, lengths) = {} => ~Completable(<<>>, pool, lengths)
<1>1. PICK search : SearchStepwise(search, pool, lengths)
  BY SearchRecursion
<1> DEFINE D == SearchPlaces(pool)
           rank == Remaining(pool, lengths)
           Good(at) == Ready(at, pool, lengths) => Honest(search[at], at, pool, lengths)
           P == {at \in D : Good(at)}
<1>2. \A at \in D : search[at] = Visit(search, at, pool, lengths)
  BY <1>1 DEF SearchStepwise
<1>3. \A at \in D : rank[at] \in Nat
  <2> SUFFICES ASSUME NEW at \in D PROVE rank[at] \in Nat
    OBVIOUS
  <2> DEFINE n == Len(lengths)
             p == Len(pool)
             m == Len(at.chosen)
             next == at.next
  <2>1. n \in Nat /\ p \in Nat /\ m \in Nat /\ next \in 0..(p + 1)
    BY PlaceIs
  <2>2. rank[at] = Larger(0, n - m) * (p + 2) + (p + 1 - next)
    BY DEF Remaining
  <2> HIDE DEF rank, n, p, m, next
  <2>3. Larger(0, n - m) * (p + 2) \in Nat
    BY ONLY <2>1, RemainingIs
  <2> QED BY ONLY <2>1, <2>2, <2>3
<1>4. ASSUME NEW at \in D, \A x \in D : rank[x] < rank[at] => x \in P, Ready(at, pool, lengths)
      PROVE  Honest(search[at], at, pool, lengths)
  <2> DEFINE w == pool[at.next]
             below == search[Deeper(at, w)]
             covers == Covers(w, lengths[Len(at.chosen) + 1], at.chosen, TRUE)
             visit == Visit(search, at, pool, lengths)
  <2>1. visit = search[at]
    BY <1>2
  <2>2. \A x \in D : rank[x] < rank[at] /\ Ready(x, pool, lengths) => Honest(search[x], x, pool, lengths)
    BY <1>4
  <2>3. at.chosen \in Seq(Range(pool)) /\ Len(at.chosen) \in Nat /\ Fitting(at.chosen, pool, lengths) /\ at.visited \in SUBSET Nodes(pool)
    BY <1>4, PlaceIs DEF Ready
  <2>4. \A x : Ready(x, pool, lengths) => x \in D
    BY DEF Ready
  <2> HIDE DEF P, D, rank
  <2>5. ASSUME Len(at.chosen) >= Len(lengths), visit = [found |-> {at.chosen}, visited |-> at.visited]
        PROVE  Honest(visit, at, pool, lengths)
    <3>1. visit.found = {at.chosen} /\ visit \in Outcomes(pool)
      BY <2>3, <2>5 DEF Outcomes
    <3>2. Len(at.chosen) = Len(lengths)
      BY <2>3, <2>5 DEF Fitting
    <3> HIDE DEF visit
    <3> QED BY <2>3, <3>1, <3>2 DEF Honest
  <2>6. ASSUME Len(at.chosen) < Len(lengths), at.next > Len(pool) \/ (at.next = 0 /\ Node(at.chosen, lengths) \in at.visited),
               visit = Failing(at.visited)
        PROVE  Honest(visit, at, pool, lengths)
    BY <1>4, <2>6, FailingHonest
  <2>7. ASSUME Len(at.chosen) < Len(lengths), at.next = 0, visit = search[Entered(at, lengths)]
        PROVE  Honest(visit, at, pool, lengths)
    <3>1. /\ Ready(Entered(at, lengths), pool, lengths)
          /\ \A o : Honest(o, Entered(at, lengths), pool, lengths) => Honest(o, at, pool, lengths)
      BY <1>4, <2>7, EnteredHonest
    <3>2. rank[Entered(at, lengths)] < rank[at]
      BY <1>4, <2>7, RemainingSinks DEF D, rank
    <3> QED BY <2>2, <2>4, <2>7, <3>1, <3>2
  <2>8. ASSUME Len(at.chosen) < Len(lengths), at.next = 0, ~HardestFits(pool, lengths, at.chosen),
               visit = Failing(at.visited \cup {Node(at.chosen, lengths)})
        PROVE  Honest(visit, at, pool, lengths)
    BY <1>4, <2>8, FailingHonest
  <2>9. ASSUME Len(at.chosen) < Len(lengths), at.next \in DOMAIN pool, covers
        PROVE  /\ Honest(below, Deeper(at, w), pool, lengths)
               /\ below.found = {} => PassedOver(below.visited, at, pool, lengths)
    <3>1. /\ Ready(Deeper(at, w), pool, lengths)
          /\ \A o : Honest(o, Deeper(at, w), pool, lengths) /\ o.found = {} => PassedOver(o.visited, at, pool, lengths)
      BY <1>4, <2>9, DeeperReady
    <3>2. at.next <= Len(pool) /\ at.next # 0
      BY <2>9
    <3>3. rank[Deeper(at, w)] < rank[at]
      BY <1>4, <2>9, <3>2, RemainingSinks DEF D, rank
    <3> QED BY <2>2, <2>4, <3>1, <3>3
  <2>10. ASSUME Len(at.chosen) < Len(lengths), at.next \in DOMAIN pool, covers, below.found # {}, visit = below
         PROVE  Honest(visit, at, pool, lengths)
    <3>1. Honest(below, Deeper(at, w), pool, lengths)
      BY <2>9, <2>10
    <3> HIDE DEF below, visit, covers
    <3> QED BY <2>10, <3>1 DEF Honest
  <2>11. ASSUME Len(at.chosen) < Len(lengths), at.next \in DOMAIN pool, NEW visited,
                PassedOver(visited, at, pool, lengths), visit = search[Further(at, visited)]
         PROVE  Honest(visit, at, pool, lengths)
    <3>1. /\ Ready(Further(at, visited), pool, lengths)
          /\ \A o : Honest(o, Further(at, visited), pool, lengths) => Honest(o, at, pool, lengths)
      BY <1>4, <2>11, FurtherHonest
    <3>2. at.next <= Len(pool) /\ visited \in SUBSET Nodes(pool)
      BY <2>11 DEF PassedOver
    <3>3. rank[Further(at, visited)] < rank[at]
      BY <1>4, <2>11, <3>2, RemainingSinks DEF D, rank
    <3> QED BY <2>2, <2>4, <2>11, <3>1, <3>3
  <2>12. ASSUME at.next \in DOMAIN pool, ~covers PROVE PassedOver(at.visited, at, pool, lengths)
    <3>1. \A nd \in at.visited : Len(at.chosen) < nd[1] => Dead(nd, pool, lengths)
      <4>1. at.next # 0
        BY <2>12
      <4> QED BY <1>4, <4>1 DEF Ready, Below
    <3> QED BY <2>3, <2>12, <3>1 DEF PassedOver, CanGoOn
  <2>13. \/ /\ Len(at.chosen) >= Len(lengths)
            /\ visit = [found |-> {at.chosen}, visited |-> at.visited]
         \/ /\ Len(at.chosen) < Len(lengths)
            /\ at.next > Len(pool) \/ (at.next = 0 /\ Node(at.chosen, lengths) \in at.visited)
            /\ visit = Failing(at.visited)
         \/ /\ Len(at.chosen) < Len(lengths)
            /\ at.next = 0 /\ HardestFits(pool, lengths, at.chosen)
            /\ visit = search[Entered(at, lengths)]
         \/ /\ Len(at.chosen) < Len(lengths)
            /\ at.next = 0 /\ ~HardestFits(pool, lengths, at.chosen)
            /\ visit = Failing(at.visited \cup {Node(at.chosen, lengths)})
         \/ /\ Len(at.chosen) < Len(lengths)
            /\ at.next \in DOMAIN pool /\ covers /\ below.found # {} /\ visit = below
         \/ /\ Len(at.chosen) < Len(lengths)
            /\ at.next \in DOMAIN pool /\ covers /\ below.found = {}
            /\ visit = search[Further(at, below.visited)]
         \/ /\ Len(at.chosen) < Len(lengths)
            /\ at.next \in DOMAIN pool /\ ~covers /\ visit = search[Further(at, at.visited)]
    <3>1. at \in SearchPlaces(pool)
      BY DEF D
    <3> QED BY ONLY pool \in Seq(PackWindow), lengths \in Seq(Int), <3>1, VisitIs, Zenon
  <2> HIDE DEF visit, below, covers, w
  <2>14. Honest(visit, at, pool, lengths)
    BY ONLY <2>5, <2>6, <2>7, <2>8, <2>9, <2>10, <2>11, <2>12, <2>13
  <2> QED BY <2>1, <2>14
<1>5. \A at \in P : Good(at)
  OBVIOUS
<1>6. \A at \in D : (\A x \in D : rank[x] < rank[at] => x \in P) => at \in P
  BY ONLY <1>4
<1> HIDE DEF D, rank, P
<1>7. \A at \in D : at \in P
  BY ONLY <1>3, <1>6, RankInduction
<1> DEFINE start == [chosen |-> <<>>, next |-> 0, visited |-> {}]
<1>8. start \in D /\ start.chosen = <<>> /\ start.next = 0 /\ start.visited = {}
  <2>1. <<>> \in Seq(Range(pool)) /\ 0 \in 0..(Len(pool) + 1) /\ {} \in SUBSET Nodes(pool)
    OBVIOUS
  <2> QED BY <2>1 DEF D, SearchPlaces
<1>9. Search(pool, lengths) = search[start]
  BY <1>1 DEF SearchStepwise
<1> HIDE DEF start
<1>10. Ready(start, pool, lengths)
  BY <1>8, FittingNone DEF Ready, D
<1>11. Honest(search[start], start, pool, lengths)
  BY <1>5, <1>7, <1>8, <1>10
<1> QED BY <1>8, <1>9, <1>11 DEF Rescue, Honest

LEMMA RisingInterval ==
    ASSUME NEW n \in Nat
    PROVE  DOMAIN Rising(1..n) = 1..n /\ \A k \in 1..n : Rising(1..n)[k] = k
<1> DEFINE S == 1..n
<1>1. IsFiniteSet(S) /\ Cardinality(S) = n
  BY FS_Interval
<1>2. S \subseteq Int
  OBVIOUS
<1>3. /\ DOMAIN Rising(S) = 1..n
      /\ \A k \in 1..n : Rising(S)[k] \in S /\ Cardinality({y \in S : y <= Rising(S)[k]}) = k
  <2> HIDE DEF S
  <2> QED BY <1>1, <1>2, RisingIs
<1>4. ASSUME NEW k \in 1..n PROVE Rising(S)[k] = k
  <2> DEFINE r == Rising(S)[k]
  <2>1. r \in 1..n /\ Cardinality({y \in S : y <= r}) = k
    BY <1>3
  <2> HIDE DEF r
  <2>2. {y \in S : y <= r} = 1..r
    BY <2>1
  <2>3. r \in Int /\ ~(1 > r) /\ r - 1 + 1 = r
    BY <2>1
  <2>4. Cardinality(1..r) = r
    BY <2>3, FS_Interval
  <2>5. r = k
    BY <2>1, <2>2, <2>4
  <2> QED BY <2>5 DEF r
<1> QED BY <1>3, <1>4

LEMMA PickedAll ==
    ASSUME NEW n \in Nat, NEW all
    PROVE  PickedOf(all, 1..n) = [k \in 1..n |-> all[k]]
<1>1. DOMAIN Rising(1..n) = 1..n /\ \A k \in 1..n : Rising(1..n)[k] = k
  BY RisingInterval
<1> DEFINE r == Rising(1..n)
<1>2. PickedOf(all, 1..n) = [k \in DOMAIN r |-> all[r[k]]]
  BY DEF PickedOf
<1> HIDE DEF r
<1>3. DOMAIN r = 1..n /\ \A k \in 1..n : r[k] = k
  BY <1>1 DEF r
<1> QED BY ONLY <1>2, <1>3

LEMMA PickedIs ==
    ASSUME NEW C, NEW all \in Seq(C), NEW places, places \subseteq DOMAIN all
    PROVE  PickedOf(all, places) \in Seq(C) /\ Range(PickedOf(all, places)) \subseteq Range(all)
<1>1. DOMAIN all = 1..Len(all) /\ Len(all) \in Nat
  OBVIOUS
<1>2. IsFiniteSet(places) /\ places \subseteq Int
  <2>1. IsFiniteSet(1..Len(all))
    BY <1>1, FS_Interval
  <2> QED BY <1>1, <2>1, FS_Subset
<1> DEFINE r == Rising(places)
           n == Cardinality(places)
           picked == PickedOf(all, places)
<1>3. DOMAIN r = 1..n /\ n \in Nat /\ \A k \in 1..n : r[k] \in places
  BY <1>2, RisingIs
<1>4. picked = [k \in DOMAIN r |-> all[r[k]]]
  BY DEF PickedOf
<1> HIDE DEF r, n, picked
<1>5. picked = [k \in 1..n |-> all[r[k]]]
  BY <1>3, <1>4
<1>6. \A k \in 1..n : all[r[k]] \in C /\ all[r[k]] \in Range(all)
  BY <1>3 DEF Range
<1>7. picked \in Seq(C)
  BY <1>3, <1>5, <1>6
<1>8. Range(picked) \subseteq Range(all)
  BY <1>5, <1>6 DEF Range
<1> QED BY <1>7, <1>8 DEF picked

LEMMA PackIs ==
    ASSUME windows \in Inventories
    PROVE  /\ windows \in Seq(PackWindow)
           /\ Fresh \in Seq(PackWindow) /\ Range(Fresh) \subseteq Range(windows)
<1>1. windows \in Seq(PackWindow)
  BY CutConstants DEF PackWindow
<1> DEFINE places == {k \in DOMAIN windows : windows[k].fresh}
<1>2. places \subseteq DOMAIN windows
  OBVIOUS
<1>3. Fresh = PickedOf(windows, places)
  BY DEF Fresh
<1> HIDE DEF places
<1> QED BY <1>1, <1>2, <1>3, PickedIs

(* The chunks between the cuts of a list.                                   *)
LEMMA LengthsAre ==
    ASSUME narration.target \in Nat, NEW cuts \in CutLists
    PROVE  /\ Lengths(cuts) \in Seq(Int)
           /\ Len(cuts) \in Nat /\ (Len(cuts) < 2 => Len(cuts) = 0)
           /\ Len(cuts) > 1 => /\ Len(Lengths(cuts)) = Len(cuts) - 1
                               /\ \A k \in 1..(Len(cuts) - 1) : Lengths(cuts)[k] = cuts[k + 1] - cuts[k]
<1> DEFINE n == Len(cuts)
<1>1. /\ n \in Nat /\ cuts \in [1..n -> 0..narration.target]
      /\ n > 0 => n > 1
  BY DEF CutLists, CutList
<1>2. \A k \in 1..(n - 1) : cuts[k + 1] - cuts[k] \in Int
  <2> SUFFICES ASSUME NEW k \in 1..(n - 1) PROVE cuts[k + 1] - cuts[k] \in Int
    OBVIOUS
  <2>1. k \in 1..n /\ k + 1 \in 1..n
    BY <1>1
  <2>2. cuts[k] \in 0..narration.target /\ cuts[k + 1] \in 0..narration.target
    BY <1>1, <2>1
  <2> QED BY <2>2
<1>3. Lengths(cuts) = [k \in 1..(n - 1) |-> cuts[k + 1] - cuts[k]]
  BY DEF Lengths
<1> HIDE DEF n
<1>4. CASE n = 0
  <2>1. 1..(n - 1) = {}
    BY <1>4
  <2>2. Lengths(cuts) = <<>>
    BY <1>3, <2>1
  <2> QED BY <1>4, <2>2 DEF n
<1>5. CASE n > 1
  <2>1. n - 1 \in Nat
    BY <1>1, <1>5
  <2> DEFINE l == Lengths(cuts)
  <2> HIDE DEF l
  <2>2. l = [k \in 1..(n - 1) |-> cuts[k + 1] - cuts[k]]
    BY <1>3 DEF l
  <2>3. l \in [1..(n - 1) -> Int]
    BY <1>2, <2>2
  <2>4. l \in Seq(Int) /\ Len(l) = n - 1
    BY ONLY <2>1, <2>3
  <2> QED BY <1>1, <1>5, <2>2, <2>4 DEF l, n
<1> QED BY <1>1, <1>4, <1>5

LEMMA ElseIs ==
    ASSUME NEW beams, NEW next, NEW chosen \in Else(beams, next)
    PROVE  (\E beam \in beams : chosen \in beam) \/ (chosen \in next /\ {} \in beams)
BY DEF Else

(* An assignment covers all the chunks.                                     *)
LEMMA AssignmentsFit ==
    ASSUME narration.target \in Nat, NEW cuts \in CutLists, NEW pool \in Seq(PackWindow),
           NEW chosen \in Assignments(pool, cuts), chosen # NoPlan
    PROVE  Len(cuts) > 1 /\ Fitting(chosen, pool, Lengths(cuts)) /\ Len(chosen) = Len(cuts) - 1
<1> DEFINE lengths == Lengths(cuts)
<1>1. lengths \in Seq(Int) /\ Len(cuts) \in Nat /\ (Len(cuts) > 1 => Len(lengths) = Len(cuts) - 1)
  BY LengthsAre
<1> HIDE DEF lengths
<1>2. ~(Len(cuts) < 2 \/ pool = <<>>)
  BY DEF Assignments, NoPlan
<1>3. Len(cuts) > 1
  BY <1>1, <1>2
<1> DEFINE rescued == Else({Rescue(pool, lengths)}, {NoPlan})
           open == Else(Beams(pool, lengths, TRUE), rescued)
<1>4. chosen \in Else(Beams(pool, lengths, FALSE), open)
  BY <1>2 DEF Assignments, lengths
<1>5. \/ \E beam \in Beams(pool, lengths, FALSE) : chosen \in beam
      \/ \E beam \in Beams(pool, lengths, TRUE) : chosen \in beam
      \/ chosen \in Rescue(pool, lengths)
  <2> HIDE DEF rescued, open
  <2>1. (\E beam \in Beams(pool, lengths, FALSE) : chosen \in beam) \/ chosen \in open
    BY <1>4, ElseIs
  <2>2. chosen \in open => (\E beam \in Beams(pool, lengths, TRUE) : chosen \in beam) \/ chosen \in rescued
    <3> SUFFICES ASSUME chosen \in open
                 PROVE  (\E beam \in Beams(pool, lengths, TRUE) : chosen \in beam) \/ chosen \in rescued
      OBVIOUS
    <3>1. chosen \in Else(Beams(pool, lengths, TRUE), rescued)
      BY DEF open
    <3> QED BY <3>1, ElseIs
  <2>3. chosen \in rescued => chosen \in Rescue(pool, lengths)
    <3> SUFFICES ASSUME chosen \in rescued PROVE chosen \in Rescue(pool, lengths)
      OBVIOUS
    <3> DEFINE found == {Rescue(pool, lengths)}
               none == {NoPlan}
    <3>1. chosen \in Else(found, none)
      BY DEF rescued
    <3> HIDE DEF found, none
    <3>2. (\E beam \in found : chosen \in beam) \/ chosen \in none
      BY <3>1, ElseIs
    <3> QED BY <3>2 DEF found, none
  <2> QED BY <2>1, <2>2, <2>3
<1>6. Fitting(chosen, pool, lengths) /\ Len(chosen) = Len(lengths)
  <2>1. ASSUME NEW original \in BOOLEAN, NEW beam \in Beams(pool, lengths, original), chosen \in beam
        PROVE  Fitting(chosen, pool, lengths) /\ Len(chosen) = Len(lengths)
    BY <1>1, <2>1, BeamsFit
  <2>2. CASE chosen \in Rescue(pool, lengths)
    BY <1>1, <2>2, SearchIs
  <2> QED BY <1>5, <2>1, <2>2
<1> QED BY <1>1, <1>3, <1>6 DEF lengths

(* Chunks go without windows only when no windows cover them.               *)
LEMMA AssignmentsReal ==
    ASSUME narration.target \in Nat, NEW cuts \in CutLists, NEW pool \in Seq(PackWindow),
           NoPlan \in Assignments(pool, cuts), Len(cuts) > 1, pool # <<>>
    PROVE  ~Completable(<<>>, pool, Lengths(cuts))
<1> DEFINE lengths == Lengths(cuts)
<1>1. lengths \in Seq(Int) /\ Len(cuts) \in Nat /\ Len(lengths) = Len(cuts) - 1
  BY LengthsAre
<1> HIDE DEF lengths
<1>2. ~(Len(cuts) < 2 \/ pool = <<>>)
  BY <1>1
<1>3. Len(lengths) # 0 /\ Len(<<>>) = 0
  BY <1>1
<1> DEFINE rescued == Else({Rescue(pool, lengths)}, {NoPlan})
           open == Else(Beams(pool, lengths, TRUE), rescued)
<1>4. NoPlan \in Else(Beams(pool, lengths, FALSE), open)
  BY <1>2 DEF Assignments, lengths
<1>5. \A original \in BOOLEAN : \A beam \in Beams(pool, lengths, original) : NoPlan \notin beam
  <2> SUFFICES ASSUME NEW original \in BOOLEAN, NEW beam \in Beams(pool, lengths, original), NoPlan \in beam
               PROVE  FALSE
    OBVIOUS
  <2> DEFINE chosen == NoPlan
  <2>1. chosen \in beam
    OBVIOUS
  <2> HIDE DEF chosen, rescued, open
  <2>2. lengths \in Seq(Int) /\ beam \in Beams(pool, lengths, original)
    BY <1>1
  <2>3. Fitting(chosen, pool, lengths) /\ Len(chosen) = Len(lengths)
    BY ONLY <2>1, <2>2, BeamsFit
  <2> QED BY <1>3, <2>3 DEF chosen, NoPlan
<1>6. NoPlan \notin Rescue(pool, lengths)
  BY <1>1, <1>3, SearchIs DEF NoPlan
<1>7. {} \in {Rescue(pool, lengths)}
  <2> DEFINE found == {Rescue(pool, lengths)}
             none == {NoPlan}
             nothing == NoPlan
  <2>1. nothing \notin Rescue(pool, lengths)
    BY <1>6
  <2>2. nothing \in Else(Beams(pool, lengths, FALSE), open)
    BY <1>4
  <2> HIDE DEF rescued, open, nothing, found, none
  <2>3. nothing \in open
    BY <1>5, <2>2, ElseIs DEF nothing
  <2>4. nothing \in Else(Beams(pool, lengths, TRUE), rescued)
    BY <2>3 DEF open
  <2>5. nothing \in rescued
    BY <1>5, <2>4, ElseIs DEF nothing
  <2>6. nothing \in Else(found, none)
    BY <2>5 DEF rescued, found, none
  <2>7. (\E beam \in found : nothing \in beam) \/ {} \in found
    BY <2>6, ElseIs
  <2> QED BY <2>1, <2>7 DEF found
<1>8. Rescue(pool, lengths) = {}
  BY <1>7
<1> QED BY <1>1, <1>8, SearchIs DEF lengths

LEMMA CoverIs ==
    ASSUME narration.target \in Nat, NEW cuts \in CutLists, windows \in Seq(PackWindow), CanCover(cuts)
    PROVE  Len(cuts) > 1 /\ windows # <<>> /\ Completable(<<>>, windows, Lengths(cuts))
<1> DEFINE lengths == Lengths(cuts)
           n == Len(lengths)
<1>1. Len(cuts) > 1
  BY DEF CanCover
<1>2. lengths \in Seq(Int) /\ n = Len(cuts) - 1 /\ Len(cuts) \in Nat
  BY <1>1, LengthsAre
<1>3. n \in Nat /\ n > 0 /\ DOMAIN lengths = 1..n
  BY <1>1, <1>2
<1>4. PICK choice \in [DOMAIN lengths -> DOMAIN windows] :
         /\ \A k \in DOMAIN choice : LengthOf(windows[choice[k]]) + 1 >= lengths[k]
         /\ \A j, k \in DOMAIN choice : windows[choice[j]].asset = windows[choice[k]].asset => j = k
  BY DEF CanCover
<1> HIDE DEF lengths, n
<1> DEFINE full == [k \in 1..n |-> windows[choice[k]]]
<1>5. DOMAIN choice = 1..n /\ \A k \in 1..n : choice[k] \in DOMAIN windows
  BY <1>3, <1>4
<1>6. windows # <<>>
  BY <1>3, <1>5
<1>7. \A k \in 1..n : full[k] = windows[choice[k]] /\ full[k] \in Range(windows)
  BY <1>5 DEF Range
<1>8. full \in [1..n -> Range(windows)]
  BY <1>7
<1> HIDE DEF full
<1>9. full \in Seq(Range(windows)) /\ Len(full) = n
  BY ONLY <1>3, <1>8
<1>10. \A k \in 1..n : LengthOf(full[k]) + 1 >= lengths[k]
  BY <1>4, <1>5, <1>7
<1>11. \A j, k \in 1..n : full[j].asset = full[k].asset => j = k
  BY <1>4, <1>5, <1>7
<1>12. Fitting(full, windows, lengths) /\ Len(full) = Len(lengths)
  <2>1. n <= n
    BY <1>3
  <2> QED BY <1>9, <1>10, <1>11, <2>1 DEF Fitting, n
<1>13. Completing(full, <<>>, windows, lengths)
  <2>1. Len(<<>>) = 0 /\ 1..0 = {}
    OBVIOUS
  <2> QED BY <1>3, <1>9, <1>12, <2>1 DEF Completing
<1> QED BY <1>1, <1>6, <1>13 DEF Completable, lengths

(* A plan that TrackIsWhole allows, and whose windows are candidates.       *)
Whole(plan) ==
    /\ plan[1].from = 0 /\ Last(plan).to = Frame(narration.target)
    /\ \A k \in 1..(Len(plan) - 1) : plan[k].to = plan[k + 1].from
    /\ \A j, k \in DOMAIN plan : plan[j].window.asset = plan[k].window.asset => j = k
    /\ \A k \in DOMAIN plan :
          /\ Frame(plan[k].window.from) <= plan[k].source.from
          /\ plan[k].source.to <= Frame(plan[k].window.to)
    /\ \A k \in DOMAIN plan : plan[k].window \in Range(windows)

(* Times that are far enough apart are two frames apart.                    *)
LEMMA FramesApart ==
    ASSUME NEW s \in Int, NEW t \in Int, s + 80 <= t
    PROVE  Frame(s) \in Int /\ Frame(t) \in Int /\ Frame(s) + 2 <= Frame(t)
BY DEF Frame

(* What is sliced from a window that is no shorter than what counts as a    *)
(* duration stays inside it.                                                *)
LEMMA SliceInside ==
    ASSUME NEW w \in PackWindow, LengthOf(w) >= 80, NEW frames \in Int, frames >= 1
    PROVE  Frame(w.from) <= Slice(w, frames).from /\ Slice(w, frames).to <= Frame(w.to)
<1>1. w.from \in Int /\ w.to \in Int /\ w.from + 80 <= w.to
  BY DEF LengthOf, PackWindow
<1> DEFINE a == Frame(w.from)
           b == Frame(w.to)
           over == Larger(0, a + frames - b)
<1>2. a \in Int /\ b \in Int /\ a + 2 <= b
  BY <1>1, FramesApart
<1>3. Slice(w, frames).from = a
  BY DEF Slice
<1>4. Slice(w, frames).to = a + (IF over > 0 THEN Larger(1, frames - over) ELSE frames)
  BY DEF Slice
<1> HIDE DEF a, b
<1>5. a + (IF over > 0 THEN Larger(1, frames - over) ELSE frames) <= b
  BY ONLY <1>2, frames \in Int, frames >= 1 DEF Larger
<1> QED BY <1>2, <1>3, <1>4, <1>5 DEF a, b

(* Every chunk of an assignment becomes a segment, and the segments are     *)
(* whole.                                                                   *)
LEMMA QuantizedIs ==
    ASSUME narration.target \in Nat, NEW cuts \in CutLists, NEW chosen,
           Len(cuts) > 1, Len(chosen) = Len(cuts) - 1,
           windows \in Seq(PackWindow), NEW pool \in Seq(PackWindow), Range(pool) \subseteq Range(windows),
           Fitting(chosen, pool, Lengths(cuts))
    PROVE  Quantized(cuts, chosen) # NoPlan /\ Whole(Quantized(cuts, chosen))
<1> DEFINE n == Len(cuts) - 1
           lengths == Lengths(cuts)
           all == [k \in DOMAIN chosen |-> Segment(chosen[k], cuts[k], cuts[k + 1])]
<1>1. /\ Len(cuts) \in Nat /\ cuts \in [1..Len(cuts) -> 0..narration.target]
      /\ cuts[1] = 0 /\ cuts[Len(cuts)] = narration.target
      /\ \A k \in 1..(Len(cuts) - 1) : cuts[k] + Shortest < cuts[k + 1]
  BY DEF CutLists, CutList
<1>2. n \in Nat /\ n >= 1 /\ Len(chosen) = n /\ n + 1 = Len(cuts)
  BY <1>1
<1>3. \A k \in 1..n : lengths[k] = cuts[k + 1] - cuts[k]
  BY LengthsAre
<1>4. /\ chosen \in Seq(Range(pool))
      /\ \A k \in 1..n : LengthOf(chosen[k]) + 1 >= lengths[k]
      /\ \A j, k \in 1..n : chosen[j].asset = chosen[k].asset => j = k
  BY <1>2 DEF Fitting
<1>5. DOMAIN chosen = 1..n /\ \A k \in 1..n : chosen[k] \in Range(pool)
  BY <1>2, <1>4
<1>6. \A k \in 1..n : chosen[k] \in PackWindow /\ chosen[k] \in Range(windows)
  <2>1. \A w \in Range(windows) : w \in PackWindow
    BY DEF Range
  <2> QED BY <1>5, <2>1
<1>7. \A k \in 1..n : /\ cuts[k] \in Int /\ cuts[k + 1] \in Int /\ cuts[k] + 80 < cuts[k + 1]
  <2> SUFFICES ASSUME NEW k \in 1..n PROVE cuts[k] \in Int /\ cuts[k + 1] \in Int /\ cuts[k] + 80 < cuts[k + 1]
    OBVIOUS
  <2>1. k \in 1..Len(cuts) /\ k + 1 \in 1..Len(cuts) /\ k \in 1..(Len(cuts) - 1)
    BY <1>1
  <2>2. cuts[k] \in 0..narration.target /\ cuts[k + 1] \in 0..narration.target
    BY <1>1, <2>1
  <2> QED BY <1>1, <2>1, <2>2 DEF Shortest
<1>8. \A k \in 1..n :
        /\ Frame(cuts[k]) \in Int /\ Frame(cuts[k + 1]) \in Int /\ Frame(cuts[k]) + 2 <= Frame(cuts[k + 1])
  <2> SUFFICES ASSUME NEW k \in 1..n
               PROVE  /\ Frame(cuts[k]) \in Int /\ Frame(cuts[k + 1]) \in Int
                      /\ Frame(cuts[k]) + 2 <= Frame(cuts[k + 1])
    OBVIOUS
  <2> DEFINE s == cuts[k]
             t == cuts[k + 1]
  <2>1. s \in Int /\ t \in Int /\ s + 80 < t
    BY <1>7
  <2> HIDE DEF s, t
  <2>2. s + 80 <= t
    BY <2>1
  <2>3. Frame(s) \in Int /\ Frame(t) \in Int /\ Frame(s) + 2 <= Frame(t)
    BY ONLY <2>1, <2>2, FramesApart
  <2> QED BY <2>3 DEF s, t
<1>9. \A k \in 1..n : /\ all[k].window = chosen[k]
                       /\ all[k].from = Frame(cuts[k]) /\ all[k].to = Frame(cuts[k + 1])
                       /\ all[k].source = Slice(chosen[k], Frame(cuts[k + 1]) - Frame(cuts[k]))
  BY <1>5 DEF Segment
<1>10. DOMAIN all = 1..n
  BY <1>5
<1> DEFINE plan == Quantized(cuts, chosen)
<1>11. plan = PickedOf(all, {k \in DOMAIN all : all[k].to > all[k].from})
  BY DEF Quantized
<1> HIDE DEF n, lengths, all, plan
<1>12. {k \in DOMAIN all : all[k].to > all[k].from} = 1..n
  <2>1. \A k \in 1..n : all[k].to > all[k].from
    <3> SUFFICES ASSUME NEW k \in 1..n PROVE all[k].to > all[k].from
      OBVIOUS
    <3>1. all[k].to = Frame(cuts[k + 1]) /\ all[k].from = Frame(cuts[k])
      BY <1>9
    <3> QED BY <1>8, <3>1
  <2> QED BY <1>10, <2>1
<1>13. plan = [k \in 1..n |-> all[k]]
  <2>1. PickedOf(all, 1..n) = [k \in 1..n |-> all[k]]
    BY <1>2, PickedAll
  <2> QED BY ONLY <1>11, <1>12, <2>1
<1>14. /\ Len(plan) = n /\ DOMAIN plan = 1..n
       /\ \A k \in 1..n : plan[k] = all[k]
  BY <1>2, <1>13
<1>15. \A k \in 1..n : /\ plan[k].window = chosen[k]
                       /\ plan[k].from = Frame(cuts[k]) /\ plan[k].to = Frame(cuts[k + 1])
                       /\ plan[k].source = Slice(chosen[k], Frame(cuts[k + 1]) - Frame(cuts[k]))
  BY <1>9, <1>14
<1>16. plan # NoPlan
  <2>1. 1 \in 1..n
    BY <1>2
  <2> QED BY <1>14, <2>1 DEF NoPlan
<1>17. plan[1].from = 0 /\ Last(plan).to = Frame(narration.target)
  <2>1. 1 \in 1..n /\ n \in 1..n
    BY <1>2
  <2>2. Frame(0) = 0
    BY DEF Frame
  <2>3. Last(plan) = plan[n]
    BY <1>14 DEF Last
  <2> QED BY <1>1, <1>2, <1>15, <2>1, <2>2, <2>3
<1>18. \A k \in 1..(n - 1) : plan[k].to = plan[k + 1].from
  <2> SUFFICES ASSUME NEW k \in 1..(n - 1) PROVE plan[k].to = plan[k + 1].from
    OBVIOUS
  <2>1. k \in 1..n /\ k + 1 \in 1..n
    BY <1>2
  <2> QED BY <1>15, <2>1
<1>19. \A j, k \in 1..n : plan[j].window.asset = plan[k].window.asset => j = k
  BY <1>4, <1>15
<1>20. \A k \in 1..n : /\ Frame(plan[k].window.from) <= plan[k].source.from
                       /\ plan[k].source.to <= Frame(plan[k].window.to)
  <2> SUFFICES ASSUME NEW k \in 1..n
               PROVE  /\ Frame(plan[k].window.from) <= plan[k].source.from
                      /\ plan[k].source.to <= Frame(plan[k].window.to)
    OBVIOUS
  <2> DEFINE w == chosen[k]
             frames == Frame(cuts[k + 1]) - Frame(cuts[k])
  <2>1. frames \in Int /\ frames >= 1
    BY <1>8
  <2>2. w \in PackWindow
    BY <1>6
  <2>3. LengthOf(w) >= 80
    <3>1. LengthOf(w) + 1 >= cuts[k + 1] - cuts[k]
      BY <1>3, <1>4
    <3>2. LengthOf(w) \in Int
      BY <2>2 DEF LengthOf, PackWindow
    <3> HIDE DEF w
    <3> QED BY <1>7, <3>1, <3>2
  <2>4. plan[k].window = w /\ plan[k].source = Slice(w, frames)
    BY <1>15
  <2> HIDE DEF w, frames
  <2>5. Frame(w.from) <= Slice(w, frames).from /\ Slice(w, frames).to <= Frame(w.to)
    BY ONLY <2>1, <2>2, <2>3, SliceInside
  <2> QED BY <2>4, <2>5
<1>21. \A k \in 1..n : plan[k].window \in Range(windows)
  BY <1>6, <1>15
<1>22. Whole(plan)
  BY <1>14, <1>17, <1>18, <1>19, <1>20, <1>21 DEF Whole
<1> QED BY <1>16, <1>22 DEF plan

LEMMA QuantizedNone ==
    ASSUME NEW cuts
    PROVE  Quantized(cuts, NoPlan) = NoPlan
<1> DEFINE all == [k \in DOMAIN NoPlan |-> Segment(NoPlan[k], cuts[k], cuts[k + 1])]
           places == {k \in DOMAIN all : all[k].to > all[k].from}
<1>1. DOMAIN NoPlan = {}
  BY DEF NoPlan
<1>2. DOMAIN all = {}
  BY <1>1
<1>3. Quantized(cuts, NoPlan) = PickedOf(all, places)
  BY DEF Quantized
<1> HIDE DEF all
<1>4. 0 \in Nat /\ 1..0 = {}
  OBVIOUS
<1>5. places = 1..0
  BY <1>2, <1>4
<1> HIDE DEF places
<1>6. PickedOf(all, 1..0) = [k \in 1..0 |-> all[k]]
  BY <1>4, PickedAll
<1>7. [k \in 1..0 |-> all[k]] = <<>>
  BY <1>4
<1> QED BY <1>3, <1>5, <1>6, <1>7 DEF NoPlan

LEMMA PlansSound ==
    ASSUME narration.target \in Nat, windows \in Seq(PackWindow),
           NEW pool \in Seq(PackWindow), Range(pool) \subseteq Range(windows),
           NEW variants \in SUBSET CutLists, NEW plan \in Plans(pool, variants), plan # NoPlan
    PROVE  Whole(plan)
<1>1. PICK cuts \in variants : \E chosen \in Assignments(pool, cuts) : plan = Quantized(cuts, chosen)
  <2> DEFINE outcomes == {{Quantized(cuts, chosen) : chosen \in Assignments(pool, cuts)} : cuts \in variants}
  <2>1. plan \in AnyCovered(outcomes)
    BY DEF Plans
  <2>2. \A plans \in outcomes : \E cuts \in variants :
           plans = {Quantized(cuts, chosen) : chosen \in Assignments(pool, cuts)}
    OBVIOUS
  <2> HIDE DEF outcomes
  <2>3. PICK plans \in outcomes : plan \in plans
    <3> DEFINE covered == {plans \ {NoPlan} : plans \in outcomes}
    <3>1. plan \in UNION covered
      BY <2>1 DEF AnyCovered
    <3>2. \A S \in covered : \E plans \in outcomes : S = plans \ {NoPlan}
      OBVIOUS
    <3> HIDE DEF covered
    <3>3. PICK S \in covered : plan \in S
      BY <3>1
    <3> QED BY <3>2, <3>3
  <2>4. PICK cuts \in variants : plans = {Quantized(cuts, chosen) : chosen \in Assignments(pool, cuts)}
    BY <2>2
  <2>5. \E chosen \in Assignments(pool, cuts) : plan = Quantized(cuts, chosen)
    BY <2>3, <2>4
  <2> QED BY <2>5
<1>2. PICK chosen \in Assignments(pool, cuts) : plan = Quantized(cuts, chosen)
  BY <1>1
<1>3. chosen # NoPlan
  <2>1. Quantized(cuts, NoPlan) = NoPlan
    BY QuantizedNone
  <2> QED BY <1>2, <2>1
<1>4. cuts \in CutLists
  OBVIOUS
<1>5. Len(cuts) > 1 /\ Fitting(chosen, pool, Lengths(cuts)) /\ Len(chosen) = Len(cuts) - 1
  BY <1>3, <1>4, AssignmentsFit
<1> QED BY <1>2, <1>4, <1>5, QuantizedIs

(* Variants go without a plan only when none of them can be covered.        *)
LEMMA PlansReal ==
    ASSUME narration.target \in Nat, windows \in Seq(PackWindow),
           NEW variants \in SUBSET CutLists, NoPlan \in Plans(windows, variants), NEW cuts \in variants
    PROVE  ~CanCover(cuts)
<1>1. cuts \in CutLists
  OBVIOUS
<1> DEFINE outcomes == {{Quantized(c, chosen) : chosen \in Assignments(windows, c)} : c \in variants}
           of == {Quantized(cuts, chosen) : chosen \in Assignments(windows, cuts)}
<1>2. NoPlan \in AnyCovered(outcomes)
  BY DEF Plans
<1>3. of \in outcomes
  OBVIOUS
<1> HIDE DEF outcomes
<1>4. NoPlan \in of
  <2> HIDE DEF of
  <2> QED BY <1>2, <1>3 DEF AnyCovered
<1>5. PICK chosen \in Assignments(windows, cuts) : NoPlan = Quantized(cuts, chosen)
  BY <1>4
<1>6. chosen = NoPlan
  <2> SUFFICES ASSUME chosen # NoPlan PROVE FALSE
    OBVIOUS
  <2>1. Len(cuts) > 1 /\ Fitting(chosen, windows, Lengths(cuts)) /\ Len(chosen) = Len(cuts) - 1
    BY <1>1, AssignmentsFit
  <2>2. Quantized(cuts, chosen) # NoPlan
    BY <1>1, <2>1, QuantizedIs
  <2> QED BY <1>5, <2>2
<1> SUFFICES ASSUME CanCover(cuts) PROVE FALSE
  OBVIOUS
<1>7. Len(cuts) > 1 /\ windows # <<>> /\ Completable(<<>>, windows, Lengths(cuts))
  BY <1>1, CoverIs
<1> QED BY <1>1, <1>5, <1>6, <1>7, AssignmentsReal

LEMMA FirstFoundIs ==
    ASSUME NEW R, NEW a \in Seq(R), NEW b \in Seq(R), NEW plan \in FirstFound(a \o b)
    PROVE  /\ plan # NoPlan => (\E k \in DOMAIN a : plan \in a[k]) \/ (\E k \in DOMAIN b : plan \in b[k])
           /\ plan = NoPlan => \A k \in DOMAIN b : NoPlan \in b[k]
<1> DEFINE c == a \o b
<1>1. /\ DOMAIN a = 1..Len(a) /\ DOMAIN b = 1..Len(b) /\ Len(a) \in Nat /\ Len(b) \in Nat
      /\ DOMAIN c = 1..(Len(a) + Len(b))
      /\ \A k \in 1..(Len(a) + Len(b)) : c[k] = IF k <= Len(a) THEN a[k] ELSE b[k - Len(a)]
  OBVIOUS
<1>2. plan \in FirstFound(c)
  OBVIOUS
<1> HIDE DEF c
<1>3. plan # NoPlan => \E k \in DOMAIN c : plan \in c[k]
  <2> DEFINE first == {j \in DOMAIN c : \A i \in 1..(j - 1) : NoPlan \in c[i]}
             found == {c[k] \ {NoPlan} : k \in first}
             none == IF \A k \in DOMAIN c : NoPlan \in c[k] THEN {NoPlan} ELSE {}
  <2>1. plan \in (UNION found) \cup none
    BY <1>2 DEF FirstFound
  <2>2. first \subseteq DOMAIN c /\ none \subseteq {NoPlan}
    OBVIOUS
  <2>3. \A S \in found : \E k \in first : S = c[k] \ {NoPlan}
    OBVIOUS
  <2> HIDE DEF first, found, none
  <2> SUFFICES ASSUME plan # NoPlan PROVE \E k \in DOMAIN c : plan \in c[k]
    OBVIOUS
  <2>4. PICK S \in found : plan \in S
    BY <2>1, <2>2
  <2>5. PICK k \in first : S = c[k] \ {NoPlan}
    BY <2>3
  <2> QED BY <2>2, <2>4, <2>5
<1>4. plan = NoPlan => \A k \in DOMAIN c : NoPlan \in c[k]
  BY <1>2 DEF FirstFound
<1>5. \A k \in DOMAIN c : \/ k \in DOMAIN a /\ c[k] = a[k]
                          \/ k - Len(a) \in DOMAIN b /\ c[k] = b[k - Len(a)]
  BY ONLY <1>1
<1>6. \A k \in DOMAIN b : k + Len(a) \in DOMAIN c /\ c[k + Len(a)] = b[k]
  <2> SUFFICES ASSUME NEW k \in DOMAIN b PROVE k + Len(a) \in DOMAIN c /\ c[k + Len(a)] = b[k]
    OBVIOUS
  <2> DEFINE j == k + Len(a)
  <2>1. j \in 1..(Len(a) + Len(b)) /\ ~(j <= Len(a)) /\ j - Len(a) = k
    BY <1>1
  <2> HIDE DEF j
  <2>2. j \in DOMAIN c /\ c[j] = b[k]
    BY ONLY <1>1, <2>1
  <2> QED BY <2>2 DEF j
<1>7. plan # NoPlan => (\E k \in DOMAIN a : plan \in a[k]) \/ (\E k \in DOMAIN b : plan \in b[k])
  <2> SUFFICES ASSUME plan # NoPlan
               PROVE  (\E k \in DOMAIN a : plan \in a[k]) \/ (\E k \in DOMAIN b : plan \in b[k])
    OBVIOUS
  <2>1. PICK k \in DOMAIN c : plan \in c[k]
    BY <1>3
  <2> QED BY <1>5, <2>1
<1> QED BY <1>4, <1>6, <1>7

(* What one stage of the ladder finds.                                      *)
LEMMA PlansForIs ==
    ASSUME narration \in Narrations, windows \in Inventories, NEW maxChunk \in Int,
           NEW plan \in PlansFor(maxChunk)
    PROVE  /\ plan # NoPlan => Whole(plan)
           /\ plan = NoPlan => \A tier \in Range(Tiers(maxChunk)) : \A cuts \in tier : ~CanCover(cuts)
<1> DEFINE tiers == Tiers(maxChunk)
           InTiers(pool) == [k \in DOMAIN tiers |-> Plans(pool, tiers[k])]
           a == InTiers(Fresh)
           b == InTiers(windows)
           R == Range(a) \cup Range(b)
<1>1. narration.target \in Nat
  BY CutConstants
<1>2. /\ windows \in Seq(PackWindow)
      /\ Fresh \in Seq(PackWindow) /\ Range(Fresh) \subseteq Range(windows)
  BY PackIs
<1>3. tiers \in Seq(SUBSET CutLists)
  BY TiersAre
<1>4. plan \in FirstFound(a \o b)
  BY DEF PlansFor, PlansIn
<1> HIDE DEF tiers
<1>5. DOMAIN tiers = 1..Len(tiers) /\ Len(tiers) \in Nat /\ \A k \in DOMAIN tiers : tiers[k] \in SUBSET CutLists
  BY <1>3
<1>6. /\ DOMAIN a = DOMAIN tiers /\ \A k \in DOMAIN tiers : a[k] = Plans(Fresh, tiers[k])
      /\ DOMAIN b = DOMAIN tiers /\ \A k \in DOMAIN tiers : b[k] = Plans(windows, tiers[k])
  OBVIOUS
<1>7. a \in [1..Len(tiers) -> R] /\ b \in [1..Len(tiers) -> R]
  BY <1>5 DEF Range
<1> HIDE DEF a, b, R
<1>8. a \in Seq(R) /\ b \in Seq(R)
  BY ONLY <1>5, <1>7
<1>9. /\ plan # NoPlan => (\E k \in DOMAIN a : plan \in a[k]) \/ (\E k \in DOMAIN b : plan \in b[k])
      /\ plan = NoPlan => \A k \in DOMAIN b : NoPlan \in b[k]
  BY <1>4, <1>8, FirstFoundIs
<1>10. plan # NoPlan => Whole(plan)
  <2> SUFFICES ASSUME plan # NoPlan PROVE Whole(plan)
    OBVIOUS
  <2>1. PICK k \in DOMAIN tiers : plan \in Plans(Fresh, tiers[k]) \/ plan \in Plans(windows, tiers[k])
    BY <1>6, <1>9
  <2>2. tiers[k] \in SUBSET CutLists /\ Range(windows) \subseteq Range(windows)
    BY <1>5
  <2> DEFINE variants == tiers[k]
  <2> HIDE DEF variants
  <2>3. variants \in SUBSET CutLists /\ (plan \in Plans(Fresh, variants) \/ plan \in Plans(windows, variants))
    BY <2>1, <2>2 DEF variants
  <2>4. CASE plan \in Plans(Fresh, variants)
    BY <1>1, <1>2, <2>3, <2>4, PlansSound
  <2>5. CASE plan \in Plans(windows, variants)
    BY <1>1, <1>2, <2>2, <2>3, <2>5, PlansSound
  <2> QED BY <2>3, <2>4, <2>5
<1>11. plan = NoPlan => \A tier \in Range(tiers) : \A cuts \in tier : ~CanCover(cuts)
  <2> SUFFICES ASSUME plan = NoPlan, NEW tier \in Range(tiers), NEW cuts \in tier
               PROVE  ~CanCover(cuts)
    OBVIOUS
  <2>1. PICK k \in DOMAIN tiers : tier = tiers[k]
    BY DEF Range
  <2>2. NoPlan \in Plans(windows, tier)
    BY <1>6, <1>9, <2>1
  <2>3. tier \in SUBSET CutLists
    BY <1>5, <2>1
  <2> QED BY <1>1, <1>2, <2>2, <2>3, PlansReal
<1> QED BY <1>10, <1>11 DEF tiers

(* The stages are known from the start, and each has a limit or none.       *)
LEMMA EscalationIs ==
    ASSUME narration \in Narrations, windows \in Inventories
    PROVE  /\ Len(Escalation) \in Nat /\ DOMAIN Escalation = 1..Len(Escalation)
           /\ \A k \in DOMAIN Escalation : Escalation[k].maxChunk \in Int
<1>1. Longest \in Int
  <2>1. windows \in Seq(PackWindow)
    BY PackIs
  <2>2. CASE windows = <<>>
    BY <2>2 DEF Longest
  <2>3. CASE windows # <<>>
    <3> DEFINE S == {LengthOf(w) : w \in Range(windows)}
    <3>1. S \subseteq Int
      <4>1. \A w \in Range(windows) : w \in PackWindow
        BY <2>1 DEF Range
      <4> QED BY <4>1 DEF PackWindow, LengthOf
    <3>2. S # {}
      <4>1. 1 \in DOMAIN windows
        BY <2>1, <2>3
      <4> QED BY <4>1 DEF Range
    <3>3. IsFiniteSet(S)
      <4>1. Len(windows) \in Nat /\ DOMAIN windows = 1..Len(windows)
        BY <2>1
      <4>2. IsFiniteSet(1..Len(windows))
        BY <4>1, FS_Interval
      <4> DEFINE f == [k \in 1..Len(windows) |-> LengthOf(windows[k])]
      <4>3. f \in Surjection(1..Len(windows), S)
        BY <4>1 DEF Surjection, Range
      <4> HIDE DEF f, S
      <4> QED BY <4>2, <4>3, FS_Surjection
    <3>4. Longest = Max(S)
      BY <2>3 DEF Longest
    <3> HIDE DEF S
    <3>5. Max(S) \in S
      BY <3>1, <3>2, <3>3, HasMax
    <3> QED BY <3>1, <3>4, <3>5
  <2> QED BY <2>2, <2>3
<1> DEFINE Stage == [stage : {"full_pool", "split", "pause_split"}, maxChunk : Int]
           one == <<[stage |-> "full_pool", maxChunk |-> None]>>
           two == IF Longest > Shortest THEN <<[stage |-> "split", maxChunk |-> Longest]>> ELSE <<>>
           three == IF narration.pauses # {} /\ Longest > 8050
                    THEN <<[stage |-> "pause_split", maxChunk |-> 8000]>> ELSE <<>>
<1>2. one \in Seq(Stage)
  BY DEF None
<1>3. two \in Seq(Stage)
  <2>1. [stage |-> "split", maxChunk |-> Longest] \in Stage
    BY <1>1
  <2> DEFINE s == [stage |-> "split", maxChunk |-> Longest]
  <2> HIDE DEF Stage, s
  <2>2. s \in Stage
    BY <2>1 DEF s
  <2>3. <<s>> \in Seq(Stage) /\ <<>> \in Seq(Stage)
    BY ONLY <2>2
  <2>4. two = <<s>> \/ two = <<>>
    BY Zenon DEF s
  <2> QED BY <2>3, <2>4
<1>4. three \in Seq(Stage)
  <2>1. [stage |-> "pause_split", maxChunk |-> 8000] \in Stage
    OBVIOUS
  <2> DEFINE s == [stage |-> "pause_split", maxChunk |-> 8000]
  <2> HIDE DEF Stage, s
  <2>2. s \in Stage
    BY <2>1 DEF s
  <2>3. <<s>> \in Seq(Stage) /\ <<>> \in Seq(Stage)
    BY ONLY <2>2
  <2>4. three = <<s>> \/ three = <<>>
    <3>1. CASE narration.pauses # {} /\ Longest > 8050
      BY <3>1 DEF s
    <3>2. CASE ~(narration.pauses # {} /\ Longest > 8050)
      BY <3>2
    <3> QED BY <3>1, <3>2
  <2> QED BY <2>3, <2>4
<1>5. Escalation = one \o two \o three
  BY DEF Escalation
<1> HIDE DEF one, two, three
<1>6. Escalation \in Seq(Stage)
  BY <1>2, <1>3, <1>4, <1>5
<1>7. \A s \in Stage : s.maxChunk \in Int
  OBVIOUS
<1> HIDE DEF Stage
<1> QED BY <1>6, <1>7

(* What is planned depends on the narration and on the windows, and on      *)
(* nothing that a step changes.                                             *)
LEMMA SameBoundaries ==
    ASSUME narration' = narration
    PROVE  Boundaries' = Boundaries /\ Fallbacks' = Fallbacks
<1>1. ASSUME NEW b PROVE MatchedPauses(b)' = MatchedPauses(b)
  BY DEF MatchedPauses, Strong, Least
<1>2. ASSUME NEW cut PROVE Inside(cut)' = Inside(cut)
  BY DEF Inside
<1>3. ASSUME NEW u PROVE PauseCuts(u)' = PauseCuts(u)
  BY <1>1, <1>2, Zenon DEF PauseCuts
<1>4. Units' = Units
  BY <1>2, Zenon DEF Units
<1>5. Fallbacks' = Fallbacks
  BY <1>3, <1>4, Zenon DEF Fallbacks
<1>6. Cuts' = Cuts
  BY <1>3, <1>4 DEF Cuts
<1>7. Boundaries' = Boundaries
  BY <1>6, Zenon DEF Boundaries
<1> QED BY <1>5, <1>7

LEMMA SameSplits ==
    ASSUME narration' = narration, NEW cuts, NEW fallbacks, NEW maxChunk
    PROVE  WithFallbacks(cuts, fallbacks, maxChunk)' = WithFallbacks(cuts, fallbacks, maxChunk)
<1>1. ASSUME NEW from, NEW to, NEW gap PROVE PauseFallback(from, to, gap)' = PauseFallback(from, to, gap)
  BY Zenon DEF PauseFallback, Strong
<1>2. ASSUME NEW from, NEW to, NEW gap, NEW byPause
      PROVE  Split(from, to, gap, byPause, fallbacks)' = Split(from, to, gap, byPause, fallbacks)
  BY <1>1, Zenon DEF Split
<1>3. ASSUME NEW from, NEW to, NEW gap, NEW byPause
      PROVE  SplitGap(from, to, gap, byPause, fallbacks)' = SplitGap(from, to, gap, byPause, fallbacks)
  <2> DEFINE R(f) == [at \in from..to |->
                        UNION {{cut} \cup f[cut] : cut \in Split(at, to, gap, byPause, fallbacks)}]
  <2>1. ASSUME NEW f PROVE R(f)' = R(f)
    BY <1>2
  <2>2. SplitGap(from, to, gap, byPause, fallbacks) = (CHOOSE f : f = R(f))[from]
    BY Zenon DEF SplitGap
  <2>3. SplitGap(from, to, gap, byPause, fallbacks)' = (CHOOSE f : f = R(f)')[from]
    BY Zenon DEF SplitGap
  <2> HIDE DEF R
  <2>4. (CHOOSE f : f = R(f)') = (CHOOSE f : f = R(f))
    BY <2>1, Zenon
  <2> QED BY <2>2, <2>3, <2>4, Zenon
<1> DEFINE gap == IF maxChunk = None THEN HardGap ELSE maxChunk
           byPause == maxChunk # None /\ maxChunk < HardGap
           G(from) == SplitGap(from, Min(Following(cuts, from)), gap, byPause, fallbacks)
           gaps == {from \in cuts : Following(cuts, from) # {}}
           splits == {G(from) : from \in gaps}
<1>4. \A from : G(from)' = G(from)
  BY <1>3
<1>5. WithFallbacks(cuts, fallbacks, maxChunk) =
        IF narration.pauses = {} /\ maxChunk = None THEN cuts ELSE cuts \cup UNION splits
  BY DEF WithFallbacks
<1>6. WithFallbacks(cuts, fallbacks, maxChunk)' =
        IF narration'.pauses = {} /\ maxChunk = None THEN cuts ELSE cuts \cup UNION splits'
  BY DEF WithFallbacks
<1> HIDE DEF G, gaps
<1>7. splits' = splits
  BY <1>4
<1> HIDE DEF splits
<1> QED BY <1>5, <1>6, <1>7, Zenon

LEMMA SameChunks ==
    ASSUME narration' = narration, NEW maxChunk
    PROVE  Chunks(maxChunk)' = Chunks(maxChunk)
<1>1. Boundaries' = Boundaries /\ Fallbacks' = Fallbacks
  BY SameBoundaries
<1>2. ASSUME NEW cuts, NEW fallbacks
      PROVE  WithFallbacks(cuts, fallbacks, maxChunk)' = WithFallbacks(cuts, fallbacks, maxChunk)
  BY SameSplits
<1>3. Protected(maxChunk)' = Protected(maxChunk)
  BY <1>1, <1>2, Zenon DEF Protected
<1>4. ASSUME NEW cuts, NEW from PROVE NextCut(cuts, from, maxChunk)' = NextCut(cuts, from, maxChunk)
  BY DEF NextCut, Least
<1>5. ASSUME NEW cuts PROVE ChunkEnds(cuts, maxChunk)' = ChunkEnds(cuts, maxChunk)
  <2> DEFINE R(f) == [from \in cuts |-> {from} \cup
                        IF Following(cuts, from) = {} THEN {} ELSE f[NextCut(cuts, from, maxChunk)]]
  <2>1. ASSUME NEW f PROVE R(f)' = R(f)
    BY <1>4
  <2>2. ChunkEnds(cuts, maxChunk) = IF cuts = {} THEN {} ELSE (CHOOSE f : f = R(f))[0]
    BY Zenon DEF ChunkEnds
  <2>3. ChunkEnds(cuts, maxChunk)' = IF cuts = {} THEN {} ELSE (CHOOSE f : f = R(f)')[0]
    BY Zenon DEF ChunkEnds
  <2> HIDE DEF R
  <2>4. (CHOOSE f : f = R(f)') = (CHOOSE f : f = R(f))
    BY <2>1, Zenon
  <2> QED BY <2>2, <2>3, <2>4, Zenon
<1> QED BY <1>3, <1>5, Zenon DEF Chunks

LEMMA SameTiers ==
    ASSUME narration' = narration, windows' = windows, NEW maxChunk
    PROVE  Tiers(maxChunk)' = Tiers(maxChunk)
<1>1. ASSUME NEW m PROVE Chunks(m)' = Chunks(m)
  BY SameChunks
<1>2. Caps(maxChunk)' = Caps(maxChunk)
  BY Zenon DEF Caps
<1>3. ASSUME NEW caps PROVE Capped(caps)' = Capped(caps)
  BY <1>1, Zenon DEF Capped
<1> QED BY <1>1, <1>2, <1>3, Zenon DEF Tiers

LEMMA SameStages ==
    ASSUME narration' = narration, windows' = windows
    PROVE  Escalation' = Escalation
<1>1. Longest' = Longest
  BY Zenon DEF Longest
<1> QED BY <1>1 DEF Escalation

LEMMA SameCover ==
    ASSUME windows' = windows, NEW cuts
    PROVE  CanCover(cuts)' = CanCover(cuts)
BY Zenon DEF CanCover

-----------------------------------------------------------------------------
(* No stage that was passed had chunks that its windows could cover.        *)
Passed ==
    \A stage \in 1..(ladder - 1) :
        \A tier \in Range(Tiers(Escalation[stage].maxChunk)) : \A cuts \in tier : ~CanCover(cuts)

CutInv ==
    /\ narration \in Narrations /\ windows \in Inventories
    /\ ladder \in 1..(Len(Escalation) + 1)
    /\ Planned => Whole(track)
    /\ ~Planned => Passed

LEMMA CutInvInit ==
    ASSUME CutInit
    PROVE  CutInv
<1>1. narration \in Narrations /\ windows \in Inventories /\ ladder = 1 /\ ~Planned
  BY DEF CutInit, Planned
<1>2. Len(Escalation) \in Nat
  BY <1>1, EscalationIs
<1>3. ladder \in 1..(Len(Escalation) + 1)
  BY <1>1, <1>2
<1>4. 1..(ladder - 1) = {}
  BY <1>1
<1>5. Passed
  BY <1>4 DEF Passed
<1> QED BY <1>1, <1>3, <1>5 DEF CutInv

LEMMA CutInvStep ==
    ASSUME CutInv, [CutNext]_cutVars
    PROVE  CutInv'
<1> DEFINE Bare(stage) == \A tier \in Range(Tiers(Escalation[stage].maxChunk)) : \A cuts \in tier : ~CanCover(cuts)
<1>1. narration' = narration /\ windows' = windows
  BY DEF CutNext, PlanStage, cutVars
<1>2. Escalation' = Escalation
  BY <1>1, SameStages
<1>3. ASSUME NEW stage PROVE Bare(stage)' = Bare(stage)
  <2>1. Tiers(Escalation[stage].maxChunk)' = Tiers(Escalation[stage].maxChunk)
    <3>1. ASSUME NEW m PROVE Tiers(m)' = Tiers(m)
      BY <1>1, SameTiers
    <3> QED BY <1>2, <3>1, Zenon
  <2>2. ASSUME NEW cuts PROVE CanCover(cuts)' = CanCover(cuts)
    BY <1>1, SameCover
  <2> QED BY <2>1, <2>2, Zenon
<1>4. /\ narration \in Narrations /\ windows \in Inventories
      /\ ladder \in 1..(Len(Escalation) + 1)
      /\ Planned => Whole(track)
      /\ ~Planned => Passed
  BY DEF CutInv
<1>5. CASE UNCHANGED cutVars
  <2>1. ladder' = ladder /\ track' = track
    BY <1>5 DEF cutVars
  <2>2. Planned' = Planned
    BY <2>1 DEF Planned
  <2>3. Whole(track)' = Whole(track)
    BY <1>1, <2>1, Zenon DEF Whole
  <2>4. Passed' = Passed
    <3>1. Passed = \A stage \in 1..(ladder - 1) : Bare(stage)
      BY DEF Passed
    <3>2. Passed' = \A stage \in 1..(ladder' - 1) : Bare(stage)'
      BY DEF Passed
    <3> HIDE DEF Bare
    <3> QED BY <1>3, <2>1, <3>1, <3>2, Zenon
  <2> QED BY <1>1, <1>2, <1>4, <2>1, <2>2, <2>3, <2>4 DEF CutInv
<1>6. CASE CutNext
  <2>1. /\ ~Planned /\ ~Exhausted /\ track' \in PlansFor(Escalation[ladder].maxChunk)
        /\ ladder' = ladder + 1
    BY <1>6 DEF CutNext, PlanStage
  <2>2. /\ Len(Escalation) \in Nat /\ DOMAIN Escalation = 1..Len(Escalation)
        /\ \A k \in DOMAIN Escalation : Escalation[k].maxChunk \in Int
    BY <1>4, EscalationIs
  <2>3. ladder \in 1..Len(Escalation)
    BY <1>4, <2>1, <2>2 DEF Exhausted
  <2> DEFINE m == Escalation[ladder].maxChunk
  <2>4. m \in Int
    BY <2>2, <2>3
  <2>5. PICK plan \in PlansFor(m) : track' = plan
    BY <2>1
  <2> HIDE DEF m
  <2>6. /\ plan # NoPlan => Whole(plan)
        /\ plan = NoPlan => \A tier \in Range(Tiers(m)) : \A cuts \in tier : ~CanCover(cuts)
    BY <1>4, <2>4, PlansForIs
  <2>7. ladder' \in 1..(Len(Escalation') + 1)
    BY <1>2, <2>1, <2>2, <2>3
  <2>8. Planned' => Whole(track)'
    <3>1. Whole(track)' = Whole(plan)
      BY <1>1, <2>5, Zenon DEF Whole
    <3>2. Planned' => plan # NoPlan
      BY <2>5 DEF Planned
    <3> QED BY <2>6, <3>1, <3>2
  <2>9. ~Planned' => Passed'
    <3> SUFFICES ASSUME ~Planned' PROVE Passed'
      OBVIOUS
    <3>1. plan = NoPlan
      BY <2>5 DEF Planned
    <3>2. Bare(ladder)
      BY <2>6, <3>1 DEF m
    <3>3. \A stage \in 1..(ladder - 1) : Bare(stage)
      BY <1>4, <2>1 DEF Passed
    <3>4. Passed' = \A stage \in 1..(ladder' - 1) : Bare(stage)'
      BY DEF Passed
    <3> HIDE DEF Bare
    <3>5. 1..(ladder' - 1) = 1..(ladder - 1) \cup {ladder}
      BY <2>1, <2>2, <2>3
    <3>6. \A stage \in 1..(ladder' - 1) : Bare(stage)
      BY <3>2, <3>3, <3>5
    <3> QED BY <1>3, <3>4, <3>6, Zenon
  <2> QED BY <1>1, <1>4, <2>7, <2>8, <2>9 DEF CutInv
<1> QED BY <1>5, <1>6

(* The inductive invariant.                                                 *)
THEOREM CutSafe == CutSpec => []CutInv
<1>1. CutInit => CutInv
  BY CutInvInit
<1>2. CutInv /\ [CutNext]_cutVars => CutInv'
  BY CutInvStep
<1> QED BY <1>1, <1>2, PTL DEF CutSpec

(* The stages of the ladder are tried in turn, and a plan shows windows of  *)
(* the material pack only.                                                  *)
THEOREM CutTypesAlwaysOK == CutSpec => []CutTypeOK
<1>1. CutInv => CutTypeOK
  <2> SUFFICES ASSUME CutInv PROVE CutTypeOK
    OBVIOUS
  <2>1. \A k \in DOMAIN track : track[k].window \in Range(windows)
    <3>1. CASE Planned
      BY <3>1 DEF CutInv, Whole
    <3>2. CASE ~Planned
      BY <3>2 DEF Planned, NoPlan
    <3> QED BY <3>1, <3>2
  <2> QED BY <2>1 DEF CutInv, CutTypeOK
<1> QED BY <1>1, CutSafe, PTL

(* A plan fills the narration without a gap or an overlap, shows no asset   *)
(* twice and no frame outside the windows it cuts from.                     *)
THEOREM TrackAlwaysWhole == CutSpec => []TrackIsWhole
<1>1. CutInv => TrackIsWhole
  BY DEF CutInv, Whole, TrackIsWhole
<1> QED BY <1>1, CutSafe, PTL

(* When the ladder is exhausted, no chunks of any of its stages can be      *)
(* covered by the windows there are.                                        *)
THEOREM ShortageAlwaysReal == CutSpec => []ShortageIsReal
<1>1. CutInv => ShortageIsReal
  <2> SUFFICES ASSUME CutInv, Exhausted, NEW stage \in DOMAIN Escalation
               PROVE  \A tier \in Range(Tiers(Escalation[stage].maxChunk)) : \A cuts \in tier : ~CanCover(cuts)
    BY DEF ShortageIsReal
  <2>1. /\ Len(Escalation) \in Nat /\ DOMAIN Escalation = 1..Len(Escalation)
    BY EscalationIs DEF CutInv
  <2>2. Passed /\ ladder \in 1..(Len(Escalation) + 1) /\ ladder > Len(Escalation)
    BY DEF CutInv, Exhausted
  <2>3. stage \in 1..(ladder - 1)
    BY <2>1, <2>2
  <2> QED BY <2>2, <2>3 DEF Passed
<1> QED BY <1>1, CutSafe, PTL
=============================================================================
