------------------------------ MODULE FiniteSums ------------------------------
(***************************************************************************)
(* Lemmas that the other proofs share: about finite sets of numbers, sums  *)
(* over finite sets, sorted sets, and functions that are defined by        *)
(* recursion along a rank.                                                 *)
(*                                                                         *)
(* A statement about every finite set is proved from a smallest set that    *)
(* it fails for, whose existence (SmallestSet) follows from the             *)
(* well-foundedness of the strict subset order.                            *)
(***************************************************************************)
EXTENDS Orders, Functions, FiniteSetsExt, FiniteSetTheorems, WellFoundedInduction, TLAPS

(* A nonempty collection of subsets of a finite set has a minimal element.  *)
LEMMA SmallestSet ==
    ASSUME NEW S, IsFiniteSet(S), NEW F \in SUBSET SUBSET S, F # {}
    PROVE  \E T \in F : \A U \in F : U \subseteq T => U = T
<1>1. IsWellFoundedOn(StrictSubsetOrdering(S), FiniteSubsetsOf(S))
  BY FS_StrictSubsetOrderingWellFounded
<1>2. F \subseteq FiniteSubsetsOf(S)
  BY FS_FiniteSubsetsOfFinite
<1>3. PICK T \in F : \A U \in F : <<U, T>> \notin StrictSubsetOrdering(S)
  BY <1>1, <1>2, WFMin
<1> QED BY <1>3 DEF StrictSubsetOrdering

(* A finite nonempty set of integers has a largest and a smallest element.  *)
LEMMA HasMax ==
    ASSUME NEW S, S \subseteq Int, IsFiniteSet(S), S # {}
    PROVE  Max(S) \in S /\ \A y \in S : Max(S) >= y
<1> DEFINE Above(x) == {y \in S : y >= x}
           F == {Above(x) : x \in S}
<1>1. F \in SUBSET SUBSET S
  OBVIOUS
<1>2. F # {}
  OBVIOUS
<1> HIDE DEF F, Above
<1>3. PICK T \in F : \A U \in F : U \subseteq T => U = T
  BY ONLY <1>1, <1>2, IsFiniteSet(S), SmallestSet
<1> USE DEF F, Above
<1>4. PICK m \in S : T = Above(m)
  BY <1>3
<1>6. ASSUME NEW y \in S, ~(m >= y) PROVE FALSE
  <2>1. m \in Int /\ y \in Int
    OBVIOUS
  <2>2. \A z \in S : z >= y => z >= m
    BY <1>6, <2>1
  <2>3. m \notin Above(y) /\ m \in Above(m)
    BY <1>6, <2>1
  <2>4. Above(y) \subseteq Above(m)
    BY <2>2
  <2>5. Above(y) \in F
    OBVIOUS
  <2> HIDE DEF Above, F
  <2> QED BY <1>3, <1>4, <2>3, <2>4, <2>5
<1>5. \E x \in S : \A y \in S : x >= y
  BY <1>6
<1> QED BY <1>5 DEF Max

LEMMA HasMin ==
    ASSUME NEW S, S \subseteq Int, IsFiniteSet(S), S # {}
    PROVE  Min(S) \in S /\ \A y \in S : Min(S) <= y
<1> DEFINE Below(x) == {y \in S : y <= x}
           F == {Below(x) : x \in S}
<1>1. F \in SUBSET SUBSET S
  OBVIOUS
<1>2. F # {}
  OBVIOUS
<1> HIDE DEF F, Below
<1>3. PICK T \in F : \A U \in F : U \subseteq T => U = T
  BY ONLY <1>1, <1>2, IsFiniteSet(S), SmallestSet
<1> USE DEF F, Below
<1>4. PICK m \in S : T = Below(m)
  BY <1>3
<1>6. ASSUME NEW y \in S, ~(m <= y) PROVE FALSE
  <2>1. m \in Int /\ y \in Int
    OBVIOUS
  <2>2. \A z \in S : z <= y => z <= m
    BY <1>6, <2>1
  <2>3. m \notin Below(y) /\ m \in Below(m)
    BY <1>6, <2>1
  <2>4. Below(y) \subseteq Below(m)
    BY <2>2
  <2>5. Below(y) \in F
    OBVIOUS
  <2> HIDE DEF Below, F
  <2> QED BY <1>3, <1>4, <2>3, <2>4, <2>5
<1>5. \E x \in S : \A y \in S : x <= y
  BY <1>6
<1> QED BY <1>5 DEF Min

-----------------------------------------------------------------------------
(* Sums. SumFunctionOnSet is defined by a recursive function on the subsets *)
(* of its index set; that such a function exists, and only one, is proved   *)
(* first.                                                                  *)
Pick(s) == CHOOSE x \in s : TRUE
Adds(g, f, S) ==
    g = [s \in SUBSET S |-> IF s = {} THEN 0 ELSE f[Pick(s)] + g[s \ {Pick(s)}]]

LEMMA PickIn == ASSUME NEW s, s # {} PROVE Pick(s) \in s
BY DEF Pick

LEMMA AddsUnique ==
    ASSUME NEW A, IsFiniteSet(A), NEW B, NEW f, NEW g, NEW h, Adds(g, f, A), Adds(h, f, B)
    PROVE  \A s \in SUBSET A : s \subseteq B => g[s] = h[s]
<1> DEFINE F == {s \in SUBSET A : s \subseteq B /\ g[s] # h[s]}
<1> SUFFICES ASSUME F # {} PROVE FALSE
  OBVIOUS
<1>1. F \in SUBSET SUBSET A
  OBVIOUS
<1> HIDE DEF F
<1>2. PICK T \in F : \A U \in F : U \subseteq T => U = T
  BY <1>1, SmallestSet
<1> USE DEF F
<1>3. g[T] = (IF T = {} THEN 0 ELSE f[Pick(T)] + g[T \ {Pick(T)}])
  BY <1>2 DEF Adds
<1>4. h[T] = (IF T = {} THEN 0 ELSE f[Pick(T)] + h[T \ {Pick(T)}])
  BY <1>2 DEF Adds
<1>5. T # {} /\ g[T \ {Pick(T)}] = h[T \ {Pick(T)}]
  BY <1>2, <1>3, <1>4, PickIn
<1> QED BY <1>2, <1>3, <1>4, <1>5

LEMMA AddsExists ==
    ASSUME NEW S, IsFiniteSet(S), NEW f
    PROVE  \E g : Adds(g, f, S)
<1> DEFINE F == {T \in SUBSET S : ~\E g : Adds(g, f, T)}
<1> SUFFICES ASSUME F # {} PROVE FALSE
  OBVIOUS
<1>1. F \in SUBSET SUBSET S
  OBVIOUS
<1> HIDE DEF F
<1>2. PICK T \in F : \A U \in F : U \subseteq T => U = T
  BY <1>1, SmallestSet
<1> USE DEF F
<1> DEFINE H(s) == CHOOSE g : Adds(g, f, s)
           g == [s \in SUBSET T |->
                    IF s = {} THEN 0 ELSE f[Pick(s)] + H(s \ {Pick(s)})[s \ {Pick(s)}]]
<1>3. \A s \in SUBSET T : s # T => IsFiniteSet(s) /\ Adds(H(s), f, s)
  BY <1>2, FS_Subset
<1>4. ASSUME NEW s \in SUBSET T, s # T PROVE g[s] = H(s)[s]
  <2>1. g[s] = (IF s = {} THEN 0 ELSE f[Pick(s)] + H(s \ {Pick(s)})[s \ {Pick(s)}])
    OBVIOUS
  <2>2. H(s)[s] = (IF s = {} THEN 0 ELSE f[Pick(s)] + H(s)[s \ {Pick(s)}])
    <3> DEFINE h == H(s)
    <3>1. Adds(h, f, s)
      BY <1>3, <1>4
    <3> HIDE DEF h, H
    <3>2. h[s] = (IF s = {} THEN 0 ELSE f[Pick(s)] + h[s \ {Pick(s)}])
      BY <3>1 DEF Adds
    <3> QED BY <3>2 DEF h
  <2>3. ASSUME s # {} PROVE H(s \ {Pick(s)})[s \ {Pick(s)}] = H(s)[s \ {Pick(s)}]
    <3> DEFINE u == s \ {Pick(s)}
    <3>1. u \in SUBSET T /\ u # T /\ u \subseteq s
      BY <2>3, PickIn
    <3>2. Adds(H(u), f, u) /\ Adds(H(s), f, s) /\ IsFiniteSet(u)
      BY <1>3, <1>4, <3>1
    <3> HIDE DEF u, H
    <3>3. H(u)[u] = H(s)[u]
      BY <3>1, <3>2, AddsUnique
    <3> QED BY <3>3 DEF u
  <2> HIDE DEF g, H
  <2> QED BY <2>1, <2>2, <2>3
<1>5. ASSUME NEW s \in SUBSET T, s # {} PROVE H(s \ {Pick(s)})[s \ {Pick(s)}] = g[s \ {Pick(s)}]
  BY <1>4, <1>5, PickIn
<1>6. Adds(g, f, T)
  <2> HIDE DEF H
  <2>1. \A s \in SUBSET T : g[s] = (IF s = {} THEN 0 ELSE f[Pick(s)] + g[s \ {Pick(s)}])
    BY <1>5
  <2>2. g = [s \in SUBSET T |-> g[s]]
    OBVIOUS
  <2> HIDE DEF g
  <2> QED BY <2>1, <2>2 DEF Adds
<1> QED BY <1>2, <1>6

Total(f, S) == SumFunctionOnSet(f, S)

LEMMA TotalAdds ==
    ASSUME NEW S, IsFiniteSet(S), NEW f
    PROVE  \E g : Adds(g, f, S) /\ Total(f, S) = g[S]
<1> DEFINE g == CHOOSE it : it = [s \in SUBSET S |-> IF s = {} THEN 0
                  ELSE f[CHOOSE x \in s : TRUE] + it[s \ {CHOOSE x \in s : TRUE}]]
<1>1. Total(f, S) = g[S]
  BY DEF Total, SumFunctionOnSet, FoldFunctionOnSet, MapThenFoldSet
<1>2. \E it : it = [s \in SUBSET S |-> IF s = {} THEN 0
                  ELSE f[CHOOSE x \in s : TRUE] + it[s \ {CHOOSE x \in s : TRUE}]]
  <2>1. PICK it : Adds(it, f, S)
    BY AddsExists
  <2> QED BY <2>1 DEF Adds, Pick
<1>3. g = [s \in SUBSET S |-> IF s = {} THEN 0
                  ELSE f[CHOOSE x \in s : TRUE] + g[s \ {CHOOSE x \in s : TRUE}]]
  BY <1>2
<1> HIDE DEF g
<1> QED BY <1>1, <1>3 DEF Adds, Pick

LEMMA TotalEmpty == ASSUME NEW f PROVE Total(f, {}) = 0
<1>1. PICK g : Adds(g, f, {}) /\ Total(f, {}) = g[{}]
  BY TotalAdds, FS_EmptySet
<1> QED BY <1>1 DEF Adds

LEMMA TotalPick ==
    ASSUME NEW S, IsFiniteSet(S), S # {}, NEW f
    PROVE  Total(f, S) = f[Pick(S)] + Total(f, S \ {Pick(S)})
<1> DEFINE U == S \ {Pick(S)}
<1>1. PICK g : Adds(g, f, S) /\ Total(f, S) = g[S]
  BY TotalAdds
<1>2. IsFiniteSet(U)
  BY FS_Subset
<1>3. PICK h : Adds(h, f, U) /\ Total(f, U) = h[U]
  BY <1>2, TotalAdds
<1>4. g[U] = h[U]
  BY <1>1, <1>2, <1>3, AddsUnique
<1>5. g[S] = f[Pick(S)] + g[U]
  BY <1>1 DEF Adds
<1> QED BY <1>1, <1>3, <1>4, <1>5

-----------------------------------------------------------------------------
(* A sum of integers is one, of naturals a natural.                        *)
LEMMA TotalInt ==
    ASSUME NEW S, IsFiniteSet(S), NEW f, \A x \in S : f[x] \in Int
    PROVE  Total(f, S) \in Int
<1> DEFINE F == {T \in SUBSET S : Total(f, T) \notin Int}
<1> SUFFICES ASSUME F # {} PROVE FALSE
  BY DEF F
<1>1. F \in SUBSET SUBSET S
  OBVIOUS
<1> HIDE DEF F
<1>2. PICK T \in F : \A U \in F : U \subseteq T => U = T
  BY ONLY <1>1, F # {}, IsFiniteSet(S), SmallestSet
<1>3. T \subseteq S /\ Total(f, T) \notin Int /\ IsFiniteSet(T)
  BY <1>2, FS_Subset DEF F
<1>4. T # {}
  BY <1>3, TotalEmpty
<1>5. Pick(T) \in T
  BY <1>4, PickIn
<1>6. Total(f, T \ {Pick(T)}) \in Int
  BY <1>2, <1>3, <1>5 DEF F
<1>7. Total(f, T) = f[Pick(T)] + Total(f, T \ {Pick(T)})
  BY <1>3, <1>4, TotalPick
<1> QED BY <1>3, <1>5, <1>6, <1>7

LEMMA TotalNat ==
    ASSUME NEW S, IsFiniteSet(S), NEW f, \A x \in S : f[x] \in Nat
    PROVE  Total(f, S) \in Nat
<1> DEFINE F == {T \in SUBSET S : Total(f, T) \notin Nat}
<1> SUFFICES ASSUME F # {} PROVE FALSE
  BY DEF F
<1>1. F \in SUBSET SUBSET S
  OBVIOUS
<1> HIDE DEF F
<1>2. PICK T \in F : \A U \in F : U \subseteq T => U = T
  BY ONLY <1>1, F # {}, IsFiniteSet(S), SmallestSet
<1>3. T \subseteq S /\ Total(f, T) \notin Nat /\ IsFiniteSet(T)
  BY <1>2, FS_Subset DEF F
<1>4. T # {}
  BY <1>3, TotalEmpty
<1>5. Pick(T) \in T
  BY <1>4, PickIn
<1>6. Total(f, T \ {Pick(T)}) \in Nat
  BY <1>2, <1>3, <1>5 DEF F
<1>7. Total(f, T) = f[Pick(T)] + Total(f, T \ {Pick(T)})
  BY <1>3, <1>4, TotalPick
<1> QED BY <1>3, <1>5, <1>6, <1>7

(* Any element may be added last.                                          *)
LEMMA TotalRemove ==
    ASSUME NEW S, IsFiniteSet(S), NEW f, \A x \in S : f[x] \in Int
    PROVE  \A x \in S : Total(f, S) = Total(f, S \ {x}) + f[x]
<1> DEFINE Fails(T) == \E x \in T : Total(f, T) # Total(f, T \ {x}) + f[x]
           F == {T \in SUBSET S : Fails(T)}
<1> SUFFICES ASSUME F # {} PROVE FALSE
  BY DEF F
<1>1. F \in SUBSET SUBSET S
  OBVIOUS
<1> HIDE DEF F
<1>2. PICK T \in F : \A U \in F : U \subseteq T => U = T
  BY ONLY <1>1, F # {}, IsFiniteSet(S), SmallestSet
<1>3. T \subseteq S /\ IsFiniteSet(T) /\ Fails(T)
  BY <1>2, FS_Subset DEF F
<1>4. PICK x \in T : Total(f, T) # Total(f, T \ {x}) + f[x]
  BY <1>3
<1> DEFINE y == Pick(T)
<1>5. y \in T /\ Total(f, T) = f[y] + Total(f, T \ {y})
  BY <1>3, TotalPick, PickIn
<1> HIDE DEF y, Fails
<1>6. /\ IsFiniteSet(T \ {x}) /\ IsFiniteSet(T \ {y}) /\ IsFiniteSet((T \ {x}) \ {y})
      /\ T \ {x} \subseteq S /\ T \ {y} \subseteq S /\ (T \ {x}) \ {y} \subseteq S
  BY <1>3, FS_Subset
<1>7. /\ Total(f, T \ {x}) \in Int /\ Total(f, T \ {y}) \in Int /\ Total(f, (T \ {x}) \ {y}) \in Int
      /\ f[x] \in Int /\ f[y] \in Int
  BY <1>3, <1>5, <1>6, TotalInt
<1>8. x # y
  <2>1. f[y] + Total(f, T \ {y}) = Total(f, T \ {y}) + f[y]
    BY <1>7
  <2> QED BY <1>4, <1>5, <2>1
<1>9. T \ {x} \notin F /\ T \ {y} \notin F
  BY <1>2, <1>5
<1>10. ~Fails(T \ {x}) /\ ~Fails(T \ {y})
  BY <1>6, <1>9 DEF F
<1>11. Total(f, T \ {x}) = Total(f, (T \ {x}) \ {y}) + f[y]
  BY <1>5, <1>8, <1>10 DEF Fails
<1>12. Total(f, T \ {y}) = Total(f, (T \ {y}) \ {x}) + f[x]
  BY <1>8, <1>10 DEF Fails
<1>13. (T \ {y}) \ {x} = (T \ {x}) \ {y}
  OBVIOUS
<1>14. Total(f, T) = f[y] + (Total(f, (T \ {x}) \ {y}) + f[x])
  BY <1>5, <1>12, <1>13
<1>15. \A a, b, c \in Int : a + (b + c) = (b + a) + c
  OBVIOUS
<1> QED BY <1>4, <1>7, <1>11, <1>14, <1>15

LEMMA TotalAdd ==
    ASSUME NEW S, IsFiniteSet(S), NEW f, NEW x, x \notin S, \A y \in S \cup {x} : f[y] \in Int
    PROVE  Total(f, S \cup {x}) = Total(f, S) + f[x]
<1> DEFINE U == S \cup {x}
<1>1. IsFiniteSet(U) /\ U \ {x} = S /\ x \in U /\ \A y \in U : f[y] \in Int
  BY FS_AddElement
<1> HIDE DEF U
<1>2. Total(f, U) = Total(f, U \ {x}) + f[x]
  <2>1. \A y \in U : Total(f, U) = Total(f, U \ {y}) + f[y]
    BY ONLY <1>1, TotalRemove
  <2> QED BY <1>1, <2>1
<1> QED BY <1>1, <1>2 DEF U

(* Sums are monotone in the summands ...                                   *)
LEMMA TotalMonotone ==
    ASSUME NEW S, IsFiniteSet(S), NEW f, NEW g,
           \A x \in S : f[x] \in Int /\ g[x] \in Int /\ f[x] <= g[x]
    PROVE  Total(f, S) <= Total(g, S)
<1> DEFINE F == {T \in SUBSET S : ~(Total(f, T) <= Total(g, T))}
<1> SUFFICES ASSUME F # {} PROVE FALSE
  BY DEF F
<1>1. F \in SUBSET SUBSET S
  OBVIOUS
<1> HIDE DEF F
<1>2. PICK T \in F : \A U \in F : U \subseteq T => U = T
  BY ONLY <1>1, F # {}, IsFiniteSet(S), SmallestSet
<1>3. T \subseteq S /\ ~(Total(f, T) <= Total(g, T)) /\ IsFiniteSet(T)
  BY <1>2, FS_Subset DEF F
<1>4. T # {}
  BY <1>3, TotalEmpty
<1>5. PICK x \in T : TRUE
  BY <1>4
<1>6. Total(f, T \ {x}) <= Total(g, T \ {x})
  BY <1>2, <1>3, <1>5 DEF F
<1>7. /\ Total(f, T) = Total(f, T \ {x}) + f[x] /\ Total(g, T) = Total(g, T \ {x}) + g[x]
  BY <1>3, <1>5, TotalRemove
<1>8. IsFiniteSet(T \ {x}) /\ T \ {x} \subseteq S
  BY <1>3, FS_Subset
<1>9. Total(f, T \ {x}) \in Int /\ Total(g, T \ {x}) \in Int
  BY <1>8, TotalInt
<1> QED BY <1>3, <1>5, <1>6, <1>7, <1>9

LEMMA TotalEqual ==
    ASSUME NEW S, IsFiniteSet(S), NEW f, NEW g, \A x \in S : f[x] \in Int /\ f[x] = g[x]
    PROVE  Total(f, S) = Total(g, S)
<1>1. Total(f, S) <= Total(g, S) /\ Total(g, S) <= Total(f, S)
  BY TotalMonotone
<1>2. Total(f, S) \in Int /\ Total(g, S) \in Int
  BY TotalInt
<1> QED BY <1>1, <1>2

(* ... and for naturals in the index set.                                  *)
LEMMA TotalSubset ==
    ASSUME NEW S, IsFiniteSet(S), NEW R \in SUBSET S, NEW f, \A x \in S : f[x] \in Nat
    PROVE  Total(f, R) <= Total(f, S)
<1> DEFINE F == {T \in SUBSET S : R \subseteq T /\ ~(Total(f, R) <= Total(f, T))}
<1> SUFFICES ASSUME F # {} PROVE FALSE
  BY DEF F
<1>1. F \in SUBSET SUBSET S
  OBVIOUS
<1> HIDE DEF F
<1>2. PICK T \in F : \A U \in F : U \subseteq T => U = T
  BY ONLY <1>1, F # {}, IsFiniteSet(S), SmallestSet
<1>3. /\ T \subseteq S /\ R \subseteq T /\ ~(Total(f, R) <= Total(f, T))
      /\ IsFiniteSet(T) /\ IsFiniteSet(R)
  BY <1>2, FS_Subset DEF F
<1>4. Total(f, R) \in Nat
  BY <1>3, TotalNat
<1>5. PICK x \in T : x \notin R
  BY <1>3, <1>4
<1>6. Total(f, R) <= Total(f, T \ {x})
  BY <1>2, <1>3, <1>5 DEF F
<1>7. Total(f, T) = Total(f, T \ {x}) + f[x]
  BY <1>3, <1>5, TotalRemove
<1>8. IsFiniteSet(T \ {x}) /\ T \ {x} \subseteq S
  BY <1>3, FS_Subset
<1>9. Total(f, T \ {x}) \in Nat
  BY <1>8, TotalNat
<1> QED BY <1>3, <1>4, <1>5, <1>6, <1>7, <1>9

LEMMA TotalZero ==
    ASSUME NEW S, IsFiniteSet(S), NEW f, \A x \in S : f[x] = 0
    PROVE  Total(f, S) = 0
<1> DEFINE F == {T \in SUBSET S : Total(f, T) # 0}
<1> SUFFICES ASSUME F # {} PROVE FALSE
  BY DEF F
<1>1. F \in SUBSET SUBSET S
  OBVIOUS
<1> HIDE DEF F
<1>2. PICK T \in F : \A U \in F : U \subseteq T => U = T
  BY ONLY <1>1, F # {}, IsFiniteSet(S), SmallestSet
<1>3. T \subseteq S /\ Total(f, T) # 0 /\ IsFiniteSet(T)
  BY <1>2, FS_Subset DEF F
<1>4. T # {}
  BY <1>3, TotalEmpty
<1>5. Pick(T) \in T
  BY <1>4, PickIn
<1>6. Total(f, T \ {Pick(T)}) = 0
  BY <1>2, <1>3, <1>5 DEF F
<1>7. Total(f, T) = f[Pick(T)] + Total(f, T \ {Pick(T)})
  BY <1>3, <1>4, TotalPick
<1> QED BY <1>3, <1>5, <1>6, <1>7

(* One more in one place is one more in total.                             *)
LEMMA TotalBump ==
    ASSUME NEW S, IsFiniteSet(S), NEW f, NEW g, NEW x \in S, NEW d \in Int,
           \A y \in S : f[y] \in Int,
           \A y \in S : g[y] = IF y = x THEN f[y] + d ELSE f[y]
    PROVE  Total(g, S) = Total(f, S) + d
<1>1. IsFiniteSet(S \ {x})
  BY FS_Subset
<1>2. \A y \in S : g[y] \in Int
  OBVIOUS
<1>3. Total(f, S) = Total(f, S \ {x}) + f[x] /\ Total(g, S) = Total(g, S \ {x}) + g[x]
  BY <1>2, TotalRemove
<1>4. Total(g, S \ {x}) = Total(f, S \ {x})
  <2>1. \A y \in S \ {x} : g[y] \in Int /\ g[y] = f[y]
    BY <1>2
  <2> QED BY ONLY <1>1, <2>1, TotalEqual
<1>5. Total(f, S \ {x}) \in Int
  <2>1. \A y \in S \ {x} : f[y] \in Int
    OBVIOUS
  <2> QED BY ONLY <1>1, <2>1, TotalInt
<1>6. f[x] \in Int /\ g[x] = f[x] + d
  OBVIOUS
<1> QED BY <1>3, <1>4, <1>5, <1>6

(* What maps into other places without collisions is at most their total.   *)
LEMMA TotalInjects ==
    ASSUME NEW S, IsFiniteSet(S), NEW T, IsFiniteSet(T), NEW f, NEW g, NEW h,
           \A x \in S : h[x] \in T /\ g[x] \in Nat /\ g[x] <= f[h[x]],
           \A x, y \in S : h[x] = h[y] => x = y,
           \A y \in T : f[y] \in Nat
    PROVE  Total(g, S) <= Total(f, T)
<1> DEFINE Image(U) == {h[x] : x \in U}
           F == {U \in SUBSET S : ~(Total(g, U) <= Total(f, Image(U)))}
<1>0. ASSUME F # {} PROVE FALSE
  <2>1. F \in SUBSET SUBSET S
    OBVIOUS
  <2> HIDE DEF F
  <2>2. PICK U \in F : \A V \in F : V \subseteq U => V = U
    BY ONLY <2>1, <1>0, IsFiniteSet(S), SmallestSet
  <2>3. U \subseteq S /\ ~(Total(g, U) <= Total(f, Image(U))) /\ IsFiniteSet(U)
    BY <2>2, FS_Subset DEF F
  <2>4. IsFiniteSet(Image(U)) /\ Image(U) \subseteq T
    <3>1. Image(U) \subseteq T
      BY <2>3
    <3> HIDE DEF Image
    <3> QED BY <3>1, FS_Subset
  <2>5. U # {}
    <3>1. Image({}) = {}
      OBVIOUS
    <3> QED BY <2>3, <3>1, TotalEmpty
  <2>6. PICK x \in U : TRUE
    BY <2>5
  <2>7. Total(g, U \ {x}) <= Total(f, Image(U \ {x}))
    BY <2>2, <2>3, <2>6 DEF F
  <2>8. Image(U \ {x}) = Image(U) \ {h[x]} /\ h[x] \in Image(U)
    BY <2>3, <2>6
  <2> HIDE DEF Image
  <2>9. /\ \A y \in U : g[y] \in Int
        /\ \A y \in Image(U) : f[y] \in Int
    BY <2>3, <2>4
  <2>10. Total(g, U) = Total(g, U \ {x}) + g[x]
    BY ONLY <2>3, <2>6, <2>9, TotalRemove
  <2>11. Total(f, Image(U)) = Total(f, Image(U) \ {h[x]}) + f[h[x]]
    BY ONLY <2>4, <2>8, <2>9, TotalRemove
  <2>12. IsFiniteSet(U \ {x}) /\ IsFiniteSet(Image(U) \ {h[x]})
    BY <2>3, <2>4, FS_Subset
  <2>13. Total(g, U \ {x}) \in Int
    <3>1. \A y \in U \ {x} : g[y] \in Int
      BY <2>9
    <3> QED BY ONLY <2>12, <3>1, TotalInt
  <2>14. Total(f, Image(U) \ {h[x]}) \in Int
    <3>1. \A y \in Image(U) \ {h[x]} : f[y] \in Int
      BY <2>9
    <3> QED BY ONLY <2>12, <3>1, TotalInt
  <2>15. g[x] \in Int /\ f[h[x]] \in Int /\ g[x] <= f[h[x]]
    BY <2>3, <2>6, <2>8, <2>9
  <2>16. Total(g, U \ {x}) <= Total(f, Image(U) \ {h[x]})
    BY <2>7, <2>8
  <2>17. Total(g, U \ {x}) + g[x] <= Total(f, Image(U) \ {h[x]}) + f[h[x]]
    BY ONLY <2>13, <2>14, <2>15, <2>16
  <2> QED BY ONLY <2>3, <2>10, <2>11, <2>17
<1>1. Total(g, S) <= Total(f, Image(S))
  BY <1>0
<1>2. Image(S) \in SUBSET T
  OBVIOUS
<1> HIDE DEF Image
<1>3. Total(f, Image(S)) <= Total(f, T)
  BY ONLY <1>2, IsFiniteSet(T), \A y \in T : f[y] \in Nat, TotalSubset
<1>4. IsFiniteSet(Image(S)) /\ \A y \in Image(S) : f[y] \in Nat
  BY <1>2, FS_Subset
<1>5. Total(g, S) \in Nat /\ Total(f, Image(S)) \in Nat /\ Total(f, T) \in Nat
  <2>1. Total(g, S) \in Nat
    <3>1. \A x \in S : g[x] \in Nat
      OBVIOUS
    <3> QED BY ONLY <3>1, IsFiniteSet(S), TotalNat
  <2>2. Total(f, Image(S)) \in Nat
    BY ONLY <1>4, TotalNat
  <2>3. Total(f, T) \in Nat
    BY ONLY IsFiniteSet(T), \A y \in T : f[y] \in Nat, TotalNat
  <2> QED BY <2>1, <2>2, <2>3
<1> QED BY <1>1, <1>3, <1>5

(* A count is the total of the counts of each value.                       *)
LEMMA CountByValue ==
    ASSUME NEW S, IsFiniteSet(S), NEW V, IsFiniteSet(V), NEW key, NEW f,
           \A v \in V : f[v] \in Int,
           NEW g, \A v \in V : g[v] = f[v] + Cardinality({s \in S : key[s] = v})
    PROVE  Total(g, V) = Total(f, V) + Cardinality({s \in S : key[s] \in V})
<1> DEFINE Of(U, v) == {s \in U : key[s] = v}
           In(U) == {s \in U : key[s] \in V}
           G(U) == [v \in V |-> f[v] + Cardinality(Of(U, v))]
           Right(U) == Total(G(U), V) = Total(f, V) + Cardinality(In(U))
           F == {U \in SUBSET S : ~Right(U)}
<1>1. /\ In({}) = {} /\ \A v \in V : Of({}, v) = {}
      /\ In(S) = {s \in S : key[s] \in V} /\ \A v \in V : Of(S, v) = {s \in S : key[s] = v}
      /\ \A U \in SUBSET S : In(U) \in SUBSET S /\ \A v \in V : Of(U, v) \in SUBSET S
  OBVIOUS
<1>2. ASSUME NEW U \in SUBSET S, NEW x \in U
      PROVE  /\ In(U) = IF key[x] \in V THEN In(U \ {x}) \cup {x} ELSE In(U \ {x})
             /\ x \notin In(U \ {x})
             /\ \A v \in V : /\ Of(U, v) = IF v = key[x] THEN Of(U \ {x}, v) \cup {x} ELSE Of(U \ {x}, v)
                             /\ x \notin Of(U \ {x}, v)
  OBVIOUS
<1> HIDE DEF In, Of
<1>3. ASSUME NEW U \in SUBSET S
      PROVE  /\ IsFiniteSet(In(U)) /\ Cardinality(In(U)) \in Nat
             /\ \A v \in V : IsFiniteSet(Of(U, v)) /\ Cardinality(Of(U, v)) \in Nat
  BY <1>1, FS_Subset, FS_CardinalityType
<1>4. ASSUME NEW U \in SUBSET S, NEW v \in V
      PROVE  G(U)[v] = f[v] + Cardinality(Of(U, v)) /\ G(U)[v] \in Int
  <2>1. G(U)[v] = f[v] + Cardinality(Of(U, v))
    OBVIOUS
  <2>2. f[v] \in Int /\ Cardinality(Of(U, v)) \in Nat
    BY <1>3
  <2> HIDE DEF G
  <2> QED BY ONLY <2>1, <2>2
<1> HIDE DEF G
<1>5. Total(f, V) \in Int
  BY TotalInt
<1>6. Right({})
  <2>1. \A v \in V : f[v] \in Int /\ f[v] = G({})[v]
    BY <1>1, <1>4, FS_EmptySet
  <2>2. Total(f, V) = Total(G({}), V)
    BY ONLY <2>1, IsFiniteSet(V), TotalEqual
  <2>3. Cardinality(In({})) = 0
    BY <1>1, FS_EmptySet
  <2> QED BY ONLY <1>5, <2>2, <2>3
<1>7. ASSUME NEW U \in SUBSET S, NEW x \in U, Right(U \ {x}) PROVE Right(U)
  <2> DEFINE W == U \ {x}
  <2>0. W \in SUBSET S /\ Right(W)
    BY <1>7
  <2>1. /\ In(U) = IF key[x] \in V THEN In(W) \cup {x} ELSE In(W)
        /\ x \notin In(W)
        /\ \A v \in V : /\ Of(U, v) = IF v = key[x] THEN Of(W, v) \cup {x} ELSE Of(W, v)
                        /\ x \notin Of(W, v)
    BY <1>2
  <2> HIDE DEF W
  <2>2. /\ Cardinality(In(U)) = Cardinality(In(W)) + (IF key[x] \in V THEN 1 ELSE 0)
        /\ \A v \in V : Cardinality(Of(U, v)) = Cardinality(Of(W, v)) + (IF v = key[x] THEN 1 ELSE 0)
    <3>1. /\ IsFiniteSet(In(W)) /\ Cardinality(In(W)) \in Nat
          /\ \A v \in V : IsFiniteSet(Of(W, v)) /\ Cardinality(Of(W, v)) \in Nat
      BY <1>3, <2>0
    <3>2. \A T : IsFiniteSet(T) /\ x \notin T => Cardinality(T \cup {x}) = Cardinality(T) + 1
      BY FS_AddElement
    <3> QED BY ONLY <2>1, <3>1, <3>2
  <2> DEFINE a == G(W)
             b == G(U)
             k == key[x]
  <2>3. \A v \in V : a[v] \in Int /\ b[v] \in Int /\ b[v] = IF v = k THEN a[v] + 1 ELSE a[v]
    BY <1>3, <1>4, <2>0, <2>2
  <2>4. Total(b, V) = Total(a, V) + (IF k \in V THEN 1 ELSE 0)
    <3> HIDE DEF a, b, k
    <3>0. \A v \in V : a[v] \in Int
      BY <2>3
    <3>1. CASE k \in V
      <4>1. 1 \in Int /\ \A v \in V : b[v] = IF v = k THEN a[v] + 1 ELSE a[v]
        BY <2>3
      <4>2. Total(b, V) = Total(a, V) + 1
        BY ONLY <3>0, <3>1, <4>1, IsFiniteSet(V), TotalBump
      <4> QED BY <3>1, <4>2
    <3>2. CASE k \notin V
      <4>1. \A v \in V : b[v] \in Int /\ b[v] = a[v]
        BY <2>3, <3>2
      <4>2. Total(b, V) = Total(a, V)
        BY ONLY <4>1, IsFiniteSet(V), TotalEqual
      <4>3. Total(a, V) \in Int
        BY ONLY <3>0, IsFiniteSet(V), TotalInt
      <4> QED BY <3>2, <4>2, <4>3
    <3> QED BY <3>1, <3>2
  <2>5. Cardinality(In(W)) \in Nat
    BY <1>3, <2>0
  <2> QED BY <1>5, <2>0, <2>2, <2>4, <2>5
<1>8. ASSUME F # {} PROVE FALSE
  <2>1. F \in SUBSET SUBSET S
    OBVIOUS
  <2> HIDE DEF F, Right
  <2>2. PICK U \in F : \A W \in F : W \subseteq U => W = U
    BY ONLY <2>1, <1>8, IsFiniteSet(S), SmallestSet
  <2>3. U \in SUBSET S /\ ~Right(U)
    BY <2>2 DEF F
  <2>4. PICK x \in U : TRUE
    BY <1>6, <2>3
  <2>5. U \ {x} \in SUBSET S /\ U \ {x} \notin F
    BY <2>2, <2>3
  <2> QED BY <1>7, <2>3, <2>5 DEF F
<1>9. S \in SUBSET S /\ Right(S)
  BY <1>8
<1>10. Total(g, V) = Total(G(S), V)
  <2>1. \A v \in V : g[v] \in Int /\ g[v] = G(S)[v]
    BY <1>1, <1>4, <1>9
  <2> QED BY ONLY <2>1, IsFiniteSet(V), TotalEqual
<1> QED BY <1>1, <1>9, <1>10

(* Summands that are 0 do not matter.                                      *)
LEMMA TotalSupport ==
    ASSUME NEW S, IsFiniteSet(S), NEW R \in SUBSET S, NEW f, \A x \in S : f[x] \in Int,
           \A x \in S \ R : f[x] = 0
    PROVE  Total(f, S) = Total(f, R)
<1> DEFINE F == {T \in SUBSET S : R \subseteq T /\ Total(f, T) # Total(f, R)}
<1> SUFFICES ASSUME F # {} PROVE FALSE
  OBVIOUS
<1>1. F \in SUBSET SUBSET S
  OBVIOUS
<1> HIDE DEF F
<1>2. PICK T \in F : \A U \in F : U \subseteq T => U = T
  BY ONLY <1>1, F # {}, IsFiniteSet(S), SmallestSet
<1>3. T \subseteq S /\ R \subseteq T /\ Total(f, T) # Total(f, R) /\ IsFiniteSet(T)
  BY <1>2, FS_Subset DEF F
<1>4. PICK x \in T : x \notin R
  BY <1>3
<1>5. Total(f, T \ {x}) = Total(f, R)
  BY <1>2, <1>3, <1>4 DEF F
<1>6. Total(f, T) = Total(f, T \ {x}) + f[x]
  <2>1. \A y \in T : f[y] \in Int
    BY <1>3
  <2> QED BY ONLY <1>3, <1>4, <2>1, TotalRemove
<1>7. Total(f, T \ {x}) \in Int
  <2>1. IsFiniteSet(T \ {x}) /\ \A y \in T \ {x} : f[y] \in Int
    BY <1>3, FS_Subset
  <2> QED BY ONLY <2>1, TotalInt
<1> QED BY <1>3, <1>4, <1>5, <1>6, <1>7

(* Bounded summands.                                                       *)
LEMMA TotalBounded ==
    ASSUME NEW S, IsFiniteSet(S), NEW c \in Nat, NEW f, \A x \in S : f[x] \in Int /\ f[x] <= c
    PROVE  Total(f, S) <= Cardinality(S) * c
<1> DEFINE Few(T) == Total(f, T) <= Cardinality(T) * c
           F == {T \in SUBSET S : ~Few(T)}
<1> SUFFICES ASSUME F # {} PROVE FALSE
  BY DEF F
<1>1. F \in SUBSET SUBSET S
  OBVIOUS
<1> HIDE DEF F
<1>2. PICK T \in F : \A U \in F : U \subseteq T => U = T
  BY ONLY <1>1, F # {}, IsFiniteSet(S), SmallestSet
<1>3. T \subseteq S /\ ~Few(T) /\ IsFiniteSet(T)
  BY <1>2, FS_Subset DEF F
<1>4. T # {}
  <2>1. Cardinality({}) = 0 /\ 0 * c = 0
    BY FS_EmptySet
  <2>2. Total(f, {}) = 0
    BY TotalEmpty
  <2>3. Few({})
    BY ONLY <2>1, <2>2
  <2> QED BY <1>3, <2>3
<1>5. PICK x \in T : TRUE
  BY <1>4
<1> DEFINE U == T \ {x}
<1>6. U \in SUBSET S /\ U # T /\ U \subseteq T /\ IsFiniteSet(U)
  BY <1>3, <1>5, FS_Subset
<1>7. Few(U)
  BY <1>2, <1>6 DEF F
<1>8. Total(f, T) = Total(f, U) + f[x] /\ f[x] \in Int /\ f[x] <= c
  <2>1. \A y \in T : f[y] \in Int
    BY <1>3
  <2>2. Total(f, T) = Total(f, U) + f[x]
    BY ONLY <1>3, <1>5, <2>1, TotalRemove
  <2> QED BY <1>3, <1>5, <2>2
<1>9. Cardinality(T) = Cardinality(U) + 1 /\ Cardinality(U) \in Nat
  <2>1. IsFiniteSet(T) /\ x \in T /\ Cardinality(T) \in Nat /\ Cardinality(U) \in Nat
    BY <1>3, <1>5, <1>6, FS_CardinalityType
  <2>2. Cardinality(U) = Cardinality(T) - 1
    BY ONLY <2>1, FS_RemoveElement
  <2> QED BY <2>1, <2>2
<1>10. Total(f, U) \in Int
  <2>1. \A y \in U : f[y] \in Int
    BY <1>6
  <2> HIDE DEF U
  <2> QED BY ONLY <1>6, <2>1, TotalInt
<1> HIDE DEF U
<1> DEFINE k == Cardinality(U)
           kc == k * c
<1>11. (k + 1) * c = kc + c /\ kc \in Nat /\ Total(f, U) <= kc
  BY <1>7, <1>9
<1> HIDE DEF kc
<1>12. Total(f, T) <= kc + c
  BY <1>8, <1>10, <1>11
<1> QED BY <1>3, <1>9, <1>11, <1>12

(* The same from below.                                                    *)
LEMMA TotalAtLeast ==
    ASSUME NEW S, IsFiniteSet(S), NEW c \in Nat, NEW f, \A x \in S : f[x] \in Int /\ f[x] >= c
    PROVE  Total(f, S) >= Cardinality(S) * c
<1> DEFINE Many(T) == Total(f, T) >= Cardinality(T) * c
           F == {T \in SUBSET S : ~Many(T)}
<1> SUFFICES ASSUME F # {} PROVE FALSE
  BY DEF F
<1>1. F \in SUBSET SUBSET S
  OBVIOUS
<1> HIDE DEF F
<1>2. PICK T \in F : \A U \in F : U \subseteq T => U = T
  BY ONLY <1>1, F # {}, IsFiniteSet(S), SmallestSet
<1>3. T \subseteq S /\ ~Many(T) /\ IsFiniteSet(T)
  BY <1>2, FS_Subset DEF F
<1>4. T # {}
  <2>1. Cardinality({}) = 0 /\ 0 * c = 0
    BY FS_EmptySet
  <2>2. Total(f, {}) = 0
    BY TotalEmpty
  <2>3. Many({})
    BY ONLY <2>1, <2>2
  <2> QED BY <1>3, <2>3
<1>5. PICK x \in T : TRUE
  BY <1>4
<1> DEFINE U == T \ {x}
<1>6. U \in SUBSET S /\ U # T /\ U \subseteq T /\ IsFiniteSet(U)
  BY <1>3, <1>5, FS_Subset
<1>7. Many(U)
  BY <1>2, <1>6 DEF F
<1>8. Total(f, T) = Total(f, U) + f[x] /\ f[x] \in Int /\ f[x] >= c
  <2>1. \A y \in T : f[y] \in Int
    BY <1>3
  <2>2. Total(f, T) = Total(f, U) + f[x]
    BY ONLY <1>3, <1>5, <2>1, TotalRemove
  <2> QED BY <1>3, <1>5, <2>2
<1>9. Cardinality(T) = Cardinality(U) + 1 /\ Cardinality(U) \in Nat
  <2>1. IsFiniteSet(T) /\ x \in T /\ Cardinality(T) \in Nat /\ Cardinality(U) \in Nat
    BY <1>3, <1>5, <1>6, FS_CardinalityType
  <2>2. Cardinality(U) = Cardinality(T) - 1
    BY ONLY <2>1, FS_RemoveElement
  <2> QED BY <2>1, <2>2
<1>10. Total(f, U) \in Int
  <2>1. \A y \in U : f[y] \in Int
    BY <1>6
  <2> HIDE DEF U
  <2> QED BY ONLY <1>6, <2>1, TotalInt
<1> HIDE DEF U
<1> DEFINE k == Cardinality(U)
           kc == k * c
<1>11. (k + 1) * c = kc + c /\ kc \in Nat /\ Total(f, U) >= kc
  BY <1>7, <1>9
<1> HIDE DEF kc
<1>12. Total(f, T) >= kc + c
  BY <1>8, <1>10, <1>11
<1> QED BY <1>3, <1>9, <1>11, <1>12

(* A total is the total of the totals of each value.                       *)
LEMMA TotalByValue ==
    ASSUME NEW S, IsFiniteSet(S), NEW V, IsFiniteSet(V), NEW key, NEW w,
           \A s \in S : w[s] \in Int /\ key[s] \in V,
           NEW part, \A v \in V : part[v] \subseteq S /\ \A s \in S : s \in part[v] <=> key[s] = v,
           NEW g, \A v \in V : g[v] = Total(w, part[v])
    PROVE  Total(g, V) = Total(w, S)
<1> DEFINE Of(U, v) == {s \in U : key[s] = v}
           In(U) == {s \in U : key[s] \in V}
           G(U) == [v \in V |-> Total(w, Of(U, v))]
           Right(U) == Total(G(U), V) = Total(w, In(U))
           F == {U \in SUBSET S : ~Right(U)}
<1>1. /\ In({}) = {} /\ \A v \in V : Of({}, v) = {}
      /\ \A U \in SUBSET S : In(U) \in SUBSET S /\ \A v \in V : Of(U, v) \in SUBSET S
  OBVIOUS
<1>3. In(S) = S /\ \A v \in V : Of(S, v) = part[v]
  OBVIOUS
<1>2. ASSUME NEW U \in SUBSET S, NEW x \in U
      PROVE  /\ In(U) = IF key[x] \in V THEN In(U \ {x}) \cup {x} ELSE In(U \ {x})
             /\ x \notin In(U \ {x})
             /\ \A v \in V : /\ Of(U, v) = IF v = key[x] THEN Of(U \ {x}, v) \cup {x} ELSE Of(U \ {x}, v)
                             /\ x \notin Of(U \ {x}, v)
  OBVIOUS
<1> HIDE DEF In, Of
<1>0. ASSUME NEW T \in SUBSET S
      PROVE  /\ IsFiniteSet(T) /\ Total(w, T) \in Int
             /\ \A x \in S \ T : Total(w, T \cup {x}) = Total(w, T) + w[x]
  <2>1. IsFiniteSet(T) /\ \A s \in T : w[s] \in Int
    BY FS_Subset
  <2>2. Total(w, T) \in Int
    BY ONLY <2>1, TotalInt
  <2>3. ASSUME NEW x \in S \ T PROVE Total(w, T \cup {x}) = Total(w, T) + w[x]
    <3>1. x \notin T /\ \A y \in T \cup {x} : w[y] \in Int
      OBVIOUS
    <3> QED BY ONLY <2>1, <3>1, TotalAdd
  <2> QED BY <2>1, <2>2, <2>3
<1>4. ASSUME NEW U \in SUBSET S, NEW v \in V
      PROVE  G(U)[v] = Total(w, Of(U, v)) /\ G(U)[v] \in Int
  <2>1. G(U)[v] = Total(w, Of(U, v))
    OBVIOUS
  <2>2. Total(w, Of(U, v)) \in Int
    BY <1>0, <1>1
  <2> HIDE DEF G
  <2> QED BY ONLY <2>1, <2>2
<1> HIDE DEF G
<1>6. Right({})
  <2>1. ASSUME NEW v \in V PROVE G({})[v] = 0
    <3>1. Of({}, v) = {} /\ {} \in SUBSET S
      BY <1>1
    <3>2. G({})[v] = Total(w, Of({}, v))
      BY <1>4, <3>1
    <3> QED BY ONLY <3>1, <3>2, TotalEmpty
  <2>2. Total(G({}), V) = 0
    BY ONLY <2>1, IsFiniteSet(V), TotalZero
  <2>3. Total(w, In({})) = 0
    BY <1>1, TotalEmpty
  <2> QED BY ONLY <2>2, <2>3
<1>7. ASSUME NEW U \in SUBSET S, NEW x \in U, Right(U \ {x}) PROVE Right(U)
  <2> DEFINE W == U \ {x}
  <2>0. W \in SUBSET S /\ Right(W) /\ x \in S /\ w[x] \in Int
    BY <1>7
  <2>1. /\ In(U) = IF key[x] \in V THEN In(W) \cup {x} ELSE In(W)
        /\ x \notin In(W)
        /\ \A v \in V : /\ Of(U, v) = IF v = key[x] THEN Of(W, v) \cup {x} ELSE Of(W, v)
                        /\ x \notin Of(W, v)
    BY <1>2
  <2> HIDE DEF W
  <2>2. /\ Total(w, In(U)) = IF key[x] \in V THEN Total(w, In(W)) + w[x] ELSE Total(w, In(W))
        /\ \A v \in V : Total(w, Of(U, v)) = IF v = key[x] THEN Total(w, Of(W, v)) + w[x] ELSE Total(w, Of(W, v))
    <3>1. \A T \in SUBSET S : x \notin T => Total(w, T \cup {x}) = Total(w, T) + w[x]
      BY <1>0, <2>0
    <3>2. In(W) \in SUBSET S /\ \A v \in V : Of(W, v) \in SUBSET S
      BY <1>1, <2>0
    <3> QED BY ONLY <2>1, <3>1, <3>2
  <2> DEFINE a == G(W)
             b == G(U)
             k == key[x]
             d == w[x]
  <2>3. \A v \in V : a[v] \in Int /\ b[v] \in Int /\ b[v] = IF v = k THEN a[v] + d ELSE a[v]
    BY <1>4, <2>0, <2>2
  <2>4. Total(b, V) = IF k \in V THEN Total(a, V) + d ELSE Total(a, V)
    <3>0. (\A v \in V : a[v] \in Int) /\ d \in Int
      BY <2>0, <2>3
    <3> HIDE DEF a, b, k, d
    <3>1. CASE k \in V
      <4>1. \A v \in V : b[v] = IF v = k THEN a[v] + d ELSE a[v]
        BY <2>3
      <4>2. Total(b, V) = Total(a, V) + d
        BY ONLY <3>0, <3>1, <4>1, IsFiniteSet(V), TotalBump
      <4> QED BY <3>1, <4>2
    <3>2. CASE k \notin V
      <4>1. \A v \in V : b[v] \in Int /\ b[v] = a[v]
        BY <2>3, <3>2
      <4>2. Total(b, V) = Total(a, V)
        BY ONLY <4>1, IsFiniteSet(V), TotalEqual
      <4> QED BY <3>2, <4>2
    <3> QED BY <3>1, <3>2
  <2> QED BY <2>0, <2>2, <2>4
<1>8. ASSUME F # {} PROVE FALSE
  <2>1. F \in SUBSET SUBSET S
    OBVIOUS
  <2> HIDE DEF F, Right
  <2>2. PICK U \in F : \A W \in F : W \subseteq U => W = U
    BY ONLY <2>1, <1>8, IsFiniteSet(S), SmallestSet
  <2>3. U \in SUBSET S /\ ~Right(U)
    BY <2>2 DEF F
  <2>4. PICK x \in U : TRUE
    BY <1>6, <2>3
  <2>5. U \ {x} \in SUBSET S /\ U \ {x} \notin F
    BY <2>2, <2>3
  <2> QED BY <1>7, <2>3, <2>5 DEF F
<1>9. S \in SUBSET S /\ Right(S)
  BY <1>8
<1>10. Total(g, V) = Total(G(S), V)
  <2>0. \A v \in V : Of(S, v) = part[v]
    BY <1>3
  <2>1. \A v \in V : g[v] \in Int /\ g[v] = G(S)[v]
    BY <1>4, <1>9, <2>0
  <2> QED BY ONLY <2>1, IsFiniteSet(V), TotalEqual
<1> QED BY <1>3, <1>9, <1>10

-----------------------------------------------------------------------------
(* What is sorted                                                          *)

(* The members of a finite set in an order: each is at the place of its    *)
(* rank, and no two have the same one.                                     *)
LEMMA SortedIs ==
    ASSUME NEW S, IsFiniteSet(S), NEW order,
           \A x \in S : <<x, x>> \in order,
           \A x, y \in S : <<x, y>> \in order \/ <<y, x>> \in order,
           \A x, y \in S : <<x, y>> \in order /\ <<y, x>> \in order => x = y,
           \A x, y, z \in S : <<x, y>> \in order /\ <<y, z>> \in order => <<x, z>> \in order
    PROVE  /\ DOMAIN Sorted(S, order) = 1..Cardinality(S) /\ Cardinality(S) \in Nat
           /\ \A k \in 1..Cardinality(S) :
                 /\ Sorted(S, order)[k] \in S
                 /\ Cardinality({y \in S : <<y, Sorted(S, order)[k]>> \in order}) = k
           /\ \A j, k \in 1..Cardinality(S) : j < k =>
                 /\ <<Sorted(S, order)[j], Sorted(S, order)[k]>> \in order
                 /\ Sorted(S, order)[j] # Sorted(S, order)[k]
           /\ \A x \in S : \E k \in 1..Cardinality(S) : Sorted(S, order)[k] = x
<1> DEFINE Below(x) == {y \in S : <<y, x>> \in order}
           rank == [x \in S |-> Cardinality(Below(x))]
           n == Cardinality(S)
           s == Sorted(S, order)
<1>1. n \in Nat /\ IsFiniteSet(1..n) /\ Cardinality(1..n) = n
  <2>1. n \in Nat
    BY FS_CardinalityType
  <2> HIDE DEF n
  <2>2. IsFiniteSet(1..n) /\ Cardinality(1..n) = IF 1 > n THEN 0 ELSE n - 1 + 1
    BY <2>1, FS_Interval
  <2> QED BY <2>1, <2>2
<1>2. ASSUME NEW x \in S
      PROVE  /\ IsFiniteSet(Below(x)) /\ Cardinality(Below(x)) \in 1..n
             /\ Below(x) \in SUBSET S /\ x \in Below(x)
  <2>1. Below(x) \in SUBSET S /\ x \in Below(x)
    OBVIOUS
  <2> HIDE DEF Below, n
  <2>2. IsFiniteSet(Below(x)) /\ Cardinality(Below(x)) <= Cardinality(S)
    BY <2>1, FS_Subset
  <2>3. Cardinality(Below(x)) \in Nat /\ Cardinality(Below(x)) # 0
    BY <2>1, <2>2, FS_CardinalityType, FS_EmptySet
  <2> QED BY <1>1, <2>1, <2>2, <2>3 DEF n
<1>3. ASSUME NEW x \in S, NEW y \in S, <<x, y>> \in order
      PROVE  /\ Cardinality(Below(x)) <= Cardinality(Below(y))
             /\ Cardinality(Below(x)) = Cardinality(Below(y)) => x = y
  <2>1. Below(x) \in SUBSET Below(y)
    BY <1>3
  <2>2. IsFiniteSet(Below(y)) /\ y \in Below(y)
    BY <1>2
  <2>3. y \in Below(x) => x = y
    BY <1>3
  <2> HIDE DEF Below
  <2>4. /\ Cardinality(Below(x)) <= Cardinality(Below(y))
        /\ Cardinality(Below(y)) = Cardinality(Below(x)) => Below(y) = Below(x)
    BY ONLY <2>1, <2>2, FS_Subset
  <2> QED BY <2>2, <2>3, <2>4
<1>4. rank \in Injection(S, 1..n)
  <2>1. rank \in [S -> 1..n]
    BY <1>2
  <2>2. ASSUME NEW x \in S, NEW y \in S, rank[x] = rank[y] PROVE x = y
    <3>1. Cardinality(Below(x)) = Cardinality(Below(y))
      BY <2>2
    <3> HIDE DEF Below, rank
    <3> QED BY <3>1, <1>3
  <2> HIDE DEF rank, n
  <2> QED BY <2>1, <2>2 DEF Injection, IsInjective
<1>5. rank \in Surjection(S, 1..n)
  <2> HIDE DEF rank
  <2> QED BY <1>1, <1>4, FS_Injection
<1>6. \A k \in 1..n : \E x \in S : Cardinality(Below(x)) = k
  <2>1. \A k \in 1..n : \E x \in S : rank[x] = k
    <3> HIDE DEF rank, n
    <3> QED BY <1>5 DEF Surjection
  <2> QED BY <2>1
<1>7. DOMAIN s = 1..n /\ \A k \in 1..n : s[k] = CHOOSE x \in S : Cardinality(Below(x)) = k
  BY DEF Sorted
<1> HIDE DEF Below, rank, n, s
<1>8. \A k \in 1..n : s[k] \in S /\ Cardinality(Below(s[k])) = k
  BY <1>6, <1>7
<1>9. ASSUME NEW j \in 1..n, NEW k \in 1..n, j < k
      PROVE  <<s[j], s[k]>> \in order /\ s[j] # s[k]
  <2>1. s[j] \in S /\ s[k] \in S /\ Cardinality(Below(s[j])) = j /\ Cardinality(Below(s[k])) = k
    BY <1>8
  <2>2. j \in Int /\ k \in Int /\ ~(k <= j)
    BY <1>1, <1>9
  <2>3. <<s[k], s[j]>> \notin order
    BY <1>3, <2>1, <2>2
  <2> QED BY <2>1, <2>2, <2>3
<1>10. ASSUME NEW x \in S PROVE \E k \in 1..n : s[k] = x
  <2>1. Cardinality(Below(x)) \in 1..n
    BY <1>2
  <2>2. s[Cardinality(Below(x))] \in S
        /\ Cardinality(Below(s[Cardinality(Below(x))])) = Cardinality(Below(x))
    BY <1>8, <2>1
  <2>3. s[Cardinality(Below(x))] = x
    BY <1>3, <2>2
  <2> QED BY <2>1, <2>3
<1>11. \A k \in 1..n : Cardinality({y \in S : <<y, s[k]>> \in order}) = k
  BY <1>8 DEF Below
<1> QED BY <1>1, <1>7, <1>8, <1>9, <1>10, <1>11 DEF n, s

LEMMA RisingIs ==
    ASSUME NEW S, IsFiniteSet(S), S \subseteq Int
    PROVE  /\ DOMAIN Rising(S) = 1..Cardinality(S) /\ Cardinality(S) \in Nat
           /\ \A k \in 1..Cardinality(S) : /\ Rising(S)[k] \in S
                                          /\ Cardinality({y \in S : y <= Rising(S)[k]}) = k
           /\ \A j, k \in 1..Cardinality(S) : j < k => Rising(S)[j] < Rising(S)[k]
<1> DEFINE order == {pair \in S \X S : pair[1] <= pair[2]}
           s == Sorted(S, order)
           n == Cardinality(S)
<1>1. \A x, y \in S : <<x, y>> \in order <=> x <= y
  OBVIOUS
<1>2. s = Rising(S)
  BY DEF Rising
<1>3. \A x \in S : x \in Int
  OBVIOUS
<1> HIDE DEF order
<1>4. /\ \A x \in S : <<x, x>> \in order
      /\ \A x, y \in S : <<x, y>> \in order \/ <<y, x>> \in order
      /\ \A x, y \in S : <<x, y>> \in order /\ <<y, x>> \in order => x = y
      /\ \A x, y, z \in S : <<x, y>> \in order /\ <<y, z>> \in order => <<x, z>> \in order
  BY <1>1, <1>3
<1>5. /\ DOMAIN s = 1..n /\ n \in Nat
      /\ \A k \in 1..n : s[k] \in S /\ Cardinality({y \in S : <<y, s[k]>> \in order}) = k
      /\ \A j, k \in 1..n : j < k => <<s[j], s[k]>> \in order /\ s[j] # s[k]
  BY <1>4, SortedIs
<1> HIDE DEF s, n
<1>6. ASSUME NEW j \in 1..n, NEW k \in 1..n, j < k PROVE s[j] < s[k]
  <2>1. s[j] \in S /\ s[k] \in S /\ <<s[j], s[k]>> \in order /\ s[j] # s[k]
    BY <1>5, <1>6
  <2>2. s[j] <= s[k]
    BY ONLY <1>1, <2>1
  <2>3. s[j] \in Int /\ s[k] \in Int
    BY ONLY <1>3, <2>1
  <2> QED BY ONLY <2>1, <2>2, <2>3
<1>7. s = Rising(S)
  BY <1>2
<1>8. ASSUME NEW k \in 1..n PROVE Cardinality({y \in S : y <= s[k]}) = k
  <2>1. {y \in S : y <= s[k]} = {y \in S : <<y, s[k]>> \in order}
    BY <1>1, <1>5
  <2> QED BY <1>5, <2>1
<1> QED BY ONLY <1>5, <1>6, <1>7, <1>8 DEF n

-----------------------------------------------------------------------------
(* What is defined along a rank                                            *)

(* What holds of everything of which it holds when it holds of all that has *)
(* a lower rank.                                                            *)
LEMMA RankInduction ==
    ASSUME NEW D, NEW rank, \A x \in D : rank[x] \in Nat, NEW P,
           \A x \in D : (\A y \in D : rank[y] < rank[x] => y \in P) => x \in P
    PROVE  \A x \in D : x \in P
<1> SUFFICES ASSUME NEW x \in D, x \notin P PROVE FALSE
  OBVIOUS
<1> DEFINE Bad == {n \in 0..rank[x] : \E y \in D : y \notin P /\ rank[y] = n}
<1>1. rank[x] \in Nat /\ IsFiniteSet(0..rank[x])
  BY FS_Interval
<1>2. Bad \in SUBSET (0..rank[x]) /\ Bad \subseteq Int /\ rank[x] \in Bad
  BY <1>1
<1>3. \A n \in Bad : \E y \in D : y \notin P /\ rank[y] = n
  OBVIOUS
<1>4. \A y \in D : y \notin P /\ rank[y] <= rank[x] => rank[y] \in Bad
  BY <1>1
<1> HIDE DEF Bad
<1>5. IsFiniteSet(Bad)
  BY ONLY <1>1, <1>2, FS_Subset
<1>6. PICK n \in Bad : \A k \in Bad : n <= k
  BY ONLY <1>2, <1>5, HasMin
<1>7. PICK y \in D : y \notin P /\ rank[y] = n
  BY <1>3, <1>6
<1>8. n <= rank[x]
  BY <1>2, <1>6
<1>9. ASSUME NEW z \in D, rank[z] < rank[y] PROVE z \in P
  <2>1. rank[z] \in Nat /\ rank[y] \in Nat
    OBVIOUS
  <2>2. rank[z] <= rank[x] /\ ~(n <= rank[z])
    BY ONLY <1>1, <1>7, <1>8, <1>9, <2>1
  <2> QED BY <1>4, <1>6, <2>2
<1> QED BY <1>7, <1>9

(* A function may be defined by what it is at lower ranks: G gives its value *)
(* from a function, of which it only looks at those.                        *)
Graded(D, R, N, rank, G) ==
    /\ R # {} /\ N \in Nat
    /\ \A x \in D : rank[x] \in 0..N
    /\ \A f \in [D -> R], x \in D : G[<<f, x>>] \in R
    /\ \A f, g \in [D -> R], x \in D :
          (\A y \in D : rank[y] < rank[x] => f[y] = g[y]) => G[<<f, x>>] = G[<<g, x>>]

LEMMA RecursiveByRank ==
    ASSUME NEW D, NEW R, NEW N, NEW rank, NEW G, Graded(D, R, N, rank, G)
    PROVE  \E f \in [D -> R] : \A x \in D : f[x] = G[<<f, x>>]
<1> USE DEF Graded
<1> DEFINE Right(f, n) == \A x \in D : rank[x] < n => f[x] = G[<<f, x>>]
           P == {n \in 0..(N + 1) : \E f \in [D -> R] : Right(f, n)}
           own == [n \in 0..(N + 1) |-> n]
<1>1. ASSUME NEW n \in 0..(N + 1), \A m \in 0..(N + 1) : own[m] < own[n] => m \in P PROVE n \in P
  <2>1. CASE n = 0
    <3>1. PICK r \in R : TRUE
      OBVIOUS
    <3>2. [x \in D |-> r] \in [D -> R]
      OBVIOUS
    <3>3. \A x \in D : ~(rank[x] < 0)
      OBVIOUS
    <3> QED BY <2>1, <3>2, <3>3
  <2>2. CASE n # 0
    <3>1. n - 1 \in 0..(N + 1) /\ own[n - 1] < own[n] /\ n - 1 \in Int /\ n \in Int
      BY <2>2
    <3>2. PICK f \in [D -> R] : Right(f, n - 1)
      BY <1>1, <3>1
    <3> DEFINE h == [x \in D |-> IF rank[x] < n - 1 THEN f[x] ELSE G[<<f, x>>]]
    <3>3. h \in [D -> R] /\ \A x \in D : h[x] = IF rank[x] < n - 1 THEN f[x] ELSE G[<<f, x>>]
      OBVIOUS
    <3> HIDE DEF h
    <3>4. ASSUME NEW x \in D, rank[x] < n PROVE h[x] = G[<<h, x>>]
      <4>1. rank[x] \in Int /\ \A y \in D : rank[y] \in Int
        OBVIOUS
      <4>2. ASSUME NEW y \in D, rank[y] < rank[x] PROVE f[y] = h[y]
        <5>1. rank[y] < n - 1
          BY ONLY <3>1, <3>4, <4>1, <4>2
        <5> QED BY ONLY <3>3, <4>2, <5>1
      <4>3. G[<<f, x>>] = G[<<h, x>>]
        BY <3>3, <4>2
      <4>4. h[x] = G[<<f, x>>]
        BY <3>2, <3>3
      <4> QED BY <4>3, <4>4
    <3> QED BY <3>3, <3>4
  <2> QED BY <2>1, <2>2
<1>2. \A n \in 0..(N + 1) : own[n] \in Nat
  OBVIOUS
<1> HIDE DEF P, own
<1>3. \A n \in 0..(N + 1) : n \in P
  <2> DEFINE E == 0..(N + 1)
  <2>1. \A n \in E : own[n] \in Nat
    BY <1>2
  <2>2. \A n \in E : (\A m \in E : own[m] < own[n] => m \in P) => n \in P
    BY <1>1
  <2> HIDE DEF E
  <2>3. \A n \in E : n \in P
    BY ONLY <2>1, <2>2, RankInduction
  <2> QED BY <2>3 DEF E
<1>4. N + 1 \in P
  BY <1>3
<1>5. PICK f \in [D -> R] : \A x \in D : rank[x] < N + 1 => f[x] = G[<<f, x>>]
  BY <1>4 DEF P
<1>6. \A x \in D : rank[x] < N + 1
  OBVIOUS
<1> QED BY <1>5, <1>6
=============================================================================
