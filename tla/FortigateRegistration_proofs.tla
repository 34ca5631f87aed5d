--------------------- MODULE FortigateRegistration_proofs ---------------------
(***************************************************************************)
(* Proofs about ReadModels and FortigateRegistration: the feeds of one     *)
(* state tell the same addresses and fail loudly, the group that a         *)
(* registration leaves on a firewall holds the worst of the rows it read,  *)
(* a list that a client reads page by page to its end is complete, and     *)
(* the figures fit together.  The proofs about Monitoring are here too,    *)
(* since they need the lemmas about sums: the ledgers count each error     *)
(* once, and the reports give what they are asked for.                     *)
(***************************************************************************)
EXTENDS FortigateRegistration, Monitoring, FiniteSetTheorems, SequenceTheorems, TLAPS

-----------------------------------------------------------------------------
(* Sums over finite sets *)

(* Induction over finite sets: a set of subsets that is not empty has a smallest one. *)
LEMMA SmallestSubset ==
  ASSUME NEW S, IsFiniteSet(S), NEW D \in SUBSET (SUBSET S), D # {}
  PROVE  \E V \in D : /\ IsFiniteSet(V)
                      /\ \A W \in SUBSET V : W # V => W \notin D
<1> DEFINE R == StrictSubsetOrdering(S)
<1>1. D \subseteq FiniteSubsetsOf(S)
  BY FS_FiniteSubsetsOfFinite
<1>2. IsWellFoundedOn(R, FiniteSubsetsOf(S))
  BY FS_StrictSubsetOrderingWellFounded
<1> HIDE DEF R
<1>3. PICK V \in D : \A W \in D : <<W, V>> \notin R
  BY <1>1, <1>2, WFMin
<1>4. ASSUME NEW W \in SUBSET V, W # V PROVE W \notin D
  BY <1>3, <1>4 DEF R, StrictSubsetOrdering
<1>5. QED
  BY <1>3, <1>4, FS_Subset

(* The element that a fold takes out of a set next, and the fold of a sum. *)
Pick(s) == CHOOSE x \in s : TRUE
IsFold(g, f, S) ==
    g = [s \in SUBSET S |-> IF s = {} THEN 0 ELSE f[Pick(s)] + g[s \ {Pick(s)}]]
Fold(f, S) == CHOOSE g : IsFold(g, f, S)

(* The sum over a set is the fold on its subsets, taken at the set itself. *)
LEMMA SumUnfolds ==
  ASSUME NEW f, NEW S
  PROVE  SumFunctionOnSet(f, S) = Fold(f, S)[S]
  BY DEF SumFunctionOnSet, FoldFunctionOnSet, MapThenFoldSet, Fold, IsFold, Pick

(* What is taken out of a set is one of its elements. *)
LEMMA PickIs == \A s : s # {} => Pick(s) \in s
  BY DEF Pick

(* A fold is determined by its function and set. *)
LEMMA FoldsAgree ==
  ASSUME NEW U, IsFiniteSet(U), NEW S, NEW T, U \subseteq S, U \subseteq T,
         NEW f, NEW g, NEW h, IsFold(g, f, S), IsFold(h, f, T)
  PROVE  g[U] = h[U]
<1> DEFINE D == {V \in SUBSET U : g[V] # h[V]}
<1>0. D \in SUBSET (SUBSET U) /\ \A W : W \in D <=> W \in SUBSET U /\ g[W] # h[W]
  OBVIOUS
<1>1. SUFFICES ASSUME D # {} PROVE FALSE
  BY <1>1
<1> HIDE DEF D
<1>2. PICK V \in D : /\ IsFiniteSet(V)
                     /\ \A W \in SUBSET V : W # V => W \notin D
  BY <1>0, <1>1, SmallestSubset
<1>a. V \in SUBSET S /\ V \in SUBSET T
  BY <1>0, <1>2
<1>3. g[V] = IF V = {} THEN 0 ELSE f[Pick(V)] + g[V \ {Pick(V)}]
  BY <1>a DEF IsFold
<1>4. h[V] = IF V = {} THEN 0 ELSE f[Pick(V)] + h[V \ {Pick(V)}]
  BY <1>a DEF IsFold
<1> DEFINE W == V \ {Pick(V)}
<1>5. V # {} /\ g[W] # h[W]
  BY <1>0, <1>2, <1>3, <1>4
<1>6. W \subseteq V /\ W # V
  BY <1>5, PickIs
<1>7. QED
  BY <1>0, <1>2, <1>5, <1>6

(* The recursive equation of a fold has a solution on every finite set. *)
LEMMA FoldExists ==
  ASSUME NEW S, IsFiniteSet(S), NEW f
  PROVE  IsFold(Fold(f, S), f, S)
<1> DEFINE D == {V \in SUBSET S : ~ IsFold(Fold(f, V), f, V)}
<1>0. D \in SUBSET (SUBSET S) /\ \A W : W \in D <=> W \in SUBSET S /\ ~ IsFold(Fold(f, W), f, W)
  OBVIOUS
<1>1. SUFFICES ASSUME D # {} PROVE FALSE
  BY <1>1
<1> HIDE DEF D
<1>2. PICK V \in D : /\ IsFiniteSet(V)
                     /\ \A W \in SUBSET V : W # V => W \notin D
  BY <1>0, <1>1, SmallestSubset
<1>3. \A W \in SUBSET V : W # V => IsFold(Fold(f, W), f, W)
  BY <1>0, <1>2
<1> DEFINE last(s) == Fold(f, s)[s]
           g == [s \in SUBSET V |-> IF s = {} THEN 0 ELSE f[Pick(s)] + last(s \ {Pick(s)})]
<1>4. ASSUME NEW s \in SUBSET V, s # {} PROVE g[s \ {Pick(s)}] = last(s \ {Pick(s)})
  <2> DEFINE t == s \ {Pick(s)}
             u == t \ {Pick(t)}
  <2>1. t \subseteq V /\ t # V
    BY <1>4, PickIs
  <2>2. IsFold(Fold(f, t), f, t)
    BY <1>3, <2>1
  <2> HIDE DEF t, last
  <2>3. last(t) = IF t = {} THEN 0 ELSE f[Pick(t)] + Fold(f, t)[u]
    BY <2>2 DEF IsFold, last
  <2>4. t # {} => Fold(f, t)[u] = last(u)
    <3>1. SUFFICES ASSUME t # {} PROVE Fold(f, t)[u] = last(u)
      OBVIOUS
    <3>2. u \subseteq t /\ u \subseteq V /\ u # V
      BY <2>1, <3>1, PickIs
    <3>3. IsFold(Fold(f, u), f, u) /\ IsFiniteSet(u)
      BY <1>2, <1>3, <3>2, FS_Subset
    <3> HIDE DEF u
    <3>4. QED
      BY <2>2, <3>2, <3>3, FoldsAgree DEF last
  <2>5. g[t] = IF t = {} THEN 0 ELSE f[Pick(t)] + last(u)
    BY <2>1
  <2>6. g[t] = last(t)
    BY <2>3, <2>4, <2>5
  <2>7. QED
    BY <2>6 DEF t
<1>5. IsFold(g, f, V)
  BY <1>4 DEF IsFold
<1>6. IsFold(Fold(f, V), f, V)
  BY <1>5 DEF Fold
<1>7. QED
  BY <1>0, <1>2, <1>6

(* Nothing adds up to 0. *)
LEMMA SumOfNone == \A f : SumFunctionOnSet(f, {}) = 0
<1>1. ASSUME NEW f PROVE SumFunctionOnSet(f, {}) = 0
  <2>1. IsFold(Fold(f, {}), f, {})
    BY FoldExists, FS_EmptySet
  <2>2. Fold(f, {})[{}] = 0
    BY <2>1 DEF IsFold
  <2>3. QED
    BY <2>2, SumUnfolds
<1>2. QED
  BY <1>1

(* The equation of a sum, for the element that is taken out. *)
LEMMA SumOfPick ==
  ASSUME NEW f, NEW S, IsFiniteSet(S), S # {}
  PROVE  SumFunctionOnSet(f, S) = f[Pick(S)] + SumFunctionOnSet(f, S \ {Pick(S)})
<1> DEFINE T == S \ {Pick(S)}
<1>1. IsFold(Fold(f, S), f, S)
  BY FoldExists
<1>2. Fold(f, S)[S] = f[Pick(S)] + Fold(f, S)[T]
  BY <1>1 DEF IsFold
<1>3. IsFiniteSet(T) /\ T \subseteq S
  BY FS_Subset
<1> HIDE DEF T
<1>4. IsFold(Fold(f, T), f, T)
  BY <1>3, FoldExists
<1>5. Fold(f, S)[T] = Fold(f, T)[T]
  BY <1>1, <1>3, <1>4, FoldsAgree
<1>6. QED
  BY <1>2, <1>5, SumUnfolds DEF T

(* A sum of integers is an integer. *)
LEMMA SumIsInt ==
  ASSUME NEW f, NEW S, IsFiniteSet(S), \A x \in S : f[x] \in Int
  PROVE  SumFunctionOnSet(f, S) \in Int
<1> DEFINE D == {V \in SUBSET S : SumFunctionOnSet(f, V) \notin Int}
<1>0. /\ D \in SUBSET (SUBSET S)
      /\ \A W : W \in D <=> W \in SUBSET S /\ SumFunctionOnSet(f, W) \notin Int
  OBVIOUS
<1>1. SUFFICES ASSUME D # {} PROVE FALSE
  BY <1>1
<1> HIDE DEF D
<1>2. PICK V \in D : /\ IsFiniteSet(V)
                     /\ \A W \in SUBSET V : W # V => W \notin D
  BY <1>0, <1>1, SmallestSubset
<1>3. V # {}
  <2>1. SumFunctionOnSet(f, V) \notin Int
    BY <1>0, <1>2
  <2>2. SumFunctionOnSet(f, {}) \in Int
    BY SumOfNone
  <2>3. QED
    BY <2>1, <2>2
<1>4. Pick(V) \in V
  BY <1>3, PickIs
<1>5. SumFunctionOnSet(f, V \ {Pick(V)}) \in Int
  BY <1>0, <1>2, <1>4
<1>6. SumFunctionOnSet(f, V) = f[Pick(V)] + SumFunctionOnSet(f, V \ {Pick(V)})
  BY <1>2, <1>3, SumOfPick
<1>7. QED
  BY <1>0, <1>2, <1>4, <1>5, <1>6

(* It does not matter which element is taken out first. *)
LEMMA SumTakes ==
  ASSUME NEW f, NEW S, IsFiniteSet(S), \A x \in S : f[x] \in Int, NEW x \in S
  PROVE  SumFunctionOnSet(f, S) = f[x] + SumFunctionOnSet(f, S \ {x})
<1> DEFINE Bad(V) == \E y \in V : SumFunctionOnSet(f, V) # f[y] + SumFunctionOnSet(f, V \ {y})
           D == {V \in SUBSET S : Bad(V)}
<1>0. D \in SUBSET (SUBSET S) /\ \A W : W \in D <=> W \in SUBSET S /\ Bad(W)
  OBVIOUS
<1>1. SUFFICES ASSUME D # {} PROVE FALSE
  BY <1>1
<1> HIDE DEF D
<1>2. PICK V \in D : /\ IsFiniteSet(V)
                     /\ \A W \in SUBSET V : W # V => W \notin D
  BY <1>0, <1>1, SmallestSubset
<1>3. PICK y \in V : SumFunctionOnSet(f, V) # f[y] + SumFunctionOnSet(f, V \ {y})
  BY <1>0, <1>2
<1> DEFINE p == Pick(V)
           A == V \ {p}
           B == V \ {y}
           C == V \ {p, y}
<1>4. p \in V
  BY PickIs
<1>5. SumFunctionOnSet(f, V) = f[p] + SumFunctionOnSet(f, A)
  BY <1>2, <1>4, SumOfPick
<1>6. p # y
  BY <1>3, <1>5
<1>7. A \subseteq S /\ B \subseteq S /\ C \subseteq S /\ y \in A /\ p \in B /\ A # V /\ B # V
  BY <1>0, <1>2, <1>4, <1>6
<1> HIDE DEF p
<1>8. SumFunctionOnSet(f, A) = f[y] + SumFunctionOnSet(f, A \ {y})
  BY <1>0, <1>2, <1>7
<1>9. SumFunctionOnSet(f, B) = f[p] + SumFunctionOnSet(f, B \ {p})
  BY <1>0, <1>2, <1>7
<1>10. A \ {y} = C /\ B \ {p} = C
  OBVIOUS
<1>11. f[p] \in Int /\ f[y] \in Int /\ SumFunctionOnSet(f, C) \in Int
  BY <1>4, <1>7, FS_Subset, SumIsInt
<1> DEFINE n == SumFunctionOnSet(f, C)
<1>12. SumFunctionOnSet(f, V) = f[p] + (f[y] + n) /\ SumFunctionOnSet(f, B) = f[p] + n
  BY <1>5, <1>8, <1>9, <1>10
<1> HIDE DEF n, A, B, C
<1>13. SumFunctionOnSet(f, V) = f[y] + SumFunctionOnSet(f, B)
  BY <1>11, <1>12 DEF n
<1>14. QED
  BY <1>3, <1>13 DEF B

(* A sum of natural numbers is a natural number. *)
LEMMA SumIsNat ==
  ASSUME NEW f, NEW S, IsFiniteSet(S), \A x \in S : f[x] \in Nat
  PROVE  SumFunctionOnSet(f, S) \in Nat
<1> DEFINE D == {V \in SUBSET S : SumFunctionOnSet(f, V) \notin Nat}
<1>0. /\ D \in SUBSET (SUBSET S)
      /\ \A W : W \in D <=> W \in SUBSET S /\ SumFunctionOnSet(f, W) \notin Nat
  OBVIOUS
<1>1. SUFFICES ASSUME D # {} PROVE FALSE
  BY <1>1
<1> HIDE DEF D
<1>2. PICK V \in D : /\ IsFiniteSet(V)
                     /\ \A W \in SUBSET V : W # V => W \notin D
  BY <1>0, <1>1, SmallestSubset
<1>3. V # {}
  <2>1. SumFunctionOnSet(f, V) \notin Nat
    BY <1>0, <1>2
  <2>2. SumFunctionOnSet(f, {}) \in Nat
    BY SumOfNone
  <2>3. QED
    BY <2>1, <2>2
<1>4. Pick(V) \in V
  BY <1>3, PickIs
<1>5. SumFunctionOnSet(f, V \ {Pick(V)}) \in Nat
  BY <1>0, <1>2, <1>4
<1>6. SumFunctionOnSet(f, V) = f[Pick(V)] + SumFunctionOnSet(f, V \ {Pick(V)})
  BY <1>2, <1>3, SumOfPick
<1>7. QED
  BY <1>0, <1>2, <1>4, <1>5, <1>6

(* Functions that agree on a set have the same sum over it. *)
LEMMA SumSame ==
  ASSUME NEW f, NEW g, NEW S, IsFiniteSet(S), \A x \in S : f[x] = g[x]
  PROVE  SumFunctionOnSet(f, S) = SumFunctionOnSet(g, S)
<1> DEFINE D == {V \in SUBSET S : SumFunctionOnSet(f, V) # SumFunctionOnSet(g, V)}
<1>0. /\ D \in SUBSET (SUBSET S)
      /\ \A W : W \in D <=> W \in SUBSET S /\ SumFunctionOnSet(f, W) # SumFunctionOnSet(g, W)
  OBVIOUS
<1>1. SUFFICES ASSUME D # {} PROVE FALSE
  BY <1>1
<1> HIDE DEF D
<1>2. PICK V \in D : /\ IsFiniteSet(V)
                     /\ \A W \in SUBSET V : W # V => W \notin D
  BY <1>0, <1>1, SmallestSubset
<1>3. V # {}
  <2>1. SumFunctionOnSet(f, V) # SumFunctionOnSet(g, V)
    BY <1>0, <1>2
  <2>2. SumFunctionOnSet(f, {}) = 0 /\ SumFunctionOnSet(g, {}) = 0
    BY SumOfNone
  <2>3. QED
    BY <2>1, <2>2
<1>4. Pick(V) \in V
  BY <1>3, PickIs
<1>5. SumFunctionOnSet(f, V \ {Pick(V)}) = SumFunctionOnSet(g, V \ {Pick(V)})
  BY <1>0, <1>2, <1>4
<1>6. f[Pick(V)] = g[Pick(V)]
  BY <1>0, <1>2, <1>4
<1>7. QED
  BY <1>0, <1>2, <1>3, <1>5, <1>6, SumOfPick

(* The sum over two disjoint sets is the sum of their sums. *)
LEMMA SumOfUnion ==
  ASSUME NEW f, NEW A, NEW B, IsFiniteSet(A), IsFiniteSet(B), A \cap B = {},
         \A x \in A \cup B : f[x] \in Int
  PROVE  SumFunctionOnSet(f, A \cup B) = SumFunctionOnSet(f, A) + SumFunctionOnSet(f, B)
<1> DEFINE s(V) == SumFunctionOnSet(f, V)
           D == {V \in SUBSET B : s(A \cup V) # s(A) + s(V)}
<1>0. D \in SUBSET (SUBSET B) /\ \A W : W \in D <=> W \in SUBSET B /\ s(A \cup W) # s(A) + s(W)
  OBVIOUS
<1>1. SUFFICES ASSUME D # {} PROVE FALSE
  BY <1>1
<1> HIDE DEF D
<1>2. PICK V \in D : /\ IsFiniteSet(V)
                     /\ \A W \in SUBSET V : W # V => W \notin D
  BY <1>0, <1>1, SmallestSubset
<1> DEFINE p == Pick(V)
           W == V \ {p}
<1>3. V # {}
  <2>1. s(A \cup V) # s(A) + s(V)
    BY <1>0, <1>2
  <2>2. SUFFICES ASSUME V = {} PROVE FALSE
    OBVIOUS
  <2>3. A \cup V = A /\ s(V) = 0
    BY <2>2, SumOfNone
  <2>4. s(A) \in Int
    BY SumIsInt
  <2> HIDE DEF s
  <2>5. s(A \cup V) = s(A)
    BY <2>3
  <2>6. QED
    BY <2>1, <2>3, <2>4, <2>5
<1>4. p \in V /\ V \subseteq B /\ f[p] \in Int
  BY <1>0, <1>2, <1>3, PickIs
<1> HIDE DEF p
<1>5. s(V) = f[p] + s(W)
  BY <1>0, <1>2, <1>4, SumTakes
<1>6. /\ (A \cup V) \ {p} = A \cup W /\ W \subseteq V /\ W # V
      /\ IsFiniteSet(A \cup V) /\ IsFiniteSet(W)
  BY <1>2, <1>4, FS_Union, FS_Subset
<1>7. s(A \cup V) = f[p] + s((A \cup V) \ {p})
  <2>1. p \in A \cup V /\ \A x \in A \cup V : f[x] \in Int
    BY <1>4
  <2>2. QED
    BY <2>1, <1>6, SumTakes
<1>8. s(A \cup W) = s(A) + s(W)
  BY <1>0, <1>2, <1>4, <1>6
<1>9. s(A) \in Int /\ s(W) \in Int
  <2>1. (\A x \in A : f[x] \in Int) /\ \A x \in W : f[x] \in Int
    BY <1>4, <1>6
  <2>2. QED
    BY <1>6, <2>1, SumIsInt
<1> HIDE DEF s, W
<1>10. s(A \cup V) = f[p] + s(A \cup W)
  BY <1>6, <1>7
<1> DEFINE m == s(A)
           n == s(W)
<1>11. s(A \cup V) = f[p] + (m + n) /\ s(V) = f[p] + n /\ m \in Int /\ n \in Int
  BY <1>5, <1>8, <1>9, <1>10
<1> HIDE DEF n
<1>12. s(A \cup V) # m + s(V)
  BY <1>0, <1>2
<1> HIDE DEF m
<1>13. QED
  BY <1>4, <1>11, <1>12

(* A part adds up to no more than the whole. *)
LEMMA SumOfSubset ==
  ASSUME NEW f, NEW S, IsFiniteSet(S), \A x \in S : f[x] \in Nat, NEW T \in SUBSET S
  PROVE  SumFunctionOnSet(f, T) <= SumFunctionOnSet(f, S)
<1> DEFINE U == S \ T
<1>1. T \cup U = S /\ T \cap U = {} /\ IsFiniteSet(T) /\ IsFiniteSet(U)
  BY FS_Subset
<1>2. \A x \in T \cup U : f[x] \in Int
  BY <1>1
<1>3. (\A x \in T : f[x] \in Nat) /\ \A x \in U : f[x] \in Nat
  OBVIOUS
<1> HIDE DEF U
<1>4. SumFunctionOnSet(f, T \cup U) = SumFunctionOnSet(f, T) + SumFunctionOnSet(f, U)
  BY <1>1, <1>2, SumOfUnion
<1>5. SumFunctionOnSet(f, T) \in Nat /\ SumFunctionOnSet(f, U) \in Nat
  BY <1>1, <1>3, SumIsNat
<1> DEFINE m == SumFunctionOnSet(f, T)
           n == SumFunctionOnSet(f, U)
<1>6. SumFunctionOnSet(f, S) = m + n /\ m \in Nat /\ n \in Nat
  BY <1>1, <1>4, <1>5
<1>7. m <= SumFunctionOnSet(f, S)
  <2> HIDE DEF m, n
  <2>1. QED
    BY <1>6
<1>8. QED
  BY <1>7

(* Ones add up to the number of elements. *)
LEMMA SumOfOnes ==
  ASSUME NEW f, NEW S, IsFiniteSet(S), \A x \in S : f[x] = 1
  PROVE  SumFunctionOnSet(f, S) = Cardinality(S)
<1> DEFINE D == {V \in SUBSET S : SumFunctionOnSet(f, V) # Cardinality(V)}
<1>0. /\ D \in SUBSET (SUBSET S)
      /\ \A W : W \in D <=> W \in SUBSET S /\ SumFunctionOnSet(f, W) # Cardinality(W)
  OBVIOUS
<1>1. SUFFICES ASSUME D # {} PROVE FALSE
  BY <1>1
<1> HIDE DEF D
<1>2. PICK V \in D : /\ IsFiniteSet(V)
                     /\ \A W \in SUBSET V : W # V => W \notin D
  BY <1>0, <1>1, SmallestSubset
<1>3. V # {}
  <2>1. SumFunctionOnSet(f, V) # Cardinality(V)
    BY <1>0, <1>2
  <2>2. SumFunctionOnSet(f, {}) = 0 /\ Cardinality({}) = 0
    BY SumOfNone, FS_EmptySet
  <2>3. QED
    BY <2>1, <2>2
<1>4. Pick(V) \in V
  BY <1>3, PickIs
<1>5. SumFunctionOnSet(f, V \ {Pick(V)}) = Cardinality(V \ {Pick(V)})
  BY <1>0, <1>2, <1>4
<1>6. f[Pick(V)] = 1
  BY <1>0, <1>2, <1>4
<1>7. Cardinality(V \ {Pick(V)}) = Cardinality(V) - 1 /\ Cardinality(V) \in Nat
  BY <1>2, <1>4, FS_RemoveElement, FS_CardinalityType
<1>8. QED
  BY <1>0, <1>2, <1>3, <1>5, <1>6, <1>7, SumOfPick

(* The values that a function takes on a finite set are finitely many. *)
LEMMA ImageIsFinite ==
  ASSUME NEW S, IsFiniteSet(S), NEW f
  PROVE  IsFiniteSet({f[x] : x \in S})
<1> DEFINE I == {f[x] : x \in S}
           g == [x \in S |-> f[x]]
<1>1. g \in Surjection(S, I)
  BY DEF Surjection
<1>2. QED
  BY <1>1, FS_Surjection

(* A finite set whose elements have keys in a finite set, and functions that  *)
(* give the sum, or the number, of the elements of each key.                  *)
Of(S, key, i) == {x \in S : key[x] = i}
Groups(S, key, I) == IsFiniteSet(S) /\ IsFiniteSet(I) /\ \A x \in S : key[x] \in I
SumsOf(F, f, S, key, I) == \A i \in I : F[i] = SumFunctionOnSet(f, Of(S, key, i))
CountsOf(F, S, key, I)  == \A i \in I : F[i] = Cardinality(Of(S, key, i))

(* Rows grouped by a key: the sums of the groups add up to the sum of the rows. *)
LEMMA SumOfGroups ==
  ASSUME NEW S, NEW key, NEW I, Groups(S, key, I),
         NEW f, \A x \in S : f[x] \in Int, NEW F, SumsOf(F, f, S, key, I)
  PROVE  SumFunctionOnSet(F, I) = SumFunctionOnSet(f, S)
<1> DEFINE of(J) == {x \in S : key[x] \in J}
           D == {J \in SUBSET I : SumFunctionOnSet(F, J) # SumFunctionOnSet(f, of(J))}
<1>0. /\ D \in SUBSET (SUBSET I)
      /\ \A J : J \in D <=> J \in SUBSET I /\ SumFunctionOnSet(F, J) # SumFunctionOnSet(f, of(J))
  OBVIOUS
<1>1. IsFiniteSet(S) /\ IsFiniteSet(I) /\ of(I) = S
  BY DEF Groups
<1>2. SUFFICES ASSUME D # {} PROVE FALSE
  BY <1>1, <1>2
<1> HIDE DEF D
<1>3. PICK J \in D : /\ IsFiniteSet(J)
                     /\ \A W \in SUBSET J : W # J => W \notin D
  BY <1>0, <1>1, <1>2, SmallestSubset
<1>4. J # {}
  <2>1. SumFunctionOnSet(F, J) # SumFunctionOnSet(f, of(J))
    BY <1>0, <1>3
  <2>2. SUFFICES ASSUME J = {} PROVE FALSE
    OBVIOUS
  <2>3. of(J) = {}
    BY <2>2
  <2> HIDE DEF of
  <2>4. QED
    BY <2>1, <2>2, <2>3, SumOfNone
<1> DEFINE p == Pick(J)
           K == J \ {p}
           A == of(K)
           B == Of(S, key, p)
<1>5. p \in J /\ p \in I /\ K \subseteq J /\ K # J /\ K \subseteq I
  BY <1>0, <1>3, <1>4, PickIs
<1>6. SumFunctionOnSet(F, J) = F[p] + SumFunctionOnSet(F, K)
  BY <1>3, <1>4, SumOfPick
<1> HIDE DEF p
<1>7. SumFunctionOnSet(F, K) = SumFunctionOnSet(f, A)
  BY <1>0, <1>3, <1>5
<1>8. F[p] = SumFunctionOnSet(f, B)
  BY <1>5 DEF SumsOf
<1>9. A \cup B = of(J) /\ A \cap B = {} /\ A \subseteq S /\ B \subseteq S
  BY <1>5 DEF Of
<1>10. IsFiniteSet(A) /\ IsFiniteSet(B)
  BY <1>1, <1>9, FS_Subset
<1> HIDE DEF A, B, K, of
<1>11. /\ \A x \in A : f[x] \in Int
       /\ \A x \in B : f[x] \in Int
       /\ \A x \in A \cup B : f[x] \in Int
  BY <1>9
<1>12. SumFunctionOnSet(f, A \cup B) = SumFunctionOnSet(f, A) + SumFunctionOnSet(f, B)
  BY <1>9, <1>10, <1>11, SumOfUnion
<1>13. SumFunctionOnSet(f, A) \in Int /\ SumFunctionOnSet(f, B) \in Int
  BY <1>10, <1>11, SumIsInt
<1>14. SumFunctionOnSet(F, J) # SumFunctionOnSet(f, A \cup B)
  BY <1>0, <1>3, <1>9
<1>15. QED
  BY <1>6, <1>7, <1>8, <1>12, <1>13, <1>14

(* The same for numbers of rows. *)
LEMMA CountOfGroups ==
  ASSUME NEW S, NEW key, NEW I, Groups(S, key, I), NEW F, CountsOf(F, S, key, I)
  PROVE  SumFunctionOnSet(F, I) = Cardinality(S)
<1> DEFINE f == [x \in S |-> 1]
<1>1. \A x \in S : f[x] = 1
  OBVIOUS
<1> HIDE DEF f
<1>2. ASSUME NEW i \in I PROVE F[i] = SumFunctionOnSet(f, Of(S, key, i))
  <2> DEFINE B == Of(S, key, i)
  <2>1. IsFiniteSet(B) /\ \A x \in B : f[x] = 1
    BY <1>1, FS_Subset DEF Of, Groups
  <2>2. F[i] = Cardinality(B)
    BY DEF CountsOf
  <2> HIDE DEF B
  <2>3. SumFunctionOnSet(f, B) = Cardinality(B)
    BY <2>1, SumOfOnes
  <2>4. QED
    BY <2>2, <2>3 DEF B
<1>3. SumFunctionOnSet(f, S) = Cardinality(S)
  BY <1>1, SumOfOnes DEF Groups
<1>4. \A x \in S : f[x] \in Int
  BY <1>1
<1>5. QED
  <2>1. SumsOf(F, f, S, key, I)
    BY <1>2 DEF SumsOf
  <2>2. SumFunctionOnSet(F, I) = SumFunctionOnSet(f, S)
    BY <1>4, <2>1, SumOfGroups
  <2>3. QED
    BY <1>3, <2>2

-----------------------------------------------------------------------------
(* The tables *)

(* Rows of one table: finitely many, each with an id of its own. *)
Keyed(S, last) ==
    /\ IsFiniteSet(S)
    /\ \A x \in S : x.id \in Nat /\ x.id <= last
    /\ \A x, y \in S : x.id = y.id => x = y

Unique(rows) == \A x, y \in rows : x.ip = y.ip /\ x.source = y.source => x = y

Fits(T) ==
    /\ T = [rows |-> T.rows, white |-> T.white, runs |-> T.runs, up |-> T.up]
    /\ T.rows \subseteq Row /\ T.white \subseteq Exempt /\ T.runs \subseteq Run
    /\ T.up \in BOOLEAN

TablesInv ==
    /\ serial \in Nat /\ writes \in Nat
    /\ Fits(db) /\ Unique(db.rows)
    /\ Keyed(db.rows, serial) /\ Keyed(db.white, serial) /\ Keyed(db.runs, serial)

LEMMA TablesInit == InitTables => TablesInv
<1> SUFFICES ASSUME InitTables PROVE TablesInv
  OBVIOUS
<1>1. /\ db \in Tables /\ serial = LastId /\ writes = 0 /\ LastId \in Nat
  BY PayloadsAssumption DEF InitTables
<1>2. Fits(db) /\ Unique(db.rows)
  BY <1>1, TablesAssumption DEF Fits, Unique
<1>3. \A r \in Row \cup Exempt \cup Run : r.id \in Nat
  BY DEF Row, Exempt, Run
<1>4. Keyed(db.rows, serial) /\ Keyed(db.white, serial) /\ Keyed(db.runs, serial)
  BY <1>1, <1>2, <1>3, TablesAssumption DEF Fits, Keyed
<1>5. QED
  BY <1>1, <1>2, <1>4 DEF TablesInv

(* What becomes of a table when a row is entered, dropped or changed. *)
LEMMA KeyedLater ==
  ASSUME NEW S, NEW n \in Nat, Keyed(S, n)
  PROVE  Keyed(S, n + 1)
  BY DEF Keyed

LEMMA KeyedSubset ==
  ASSUME NEW S, NEW n, Keyed(S, n), NEW T \in SUBSET S
  PROVE  Keyed(T, n)
  BY FS_Subset DEF Keyed

LEMMA KeyedInsert ==
  ASSUME NEW S, NEW n \in Nat, Keyed(S, n), NEW new, new.id = n + 1
  PROVE  Keyed(S \cup {new}, n + 1)
<1>1. IsFiniteSet(S \cup {new})
  BY FS_AddElement DEF Keyed
<1>2. ASSUME NEW x \in S \cup {new} PROVE x.id \in Nat /\ x.id <= n + 1
  BY DEF Keyed
<1>3. ASSUME NEW x \in S \cup {new}, NEW y \in S \cup {new}, x.id = y.id PROVE x = y
  BY <1>3 DEF Keyed
<1>4. QED
  BY <1>1, <1>2, <1>3 DEF Keyed

LEMMA KeyedReplace ==
  ASSUME NEW S, NEW n \in Nat, Keyed(S, n), NEW r \in S, NEW q, q.id = r.id
  PROVE  Keyed((S \ {r}) \cup {q}, n)
<1>1. IsFiniteSet((S \ {r}) \cup {q})
  BY FS_AddElement, FS_RemoveElement DEF Keyed
<1>2. ASSUME NEW x \in (S \ {r}) \cup {q} PROVE x.id \in Nat /\ x.id <= n
  BY DEF Keyed
<1>3. ASSUME NEW x \in (S \ {r}) \cup {q}, NEW y \in (S \ {r}) \cup {q}, x.id = y.id PROVE x = y
  BY <1>3 DEF Keyed
<1>4. QED
  BY <1>1, <1>2, <1>3 DEF Keyed

LEMMA PutKeeps ==
  ASSUME TablesInv, NEW rows \in SUBSET Row, NEW white \in SUBSET Exempt, NEW runs \in SUBSET Run,
         Put(rows, white, runs), serial' \in Nat, Unique(rows),
         Keyed(rows, serial'), Keyed(white, serial'), Keyed(runs, serial')
  PROVE  TablesInv'
<1>1. db' = [db EXCEPT !.rows = rows, !.white = white, !.runs = runs] /\ writes' = writes + 1
  BY DEF Put
<1>2. db = [rows |-> db.rows, white |-> db.white, runs |-> db.runs, up |-> db.up] /\ db.up \in BOOLEAN
  BY DEF TablesInv, Fits
<1>3. /\ db' = [rows |-> db'.rows, white |-> db'.white, runs |-> db'.runs, up |-> db'.up]
      /\ db'.rows = rows /\ db'.white = white /\ db'.runs = runs /\ db'.up \in BOOLEAN
  BY <1>1, <1>2
<1>4. Fits(db)'
  BY <1>3 DEF Fits
<1>5. QED
  BY <1>1, <1>3, <1>4 DEF TablesInv

LEMMA CreateKeeps ==
  ASSUME TablesInv, NEW ip \in Ips, NEW p \in Payloads, CreateBlacklist(ip, p)
  PROVE  TablesInv'
<1> DEFINE old == {r \in db.rows : r.ip = ip /\ r.source = p.source}
           new == [id |-> serial + 1, ip |-> ip, source |-> p.source, data |-> p.data,
                   active |-> p.active, confidence |-> p.confidence, country |-> p.country,
                   detected |-> p.detected, removal |-> p.removal, seen |-> Today,
                   created |-> Today, updated |-> Today, count |-> 1, raw |-> "empty"]
           merged(r) == [new EXCEPT !.id = r.id, !.created = r.created, !.count = r.count + 1,
                                    !.country = IF p.country = None THEN r.country ELSE @,
                                    !.raw = r.raw]
           rows == (db.rows \ old) \cup (IF old = {} THEN {new} ELSE {merged(r) : r \in old})
<1>1. Put(rows, db.white, db.runs) /\ serial' = serial + 1
  BY DEF CreateBlacklist
<1>2. /\ serial \in Nat /\ serial' \in Nat /\ db.rows \subseteq Row
      /\ db.white \subseteq Exempt /\ db.runs \subseteq Run
  <2>1. serial' = serial + 1
    BY <1>1
  <2> HIDE DEF rows
  <2>2. QED
    BY <2>1 DEF TablesInv, Fits
<1>3. Keyed(db.rows, serial') /\ Keyed(db.white, serial') /\ Keyed(db.runs, serial')
  BY <1>1, KeyedLater DEF TablesInv
<1>4. /\ p.source \in {"REGTECH", "MANUAL"} /\ p.data \in {"REGTECH", "MANUAL", None}
      /\ p.active \in BOOLEAN /\ p.confidence \in 0 .. 100 /\ p.country \in Countries
      /\ p.detected \in Dates /\ p.removal \in Dates
  BY PayloadsAssumption DEF Payload
<1>5. serial + 1 \in Nat /\ Today \in Days /\ 1 \in Nat
  BY <1>2, TodayAssumption DEF Days
<1>6. new \in Row
  BY <1>4, <1>5 DEF Row
<1>7. CASE old = {}
  <2>1. rows = db.rows \cup {new}
    BY <1>7
  <2>2. new.id = serial + 1 /\ new.ip = ip /\ new.source = p.source
    OBVIOUS
  <2> HIDE DEF new, rows
  <2>3. Keyed(rows, serial')
    BY <1>1, <1>2, <2>1, <2>2, KeyedInsert DEF TablesInv
  <2>4. \A r \in db.rows : ~(r.ip = ip /\ r.source = p.source)
    BY <1>7
  <2> HIDE DEF old
  <2>5. Unique(rows)
    BY <2>1, <2>2, <2>4 DEF Unique, TablesInv
  <2>6. rows \in SUBSET Row
    BY <1>2, <1>6, <2>1
  <2>7. QED
    BY <1>1, <1>2, <1>3, <2>3, <2>5, <2>6, PutKeeps
<1>8. CASE old # {}
  <2>1. PICK r \in old : TRUE
    BY <1>8
  <2>2. r \in db.rows /\ r.ip = ip /\ r.source = p.source /\ old = {r}
    BY <2>1 DEF TablesInv, Unique
  <2> DEFINE q == merged(r)
  <2>3. rows = (db.rows \ {r}) \cup {q}
    <3> HIDE DEF old, merged
    <3>1. {merged(x) : x \in old} = {q}
      BY <2>2
    <3>2. QED
      BY <1>8, <2>2, <3>1
  <2>4. q.id = r.id /\ q.ip = ip /\ q.source = p.source
    OBVIOUS
  <2>5. q \in Row
    <3>1. r.id \in Nat /\ r.created \in Days /\ r.count + 1 \in Nat /\ r.country \in Countries
          /\ r.raw \in {None, "empty", "cells", "api", "flat"}
      BY <1>2, <2>2 DEF Row
    <3> HIDE DEF new
    <3>2. QED
      BY <1>4, <1>6, <3>1 DEF Row
  <2> HIDE DEF q, new, rows
  <2>6. Keyed(rows, serial')
    BY <1>2, <1>3, <2>2, <2>3, <2>4, KeyedReplace
  <2>7. Unique(rows)
    BY <2>2, <2>3, <2>4 DEF Unique, TablesInv
  <2>8. rows \in SUBSET Row
    BY <1>2, <2>3, <2>5
  <2>9. QED
    BY <1>1, <1>2, <1>3, <2>6, <2>7, <2>8, PutKeeps
<1>9. QED
  BY <1>7, <1>8

LEMMA ExpireKeeps ==
  ASSUME TablesInv, NEW ip \in Ips, ManuallyExpireIp(ip)
  PROVE  TablesInv'
<1>1. PICK r \in db.rows :
         /\ Put((db.rows \ {r}) \cup {[r EXCEPT !.active = FALSE, !.removal = Today, !.updated = Today]},
                db.white, db.runs)
         /\ serial' = serial
  BY DEF ManuallyExpireIp
<1> DEFINE q == [r EXCEPT !.active = FALSE, !.removal = Today, !.updated = Today]
<1>2. r \in Row /\ Today \in Days /\ Today \in Dates
  BY TodayAssumption DEF TablesInv, Fits, Days, Dates
<1>3. q \in Row /\ q.id = r.id /\ q.ip = r.ip /\ q.source = r.source
  BY <1>2 DEF Row
<1>4. Put((db.rows \ {r}) \cup {q}, db.white, db.runs)
  BY <1>1
<1> HIDE DEF q
<1> DEFINE rows == (db.rows \ {r}) \cup {q}
<1>5. /\ serial' \in Nat /\ rows \in SUBSET Row /\ db.white \in SUBSET Exempt /\ db.runs \in SUBSET Run
      /\ Keyed(db.white, serial') /\ Keyed(db.runs, serial')
  BY <1>1, <1>3 DEF TablesInv, Fits
<1>6. Keyed(rows, serial')
  BY <1>1, <1>3, KeyedReplace DEF TablesInv
<1>7. Unique(rows)
  BY <1>3 DEF TablesInv, Unique
<1>8. QED
  BY <1>4, <1>5, <1>6, <1>7, PutKeeps

LEMMA WhitelistKeeps ==
  ASSUME TablesInv, (\E ip \in Ips : CreateWhitelist(ip)) \/ UpdateWhitelist \/ DeleteWhitelist
  PROVE  TablesInv'
<1>1. /\ serial \in Nat /\ db.rows \in SUBSET Row /\ db.white \in SUBSET Exempt /\ db.runs \in SUBSET Run
      /\ Unique(db.rows) /\ Keyed(db.rows, serial) /\ Keyed(db.white, serial) /\ Keyed(db.runs, serial)
  BY DEF TablesInv, Fits
<1>2. ASSUME NEW white \in SUBSET Exempt, Put(db.rows, white, db.runs), serial' \in {serial, serial + 1},
             Keyed(white, serial')
      PROVE  TablesInv'
  <2>1. serial' \in Nat /\ Keyed(db.rows, serial') /\ Keyed(db.runs, serial')
    BY <1>1, <1>2, KeyedLater
  <2>2. QED
    BY <1>1, <1>2, <2>1, PutKeeps
<1>3. ASSUME NEW ip \in Ips, CreateWhitelist(ip) PROVE TablesInv'
  <2> DEFINE old == {w \in db.white : w.ip = ip}
             new == [id |-> serial + 1, ip |-> ip, active |-> TRUE, source |-> "MANUAL", created |-> Today]
             white == IF old = {} THEN db.white \cup {new} ELSE db.white
  <2>1. Put(db.rows, white, db.runs) /\ serial' = serial + 1
    BY <1>3 DEF CreateWhitelist
  <2>2. new \in Exempt /\ new.id = serial + 1
    BY <1>1, TodayAssumption DEF Exempt, Days
  <2> HIDE DEF new, old
  <2>3. white \in SUBSET Exempt
    BY <1>1, <2>2
  <2>4. Keyed(white, serial')
    BY <1>1, <2>1, <2>2, KeyedInsert, KeyedLater
  <2>5. QED
    BY <1>2, <2>1, <2>3, <2>4
<1>4. CASE UpdateWhitelist
  BY <1>1, <1>2, <1>4 DEF UpdateWhitelist
<1>5. CASE DeleteWhitelist
  <2>1. PICK w : Put(db.rows, db.white \ {w}, db.runs) /\ serial' = serial
    BY <1>5 DEF DeleteWhitelist
  <2>2. Keyed(db.white \ {w}, serial') /\ db.white \ {w} \in SUBSET Exempt
    BY <1>1, <2>1, KeyedSubset
  <2>3. QED
    BY <1>2, <2>1, <2>2
<1>6. QED
  BY <1>3, <1>4, <1>5

LEMMA HistoryKeeps ==
  ASSUME TablesInv, (\E success \in BOOLEAN : RecordCollectionHistory("REGTECH", 1, success)) \/ CleanupOldHistory
  PROVE  TablesInv'
<1>1. /\ serial \in Nat /\ db.rows \in SUBSET Row /\ db.white \in SUBSET Exempt /\ db.runs \in SUBSET Run
      /\ Unique(db.rows) /\ Keyed(db.rows, serial) /\ Keyed(db.white, serial) /\ Keyed(db.runs, serial)
  BY DEF TablesInv, Fits
<1>2. ASSUME NEW runs \in SUBSET Run, Put(db.rows, db.white, runs), serial' \in {serial, serial + 1},
             Keyed(runs, serial')
      PROVE  TablesInv'
  <2>1. serial' \in Nat /\ Keyed(db.rows, serial') /\ Keyed(db.white, serial')
    BY <1>1, <1>2, KeyedLater
  <2>2. QED
    BY <1>1, <1>2, <2>1, PutKeeps
<1>3. ASSUME NEW success \in BOOLEAN, RecordCollectionHistory("REGTECH", 1, success) PROVE TablesInv'
  <2> DEFINE new == [id |-> serial + 1, service |-> "REGTECH", date |-> Today, items |-> 1, success |-> success]
  <2>1. Put(db.rows, db.white, db.runs \cup {new}) /\ serial' = serial + 1
    BY <1>3 DEF RecordCollectionHistory
  <2>2. new \in Run /\ new.id = serial + 1
    BY <1>1, TodayAssumption DEF Run, Days
  <2> HIDE DEF new
  <2>3. Keyed(db.runs \cup {new}, serial')
    BY <1>1, <2>1, <2>2, KeyedInsert
  <2>4. QED
    BY <1>1, <1>2, <2>1, <2>2, <2>3
<1>4. CASE CleanupOldHistory
  <2> DEFINE runs == {r \in db.runs : r.date >= Today - Retention}
  <2>1. Put(db.rows, db.white, runs) /\ serial' = serial
    BY <1>4 DEF CleanupOldHistory
  <2>2. Keyed(runs, serial') /\ runs \in SUBSET Run
    BY <1>1, <2>1, KeyedSubset
  <2>3. QED
    BY <1>2, <2>1, <2>2
<1>5. QED
  BY <1>3, <1>4

LEMMA OutageKeeps ==
  ASSUME TablesInv, Outage
  PROVE  TablesInv'
<1>1. db' = [db EXCEPT !.up = ~@] /\ writes' = writes + 1 /\ serial' = serial
  BY DEF Outage
<1>2. db = [rows |-> db.rows, white |-> db.white, runs |-> db.runs, up |-> db.up] /\ db.up \in BOOLEAN
  BY DEF TablesInv, Fits
<1>3. /\ db' = [rows |-> db'.rows, white |-> db'.white, runs |-> db'.runs, up |-> db'.up]
      /\ db'.rows = db.rows /\ db'.white = db.white /\ db'.runs = db.runs
  BY <1>1, <1>2
<1>4. db'.up \in BOOLEAN
  BY <1>1, <1>2
<1>5. QED
  BY <1>1, <1>3, <1>4 DEF TablesInv, Fits

LEMMA TablesStep == TablesInv /\ [SystemNext]_<<tables, walk, registration>> => TablesInv'
<1> SUFFICES ASSUME TablesInv, [SystemNext]_<<tables, walk, registration>> PROVE TablesInv'
  OBVIOUS
<1>1. CASE Write
  BY <1>1, CreateKeeps, ExpireKeeps, WhitelistKeeps, HistoryKeeps, OutageKeeps DEF Write
<1>2. CASE UNCHANGED tables
  BY <1>2 DEF tables, TablesInv
<1>3. QED
  BY <1>1, <1>2 DEF SystemNext, StartWalk, FirstStatement, SecondStatement, RequestFails, EndWalk

-----------------------------------------------------------------------------
(* Feeds *)

LEMMA AnsweredAtRest ==
  /\ Answered(<<db>>) <=> db.up
  /\ Answered(Rest(2)) <=> db.up
  /\ Rest(2)[1] = db /\ Rest(2)[2] = db
  BY DEF Answered, Rest

(* Every feed of one state has the enforced rows, and an error has none. *)
LEMMA FeedRows ==
  ASSUME TablesInv, NEW level \in {"high", "medium", "low", None}
  PROVE  LET E == IF db.up THEN Enforced(db) ELSE {}
         IN  /\ GetThreatFeed(db).rows = E
             /\ GetBlocklist(db).rows = E
             /\ ActiveIpsAnswer(Rest(2)).rows = E
             /\ FetchActiveIps(db).rows = E
             /\ GetJsonConnector(Rest(2), level, None).rows = {r \in E : Selected(level, r.confidence)}
<1> DEFINE E == IF db.up THEN Enforced(db) ELSE {}
<1>1. ASSUME NEW S, NEW status, NEW rows, NEW total, Answered(S) <=> db.up
      PROVE  Feed(S, status, rows, total).rows = IF db.up THEN rows ELSE {}
  BY <1>1 DEF Feed, Error
<1>2. GetThreatFeed(db).rows = E /\ GetBlocklist(db).rows = E /\ FetchActiveIps(db).rows = E
  BY <1>1, AnsweredAtRest DEF GetThreatFeed, GetBlocklist, FetchActiveIps
<1>3. GetActiveIps(db).of = Enforced(db)
  BY DEF GetActiveIps, List
<1>4. ActiveIpsAnswer(Rest(2)).rows = E
  BY <1>1, <1>3, AnsweredAtRest DEF ActiveIpsAnswer
<1>5. GetJsonConnector(Rest(2), level, None).rows = {r \in E : Selected(level, r.confidence)}
  <2> DEFINE chosen(T) == {r \in Enforced(T) : /\ Selected(level, r.confidence)
                                               /\ None # None => r.country = None}
  <2>1. GetJsonConnector(Rest(2), level, None).rows = IF db.up THEN chosen(db) ELSE {}
    <3>1. GetJsonConnector(Rest(2), level, None) =
             Feed(Rest(2), 500, chosen(Rest(2)[1]), Cardinality(Enforced(Rest(2)[2])))
      BY DEF GetJsonConnector
    <3> HIDE DEF chosen
    <3>2. QED
      BY <1>1, <3>1, AnsweredAtRest
  <2>2. chosen(db) = {r \in Enforced(db) : Selected(level, r.confidence)}
    OBVIOUS
  <2>3. QED
    BY <2>1, <2>2
<1>6. QED
  BY <1>2, <1>4, <1>5

LEMMA FeedsOfOneState == TablesInv => FeedsAgree
<1> SUFFICES ASSUME TablesInv PROVE FeedsAgree
  OBVIOUS
<1> DEFINE E == IF db.up THEN Enforced(db) ELSE {}
           J(level) == GetJsonConnector(Rest(2), level, None).rows
           levels == UNION {J(l) : l \in {"high", "medium", "low"}}
<1>1. /\ GetThreatFeed(db).rows = E /\ GetBlocklist(db).rows = E
      /\ ActiveIpsAnswer(Rest(2)).rows = E /\ FetchActiveIps(db).rows = E
  BY FeedRows
<1>2. \A l \in {"high", "medium", "low", None} : J(l) = {r \in E : Selected(l, r.confidence)}
  BY FeedRows
<1>3. \A r \in E : r \in db.rows /\ r.confidence \in 0 .. 100 /\ r.ip \in Ips
  BY DEF Enforced, Active, TablesInv, Fits, Row
<1>4. \A r \in E : /\ Selected(Risk(r.confidence), r.confidence)
                   /\ Risk(r.confidence) \in {"high", "medium", "low"}
  <2>1. ASSUME NEW c \in 0 .. 100
        PROVE  Selected(Risk(c), c) /\ Risk(c) \in {"high", "medium", "low"}
    <3>1. CASE c >= 80
      BY <3>1 DEF Selected, Risk
    <3>2. CASE c < 80 /\ c >= 50
      BY <3>2 DEF Selected, Risk
    <3>3. CASE c < 50
      <4>1. Risk(c) = "low"
        BY <3>3 DEF Risk
      <4>2. Selected("low", c) <=> c < 50
        BY TodayAssumption DEF Selected
      <4>3. QED
        BY <3>3, <4>1, <4>2
    <3>4. QED
      BY <3>1, <3>2, <3>3
  <2> HIDE DEF E
  <2>2. QED
    BY <1>3, <2>1
<1>5. J(None) = E
  <2>1. \A c : Selected(None, c)
    BY TodayAssumption DEF Selected
  <2>2. QED
    BY <1>2, <2>1
<1>6. levels = E
  <2> HIDE DEF J, E
  <2>1. levels \subseteq E
    BY <1>2
  <2>2. ASSUME NEW r \in E PROVE r \in levels
    BY <1>2, <1>4
  <2>3. QED
    BY <2>1, <2>2
<1>7. \A r \in levels : r \in J(Risk(r.confidence))
  <2> HIDE DEF J, E, levels
  <2>1. QED
    BY <1>2, <1>4, <1>6
<1>8. {ip \in Ips : CheckBlacklist(db, ip)} = {r.ip : r \in E}
  <2>1. CASE ~db.up
    BY <2>1 DEF CheckBlacklist
  <2>2. CASE db.up
    <3>1. \A ip : CheckBlacklist(db, ip) <=> ip \notin Exempted(db) /\ \E r \in Active(db) : r.ip = ip
      BY <2>2 DEF CheckBlacklist
    <3>2. E = {r \in Active(db) : r.ip \notin Exempted(db)}
      BY <2>2 DEF Enforced
    <3> HIDE DEF E
    <3>3. QED
      BY <1>3, <3>1, <3>2
  <2>3. QED
    BY <2>1, <2>2
<1>9. {r.ip : r \in E} \cap {w.ip : w \in GetWhitelist(db).of} = {}
  <2>1. GetWhitelist(db).of = db.white
    BY DEF GetWhitelist, List
  <2>2. \A w \in db.white : w.active
    BY DEF TablesInv, Fits, Exempt
  <2>3. \A r \in E : r.ip \notin Exempted(db)
    BY DEF Enforced
  <2>4. Exempted(db) = {w.ip : w \in db.white}
    BY <2>2 DEF Exempted
  <2> HIDE DEF E
  <2>5. QED
    BY <2>1, <2>3, <2>4
<1> HIDE DEF E
<1>10. QED
  BY <1>1, <1>5, <1>6, <1>7, <1>8, <1>9 DEF FeedsAgree

LEMMA FailuresAreTold == FeedsFailLoudly
<1>1. ASSUME NEW S, NEW rows, NEW total, ~Answered(S)
      PROVE  Feed(S, 500, rows, total).status # 200
  BY <1>1 DEF Feed, Error
<1>2. ASSUME NEW S \in Snapshots(1), ~Answered(S)
      PROVE  GetThreatFeed(S[1]).status # 200 /\ GetBlocklist(S[1]).status # 200
  <2>1. ~Answered(<<S[1]>>)
    BY <1>2 DEF Snapshots, Answered
  <2>2. QED
    BY <1>1, <2>1 DEF GetThreatFeed, GetBlocklist
<1>3. ASSUME NEW S \in Snapshots(2), ~Answered(S)
      PROVE  ActiveIpsAnswer(S).status # 200 /\ GetJsonConnector(S, None, None).status # 200
  BY <1>1, <1>3 DEF ActiveIpsAnswer, GetJsonConnector
<1>4. QED
  BY <1>2, <1>3 DEF FeedsFailLoudly

LEMMA AlwaysTables == SystemSpec => []TablesInv
<1>1. SystemInit => TablesInv
  BY TablesInit DEF SystemInit
<1>2. QED
  BY <1>1, TablesStep, PTL DEF SystemSpec

(* In every state of the tables the feeds of the firewalls, the connector,   *)
(* Cloudflare's query and the check of one address enforce the same          *)
(* addresses, and no feed tells an outage as an empty list.                  *)
THEOREM FirewallsHearTheSame == SystemSpec => []FirewallsAreTold
<1>1. TablesInv => FirewallsAreTold
  BY FeedsOfOneState, FailuresAreTold DEF FirewallsAreTold
<1>2. QED
  BY <1>1, AlwaysTables, PTL

-----------------------------------------------------------------------------
(* Registration *)

Ordered(list) ==
    /\ list \in Seq(Row)
    /\ \A i, j \in DOMAIN list : i < j => list[i].confidence >= list[j].confidence

(* The rows are listed all, once each, and those of the highest confidence first. *)
LEMMA ListIsOrdered ==
  ASSUME TablesInv, NEW list \in Orders(RegistrationList(db))
  PROVE  Ordered(list) /\ ToSet(list) = Enforced(db)
<1> DEFINE E == Enforced(db)
           n == Cardinality(E)
           l == RegistrationList(db)
<1>1. /\ l.of = E
      /\ l.key = [r \in E |-> <<NullsFirst(r.confidence)>>]
  BY DEF RegistrationList, List
<1>2. E \subseteq Row /\ IsFiniteSet(E) /\ n \in Nat
  <2>1. E \subseteq db.rows /\ db.rows \subseteq Row /\ IsFiniteSet(db.rows)
    BY DEF Enforced, Active, TablesInv, Fits, Keyed
  <2>2. QED
    BY <2>1, FS_Subset, FS_CardinalityType
<1>3. /\ list \in [1 .. n -> E]
      /\ \A i, j \in 1 .. n : i # j => list[i] # list[j]
      /\ \A i, j \in DOMAIN list : i < j => ~Lexicographic(l.key[list[j]], l.key[list[i]])
  BY <1>1 DEF Orders, SetToSeqs
<1> HIDE DEF E, n, l
<1>4. list \in Seq(Row) /\ DOMAIN list = 1 .. n
  BY <1>2, <1>3
<1>5. \A r \in E : l.key[r] = <<r.confidence>> /\ r.confidence \in 0 .. 100
  <2>1. \A r \in Row : r.confidence \in 0 .. 100
    BY DEF Row
  <2>2. \A r \in Row : NullsFirst(r.confidence) = r.confidence
    BY <2>1, TodayAssumption DEF NullsFirst
  <2>3. QED
    BY <1>1, <1>2, <2>1, <2>2
<1>6. \A a, b \in Int : a > b => Lexicographic(<<a>>, <<b>>)
  <2>1. SUFFICES ASSUME NEW a \in Int, NEW b \in Int, a > b PROVE Lexicographic(<<a>>, <<b>>)
    OBVIOUS
  <2>2. /\ DOMAIN <<a>> = {1} /\ <<a>>[1] = a /\ <<b>>[1] = b
        /\ \A k \in 1 .. 1 - 1 : <<a>>[k] = <<b>>[k]
    OBVIOUS
  <2>3. QED
    BY <2>1, <2>2 DEF Lexicographic
<1>7. Ordered(list)
  <2>1. ASSUME NEW i \in DOMAIN list, NEW k \in DOMAIN list, i < k
        PROVE  list[i].confidence >= list[k].confidence
    <3>1. ~Lexicographic(l.key[list[k]], l.key[list[i]])
      BY <1>3, <2>1
    <3>2. list[i] \in E /\ list[k] \in E
      BY <1>3, <1>4
    <3>3. ~Lexicographic(<<list[k].confidence>>, <<list[i].confidence>>)
      BY <1>5, <3>1, <3>2
    <3>4. list[i].confidence \in Int /\ list[k].confidence \in Int
      BY <1>5, <3>2
    <3>5. QED
      BY <1>6, <3>3, <3>4
  <2>2. QED
    BY <1>4, <2>1 DEF Ordered
<1>8. list \in Surjection(1 .. n, E)
  <2>1. list \in Injection(1 .. n, E)
    BY <1>3 DEF Injection, IsInjective
  <2>2. Cardinality(1 .. n) = n
    BY <1>2, FS_Interval
  <2>3. QED
    BY <1>2, <2>1, <2>2, FS_Injection DEF n
<1>9. ToSet(list) = E
  BY <1>3, <1>4, <1>8 DEF ToSet, Surjection
<1>10. QED
  BY <1>7, <1>9 DEF E

JobFields(j) ==
    j = [f \in {"pc", "list", "posted", "stored", "registered", "failed", "answer"} |-> j[f]]

(* The addresses posted so far were registered or refused, one by one, and *)
(* none was both refused and stored.                                        *)
JobOk(j) ==
    /\ JobFields(j)
    /\ j.pc \in {"idle", "check", "create", "post", "put", "done"}
    /\ Ordered(j.list)
    /\ j.posted \in 0 .. Len(j.list) /\ j.registered \in Nat /\ j.failed \in Nat
    /\ j.stored \subseteq 1 .. j.posted
    /\ Cardinality(j.stored) + j.failed <= j.posted
    /\ j.pc = "idle" => j.list = <<>>
    /\ j.pc \in {"idle", "check", "create"} => j.posted = 0 /\ j.registered = 0 /\ j.failed = 0
    /\ j.pc = "post" => j.registered + j.failed = j.posted
    /\ j.pc = "put" => j.registered + j.failed = Len(j.list) /\ j.registered > 0

DeviceFields(d) == d = [f \in {"exists", "group", "addresses", "writer"} |-> d[f]]

(* The members of the group are those that its last writer put there. *)
WrittenBy(h, j, d) ==
    d.writer = h =>
        /\ j.pc = "done"
        /\ j.registered + j.failed = Len(j.list) /\ j.registered > 0
        /\ d.group = Members(j)

(* What the firewall has stored it keeps. *)
StoredOn(j, d) == \A k \in j.stored : j.list[k].ip \in d.addresses

(* While nobody has written, a list is what the tables say. *)
ReadNow(j) == writes = 0 /\ j.list # <<>> => db.up /\ ToSet(j.list) = Enforced(db)

RegistrationInv ==
    /\ job = [h \in Http |-> job[h]] /\ DeviceFields(device)
    /\ \A h \in Http : JobOk(job[h])
    /\ \A h \in Http : WrittenBy(h, job[h], device)
    /\ \A h \in Http : StoredOn(job[h], device)
    /\ \A h \in Http : ReadNow(job[h])
    /\ (\A h \in Http : job[h].list = <<>>) => device.addresses = {} /\ device.writer = None

LEMMA RegistrationInit == SystemInit => RegistrationInv
<1> SUFFICES ASSUME SystemInit PROVE RegistrationInv
  OBVIOUS
<1>1. job = [h \in Http |-> Idle] /\ device = [exists |-> FALSE, group |-> <<>>, addresses |-> {}, writer |-> None]
  BY DEF SystemInit, InitRegistration
<1>2. Ordered(<<>>)
  BY DEF Ordered
<1>3. JobOk(Idle) /\ Idle.list = <<>> /\ Idle.stored = {}
  <2>1. Cardinality({}) = 0 /\ Len(<<>>) = 0
    BY FS_EmptySet
  <2>2. /\ JobFields(Idle) /\ Idle.pc = "idle" /\ Idle.list = <<>> /\ Idle.posted = 0
        /\ Idle.stored = {} /\ Idle.registered = 0 /\ Idle.failed = 0
    BY DEF JobFields, Idle
  <2> HIDE DEF Idle
  <2>3. QED
    BY <1>2, <2>1, <2>2 DEF JobOk
<1>4. QED
  BY <1>1, <1>3, JobsAssumption DEF RegistrationInv, DeviceFields, WrittenBy, StoredOn, ReadNow

LEMMA AnswerOk ==
  ASSUME NEW h \in Http, JobOk(job[h]), NEW x
  PROVE  /\ JobOk(Answer(h, x)) /\ Answer(h, x).pc = "done" /\ Answer(h, x).list = job[h].list
         /\ Answer(h, x).registered = job[h].registered /\ Answer(h, x).failed = job[h].failed
         /\ Answer(h, x).stored = job[h].stored
<1> DEFINE j == job[h]
           q == [j EXCEPT !.pc = "done", !.answer = x]
<1>1. JobFields(j) /\ JobOk(j)
  BY DEF JobOk
<1>2. JobFields(q) /\ q.pc = "done" /\ q.list = j.list /\ q.posted = j.posted
      /\ q.registered = j.registered /\ q.failed = j.failed /\ q.stored = j.stored
  <2> HIDE DEF j
  <2>1. QED
    BY <1>1 DEF JobFields
<1>3. Answer(h, x) = q
  BY DEF Answer
<1> HIDE DEF q, j
<1>4. JobOk(q)
  BY <1>1, <1>2 DEF JobOk
<1>5. QED
  BY <1>2, <1>3, <1>4 DEF j

(* A request goes on and leaves the members of the group alone. *)
LEMMA JobMoves ==
  ASSUME RegistrationInv, NEW h \in Http, NEW q, job' = [job EXCEPT ![h] = q], JobOk(q),
         job[h].pc # "done", UNCHANGED tables,
         q.list = job[h].list \/ (job[h].pc = "idle" /\ ReadNow(q)),
         DeviceFields(device'), device'.group = device.group, device'.writer = device.writer,
         device'.addresses = device.addresses \/ q.list # <<>>,
         device.addresses \subseteq device'.addresses, StoredOn(q, device')
  PROVE  RegistrationInv'
<1>1. job' = [g \in Http |-> job'[g]] /\ \A g \in Http : job'[g] = IF g = h THEN q ELSE job[g]
  BY DEF RegistrationInv
<1>2. \A g \in Http : /\ JobOk(job[g]) /\ WrittenBy(g, job[g], device)
                      /\ ReadNow(job[g]) /\ StoredOn(job[g], device)
  BY DEF RegistrationInv
<1>10. \A g \in Http : StoredOn(job'[g], device')
  BY <1>1, <1>2 DEF StoredOn
<1>3. \A g \in Http : JobOk(job'[g])
  BY <1>1, <1>2
<1>4. \A g \in Http : WrittenBy(g, job'[g], device')
  <2>1. device.writer # h
    BY <1>2 DEF WrittenBy
  <2>2. QED
    BY <1>1, <1>2, <2>1 DEF WrittenBy
<1>5. UNCHANGED <<db, writes>>
  BY DEF tables
<1>6. \A g \in Http : ReadNow(job'[g])
  BY <1>1, <1>2 DEF ReadNow
<1>7. \A g \in Http : ReadNow(job[g])'
  BY <1>5, <1>6 DEF ReadNow
<1>8. (\A g \in Http : job'[g].list = <<>>) => device'.addresses = {} /\ device'.writer = None
  <2>1. SUFFICES ASSUME \A g \in Http : job'[g].list = <<>>
                 PROVE  device'.addresses = {} /\ device'.writer = None
    OBVIOUS
  <2>2. q.list = <<>> /\ \A g \in Http \ {h} : job[g].list = <<>>
    BY <1>1, <2>1
  <2>3. job[h].list = <<>>
    BY <1>2, <2>2 DEF JobOk
  <2>4. QED
    BY <2>2, <2>3 DEF RegistrationInv
<1>9. QED
  BY <1>1, <1>3, <1>4, <1>7, <1>8, <1>10 DEF RegistrationInv

LEMMA BeginKeeps ==
  ASSUME TablesInv, RegistrationInv, NEW h \in Http, NEW dry \in BOOLEAN, NEW known \in BOOLEAN,
         BeginRegister(h, dry, known), UNCHANGED tables
  PROVE  RegistrationInv'
<1> DEFINE j == job[h]
<1>1. j.pc = "idle" /\ JobOk(j) /\ device' = device
  BY DEF BeginRegister, RegistrationInv
<1>2. JobFields(j)
  BY <1>1 DEF JobOk
<1>0. DeviceFields(device')
  BY <1>1 DEF RegistrationInv
<1>8. j.list = <<>> /\ j.stored = {} /\ j.posted = 0 /\ j.registered = 0 /\ j.failed = 0
  BY <1>1 DEF JobOk
<1>3. ASSUME NEW q, job' = [job EXCEPT ![h] = q], JobOk(q), q.list = <<>> \/ ReadNow(q), q.stored = {}
      PROVE  RegistrationInv'
  <2>1. StoredOn(q, device')
    BY <1>3 DEF StoredOn
  <2>2. QED
    BY <1>0, <1>1, <1>3, <1>8, <2>1, JobMoves
<1>4. ASSUME NEW x
      PROVE  /\ JobOk(Answer(h, x)) /\ Answer(h, x).list = <<>> /\ Answer(h, x).pc = "done"
             /\ Answer(h, x).stored = {} /\ Answer(h, x).failed = 0
  <2>1. /\ JobOk(Answer(h, x)) /\ Answer(h, x).list = j.list /\ Answer(h, x).pc = "done"
        /\ Answer(h, x).stored = j.stored /\ Answer(h, x).failed = j.failed
    BY <1>1, AnswerOk
  <2>2. QED
    BY <1>8, <2>1
<1>5. CASE ~db.up
  BY <1>3, <1>4, <1>5 DEF BeginRegister
<1>6. CASE db.up
  <2>1. PICK list \in Orders(RegistrationList(db)) :
           job' = [job EXCEPT ![h] =
                      IF dry THEN [Answer(h, 200) EXCEPT !.registered = Len(list)]
                      ELSE IF ~known THEN Answer(h, 400)
                      ELSE [@ EXCEPT !.pc = "check", !.list = list]]
    BY <1>6 DEF BeginRegister
  <2>2. Ordered(list) /\ ToSet(list) = Enforced(db) /\ Len(list) \in Nat
    <3>1. Ordered(list) /\ ToSet(list) = Enforced(db)
      BY ListIsOrdered
    <3>2. QED
      BY <3>1 DEF Ordered
  <2> DEFINE a == Answer(h, 200)
             d == [a EXCEPT !.registered = Len(list)]
             c == [j EXCEPT !.pc = "check", !.list = list]
  <2>3. JobOk(d) /\ d.list = <<>> /\ d.stored = {}
    <3>1. JobOk(a) /\ a.list = <<>> /\ a.pc = "done" /\ a.stored = {}
      BY <1>4
    <3> HIDE DEF a
    <3>2. JobFields(d) /\ d.pc = "done" /\ d.list = a.list /\ d.posted = a.posted
          /\ d.registered = Len(list) /\ d.failed = a.failed /\ d.stored = a.stored
      BY <3>1 DEF JobOk, JobFields
    <3> HIDE DEF d
    <3>3. QED
      BY <2>2, <3>1, <3>2 DEF JobOk
  <2>4. JobOk(c) /\ ReadNow(c) /\ c.stored = {}
    <3>1. JobFields(c) /\ c.pc = "check" /\ c.list = list /\ c.posted = j.posted
          /\ c.registered = j.registered /\ c.failed = j.failed /\ c.stored = j.stored
      <4> HIDE DEF j
      <4>1. QED
        BY <1>2 DEF JobFields
    <3> HIDE DEF c, j
    <3>2. Cardinality(c.stored) = 0
      BY <1>8, <3>1, FS_EmptySet
    <3>3. QED
      BY <1>6, <1>8, <2>2, <3>1, <3>2 DEF JobOk, ReadNow
  <2>5. \/ job' = [job EXCEPT ![h] = d]
        \/ job' = [job EXCEPT ![h] = Answer(h, 400)]
        \/ job' = [job EXCEPT ![h] = c]
    <3>1. job' = [job EXCEPT ![h] = IF dry THEN d ELSE IF ~known THEN Answer(h, 400) ELSE c]
      BY <2>1
    <3> HIDE DEF d, c
    <3>2. QED
      BY <3>1
  <2> HIDE DEF c, d
  <2>6. QED
    BY <1>3, <1>4, <2>3, <2>4, <2>5
<1>7. QED
  BY <1>5, <1>6

(* A request that ends without the group has moved nothing it had stored. *)
LEMMA EndKeeps ==
  ASSUME RegistrationInv, NEW h \in Http, NEW x, job' = [job EXCEPT ![h] = Answer(h, x)],
         job[h].pc # "done", UNCHANGED tables,
         DeviceFields(device'), device'.group = device.group, device'.writer = device.writer,
         device'.addresses = device.addresses \/ job[h].list # <<>>,
         device.addresses \subseteq device'.addresses
  PROVE  RegistrationInv'
<1> DEFINE q == Answer(h, x)
<1>1. JobOk(job[h]) /\ StoredOn(job[h], device)
  BY DEF RegistrationInv
<1>2. JobOk(q) /\ q.list = job[h].list /\ q.stored = job[h].stored
  BY <1>1, AnswerOk
<1>3. StoredOn(q, device')
  BY <1>1, <1>2 DEF StoredOn
<1>4. job' = [job EXCEPT ![h] = q]
  OBVIOUS
<1> HIDE DEF q
<1>5. QED
  BY <1>2, <1>3, <1>4, JobMoves

(* The group is written whole, by the request that ends with it. *)
LEMMA WrittenKeeps ==
  ASSUME RegistrationInv, NEW h \in Http, NEW x, job' = [job EXCEPT ![h] = Answer(h, x)],
         job[h].pc = "put", UNCHANGED tables, device' = Effect(h, "put")
  PROVE  RegistrationInv'
<1> DEFINE j == job[h]
           q == Answer(h, x)
<1>1. /\ JobOk(j) /\ j.pc = "put" /\ DeviceFields(device) /\ StoredOn(j, device)
      /\ job' = [job EXCEPT ![h] = q]
  BY DEF RegistrationInv
<1>2. /\ JobOk(q) /\ q.pc = "done" /\ q.list = j.list /\ q.registered = j.registered
      /\ q.failed = j.failed /\ q.stored = j.stored
  BY <1>1, AnswerOk
<1>3. device' = [device EXCEPT !.group = Members(j), !.writer = h]
  BY DEF Effect
<1> HIDE DEF q, j
<1>4. /\ DeviceFields(device') /\ device'.group = Members(j) /\ device'.writer = h
      /\ device'.addresses = device.addresses
  BY <1>1, <1>3 DEF DeviceFields
<1>5. job' = [g \in Http |-> job'[g]] /\ \A g \in Http : job'[g] = IF g = h THEN q ELSE job[g]
  BY <1>1 DEF RegistrationInv
<1>6. /\ \A g \in Http : JobOk(job'[g])
      /\ \A g \in Http : ReadNow(job'[g])
      /\ \A g \in Http : StoredOn(job'[g], device')
  <2>1. \A g \in Http : JobOk(job[g]) /\ ReadNow(job[g]) /\ StoredOn(job[g], device)
    BY DEF RegistrationInv
  <2>2. ReadNow(q) /\ StoredOn(q, device')
    BY <1>1, <1>2, <1>4, <2>1 DEF ReadNow, StoredOn, j
  <2>3. \A g \in Http : StoredOn(job[g], device')
    BY <1>4, <2>1 DEF StoredOn
  <2>4. QED
    BY <1>2, <1>5, <2>1, <2>2, <2>3
<1>7. \A g \in Http : ReadNow(job[g])'
  BY <1>6 DEF ReadNow, tables
<1>8. \A g \in Http : WrittenBy(g, job'[g], device')
  <2>1. q.registered + q.failed = Len(q.list) /\ q.registered > 0
    BY <1>1, <1>2 DEF JobOk
  <2>2. Members(q) = Members(j)
    BY <1>2 DEF Members
  <2>3. QED
    BY <1>2, <1>4, <1>5, <2>1, <2>2 DEF WrittenBy
<1>9. job'[h].list # <<>>
  <2>1. j.registered + j.failed = Len(j.list) /\ j.registered > 0 /\ j.registered \in Nat /\ j.failed \in Nat
    BY <1>1 DEF JobOk
  <2>2. QED
    BY <1>2, <1>5, <2>1
<1>10. QED
  BY <1>4, <1>5, <1>6, <1>7, <1>8, <1>9 DEF RegistrationInv

(* What the calls other than the last do to the firewall. *)
LEMMA Effects ==
  ASSUME RegistrationInv, NEW h \in Http
  PROVE  /\ Effect(h, "check") = device
         /\ Effect(h, "create") = [device EXCEPT !.exists = TRUE]
         /\ Effect(h, "post") = [device EXCEPT !.addresses = @ \cup {job[h].list[job[h].posted + 1].ip}]
         /\ \A call \in {"check", "create", "post"} :
                LET d == Effect(h, call)
                IN  /\ DeviceFields(d) /\ d.group = device.group /\ d.writer = device.writer
                    /\ device.addresses \subseteq d.addresses
                    /\ call # "post" => d.addresses = device.addresses
<1> DEFINE ip == job[h].list[job[h].posted + 1].ip
<1>1. /\ Effect(h, "check") = device
      /\ Effect(h, "create") = [device EXCEPT !.exists = TRUE]
      /\ Effect(h, "post") = [device EXCEPT !.addresses = @ \cup {ip}]
  BY DEF Effect
<1>2. DeviceFields(device)
  BY DEF RegistrationInv
<1> HIDE DEF ip
<1>3. /\ DeviceFields(Effect(h, "check")) /\ DeviceFields(Effect(h, "create"))
      /\ DeviceFields(Effect(h, "post"))
  BY <1>1, <1>2 DEF DeviceFields
<1>4. /\ Effect(h, "create").group = device.group /\ Effect(h, "create").writer = device.writer
      /\ Effect(h, "create").addresses = device.addresses
      /\ Effect(h, "post").group = device.group /\ Effect(h, "post").writer = device.writer
      /\ Effect(h, "post").addresses = device.addresses \cup {ip}
  BY <1>1, <1>2 DEF DeviceFields
<1>5. QED
  BY <1>1, <1>3, <1>4 DEF ip

LEMMA UnreachableKeeps ==
  ASSUME RegistrationInv, NEW h \in Http, Unreachable(h), UNCHANGED tables
  PROVE  RegistrationInv'
<1> DEFINE j == job[h]
<1>1. /\ j.pc \in {"check", "create", "post", "put"} /\ (j.pc = "post" => j.posted < Len(j.list))
      /\ device' = device \/ device' = Effect(h, j.pc)
      /\ job' = [job EXCEPT ![h] = Answer(h, 500)]
  BY DEF Unreachable
<1>2. DeviceFields(device) /\ JobOk(j)
  BY DEF RegistrationInv
<1>3. CASE device' = device
  <2>1. /\ DeviceFields(device') /\ device'.group = device.group /\ device'.writer = device.writer
        /\ device'.addresses = device.addresses
    BY <1>2, <1>3
  <2>2. j.pc # "done"
    BY <1>1
  <2>3. QED
    BY <1>1, <2>1, <2>2, EndKeeps
<1>4. CASE j.pc = "put" /\ device' = Effect(h, j.pc)
  BY <1>1, <1>4, WrittenKeeps
<1>5. CASE j.pc \in {"check", "create", "post"} /\ device' = Effect(h, j.pc)
  <2>1. j.pc = "post" => j.list # <<>>
    BY <1>1, <1>2 DEF JobOk
  <2>2. /\ DeviceFields(device') /\ device'.group = device.group /\ device'.writer = device.writer
        /\ device.addresses \subseteq device'.addresses
        /\ j.pc # "post" => device'.addresses = device.addresses
    <3> HIDE DEF j
    <3>1. QED
      BY <1>5, Effects
  <2>3. device'.addresses = device.addresses \/ job[h].list # <<>>
    BY <2>1, <2>2
  <2>4. job[h].pc # "done" /\ job' = [job EXCEPT ![h] = Answer(h, 500)]
    BY <1>1
  <2>5. QED
    BY <2>2, <2>3, <2>4, EndKeeps
<1>6. QED
  BY <1>1, <1>3, <1>4, <1>5

(* The phase of a request moves on. *)
LEMMA PhaseOk ==
  ASSUME NEW h \in Http, JobOk(job[h]), NEW pc \in {"create", "post", "put"},
         \/ pc = "create" /\ job[h].pc = "check"
         \/ pc = "post" /\ job[h].pc \in {"check", "create"}
         \/ pc = "put" /\ job[h].pc = "post" /\ job[h].posted = Len(job[h].list) /\ job[h].registered > 0
  PROVE  LET q == [job[h] EXCEPT !.pc = pc]
         IN  JobOk(q) /\ q.list = job[h].list /\ q.stored = job[h].stored
<1> DEFINE j == job[h]
           q == [j EXCEPT !.pc = pc]
<1>1. JobFields(j)
  BY DEF JobOk
<1>2. /\ JobFields(q) /\ q.pc = pc /\ q.list = j.list /\ q.posted = j.posted
      /\ q.registered = j.registered /\ q.failed = j.failed /\ q.stored = j.stored
  <2> HIDE DEF j
  <2>1. QED
    BY <1>1 DEF JobFields
<1>3. JobOk(j)
  OBVIOUS
<1> HIDE DEF q
<1>4. JobOk(q)
  BY <1>2, <1>3 DEF JobOk
<1>5. QED
  BY <1>2, <1>4 DEF q

(* A request moves on while the firewall gains no address. *)
LEMMA PhaseKeeps ==
  ASSUME RegistrationInv, NEW h \in Http, NEW pc \in {"create", "post", "put"},
         job' = [job EXCEPT ![h].pc = pc], job[h].pc # "done", UNCHANGED tables,
         \/ pc = "create" /\ job[h].pc = "check"
         \/ pc = "post" /\ job[h].pc \in {"check", "create"}
         \/ pc = "put" /\ job[h].pc = "post" /\ job[h].posted = Len(job[h].list) /\ job[h].registered > 0,
         DeviceFields(device'), device'.group = device.group, device'.writer = device.writer,
         device'.addresses = device.addresses
  PROVE  RegistrationInv'
<1> DEFINE q == [job[h] EXCEPT !.pc = pc]
<1>1. JobOk(job[h]) /\ StoredOn(job[h], device)
  BY DEF RegistrationInv
<1>2. JobOk(q) /\ q.list = job[h].list /\ q.stored = job[h].stored
  BY <1>1, PhaseOk
<1>3. job' = [job EXCEPT ![h] = q]
  OBVIOUS
<1> HIDE DEF q
<1>4. StoredOn(q, device')
  BY <1>1, <1>2 DEF StoredOn
<1>5. QED
  BY <1>2, <1>3, <1>4, JobMoves

LEMMA CheckKeeps ==
  ASSUME RegistrationInv, NEW h \in Http, CheckGroup(h), UNCHANGED tables
  PROVE  RegistrationInv'
<1>1. job[h].pc = "check" /\ device' = device /\ DeviceFields(device)
  BY DEF CheckGroup, RegistrationInv
<1>2. PICK pc \in {"create", "post"} : job' = [job EXCEPT ![h].pc = pc]
  BY DEF CheckGroup
<1>3. DeviceFields(device')
  BY <1>1
<1>4. QED
  BY <1>1, <1>2, <1>3, PhaseKeeps

LEMMA CreateGroupKeeps ==
  ASSUME RegistrationInv, NEW h \in Http, CreateGroup(h), UNCHANGED tables
  PROVE  RegistrationInv'
<1>1. job[h].pc = "create" /\ DeviceFields(device)
  BY DEF CreateGroup, RegistrationInv
<1>2. CASE device' = Effect(h, "create") /\ job' = [job EXCEPT ![h].pc = "post"]
  <2>1. /\ DeviceFields(device') /\ device'.group = device.group /\ device'.writer = device.writer
        /\ device'.addresses = device.addresses
    BY <1>2, Effects
  <2>2. QED
    BY <1>1, <1>2, <2>1, PhaseKeeps
<1>3. CASE device' = device /\ job' = [job EXCEPT ![h] = Answer(h, 500)]
  BY <1>1, <1>3, EndKeeps
<1>4. QED
  BY <1>2, <1>3 DEF CreateGroup

(* Of each answer the request counts one address, as registered or as failed, *)
(* and the firewall has those that it answered with 201.                      *)
LEMMA PostKeeps ==
  ASSUME RegistrationInv, NEW h \in Http, PostAddress(h), UNCHANGED tables
  PROVE  RegistrationInv'
<1> DEFINE j == job[h]
           ip == j.list[j.posted + 1].ip
<1>1. /\ JobOk(j) /\ JobFields(j) /\ j.pc = "post" /\ j.posted < Len(j.list) /\ DeviceFields(device)
      /\ StoredOn(j, device)
  BY DEF PostAddress, RegistrationInv, JobOk
<1>2. PICK status \in {201, 424, 500} :
         LET counted == IF status \in {201, 424} THEN 1 ELSE 0
             place == job[h].posted + 1
         IN  /\ device' = IF status = 201 THEN Effect(h, "post") ELSE device
             /\ job' = [job EXCEPT ![h].posted = place, ![h].registered = @ + counted,
                                   ![h].failed = @ + 1 - counted,
                                   ![h].stored = IF status = 201 THEN @ \cup {place} ELSE @]
  BY DEF PostAddress
<1> DEFINE counted == IF status \in {201, 424} THEN 1 ELSE 0
           place == j.posted + 1
           stored == IF status = 201 THEN j.stored \cup {place} ELSE j.stored
<1>16. job' = [job EXCEPT ![h].posted = place, ![h].registered = @ + counted,
                          ![h].failed = @ + 1 - counted,
                          ![h].stored = IF status = 201 THEN @ \cup {place} ELSE @]
  BY <1>2
<1> DEFINE q == [j EXCEPT !.posted = place, !.registered = @ + counted, !.failed = @ + 1 - counted,
                          !.stored = stored]
<1>3. /\ DeviceFields(device') /\ device'.group = device.group /\ device'.writer = device.writer
      /\ device.addresses \subseteq device'.addresses
      /\ status = 201 => ip \in device'.addresses
  <2>1. Effect(h, "post") = [device EXCEPT !.addresses = @ \cup {ip}]
    BY Effects
  <2> HIDE DEF ip
  <2>2. QED
    BY <1>1, <1>2, <2>1 DEF DeviceFields
<1>4. job' = [job EXCEPT ![h] = q]
  <2>1. job = [g \in Http |-> job[g]]
    BY DEF RegistrationInv
  <2>2. JobFields(job[h]) /\ job[h] = j
    BY <1>1
  <2> HIDE DEF place, counted, j
  <2>3. QED
    BY <1>16, <2>1, <2>2 DEF JobFields
<1>10. counted \in {0, 1} /\ (status = 201 => counted = 1)
  OBVIOUS
<1> HIDE DEF counted, stored
<1>5. /\ JobFields(q) /\ q.pc = "post" /\ q.list = j.list /\ q.posted = place
      /\ q.registered = j.registered + counted /\ q.failed = j.failed + 1 - counted
      /\ q.stored = stored
  <2> HIDE DEF j, place
  <2>1. QED
    BY <1>1 DEF JobFields
<1>11. place = j.posted + 1 /\ ip = j.list[place].ip
  OBVIOUS
<1> HIDE DEF q, j, ip, place
<1>6. Len(j.list) \in Nat /\ j.list # <<>>
  BY <1>1 DEF JobOk, Ordered
<1>12. /\ j.posted \in 0 .. Len(j.list) /\ j.registered \in Nat /\ j.failed \in Nat
       /\ j.registered + j.failed = j.posted
       /\ j.stored \subseteq 1 .. j.posted /\ Cardinality(j.stored) + j.failed <= j.posted
  BY <1>1 DEF JobOk
<1>13. IsFiniteSet(j.stored) /\ place \notin j.stored
  <2>1. IsFiniteSet(1 .. j.posted)
    <3> DEFINE k == j.posted
    <3>1. k \in Int
      BY <1>12
    <3> HIDE DEF k
    <3>2. IsFiniteSet(1 .. k)
      BY <3>1, FS_Interval
    <3>3. QED
      BY <3>2 DEF k
  <2>2. QED
    BY <1>11, <1>12, <2>1, FS_Subset
<1>14. /\ stored \subseteq 1 .. place
       /\ Cardinality(stored) + q.failed <= place
  <2>0. Cardinality(j.stored) \in Nat
    BY <1>13, FS_CardinalityType
  <2>1. Cardinality(j.stored) \in Nat /\ Cardinality(j.stored \cup {place}) = Cardinality(j.stored) + 1
    <3> DEFINE S == j.stored
    <3>1. IsFiniteSet(S) /\ place \notin S
      BY <1>13
    <3> HIDE DEF S
    <3>2. Cardinality(S \cup {place}) = Cardinality(S) + 1
      BY <3>1, FS_AddElement
    <3>3. QED
      BY <2>0, <3>2 DEF S
  <2>2. CASE status = 201
    BY <1>5, <1>10, <1>11, <1>12, <2>1, <2>2 DEF stored
  <2>3. CASE status # 201
    BY <1>5, <1>10, <1>11, <1>12, <2>1, <2>3 DEF stored
  <2>4. QED
    BY <2>2, <2>3
<1>7. JobOk(q)
  <2>4. q.posted \in 0 .. Len(q.list)
    BY <1>1, <1>5, <1>6, <1>11, <1>12
  <2>5. /\ q.registered \in Nat /\ q.failed \in Nat
        /\ q.registered + q.failed = q.posted
    <3>1. CASE counted = 0
      BY <1>5, <1>11, <1>12, <3>1
    <3>2. CASE counted = 1
      BY <1>5, <1>11, <1>12, <3>2
    <3>3. QED
      BY <1>10, <3>1, <3>2
  <2>1. /\ q.posted \in 0 .. Len(q.list) /\ q.registered \in Nat /\ q.failed \in Nat
        /\ q.registered + q.failed = q.posted
    BY <2>4, <2>5
  <2>2. Ordered(q.list)
    BY <1>1, <1>5 DEF JobOk
  <2>3. QED
    BY <1>5, <1>14, <2>1, <2>2 DEF JobOk
<1>8. j.pc # "done" /\ q.list = j.list /\ q.list # <<>>
  BY <1>1, <1>5, <1>6
<1>15. StoredOn(q, device')
  BY <1>1, <1>3, <1>5, <1>11 DEF StoredOn, stored
<1>9. QED
  BY <1>3, <1>4, <1>7, <1>8, <1>15, JobMoves DEF j

LEMMA PostedKeeps ==
  ASSUME RegistrationInv, NEW h \in Http, AddressesPosted(h), UNCHANGED tables
  PROVE  RegistrationInv'
<1> DEFINE j == job[h]
<1>1. /\ JobOk(j) /\ j.pc = "post" /\ j.posted = Len(j.list) /\ DeviceFields(device)
      /\ job = [g \in Http |-> job[g]]
  BY DEF AddressesPosted, RegistrationInv
<1>2. device' = device /\ DeviceFields(device')
  BY <1>1 DEF AddressesPosted
<1>3. \/ j.registered > 0 /\ job' = [job EXCEPT ![h].pc = "put"]
      \/ job' = [job EXCEPT ![h] = Answer(h, 200)]
  BY <1>1 DEF AddressesPosted
<1>4. QED
  BY <1>1, <1>2, <1>3, PhaseKeeps, EndKeeps

LEMMA PutGroupKeeps ==
  ASSUME RegistrationInv, NEW h \in Http, PutGroup(h), UNCHANGED tables
  PROVE  RegistrationInv'
<1>1. job[h].pc = "put" /\ DeviceFields(device) /\ job' = [job EXCEPT ![h] = Answer(h, 200)]
  BY DEF PutGroup, RegistrationInv
<1>2. CASE device' = device
  BY <1>1, <1>2, EndKeeps
<1>3. CASE device' = Effect(h, "put")
  BY <1>1, <1>3, WrittenKeeps
<1>4. QED
  BY <1>2, <1>3 DEF PutGroup

(* Once somebody writes, a list need no longer be what the tables say. *)
LEMMA WriteKeeps ==
  ASSUME TablesInv, RegistrationInv, Write, UNCHANGED registration
  PROVE  RegistrationInv'
<1>1. writes' = writes + 1
  BY DEF Write, CreateBlacklist, ManuallyExpireIp, CreateWhitelist, UpdateWhitelist, DeleteWhitelist,
         RecordCollectionHistory, CleanupOldHistory, Outage, Put
<1>2. writes' # 0
  BY <1>1 DEF TablesInv
<1>3. job' = job /\ device' = device
  BY DEF registration
<1>4. \A h \in Http : ReadNow(job[h])'
  BY <1>2 DEF ReadNow
<1>5. QED
  BY <1>3, <1>4 DEF RegistrationInv

LEMMA RegistrationStep ==
  TablesInv /\ RegistrationInv /\ [SystemNext]_<<tables, walk, registration>> => RegistrationInv'
<1> SUFFICES ASSUME TablesInv, RegistrationInv, [SystemNext]_<<tables, walk, registration>>
             PROVE  RegistrationInv'
  OBVIOUS
<1>1. CASE Write /\ UNCHANGED registration
  BY <1>1, WriteKeeps
<1>2. CASE Register /\ UNCHANGED tables
  BY <1>2, BeginKeeps, UnreachableKeeps, CheckKeeps, CreateGroupKeeps, PostKeeps, PostedKeeps, PutGroupKeeps DEF Register
<1>3. CASE UNCHANGED <<tables, registration>>
  <2>1. job' = job /\ device' = device /\ writes' = writes /\ db' = db
    BY <1>3 DEF registration, tables
  <2>2. \A h \in Http : ReadNow(job[h])'
    BY <2>1 DEF RegistrationInv, ReadNow
  <2>3. QED
    BY <2>1, <2>2 DEF RegistrationInv
<1>4. QED
  BY <1>1, <1>2, <1>3 DEF SystemNext, StartWalk, FirstStatement, SecondStatement,
     RequestFails, EndWalk

(* The members are the first of an ordered list. *)
LEMMA WorstRows ==
  ASSUME RegistrationInv, NEW h \in Http, device.writer = h
  PROVE  LET j == job[h]
             group == device.group
         IN  /\ Len(group) = j.registered
             /\ j.failed = 0 => group = j.list
             /\ \A i \in DOMAIN j.list, k \in DOMAIN group :
                    i \notin DOMAIN group => j.list[i].confidence <= group[k].confidence
<1> DEFINE j == job[h]
           group == device.group
<1>1. /\ Ordered(j.list) /\ j.registered \in Nat /\ j.failed \in Nat
      /\ j.registered + j.failed = Len(j.list) /\ group = SubSeq(j.list, 1, j.registered)
  BY DEF RegistrationInv, JobOk, WrittenBy, Members
<1> HIDE DEF j, group
<1>2. j.list \in Seq(Row) /\ j.registered <= Len(j.list) /\ j.registered \in Int
      /\ DOMAIN j.list = 1 .. Len(j.list)
  BY <1>1 DEF Ordered
<1>3. /\ group \in Seq(Row) /\ Len(group) = j.registered
      /\ \A i \in 1 .. j.registered : group[i] = j.list[i]
  <2>1. \A i \in 1 .. j.registered : j.list[i] \in Row
    BY <1>1, <1>2
  <2>2. /\ group \in Seq(Row)
        /\ Len(group) = IF 1 <= j.registered THEN j.registered - 1 + 1 ELSE 0
        /\ \A i \in 1 .. j.registered - 1 + 1 : group[i] = j.list[1 + i - 1]
    BY <1>1, <1>2, <2>1, SubSeqProperties
  <2>3. \A i \in 1 .. j.registered : 1 + i - 1 = i
    OBVIOUS
  <2>4. j.registered - 1 + 1 = j.registered
    BY <1>1
  <2>5. QED
    BY <1>1, <2>2, <2>3, <2>4
<1>4. ASSUME j.failed = 0 PROVE group = j.list
  <2>1. j.registered = Len(j.list)
    BY <1>1, <1>2, <1>4
  <2>2. QED
    BY <1>1, <1>2, <2>1, SubSeqFull
<1>5. ASSUME NEW i \in DOMAIN j.list, NEW k \in DOMAIN group, i \notin DOMAIN group
      PROVE  j.list[i].confidence <= group[k].confidence
  <2>1. k \in 1 .. j.registered /\ i \in 1 .. Len(j.list) /\ i \notin 1 .. j.registered
    BY <1>2, <1>3, <1>5
  <2>2. k \in DOMAIN j.list /\ k < i /\ group[k] = j.list[k]
    BY <1>1, <1>2, <1>3, <2>1
  <2>3. j.list[k].confidence >= j.list[i].confidence
    BY <1>1, <2>2 DEF Ordered
  <2>4. j.list[k].confidence \in Int /\ j.list[i].confidence \in Int
    <3>1. j.list[k] \in Row /\ j.list[i] \in Row
      BY <1>2, <2>1, <2>2
    <3>2. \A r \in Row : r.confidence \in 0 .. 100
      BY DEF Row
    <3>3. QED
      BY <3>1, <3>2
  <2>5. QED
    BY <2>2, <2>3, <2>4
<1>6. QED
  BY <1>3, <1>4, <1>5 DEF j, group

(* A place that was stored and is not named lies behind the names, where there *)
(* are as many places as addresses were refused.                               *)
LEMMA NamedOrReplaced ==
  ASSUME RegistrationInv, NEW h \in Http, device.writer = h
  PROVE  LET j == job[h]
             group == device.group
         IN  /\ \A k \in DOMAIN group : k \in j.stored => group[k].ip \in device.addresses
             /\ Cardinality(j.stored \ DOMAIN group) <= j.failed
<1> DEFINE j == job[h]
           group == device.group
           behind == j.registered + 1 .. Len(j.list)
<1>1. /\ j.registered \in Nat /\ j.failed \in Nat /\ j.registered + j.failed = Len(j.list)
      /\ group = SubSeq(j.list, 1, j.registered) /\ Ordered(j.list)
      /\ j.posted \in 0 .. Len(j.list) /\ j.stored \subseteq 1 .. j.posted /\ StoredOn(j, device)
  BY DEF RegistrationInv, JobOk, WrittenBy, Members
<1> HIDE DEF j, group
<1>2. DOMAIN group = 1 .. j.registered /\ \A k \in DOMAIN group : group[k] = j.list[k]
  BY <1>1 DEF Ordered
<1>3. Len(j.list) \in Nat
  BY <1>1 DEF Ordered
<1>4. ASSUME NEW k \in DOMAIN group, k \in j.stored PROVE group[k].ip \in device.addresses
  BY <1>1, <1>2, <1>4 DEF StoredOn
<1>5. j.stored \ DOMAIN group \subseteq behind
  BY <1>1, <1>2, <1>3
<1>6. IsFiniteSet(behind) /\ Cardinality(behind) = j.failed
  <2>1. j.registered + 1 \in Int /\ Len(j.list) \in Int
    BY <1>1, <1>3
  <2>2. /\ IsFiniteSet(behind)
        /\ Cardinality(behind) = IF j.registered + 1 > Len(j.list) THEN 0
                                 ELSE Len(j.list) - (j.registered + 1) + 1
    BY <2>1, FS_Interval
  <2>3. QED
    BY <1>1, <1>3, <2>2
<1>7. Cardinality(j.stored \ DOMAIN group) <= j.failed
  BY <1>5, <1>6, FS_Subset
<1>8. QED
  BY <1>4, <1>7 DEF j, group

(* When every place was stored none was refused. *)
LEMMA WholeFeed ==
  ASSUME TablesInv, RegistrationInv, NEW h \in Http, device.writer = h,
         job[h].stored = DOMAIN job[h].list, writes = 0
  PROVE  LET feed == {r.ip : r \in GetThreatFeed(db).rows}
         IN  {r.ip : r \in ToSet(device.group)} = feed /\ feed \subseteq device.addresses
<1> DEFINE j == job[h]
<1>1. /\ j.registered + j.failed = Len(j.list) /\ j.registered > 0
      /\ j.registered \in Nat /\ j.failed \in Nat /\ Ordered(j.list)
      /\ j.posted \in 0 .. Len(j.list) /\ Cardinality(j.stored) + j.failed <= j.posted
      /\ StoredOn(j, device)
  BY DEF RegistrationInv, JobOk, WrittenBy
<1>2. j.list # <<>>
  BY <1>1
<1>3. db.up /\ ToSet(j.list) = Enforced(db)
  BY <1>2 DEF RegistrationInv, ReadNow
<1>4. j.failed = 0
  <2>1. j.stored = 1 .. Len(j.list) /\ Len(j.list) \in Nat
    BY <1>1 DEF Ordered
  <2>2. Cardinality(j.stored) = Len(j.list)
    BY <2>1, FS_Interval
  <2>3. QED
    BY <1>1, <2>1, <2>2
<1>5. device.group = j.list
  BY <1>4, WorstRows
<1>6. GetThreatFeed(db).rows = Enforced(db)
  BY <1>3, FeedRows
<1>7. ASSUME NEW r \in ToSet(j.list) PROVE r.ip \in device.addresses
  <2>1. PICK k \in DOMAIN j.list : r = j.list[k]
    BY DEF ToSet
  <2>2. QED
    BY <1>1, <2>1 DEF StoredOn
<1>8. QED
  BY <1>3, <1>5, <1>6, <1>7

(* Whatever addresses a firewall refuses, whatever calls it carries out       *)
(* without an answer, and whoever else registers or writes rows meanwhile: the *)
(* group names the first rows of the list that its last writer read, none left *)
(* out is worse than one named; a name whose address was stored has it on the  *)
(* firewall, and no more stored addresses are left out than were refused; if   *)
(* all were stored and nobody wrote, the group is the feed and the firewall    *)
(* has its addresses.                                                          *)
THEOREM RegistrationsKeepTheWorst == SystemSpec => []FirewallHoldsTheWorst
<1>1. TablesInv /\ RegistrationInv => GroupNamesTheWorst
  BY WorstRows DEF GroupNamesTheWorst
<1>2. TablesInv /\ RegistrationInv => NamesHaveAddresses
  BY NamedOrReplaced DEF NamesHaveAddresses
<1>3. TablesInv /\ RegistrationInv => CleanRegistrationPublishesFeed
  BY WholeFeed DEF CleanRegistrationPublishesFeed, RegistrationInv
<1>4. TablesInv /\ RegistrationInv => FirewallHoldsTheWorst
  BY <1>1, <1>2, <1>3 DEF FirewallHoldsTheWorst
<1>5. SystemInit => RegistrationInv
  BY RegistrationInit
<1>6. QED
  BY <1>4, <1>5, AlwaysTables, RegistrationStep, PTL DEF SystemSpec

-----------------------------------------------------------------------------
(* Lists *)

(* What the rows of a list are and what it sorts them by. *)
Entries(T) ==
    {[type |-> "blacklist", id |-> r.id, ip |-> r.ip, active |-> r.active,
      source |-> r.source, created |-> r.created] : r \in T.rows}
    \cup
    {[type |-> "whitelist", id |-> w.id, ip |-> w.ip, active |-> TRUE,
      source |-> w.source, created |-> w.created] : w \in T.white}

Wanted(name, r) ==
    name = "active" =>
        /\ "blacklist" # None => r.type = "blacklist"
        /\ TRUE # None => r.active = TRUE

Content(name, T) ==
    IF name = "whitelist" THEN T.white
    ELSE IF name \in {"history", "webHistory"} THEN T.runs
    ELSE IF name \in {"unified", "active"} THEN {r \in Entries(T) : Wanted(name, r)}
    ELSE IF name = "activeIps" THEN Enforced(T)
    ELSE T.rows

SortKey(name, r) ==
    IF name = "list" THEN <<r.id>>
    ELSE IF name = "json" THEN <<r.updated>>
    ELSE IF name = "table" THEN <<r.created, r.id>>
    ELSE IF name = "activeIps" THEN <<NullsFirst(r.confidence), NullsFirst(r.detected)>>
    ELSE IF name \in {"history", "webHistory"} THEN <<r.date>>
    ELSE <<r.created>>

LEMMA NamedIs ==
  ASSUME NEW T, NEW name \in ListNames
  PROVE  /\ Named(name, T).of = Content(name, T)
         /\ Named(name, T).key = [r \in Content(name, T) |-> SortKey(name, r)]
<1>1. CASE name = "list"
  BY <1>1 DEF Named, Content, SortKey, List, GetBlacklistList
<1>2. CASE name = "json"
  BY <1>2 DEF Named, Content, SortKey, List, GetBlacklistJson
<1>3. CASE name = "unified"
  <2>1. Content(name, T) = {r \in Entries(T) : TRUE}
    BY <1>3 DEF Content, Wanted
  <2>2. Named(name, T).of = {r \in Entries(T) : TRUE}
    BY <1>3 DEF Named, Entries, List, GetUnifiedList
  <2>3. Named(name, T).key = [r \in {r \in Entries(T) : TRUE} |-> <<r.created>>]
    BY <1>3 DEF Named, Entries, List, GetUnifiedList
  <2>4. \A r : SortKey(name, r) = <<r.created>>
    BY <1>3 DEF SortKey
  <2>5. QED
    BY <2>1, <2>2, <2>3, <2>4
<1>4. CASE name = "active"
  <2> DEFINE C == {r \in Entries(T) : /\ "blacklist" # None => r.type = "blacklist"
                                      /\ TRUE # None => r.active = TRUE}
  <2>1. Content(name, T) = C
    BY <1>4 DEF Content, Wanted
  <2>2. Named(name, T).of = C
    BY <1>4 DEF Named, Entries, List, GetUnifiedList
  <2>3. Named(name, T).key = [r \in C |-> <<r.created>>]
    BY <1>4 DEF Named, Entries, List, GetUnifiedList
  <2>4. \A r : SortKey(name, r) = <<r.created>>
    BY <1>4 DEF SortKey
  <2>5. QED
    BY <2>1, <2>2, <2>3, <2>4
<1>5. CASE name = "whitelist"
  BY <1>5 DEF Named, Content, SortKey, List, GetWhitelist
<1>6. CASE name = "blacklist"
  BY <1>6 DEF Named, Content, SortKey, List, GetBlacklist
<1>7. CASE name = "table"
  BY <1>7 DEF Named, Content, SortKey, List, GetTableData
<1>8. CASE name = "activeIps"
  BY <1>8 DEF Named, Content, SortKey, List, GetActiveIps
<1>9. CASE name = "history"
  <2>1. Named(name, T).of = T.runs
    BY <1>9 DEF Named, List, GetCollectionHistory
  <2>2. Named(name, T).key = [r \in T.runs |-> <<r.date>>]
    BY <1>9 DEF Named, List, GetCollectionHistory
  <2>3. QED
    BY <1>9, <2>1, <2>2 DEF Content, SortKey
<1>10. CASE name = "webList"
  <2>1. Named(name, T).of = T.rows
    BY <1>10 DEF Named, List, ApiBlacklistList
  <2>2. Named(name, T).key = [r \in T.rows |-> <<r.created>>]
    BY <1>10 DEF Named, List, ApiBlacklistList
  <2>3. QED
    BY <1>10, <2>1, <2>2 DEF Content, SortKey
<1>11. CASE name = "webHistory"
  BY <1>11 DEF Named, Content, SortKey, List, ApiCollectionHistory
<1>12. CASE name = "search"
  <2>1. Named(name, T).of = T.rows
    BY <1>12 DEF Named, List, SearchCollectedIps
  <2>2. Named(name, T).key = [r \in T.rows |-> <<r.created>>]
    BY <1>12 DEF Named, List, SearchCollectedIps
  <2>3. QED
    BY <1>12, <2>1, <2>2 DEF Content, SortKey
<1>13. QED
  BY <1>1, <1>2, <1>3, <1>4, <1>5, <1>6, <1>7, <1>8, <1>9, <1>10, <1>11, <1>12 DEF ListNames

(* Keys of one length are ordered by their first difference. *)
Linear(l) ==
    \A r, q \in l.of :
        /\ ~Lexicographic(l.key[r], l.key[r])
        /\ l.key[r] # l.key[q] =>
               Lexicographic(l.key[r], l.key[q]) \/ Lexicographic(l.key[q], l.key[r])

LEMMA OneKey ==
  ASSUME NEW a \in Int, NEW b \in Int
  PROVE  Lexicographic(<<a>>, <<b>>) <=> a > b
<1>1. /\ DOMAIN <<a>> = {1} /\ <<a>>[1] = a /\ <<b>>[1] = b
      /\ \A k \in 1 .. 1 - 1 : <<a>>[k] = <<b>>[k]
  OBVIOUS
<1>2. QED
  BY <1>1 DEF Lexicographic

LEMMA TwoKeys ==
  ASSUME NEW a \in Int, NEW b \in Int, NEW c \in Int, NEW d \in Int
  PROVE  Lexicographic(<<a, c>>, <<b, d>>) <=> a > b \/ (a = b /\ c > d)
<1> DEFINE x == <<a, c>>
           y == <<b, d>>
<1>1. /\ DOMAIN x = {1, 2} /\ x[1] = a /\ y[1] = b /\ x[2] = c /\ y[2] = d
      /\ 1 .. 1 - 1 = {} /\ 1 .. 2 - 1 = {1}
  OBVIOUS
<1> HIDE DEF x, y
<1>2. Lexicographic(x, y) <=> \E i \in {1, 2} : x[i] > y[i] /\ \A j \in 1 .. i - 1 : x[j] = y[j]
  BY <1>1 DEF Lexicographic
<1>3. Lexicographic(x, y) <=> a > b \/ (a = b /\ c > d)
  BY <1>1, <1>2
<1>4. QED
  BY <1>3 DEF x, y

LEMMA LinearOne ==
  ASSUME NEW l, \A r \in l.of : \E a \in Int : l.key[r] = <<a>>
  PROVE  Linear(l)
<1>1. ASSUME NEW r \in l.of, NEW q \in l.of
      PROVE  /\ ~Lexicographic(l.key[r], l.key[r])
             /\ l.key[r] # l.key[q] =>
                    Lexicographic(l.key[r], l.key[q]) \/ Lexicographic(l.key[q], l.key[r])
  <2>1. PICK a \in Int : l.key[r] = <<a>>
    OBVIOUS
  <2>2. PICK b \in Int : l.key[q] = <<b>>
    OBVIOUS
  <2>3. a # b => a > b \/ b > a
    OBVIOUS
  <2>4. QED
    BY <2>1, <2>2, <2>3, OneKey
<1>2. QED
  BY <1>1 DEF Linear

LEMMA LinearTwo ==
  ASSUME NEW l, \A r \in l.of : \E a, c \in Int : l.key[r] = <<a, c>>
  PROVE  Linear(l)
<1>1. ASSUME NEW r \in l.of, NEW q \in l.of
      PROVE  /\ ~Lexicographic(l.key[r], l.key[r])
             /\ l.key[r] # l.key[q] =>
                    Lexicographic(l.key[r], l.key[q]) \/ Lexicographic(l.key[q], l.key[r])
  <2>1. PICK a \in Int, c \in Int : l.key[r] = <<a, c>>
    OBVIOUS
  <2>2. PICK b \in Int, d \in Int : l.key[q] = <<b, d>>
    OBVIOUS
  <2>3. /\ Lexicographic(<<a, c>>, <<b, d>>) <=> a > b \/ (a = b /\ c > d)
        /\ Lexicographic(<<b, d>>, <<a, c>>) <=> b > a \/ (a = b /\ d > c)
        /\ ~Lexicographic(<<a, c>>, <<a, c>>)
    BY TwoKeys
  <2>4. a # b \/ c # d => a > b \/ b > a \/ (a = b /\ (c > d \/ d > c))
    OBVIOUS
  <2>5. <<a, c>> # <<b, d>> => a # b \/ c # d
    OBVIOUS
  <2>6. QED
    BY <2>1, <2>2, <2>3, <2>4, <2>5
<1>2. QED
  BY <1>1 DEF Linear

(* What is told apart in a list: an entry of both tables by its type and id. *)
LEMMA RowsAreKeyed ==
  ASSUME TablesInv
  PROVE  /\ \A r \in db.rows : r.created \in Int
         /\ \A r \in db.rows : r.updated \in Int
         /\ \A r \in db.rows : NullsFirst(r.confidence) \in Int
         /\ \A r \in db.rows : NullsFirst(r.detected) \in Int
         /\ \A r \in db.white : r.created \in Int
         /\ \A r \in db.runs : r.date \in Int
         /\ \A r \in db.rows \cup db.white \cup db.runs : r.id \in Nat
         /\ \A r \in db.rows \cup db.white \cup db.runs : Identity(r) = <<"row", r.id>>
<1>1. db.rows \subseteq Row /\ db.white \subseteq Exempt /\ db.runs \subseteq Run
  BY DEF TablesInv, Fits
<1>2. Days \subseteq Int /\ \A v \in Dates \cup 0 .. 100 : NullsFirst(v) \in Int
  BY TodayAssumption DEF Days, Dates, NullsFirst
<1>3. \A r \in Row : r.created \in Days /\ r.updated \in Days
  BY DEF Row
<1>4. \A r \in Row : r.confidence \in 0 .. 100 /\ r.detected \in Dates
  BY DEF Row
<1>5. \A r \in Row : r.created \in Int /\ r.updated \in Int
  BY <1>2, <1>3
<1>6. \A r \in Row : NullsFirst(r.confidence) \in Int /\ NullsFirst(r.detected) \in Int
  BY <1>2, <1>4
<1>7. \A r \in Exempt : r.created \in Int
  <2>1. \A r \in Exempt : r.created \in Days
    BY DEF Exempt
  <2>2. QED
    BY <1>2, <2>1
<1>8. \A r \in Run : r.date \in Int
  <2>1. \A r \in Run : r.date \in Days
    BY DEF Run
  <2>2. QED
    BY <1>2, <2>1
<1>9. \A r \in Row \cup Exempt \cup Run : r.id \in Nat
  BY DEF Row, Exempt, Run
<1>10. \A r \in Row \cup Exempt \cup Run : Identity(r) = <<"row", r.id>>
  <2>1. \A r \in Row : "type" \notin DOMAIN r
    BY DEF Row
  <2>2. \A r \in Exempt : "type" \notin DOMAIN r
    BY DEF Exempt
  <2>3. \A r \in Run : "type" \notin DOMAIN r
    BY DEF Run
  <2>4. QED
    BY <2>1, <2>2, <2>3 DEF Identity
<1>11. QED
  BY <1>1, <1>5, <1>6, <1>7, <1>8, <1>9, <1>10

LEMMA EntriesAreKeyed ==
  ASSUME TablesInv
  PROVE  /\ IsFiniteSet(Entries(db))
         /\ \A r \in Entries(db) : r.id \in Nat
         /\ \A r \in Entries(db) : r.created \in Int
         /\ \A r \in Entries(db) : Identity(r) = <<r.type, r.id>>
         /\ \A r \in Entries(db) : r.type \in {"blacklist", "whitelist"}
         /\ \A r, q \in Entries(db) : r.type = q.type /\ r.id = q.id => r = q
<1> DEFINE b(r) == [type |-> "blacklist", id |-> r.id, ip |-> r.ip, active |-> r.active,
                    source |-> r.source, created |-> r.created]
           w(r) == [type |-> "whitelist", id |-> r.id, ip |-> r.ip, active |-> TRUE,
                    source |-> r.source, created |-> r.created]
           B == {b(r) : r \in db.rows}
           W == {w(r) : r \in db.white}
<1>1. Entries(db) = B \cup W
  BY DEF Entries
<1>2. IsFiniteSet(db.rows) /\ IsFiniteSet(db.white)
  BY DEF TablesInv, Keyed
<1>3. IsFiniteSet(B \cup W)
  <2>1. [r \in db.rows |-> b(r)] \in Surjection(db.rows, B)
    BY DEF Surjection
  <2>2. [r \in db.white |-> w(r)] \in Surjection(db.white, W)
    BY DEF Surjection
  <2>3. IsFiniteSet(B) /\ IsFiniteSet(W)
    BY <1>2, <2>1, <2>2, FS_Surjection
  <2>4. QED
    BY <2>3, FS_Union
<1>4. \A r \in B : \E x \in db.rows :
         r.type = "blacklist" /\ r.id = x.id /\ r.created = x.created /\ r = b(x)
  OBVIOUS
<1>5. \A r \in W : \E x \in db.white :
         r.type = "whitelist" /\ r.id = x.id /\ r.created = x.created /\ r = w(x)
  OBVIOUS
<1>6. \A r \in B \cup W : Identity(r) = <<r.type, r.id>>
  BY DEF Identity
<1> HIDE DEF b, w, B, W
<1>7. \A r \in B \cup W : r.id \in Nat
  BY <1>4, <1>5, RowsAreKeyed
<1>8. \A r \in B \cup W : r.created \in Int
  BY <1>4, <1>5, RowsAreKeyed
<1>9. \A r \in B \cup W : r.type \in {"blacklist", "whitelist"}
  BY <1>4, <1>5
<1>10. ASSUME NEW r \in B \cup W, NEW q \in B \cup W, r.type = q.type, r.id = q.id PROVE r = q
  <2>1. CASE r \in B /\ q \in B
    <3>1. PICK x \in db.rows : r.id = x.id /\ r = b(x)
      BY <1>4, <2>1
    <3>2. PICK y \in db.rows : q.id = y.id /\ q = b(y)
      BY <1>4, <2>1
    <3>3. x = y
      BY <1>10, <3>1, <3>2 DEF TablesInv, Keyed
    <3>4. QED
      BY <3>1, <3>2, <3>3
  <2>2. CASE r \in W /\ q \in W
    <3>1. PICK x \in db.white : r.id = x.id /\ r = w(x)
      BY <1>5, <2>2
    <3>2. PICK y \in db.white : q.id = y.id /\ q = w(y)
      BY <1>5, <2>2
    <3>3. x = y
      BY <1>10, <3>1, <3>2 DEF TablesInv, Keyed
    <3>4. QED
      BY <3>1, <3>2, <3>3
  <2>3. QED
    BY <1>4, <1>5, <1>10, <2>1, <2>2
<1>11. QED
  BY <1>1, <1>3, <1>6, <1>7, <1>8, <1>9, <1>10

Ids == {"row", "blacklist", "whitelist"} \X Nat

(* A list is finite, its keys are in a linear order, and its rows have identities of their own. *)
ListOk(l) ==
    /\ IsFiniteSet(l.of)
    /\ Linear(l)
    /\ \A r \in l.of : Identity(r) \in Ids
    /\ \A r, q \in l.of : Identity(r) = Identity(q) => r = q

LEMMA EntryListIsOk ==
  ASSUME TablesInv, NEW name \in {"unified", "active"}
  PROVE  ListOk(Named(name, db))
<1> DEFINE l == Named(name, db)
           C == Content(name, db)
<1>1. l.of = C /\ l.key = [r \in C |-> SortKey(name, r)]
  <2>1. name \in ListNames
    BY DEF ListNames
  <2>2. QED
    BY <2>1, NamedIs
<1>2. C \subseteq Entries(db) /\ \A r : SortKey(name, r) = <<r.created>>
  BY DEF Content, SortKey
<1> HIDE DEF C, l
<1>3. IsFiniteSet(l.of)
  BY <1>1, <1>2, EntriesAreKeyed, FS_Subset
<1>4. \A r \in l.of : r.created \in Int
  BY <1>1, <1>2, EntriesAreKeyed
<1>5. \A r \in l.of : l.key[r] = <<r.created>>
  BY <1>1, <1>2
<1>6. Linear(l)
  BY <1>4, <1>5, LinearOne
<1>7. \A r \in l.of : Identity(r) = <<r.type, r.id>> /\ r.type \in {"blacklist", "whitelist"}
  BY <1>1, <1>2, EntriesAreKeyed
<1>8. \A r \in l.of : r.id \in Nat
  BY <1>1, <1>2, EntriesAreKeyed
<1>9. ASSUME NEW r \in l.of, NEW q \in l.of, Identity(r) = Identity(q) PROVE r = q
  <2>1. <<r.type, r.id>> = <<q.type, q.id>>
    BY <1>7, <1>9
  <2>2. r.type = q.type /\ r.id = q.id
    BY <2>1
  <2>3. QED
    BY <1>1, <1>2, <2>2, EntriesAreKeyed
<1>10. \A r \in l.of : Identity(r) \in Ids
  BY <1>7, <1>8 DEF Ids
<1>11. QED
  BY <1>3, <1>6, <1>9, <1>10 DEF ListOk, l

LEMMA RowListIsOk ==
  ASSUME TablesInv, NEW name \in ListNames \ {"unified", "active"}
  PROVE  ListOk(Named(name, db))
<1> DEFINE l == Named(name, db)
           C == Content(name, db)
<1>1. l.of = C /\ l.key = [r \in C |-> SortKey(name, r)]
  BY NamedIs
<1>2. PICK S \in {db.rows, db.white, db.runs} :
         /\ C \subseteq S
         /\ \/ S = db.rows /\ name \notin {"whitelist", "history", "webHistory"}
            \/ S = db.white /\ name = "whitelist"
            \/ S = db.runs /\ name \in {"history", "webHistory"}
  BY DEF Content, Enforced, Active
<1> HIDE DEF C, l
<1>3. IsFiniteSet(l.of)
  <2>1. IsFiniteSet(S)
    BY DEF TablesInv, Keyed
  <2>2. QED
    BY <1>1, <1>2, <2>1, FS_Subset
<1>4. \A r \in l.of : Identity(r) = <<"row", r.id>>
  BY <1>1, <1>2, RowsAreKeyed
<1>5. \A r \in l.of : r.id \in Nat
  BY <1>1, <1>2, RowsAreKeyed
<1>6. \A r, q \in l.of : Identity(r) = Identity(q) => r = q
  <2>1. \A r, q \in S : r.id = q.id => r = q
    BY DEF TablesInv, Keyed
  <2>2. QED
    BY <1>1, <1>2, <1>4, <2>1
<1>7. Linear(l)
  <2>1. CASE name = "list"
    <3>1. \A r \in l.of : l.key[r] = <<r.id>>
      BY <1>1, <2>1 DEF SortKey
    <3>2. QED
      BY <1>5, <3>1, LinearOne
  <2>2. CASE name = "json"
    <3>1. \A r \in l.of : l.key[r] = <<r.updated>>
      BY <1>1, <2>2 DEF SortKey
    <3>2. \A r \in l.of : r.updated \in Int
      BY <1>1, <1>2, <2>2, RowsAreKeyed
    <3>3. QED
      BY <3>1, <3>2, LinearOne
  <2>3. CASE name = "table"
    <3>1. \A r \in l.of : l.key[r] = <<r.created, r.id>>
      BY <1>1, <2>3 DEF SortKey
    <3>2. \A r \in l.of : r.created \in Int
      BY <1>1, <1>2, <2>3, RowsAreKeyed
    <3>3. QED
      BY <1>5, <3>1, <3>2, LinearTwo
  <2>4. CASE name = "activeIps"
    <3>1. \A r \in l.of : l.key[r] = <<NullsFirst(r.confidence), NullsFirst(r.detected)>>
      BY <1>1, <2>4 DEF SortKey
    <3>2. \A r \in l.of : NullsFirst(r.confidence) \in Int
      BY <1>1, <1>2, <2>4, RowsAreKeyed
    <3>3. \A r \in l.of : NullsFirst(r.detected) \in Int
      BY <1>1, <1>2, <2>4, RowsAreKeyed
    <3>4. QED
      BY <3>1, <3>2, <3>3, LinearTwo
  <2>5. CASE name \in {"history", "webHistory"}
    <3>1. \A r \in l.of : l.key[r] = <<r.date>>
      BY <1>1, <2>5 DEF SortKey
    <3>2. \A r \in l.of : r.date \in Int
      BY <1>1, <1>2, <2>5, RowsAreKeyed
    <3>3. QED
      BY <3>1, <3>2, LinearOne
  <2>6. CASE name \notin {"list", "json", "table", "activeIps", "history", "webHistory"}
    <3>1. \A r \in l.of : l.key[r] = <<r.created>>
      BY <1>1, <2>6 DEF SortKey
    <3>2. \A r \in l.of : r.created \in Int
      BY <1>1, <1>2, <2>6, RowsAreKeyed
    <3>3. QED
      BY <3>1, <3>2, LinearOne
  <2>7. QED
    BY <2>1, <2>2, <2>3, <2>4, <2>5, <2>6
<1>8. \A r \in l.of : Identity(r) \in Ids
  BY <1>4, <1>5 DEF Ids
<1>9. QED
  BY <1>3, <1>6, <1>7, <1>8 DEF ListOk, l

LEMMA NamedIsOk == TablesInv => \A name \in ListNames : ListOk(Named(name, db))
  BY EntryListIsOk, RowListIsOk

LEMMA NamedStaysOk == TablesInv' => \A name \in ListNames : ListOk(Named(name, db'))
<1>1. (TablesInv => \A name \in ListNames : ListOk(Named(name, db)))'
  BY NamedIsOk, PTL
<1>2. QED
  BY <1>1

(* An order of a list has each of its rows once. *)
LEMMA OrderIs ==
  ASSUME NEW l, IsFiniteSet(l.of), NEW s \in Orders(l)
  PROVE  /\ Cardinality(l.of) \in Nat /\ Len(s) = Cardinality(l.of)
         /\ s \in [1 .. Len(s) -> l.of] /\ s \in Seq(l.of)
         /\ \A i, j \in 1 .. Len(s) : i # j => s[i] # s[j]
         /\ \A r \in l.of : \E i \in 1 .. Len(s) : s[i] = r
         /\ \A i, j \in 1 .. Len(s) : i < j => ~Lexicographic(l.key[s[j]], l.key[s[i]])
<1> DEFINE n == Cardinality(l.of)
<1>1. n \in Nat
  BY FS_CardinalityType
<1>2. /\ s \in [1 .. n -> l.of]
      /\ \A i, j \in 1 .. n : i # j => s[i] # s[j]
      /\ \A i, j \in DOMAIN s : i < j => ~Lexicographic(l.key[s[j]], l.key[s[i]])
  BY DEF Orders, SetToSeqs
<1>3. s \in Seq(l.of) /\ Len(s) = n /\ DOMAIN s = 1 .. n
  BY <1>1, <1>2
<1>4. s \in Surjection(1 .. n, l.of)
  <2>1. s \in Injection(1 .. n, l.of)
    BY <1>2 DEF Injection, IsInjective
  <2>2. Cardinality(1 .. n) = n
    BY <1>1, FS_Interval
  <2>3. QED
    BY <2>1, <2>2, FS_Injection
<1>5. \A r \in l.of : \E i \in 1 .. n : s[i] = r
  BY <1>4 DEF Surjection
<1> HIDE DEF n
<1>6. QED
  BY <1>1, <1>2, <1>3, <1>5 DEF n

(* The place of a row in any order, when no two rows tie. *)
Before(l, r) == {q \in l.of : Lexicographic(l.key[q], l.key[r])}
Rank(l, r) == Cardinality(Before(l, r)) + 1

LEMMA RankIsPositive ==
  ASSUME NEW l, IsFiniteSet(l.of), NEW r
  PROVE  Rank(l, r) \in Nat /\ Rank(l, r) > 0
<1>1. IsFiniteSet(Before(l, r))
  BY FS_Subset DEF Before
<1>2. Cardinality(Before(l, r)) \in Nat
  BY <1>1, FS_CardinalityType
<1>3. QED
  BY <1>2 DEF Rank

LEMMA RankIsPlace ==
  ASSUME NEW l, ListOk(l), Sorted(l), NEW s \in Orders(l), NEW i \in 1 .. Len(s)
  PROVE  Rank(l, s[i]) = i
<1> DEFINE B == Before(l, s[i])
           f == [j \in 1 .. i - 1 |-> s[j]]
<1>1. /\ Len(s) \in Nat /\ s \in [1 .. Len(s) -> l.of]
      /\ \A a, b \in 1 .. Len(s) : a # b => s[a] # s[b]
      /\ \A r \in l.of : \E a \in 1 .. Len(s) : s[a] = r
      /\ \A a, b \in 1 .. Len(s) : a < b => ~Lexicographic(l.key[s[b]], l.key[s[a]])
  BY OrderIs DEF ListOk
<1>2. ASSUME NEW j \in 1 .. i - 1 PROVE j \in 1 .. Len(s) /\ s[j] \in B
  <2>1. j \in 1 .. Len(s) /\ j < i /\ s[j] \in l.of /\ s[i] \in l.of /\ s[j] # s[i]
    BY <1>1
  <2>2. ~Lexicographic(l.key[s[i]], l.key[s[j]])
    BY <1>1, <2>1
  <2>3. l.key[s[j]] # l.key[s[i]]
    BY <2>1 DEF Sorted
  <2>4. Lexicographic(l.key[s[j]], l.key[s[i]])
    BY <2>1, <2>2, <2>3 DEF ListOk, Linear
  <2>5. QED
    BY <2>1, <2>4 DEF Before
<1>3. ASSUME NEW q \in B PROVE \E j \in 1 .. i - 1 : s[j] = q
  <2>1. q \in l.of /\ Lexicographic(l.key[q], l.key[s[i]])
    BY DEF Before
  <2>2. PICK j \in 1 .. Len(s) : s[j] = q
    BY <1>1, <2>1
  <2>3. j # i
    BY <2>1, <2>2 DEF ListOk, Linear
  <2>4. ~(i < j)
    BY <1>1, <2>1, <2>2
  <2>5. j \in 1 .. i - 1
    BY <1>1, <2>3, <2>4
  <2>6. QED
    BY <2>2, <2>5
<1>4. f \in Bijection(1 .. i - 1, B)
  <2>1. f \in [1 .. i - 1 -> B]
    BY <1>2
  <2>2. \A a, b \in 1 .. i - 1 : a # b => f[a] # f[b]
    BY <1>1, <1>2
  <2>3. \A q \in B : \E j \in 1 .. i - 1 : f[j] = q
    BY <1>3
  <2> HIDE DEF f, B
  <2>4. QED
    BY <2>1, <2>2, <2>3 DEF Bijection, Injection, IsInjective, Surjection
<1> HIDE DEF f, B
<1>5. IsFiniteSet(1 .. i - 1) /\ Cardinality(1 .. i - 1) = i - 1
  <2>1. i \in Int /\ i - 1 \in Int /\ i >= 1
    BY <1>1
  <2>2. QED
    BY <2>1, FS_Interval
<1>6. Cardinality(B) = i - 1
  BY <1>4, <1>5, FS_Bijection DEF ExistsBijection
<1>7. QED
  BY <1>1, <1>6 DEF Rank, B

(* Rows that a list gains push others back. *)
Part(l, m) == l.of \subseteq m.of /\ \A r \in l.of : l.key[r] = m.key[r]

LEMMA RankGrows ==
  ASSUME NEW l, NEW m, IsFiniteSet(m.of), Part(l, m), NEW r \in l.of
  PROVE  Rank(l, r) <= Rank(m, r) /\ Rank(l, r) \in Nat /\ Rank(m, r) \in Nat
<1>1. Before(l, r) \subseteq Before(m, r)
  BY DEF Before, Part
<1>2. IsFiniteSet(Before(m, r))
  BY FS_Subset DEF Before
<1>3. /\ Cardinality(Before(l, r)) <= Cardinality(Before(m, r))
      /\ Cardinality(Before(l, r)) \in Nat /\ Cardinality(Before(m, r)) \in Nat
  BY <1>1, <1>2, FS_Subset, FS_CardinalityType
<1>4. QED
  BY <1>3 DEF Rank

LEMMA SortedPart ==
  ASSUME NEW l, NEW m, Part(l, m), Sorted(m)
  PROVE  Sorted(l)
  BY DEF Part, Sorted

-----------------------------------------------------------------------------
(* Pages *)

LEMMA MinOfTwo ==
  ASSUME NEW a \in Int, NEW b \in Int
  PROVE  Min({a, b}) = IF a <= b THEN a ELSE b
<1> DEFINE m == IF a <= b THEN a ELSE b
<1>1. m \in {a, b} /\ \A y \in {a, b} : m <= y
  OBVIOUS
<1>2. \A x \in {a, b} : (\A y \in {a, b} : x <= y) => x = m
  OBVIOUS
<1>3. QED
  BY <1>1, <1>2 DEF Min

LEMMA PagesCover ==
  ASSUME NEW n \in Nat, NEW k \in Nat
  PROVE  /\ Pages(n, Size) \in Nat
         /\ k >= Pages(n, Size) => k * Size >= n
         /\ k < Pages(n, Size) => k * Size < n
<1>1. Size \in Nat \ {0}
  BY SizeAssumption
<1>2. (n + Size - 1) \div Size \in Nat
  BY <1>1
<1>3. k < (n + Size - 1) \div Size => k * Size < n
  BY <1>1
<1>4. k >= (n + Size - 1) \div Size => k * Size >= n
  BY <1>1
<1>5. QED
  BY <1>2, <1>3, <1>4 DEF Pages

(* A part of a sequence. *)
LEMMA SubSeqIs ==
  ASSUME NEW S, NEW s \in Seq(S), NEW a \in Int, NEW b \in Int, a > 0, b <= Len(s)
  PROVE  /\ SubSeq(s, a, b) \in Seq(S)
         /\ Len(SubSeq(s, a, b)) = IF a <= b THEN b - a + 1 ELSE 0
         /\ \A i \in 1 .. b - a + 1 : SubSeq(s, a, b)[i] = s[a + i - 1]
<1>1. \A i \in a .. b : s[i] \in S
  OBVIOUS
<1>2. QED
  BY <1>1, SubSeqProperties

(* A page shows the rows of its places, as far as there are such rows. *)
LEMMA PageIs ==
  ASSUME NEW l, IsFiniteSet(l.of), NEW s \in Orders(l), NEW p \in Nat
  PROVE  LET page == PageOf(s, p + 1)
             n == Len(s)
         IN  /\ page \in Seq(l.of) /\ Len(page) \in Nat /\ DOMAIN page = 1 .. Len(page)
             /\ \A i \in 1 .. Len(page) : p * Size + i \in 1 .. n /\ page[i] = s[p * Size + i]
             /\ \A i \in 1 .. n : p * Size < i /\ i <= (p + 1) * Size =>
                    i - p * Size \in 1 .. Len(page)
             /\ p * Size <= n =>
                    p * Size + Len(page) = IF (p + 1) * Size <= n THEN (p + 1) * Size ELSE n
<1> DEFINE n == Len(s)
           lo == p * Size
           up == (p + 1) * Size
           hi == IF up <= n THEN up ELSE n
           page == PageOf(s, p + 1)
<1>1. /\ n \in Nat /\ s \in Seq(l.of) /\ s \in [1 .. n -> l.of]
  BY OrderIs
<1>2. lo \in Nat /\ up \in Nat /\ lo <= up
  <2>1. Size \in Nat
    BY SizeAssumption
  <2>2. up = lo + Size
    BY <2>1
  <2>3. lo \in Nat
    BY <2>1
  <2>4. QED
    BY <2>1, <2>2, <2>3
<1>3. page = SubSeq(s, lo + 1, hi)
  <2>1. page = SubSeq(s, ((p + 1) - 1) * Size + 1, Min({(p + 1) * Size, Len(s)}))
    BY DEF PageOf
  <2>2. (p + 1) - 1 = p
    OBVIOUS
  <2>3. Min({(p + 1) * Size, Len(s)}) = hi
    BY <1>1, <1>2, MinOfTwo
  <2>4. QED
    BY <2>1, <2>2, <2>3
<1> HIDE DEF page, n, lo, up
<1>4. hi \in Int /\ lo + 1 \in Int /\ hi <= n
  BY <1>1, <1>2
<1>5. \A i \in lo + 1 .. hi : s[i] \in l.of
  BY <1>1, <1>2, <1>4
<1> HIDE DEF hi
<1>6. /\ page \in Seq(l.of)
      /\ Len(page) = IF lo + 1 <= hi THEN hi - (lo + 1) + 1 ELSE 0
      /\ \A i \in 1 .. hi - (lo + 1) + 1 : page[i] = s[lo + 1 + i - 1]
  <2> DEFINE first == lo + 1
             S == l.of
  <2>1. first \in Int /\ hi \in Int /\ first > 0 /\ hi <= Len(s) /\ s \in Seq(S)
    BY <1>1, <1>2, <1>4 DEF n
  <2> HIDE DEF first, S
  <2>2. /\ SubSeq(s, first, hi) \in Seq(S)
        /\ Len(SubSeq(s, first, hi)) = IF first <= hi THEN hi - first + 1 ELSE 0
        /\ \A i \in 1 .. hi - first + 1 : SubSeq(s, first, hi)[i] = s[first + i - 1]
    BY <2>1, SubSeqIs
  <2>3. page = SubSeq(s, first, hi)
    BY <1>3 DEF first
  <2>4. /\ page \in Seq(l.of)
        /\ Len(page) = IF first <= hi THEN hi - first + 1 ELSE 0
        /\ \A i \in 1 .. hi - first + 1 : page[i] = s[first + i - 1]
    BY <2>2, <2>3 DEF S
  <2>5. QED
    BY <2>4 DEF first
<1>7. Len(page) \in Nat /\ DOMAIN page = 1 .. Len(page)
  BY <1>6
<1>8. ASSUME NEW i \in 1 .. Len(page) PROVE lo + i \in 1 .. n /\ page[i] = s[lo + i]
  <2>1. lo + 1 <= hi /\ Len(page) = hi - lo /\ i <= hi - lo /\ i \in Int /\ i >= 1
    BY <1>2, <1>4, <1>6, <1>7
  <2>2. i \in 1 .. hi - (lo + 1) + 1 /\ lo + 1 + i - 1 = lo + i
    BY <1>2, <1>4, <2>1
  <2>3. QED
    BY <1>1, <1>2, <1>4, <1>6, <2>1, <2>2
<1>9. ASSUME NEW i \in 1 .. n, lo < i, i <= up PROVE i - lo \in 1 .. Len(page)
  <2>1. i <= hi
    BY <1>1, <1>2, <1>9 DEF hi
  <2>2. QED
    BY <1>1, <1>2, <1>4, <1>6, <1>9, <2>1
<1>10. ASSUME lo <= n PROVE lo + Len(page) = hi
  <2>1. lo <= hi
    BY <1>1, <1>2, <1>10 DEF hi
  <2>2. QED
    BY <1>2, <1>4, <1>6, <2>1
<1>11. QED
  BY <1>6, <1>7, <1>8, <1>9, <1>10 DEF page, n, lo, up, hi

(* What a client has seen after one more page. *)
Seen(seen, page) == seen \o [i \in DOMAIN page |-> Identity(page[i])]

Adds(l, s, p, seen, more) ==
    /\ more \in Seq(Ids)
    /\ Len(more) = Len(seen) + Len(PageOf(s, p + 1))
    /\ ToSet(seen) \subseteq ToSet(more)
    /\ ToSet(more) \subseteq ToSet(seen) \cup Identities(l.of)
    /\ \A i \in 1 .. Len(s) : p * Size < i /\ i <= (p + 1) * Size => Identity(s[i]) \in ToSet(more)

LEMMA PageAdds ==
  ASSUME NEW l, ListOk(l), NEW s \in Orders(l), NEW p \in Nat, NEW seen \in Seq(Ids),
         NEW more, more = Seen(seen, PageOf(s, p + 1))
  PROVE  Adds(l, s, p, seen, more)
<1> DEFINE page == PageOf(s, p + 1)
           ids == [i \in DOMAIN page |-> Identity(page[i])]
           lo == p * Size
<1>1. /\ page \in Seq(l.of) /\ Len(page) \in Nat /\ DOMAIN page = 1 .. Len(page)
      /\ \A i \in 1 .. Len(page) : page[i] = s[lo + i]
      /\ \A i \in 1 .. Len(s) : lo < i /\ i <= (p + 1) * Size => i - lo \in 1 .. Len(page)
  BY PageIs DEF ListOk
<1>2. lo \in Nat /\ Len(s) \in Nat
  BY OrderIs, SizeAssumption DEF ListOk
<1> HIDE DEF page, lo
<1>3. /\ ids \in Seq(Ids) /\ Len(ids) = Len(page)
      /\ \A i \in 1 .. Len(page) : ids[i] = Identity(page[i])
  <2>1. \A i \in 1 .. Len(page) : Identity(page[i]) \in Ids
    BY <1>1 DEF ListOk
  <2>2. ids \in [1 .. Len(page) -> Ids]
    BY <1>1, <2>1
  <2>3. QED
    BY <1>1, <2>2
<1>4. more = seen \o ids
  BY DEF page, Seen
<1> HIDE DEF ids
<1>5. Len(seen) \in Nat /\ DOMAIN seen = 1 .. Len(seen)
  OBVIOUS
<1>6. /\ more \in Seq(Ids) /\ Len(more) = Len(seen) + Len(page)
      /\ DOMAIN more = 1 .. Len(seen) + Len(page)
      /\ \A i \in 1 .. Len(seen) + Len(page) :
             more[i] = IF i <= Len(seen) THEN seen[i] ELSE ids[i - Len(seen)]
  <2>1. /\ seen \o ids \in Seq(Ids) /\ Len(seen \o ids) = Len(seen) + Len(ids)
        /\ \A i \in 1 .. Len(seen) + Len(ids) :
               (seen \o ids)[i] = IF i <= Len(seen) THEN seen[i] ELSE ids[i - Len(seen)]
    BY <1>3, ConcatProperties
  <2>2. more \in Seq(Ids) /\ Len(more) = Len(seen) + Len(page)
    BY <1>3, <1>4, <2>1
  <2>3. QED
    BY <1>3, <1>4, <2>1, <2>2, LenProperties
<1>7. ToSet(seen) \subseteq ToSet(more)
  <2>1. SUFFICES ASSUME NEW i \in DOMAIN seen PROVE seen[i] \in ToSet(more)
    BY DEF ToSet
  <2>2. i \in DOMAIN more /\ more[i] = seen[i]
    BY <1>1, <1>5, <1>6
  <2>3. QED
    BY <2>2 DEF ToSet
<1>8. ASSUME NEW i \in 1 .. Len(page) PROVE Identity(page[i]) \in ToSet(more)
  <2>1. /\ Len(seen) + i \in 1 .. Len(seen) + Len(page) /\ ~(Len(seen) + i <= Len(seen))
        /\ Len(seen) + i - Len(seen) = i
    BY <1>1, <1>5
  <2> DEFINE k == Len(seen) + i
  <2>2. k \in 1 .. Len(seen) + Len(page) /\ ~(k <= Len(seen)) /\ k - Len(seen) = i
    BY <2>1
  <2> HIDE DEF k
  <2>3. more[k] = ids[i]
    BY <1>6, <2>2
  <2>4. more[k] = Identity(page[i])
    BY <1>3, <2>3
  <2>5. QED
    BY <1>6, <2>2, <2>4 DEF ToSet
<1>9. ToSet(more) \subseteq ToSet(seen) \cup Identities(l.of)
  <2>1. SUFFICES ASSUME NEW i \in DOMAIN more PROVE more[i] \in ToSet(seen) \cup Identities(l.of)
    BY DEF ToSet
  <2>2. CASE i <= Len(seen)
    <3>1. i \in DOMAIN seen /\ more[i] = seen[i]
      BY <1>1, <1>5, <1>6, <2>2
    <3>2. QED
      BY <3>1 DEF ToSet
  <2>3. CASE ~(i <= Len(seen))
    <3>1. i - Len(seen) \in 1 .. Len(page) /\ more[i] = ids[i - Len(seen)]
      <4>1. i \in 1 .. Len(seen) + Len(page)
        BY <1>6
      <4>2. more[i] = ids[i - Len(seen)]
        BY <1>6, <2>3, <4>1
      <4>3. i - Len(seen) \in 1 .. Len(page)
        BY <1>1, <1>5, <2>3, <4>1
      <4>4. QED
        BY <4>2, <4>3
    <3>2. more[i] = Identity(page[i - Len(seen)]) /\ page[i - Len(seen)] \in l.of
      BY <1>1, <1>3, <3>1
    <3>3. QED
      BY <3>2 DEF Identities
  <2>4. QED
    BY <2>2, <2>3
<1>10. ASSUME NEW i \in 1 .. Len(s), lo < i, i <= (p + 1) * Size PROVE Identity(s[i]) \in ToSet(more)
  <2>1. i - lo \in 1 .. Len(page) /\ page[i - lo] = s[lo + (i - lo)]
    BY <1>1, <1>10
  <2>2. lo + (i - lo) = i
    BY <1>2
  <2>3. QED
    BY <1>8, <2>1, <2>2
<1>11. QED
  BY <1>6, <1>7, <1>9, <1>10 DEF page, lo, Adds

-----------------------------------------------------------------------------
(* A client that reads a list to its end *)

(* Lists of tables that grow, or stay, keep their rows and keys. *)
LEMMA NamedParts ==
  ASSUME NEW T, NEW U, T.rows \subseteq U.rows, T.white \subseteq U.white, T.runs \subseteq U.runs,
         NEW name \in ListNames,
         name = "activeIps" => T.rows = U.rows /\ T.white = U.white
  PROVE  Part(Named(name, T), Named(name, U))
<1>1. Content(name, T) \subseteq Content(name, U)
  <2>1. Entries(T) \subseteq Entries(U)
    BY DEF Entries
  <2>2. name = "activeIps" => Enforced(T) = Enforced(U)
    BY DEF Enforced, Active, Exempted
  <2>3. QED
    BY <2>1, <2>2 DEF Content
<1> DEFINE C == Content(name, T)
           D == Content(name, U)
<1>2. Named(name, T).of = C /\ Named(name, T).key = [r \in C |-> SortKey(name, r)]
  BY NamedIs
<1>3. Named(name, U).of = D /\ Named(name, U).key = [r \in D |-> SortKey(name, r)]
  BY NamedIs
<1>4. C \subseteq D
  BY <1>1
<1> HIDE DEF C, D
<1>5. QED
  BY <1>2, <1>3, <1>4 DEF Part

LEMMA NamedSame ==
  ASSUME NEW T, NEW U, T.rows = U.rows, T.white = U.white, T.runs = U.runs, NEW name \in ListNames
  PROVE  Part(Named(name, T), Named(name, U)) /\ Named(name, T).of = Named(name, U).of
<1>1. Content(name, T) = Content(name, U)
  BY DEF Content, Entries, Enforced, Active, Exempted
<1>2. Named(name, T).of = Content(name, T) /\ Named(name, U).of = Content(name, U)
  BY NamedIs
<1>3. Part(Named(name, T), Named(name, U))
  BY NamedParts
<1>4. QED
  BY <1>1, <1>2, <1>3

(* A client between two of its requests, or between the two statements of one. *)
Fields == {"list", "page", "pages", "seen", "disturbed", "start", "half", "total", "got", "torn"}

HasFields(w) == w = [f \in Fields |-> w[f]]

WalkFields(w) ==
    /\ HasFields(w)
    /\ w.list \in ListNames /\ w.page \in Nat /\ w.pages \in Nat
    /\ w.disturbed \in {"no", "insert", "other"}
    /\ w.seen \in Seq(Ids) /\ w.got \in Seq(Ids)
    /\ w.half \in BOOLEAN /\ w.total \in Nat /\ w.torn \in Nat
    /\ w.half => w.page < w.pages

(* The fields but for the one with a truth value, which the solvers take by itself. *)
LEMMA FieldsOk ==
  ASSUME NEW w, HasFields(w), w.list \in ListNames, w.page \in Nat, w.pages \in Nat,
         w.disturbed \in {"no", "insert", "other"}, w.seen \in Seq(Ids), w.got \in Seq(Ids),
         w.half = FALSE \/ (w.half = TRUE /\ w.page < w.pages), w.total \in Nat, w.torn \in Nat
  PROVE  WalkFields(w)
<1>1. w.half \in BOOLEAN
  OBVIOUS
<1>2. w.half => w.page < w.pages
  OBVIOUS
<1>3. QED
  BY <1>1, <1>2 DEF WalkFields

Kept(w) == w.disturbed = "no" \/ (w.disturbed = "insert" /\ w.list # "activeIps")

RowsRead(w)  == w.half /\ ~CountsFirst(w.list)
RowsCounted(w) == w.half /\ CountsFirst(w.list)

(* `more` has what was there at the start and is on the next page or before it. *)
Reached(l, w, more) ==
    Sorted(l) => \A r \in l.of : Identity(r) \in w.start /\ Rank(l, r) <= (w.page + 1) * Size =>
                     Identity(r) \in ToSet(more)

(* What was there at the start still is, and what the pages read so far      *)
(* reach to has been seen: a row that was pushed back is at a later place.   *)
(* At the end no more is missing than a count taken too early has left out.  *)
Shown(l, w) ==
    /\ w.start \subseteq Identities(l.of)
    /\ Sorted(l) =>
           /\ \A r \in l.of : Identity(r) \in w.start /\ Rank(l, r) <= w.page * Size =>
                  Identity(r) \in ToSet(w.seen)
           /\ w.page >= w.pages =>
                  /\ Cardinality(w.start \ ToSet(w.seen)) <= w.torn
                  /\ ~CountsFirst(w.list) => w.start \subseteq ToSet(w.seen)
    /\ RowsRead(w) => Reached(l, w, w.seen \o w.got)

(* A count falls behind by the rows that came in since. *)
Tallied(l, w) == RowsCounted(w) => Cardinality(l.of) <= w.total + w.torn

Filled(l, w, more) ==
    /\ ToSet(more) \subseteq w.start
    /\ Len(more) = IF (w.page + 1) * Size <= Cardinality(l.of) THEN (w.page + 1) * Size
                   ELSE Cardinality(l.of)

(* While nobody writes the pages are as many as the rows fill, and each    *)
(* place of them has been shown once.                                      *)
Quiet(l, w) ==
    /\ w.start = Identities(l.of)
    /\ ToSet(w.seen) \subseteq w.start
    /\ w.page > 0 => w.pages = Pages(Cardinality(l.of), Size)
    /\ w.page = 0 => w.pages = 1
    /\ Len(w.seen) = IF w.page * Size <= Cardinality(l.of) THEN w.page * Size
                     ELSE Cardinality(l.of)
    /\ RowsCounted(w) => w.total = Cardinality(l.of)
    /\ RowsRead(w) => Filled(l, w, w.seen \o w.got)
    /\ w.torn = 0

WalkGood(l, w) ==
    /\ WalkFields(w)
    /\ Kept(w) => Shown(l, w) /\ Tallied(l, w)
    /\ w.disturbed = "no" => Quiet(l, w)

WalkOk(w, T) == WalkGood(Named(w.list, T), w)

WalkInv == walk # None => WalkOk(walk, db)

LEMMA ShownGrows ==
  ASSUME NEW l, NEW m, ListOk(m), Part(l, m), NEW w, Shown(l, w), WalkFields(w)
  PROVE  Shown(m, w)
<1>1. w.start \subseteq Identities(l.of) /\ Identities(l.of) \subseteq Identities(m.of)
  BY DEF Shown, Identities, Part
<1>2. ASSUME Sorted(m) PROVE Sorted(l)
  BY <1>2, SortedPart
<1>3. ASSUME NEW r \in m.of, Identity(r) \in w.start, NEW k \in Nat, Rank(m, r) <= k
      PROVE  r \in l.of /\ Rank(l, r) <= k
  <2>1. PICK q \in l.of : Identity(q) = Identity(r)
    BY <1>1, <1>3 DEF Identities
  <2>2. q = r
    BY <1>3, <2>1 DEF Part, ListOk
  <2>3. Rank(l, r) <= Rank(m, r) /\ Rank(l, r) \in Nat /\ Rank(m, r) \in Nat
    BY <2>1, <2>2, RankGrows DEF ListOk
  <2>4. QED
    BY <1>3, <2>1, <2>2, <2>3
<1>4. w.page * Size \in Nat /\ (w.page + 1) * Size \in Nat
  <2>1. Size \in Nat /\ w.page \in Nat
    BY SizeAssumption DEF WalkFields
  <2>2. QED
    BY <2>1
<1>5. ASSUME Sorted(m), NEW r \in m.of, Identity(r) \in w.start, Rank(m, r) <= w.page * Size
      PROVE  Identity(r) \in ToSet(w.seen)
  BY <1>2, <1>3, <1>4, <1>5 DEF Shown
<1>6. ASSUME RowsRead(w) PROVE Reached(m, w, w.seen \o w.got)
  <2> DEFINE more == w.seen \o w.got
  <2>1. Reached(l, w, more)
    BY <1>6 DEF Shown
  <2> HIDE DEF more
  <2>2. Reached(m, w, more)
    BY <1>2, <1>3, <1>4, <2>1 DEF Reached
  <2>3. QED
    BY <2>2 DEF more
<1>7. QED
  BY <1>1, <1>2, <1>5, <1>6 DEF Shown

(* One more row of a table is at most one more of a list. *)
OneMore(T, U) ==
    \E x : \/ U.rows = T.rows \cup {x} /\ U.white = T.white /\ U.runs = T.runs
           \/ U.rows = T.rows /\ U.white = T.white \cup {x} /\ U.runs = T.runs
           \/ U.rows = T.rows /\ U.white = T.white /\ U.runs = T.runs \cup {x}

LEMMA ContentOneMore ==
  ASSUME NEW T, NEW U, OneMore(T, U), NEW name \in ListNames, name # "activeIps"
  PROVE  \E y : Content(name, U) \subseteq Content(name, T) \cup {y}
<1>1. PICK x : \/ U.rows = T.rows \cup {x} /\ U.white = T.white /\ U.runs = T.runs
               \/ U.rows = T.rows /\ U.white = T.white \cup {x} /\ U.runs = T.runs
               \/ U.rows = T.rows /\ U.white = T.white /\ U.runs = T.runs \cup {x}
  BY DEF OneMore
<1>2. \E y : Entries(U) \subseteq Entries(T) \cup {y}
  <2> DEFINE b(r) == [type |-> "blacklist", id |-> r.id, ip |-> r.ip, active |-> r.active,
                      source |-> r.source, created |-> r.created]
             v(r) == [type |-> "whitelist", id |-> r.id, ip |-> r.ip, active |-> TRUE,
                      source |-> r.source, created |-> r.created]
             B(S) == {b(r) : r \in S}
             V(S) == {v(r) : r \in S}
  <2>1. Entries(T) = B(T.rows) \cup V(T.white) /\ Entries(U) = B(U.rows) \cup V(U.white)
    BY DEF Entries
  <2>2. \A S : B(S \cup {x}) \subseteq B(S) \cup {b(x)} /\ V(S \cup {x}) \subseteq V(S) \cup {v(x)}
    OBVIOUS
  <2> HIDE DEF b, v
  <2>3. CASE U.rows = T.rows \cup {x} /\ U.white = T.white
    BY <2>1, <2>2, <2>3
  <2>4. CASE U.rows = T.rows /\ U.white = T.white \cup {x}
    BY <2>1, <2>2, <2>4
  <2>5. CASE U.rows = T.rows /\ U.white = T.white
    BY <2>1, <2>5
  <2>6. QED
    BY <1>1, <2>3, <2>4, <2>5
<1>3. QED
  BY <1>1, <1>2 DEF Content

LEMMA CountOneMore ==
  ASSUME NEW T, NEW U, OneMore(T, U), NEW name \in ListNames, name # "activeIps",
         IsFiniteSet(Named(name, T).of), IsFiniteSet(Named(name, U).of)
  PROVE  Cardinality(Named(name, U).of) <= Cardinality(Named(name, T).of) + 1
<1> DEFINE C == Content(name, T)
           D == Content(name, U)
<1>1. Named(name, T).of = C /\ Named(name, U).of = D
  BY NamedIs
<1>2. PICK y : D \subseteq C \cup {y}
  BY ContentOneMore
<1> HIDE DEF C, D
<1>3. IsFiniteSet(C) /\ IsFiniteSet(D)
  BY <1>1
<1>4. Cardinality(C) \in Nat /\ Cardinality(D) \in Nat
  BY <1>3, FS_CardinalityType
<1>5. IsFiniteSet(C \cup {y}) /\ Cardinality(C \cup {y}) <= Cardinality(C) + 1
      /\ Cardinality(C \cup {y}) \in Nat
  <2>1. /\ IsFiniteSet(C \cup {y})
        /\ Cardinality(C \cup {y}) = IF y \in C THEN Cardinality(C) ELSE Cardinality(C) + 1
    BY <1>3, FS_AddElement
  <2> DEFINE c == Cardinality(C)
             d == Cardinality(C \cup {y})
  <2>2. c \in Nat /\ d = IF y \in C THEN c ELSE c + 1
    BY <1>4, <2>1
  <2> HIDE DEF c, d
  <2>3. d <= c + 1 /\ d \in Nat
    BY <2>2
  <2>4. QED
    BY <2>1, <2>3 DEF c, d
<1>6. Cardinality(D) <= Cardinality(C \cup {y})
  BY <1>2, <1>5, FS_Subset
<1>7. QED
  BY <1>1, <1>4, <1>5, <1>6

(* A write changes of the walk only what it is disturbed by. *)
LEMMA DisturbKeeps ==
  ASSUME WalkInv, TablesInv, TablesInv', NEW kind, Disturb(kind),
         kind = "insert" => OneMore(db, db')
  PROVE  WalkInv'
<1> SUFFICES ASSUME walk' # None PROVE WalkOk(walk', db')
  BY DEF WalkInv
<1> DEFINE seenAs == IF kind = "insert" /\ walk.disturbed # "other" THEN "insert" ELSE "other"
           torn == IF walk.half THEN walk.torn + 1 ELSE walk.torn
           name == walk.list
           l == Named(name, db)
           m == Named(name, db')
           x == walk'
<1>1. walk # None /\ x = [walk EXCEPT !.disturbed = seenAs, !.torn = torn]
  BY DEF Disturb
<1>2. WalkOk(walk, db)
  BY <1>1 DEF WalkInv
<1>3. WalkFields(walk) /\ name \in ListNames
  BY <1>2 DEF WalkOk, WalkGood, WalkFields
<1>4. /\ HasFields(x) /\ x.disturbed = seenAs /\ x.torn = torn
      /\ x.list = walk.list /\ x.page = walk.page /\ x.pages = walk.pages
      /\ x.seen = walk.seen /\ x.start = walk.start
      /\ x.half = walk.half /\ x.total = walk.total /\ x.got = walk.got
  <2> HIDE DEF x, torn, seenAs
  <2>1. QED
    BY <1>1, <1>3 DEF WalkFields, Fields, HasFields
<1>5. torn \in Nat /\ seenAs \in {"insert", "other"} /\ torn >= walk.torn
      /\ (walk.half => torn = walk.torn + 1)
      /\ (~walk.half => torn = walk.torn)
  BY <1>3 DEF WalkFields
<1> HIDE DEF x, torn
<1>6. WalkFields(x)
  BY <1>3, <1>4, <1>5 DEF WalkFields
<1>7. ASSUME Kept(x) PROVE Shown(m, x) /\ Tallied(m, x)
  <2>1. kind = "insert" /\ walk.disturbed # "other" /\ name # "activeIps"
    BY <1>4, <1>7 DEF Kept
  <2>2. Shown(l, walk) /\ Tallied(l, walk)
    BY <1>2, <1>3, <2>1 DEF WalkOk, WalkGood, WalkFields, Kept
  <2>3. OneMore(db, db') /\ Part(l, m)
    <3>1. OneMore(db, db')
      BY <2>1
    <3>2. db.rows \subseteq db'.rows /\ db.white \subseteq db'.white /\ db.runs \subseteq db'.runs
      BY <3>1 DEF OneMore
    <3>3. QED
      BY <1>3, <2>1, <3>1, <3>2, NamedParts
  <2>4. ListOk(l) /\ ListOk(m)
    BY <1>3, NamedIsOk, NamedStaysOk
  <2>5. Cardinality(m.of) <= Cardinality(l.of) + 1
    BY <1>3, <2>1, <2>3, <2>4, CountOneMore DEF ListOk
  <2>6. Cardinality(m.of) \in Nat /\ Cardinality(l.of) \in Nat
    BY <2>4, FS_CardinalityType DEF ListOk
  <2> HIDE DEF l, m
  <2>7. Shown(m, walk)
    BY <1>3, <2>2, <2>3, <2>4, ShownGrows
  <2>8. Shown(m, x)
    <3>1. walk.page >= walk.pages => ~walk.half
      BY <1>3 DEF WalkFields
    <3>2. RowsRead(x) = RowsRead(walk)
      BY <1>4 DEF RowsRead
    <3>3. RowsRead(x) => Reached(m, x, x.seen \o x.got)
      BY <1>4, <2>7, <3>2 DEF Shown, Reached
    <3>4. QED
      BY <1>4, <1>5, <2>7, <3>1, <3>3 DEF Shown
  <2>9. Tallied(m, x)
    <3>1. ASSUME RowsCounted(x) PROVE Cardinality(m.of) <= x.total + x.torn
      <4>1. RowsCounted(walk) /\ x.torn = walk.torn + 1 /\ x.total = walk.total
        BY <1>4, <1>5, <3>1 DEF RowsCounted
      <4>2. Cardinality(l.of) <= walk.total + walk.torn /\ walk.total \in Nat /\ walk.torn \in Nat
        BY <1>3, <2>2, <4>1 DEF Tallied, WalkFields
      <4>3. QED
        BY <2>5, <2>6, <4>1, <4>2
    <3>2. QED
      BY <3>1 DEF Tallied
  <2>10. QED
    BY <2>8, <2>9
<1>8. x.disturbed # "no"
  BY <1>4, <1>5
<1>9. WalkGood(m, x) /\ x.list = name
  BY <1>4, <1>6, <1>7, <1>8 DEF WalkGood
<1>10. QED
  BY <1>9 DEF WalkOk, m, x

LEMMA StillKeeps ==
  ASSUME WalkInv, TablesInv', walk' = walk,
         db'.rows = db.rows, db'.white = db.white, db'.runs = db.runs
  PROVE  WalkInv'
<1> SUFFICES ASSUME walk # None PROVE WalkOk(walk, db')
  BY DEF WalkInv
<1> DEFINE l == Named(walk.list, db)
           m == Named(walk.list, db')
<1>1. WalkOk(walk, db)
  BY DEF WalkInv
<1>2. walk.list \in ListNames /\ WalkFields(walk)
  BY <1>1 DEF WalkOk, WalkGood, WalkFields
<1>3. Part(l, m) /\ l.of = m.of /\ ListOk(m)
  BY <1>2, NamedSame, NamedStaysOk
<1>4. WalkGood(l, walk)
  BY <1>1 DEF WalkOk
<1> HIDE DEF l, m
<1>5. Kept(walk) => Shown(m, walk) /\ Tallied(m, walk)
  <2>1. Kept(walk) => Shown(m, walk)
    BY <1>2, <1>3, <1>4, ShownGrows DEF WalkGood
  <2>2. Kept(walk) => Tallied(m, walk)
    BY <1>3, <1>4 DEF WalkGood, Tallied
  <2>3. QED
    BY <2>1, <2>2
<1>6. walk.disturbed = "no" => Quiet(m, walk)
  BY <1>3, <1>4 DEF WalkGood, Quiet, Filled
<1>7. QED
  BY <1>2, <1>5, <1>6 DEF WalkOk, WalkGood, m

LEMMA StartKeeps ==
  ASSUME TablesInv, NEW name \in ListNames, StartWalk(name)
  PROVE  WalkInv'
<1> DEFINE l == Named(name, db)
           w == [list |-> name, page |-> 0, pages |-> 1, seen |-> <<>>, disturbed |-> "no",
                 start |-> Identities(l.of),
                 half |-> FALSE, total |-> 0, got |-> <<>>, torn |-> 0]
<1>1. walk' = w /\ db' = db
  BY DEF StartWalk, tables
<1>2. WalkFields(w)
  BY DEF WalkFields, Fields, HasFields
<1>3. ListOk(l)
  BY NamedIsOk
<1>4. ToSet(w.seen) = {} /\ Len(w.seen) = 0
  BY DEF ToSet
<1>5. /\ w.list = name /\ w.page = 0 /\ w.pages = 1 /\ w.start = Identities(l.of)
      /\ w.half = FALSE /\ w.torn = 0
  OBVIOUS
<1>6. 0 * Size = 0 /\ Cardinality(l.of) \in Nat
  BY <1>3, SizeAssumption, FS_CardinalityType DEF ListOk
<1>7. ~RowsRead(w) /\ ~RowsCounted(w)
  BY <1>5 DEF RowsRead, RowsCounted
<1> HIDE DEF w, l
<1>8. Shown(l, w) /\ Tallied(l, w)
  <2>1. \A r \in l.of : ~(Rank(l, r) <= w.page * Size)
    BY <1>3, <1>5, <1>6, RankIsPositive DEF ListOk
  <2>2. QED
    BY <1>5, <1>7, <2>1 DEF Shown, Tallied
<1>9. Quiet(l, w)
  BY <1>4, <1>5, <1>6, <1>7 DEF Quiet
<1>10. WalkOk(w, db)
  BY <1>2, <1>5, <1>8, <1>9 DEF WalkOk, WalkGood, l
<1>11. QED
  BY <1>1, <1>10 DEF WalkInv

(* The rows of a page, whether they are read first or last. *)
LEMMA PageReads ==
  ASSUME NEW l, ListOk(l), NEW s \in Orders(l), NEW w, WalkFields(w), w.page < w.pages,
         NEW more, more = Seen(w.seen, PageOf(s, w.page + 1))
  PROVE  /\ more \in Seq(Ids)
         /\ Shown(l, w) => Reached(l, w, more)
         /\ Quiet(l, w) => Filled(l, w, more)
<1> DEFINE p == w.page
           n == Len(s)
           q == w.seen
           page == PageOf(s, p + 1)
<1>1. p \in Nat /\ w.pages \in Nat /\ q \in Seq(Ids)
  BY DEF WalkFields
<1>2. /\ n \in Nat /\ n = Cardinality(l.of) /\ s \in [1 .. n -> l.of]
      /\ \A r \in l.of : \E i \in 1 .. n : s[i] = r
  BY OrderIs DEF ListOk
<1>0. more = Seen(q, PageOf(s, p + 1))
  OBVIOUS
<1>4. Len(page) \in Nat /\ (p * Size <= n =>
         p * Size + Len(page) = IF (p + 1) * Size <= n THEN (p + 1) * Size ELSE n)
  BY <1>1, PageIs DEF ListOk
<1> HIDE DEF p, q, page, n
<1>3. /\ more \in Seq(Ids)
      /\ Len(more) = Len(q) + Len(page)
      /\ ToSet(q) \subseteq ToSet(more)
      /\ ToSet(more) \subseteq ToSet(q) \cup Identities(l.of)
      /\ \A i \in 1 .. n : p * Size < i /\ i <= (p + 1) * Size => Identity(s[i]) \in ToSet(more)
  <2>1. Adds(l, s, p, q, more)
    BY <1>0, <1>1, PageAdds
  <2>2. QED
    BY <2>1 DEF page, n, Adds
<1>8. p * Size \in Nat /\ (p + 1) * Size \in Nat /\ (p + 1) * Size >= p * Size
  <2>1. Size \in Nat
    BY SizeAssumption
  <2>2. QED
    BY <1>1, <2>1
<1>9. ASSUME Shown(l, w) PROVE Reached(l, w, more)
  <2>3. ASSUME Sorted(l), NEW r \in l.of, Identity(r) \in w.start, Rank(l, r) <= (p + 1) * Size
        PROVE  Identity(r) \in ToSet(more)
    <3>1. PICK i \in 1 .. n : s[i] = r
      BY <1>2
    <3>2. Rank(l, r) = i
      BY <2>3, <3>1, RankIsPlace DEF n
    <3>3. CASE i <= p * Size
      <4>1. Identity(r) \in ToSet(q)
        BY <1>9, <2>3, <3>2, <3>3 DEF Shown, p, q
      <4>2. QED
        BY <1>3, <4>1
    <3>4. CASE ~(i <= p * Size)
      BY <1>3, <1>8, <2>3, <3>1, <3>2, <3>4
    <3>5. QED
      BY <3>3, <3>4
  <2>4. QED
    BY <2>3 DEF Reached, p
<1>10. ASSUME Quiet(l, w) PROVE Filled(l, w, more)
  <2>2. ToSet(more) \subseteq w.start
    BY <1>3, <1>10 DEF Quiet, q
  <2>3. p * Size <= n
    <3>1. CASE p = 0
      BY <1>2, <3>1, SizeAssumption
    <3>2. CASE p > 0
      <4>1. p < Pages(n, Size)
        BY <1>2, <1>10, <3>2 DEF Quiet, p
      <4>2. QED
        BY <1>1, <1>2, <1>8, <4>1, PagesCover
    <3>3. QED
      BY <1>1, <3>1, <3>2
  <2>4. Len(q) = p * Size
    BY <1>2, <1>10, <2>3 DEF Quiet, p, q
  <2>5. Len(more) = IF (p + 1) * Size <= n THEN (p + 1) * Size ELSE n
    BY <1>3, <1>4, <2>3, <2>4
  <2>6. QED
    BY <1>2, <2>2, <2>5 DEF Filled, p
<1>11. QED
  BY <1>3, <1>9, <1>10

(* The rows behind a place of an order are as many as it has places there. *)
LEMMA RowsBehind ==
  ASSUME NEW l, ListOk(l), NEW s \in Orders(l), NEW k \in Nat, NEW S,
         S \subseteq Identities(l.of),
         \A i \in 1 .. Len(s) : Identity(s[i]) \in S => i > k
  PROVE  /\ IsFiniteSet(S)
         /\ Cardinality(S) <= IF k <= Len(s) THEN Len(s) - k ELSE 0
<1> DEFINE n == Len(s)
           I == {i \in 1 .. n : Identity(s[i]) \in S}
           f == [i \in I |-> Identity(s[i])]
<1>1. n \in Nat /\ s \in [1 .. n -> l.of] /\ \A r \in l.of : \E i \in 1 .. n : s[i] = r
  BY OrderIs DEF ListOk
<1>2. f \in Surjection(I, S)
  <2>1. f \in [I -> S]
    OBVIOUS
  <2>2. ASSUME NEW id \in S PROVE \E i \in I : f[i] = id
    <3>1. PICK r \in l.of : Identity(r) = id
      BY DEF Identities
    <3>2. PICK i \in 1 .. n : s[i] = r
      BY <1>1
    <3>3. QED
      BY <3>1, <3>2
  <2> HIDE DEF f, I
  <2>3. QED
    BY <2>1, <2>2 DEF Surjection
<1>3. I \subseteq k + 1 .. n
  BY <1>1
<1>4. /\ IsFiniteSet(k + 1 .. n)
      /\ Cardinality(k + 1 .. n) = IF k + 1 > n THEN 0 ELSE n - (k + 1) + 1
  <2> DEFINE a == k + 1
  <2>1. a \in Int /\ n \in Int
    BY <1>1
  <2> HIDE DEF a, n
  <2>2. /\ IsFiniteSet(a .. n)
        /\ Cardinality(a .. n) = IF a > n THEN 0 ELSE n - a + 1
    BY <2>1, FS_Interval
  <2>3. QED
    BY <2>2 DEF a
<1> HIDE DEF f, I, n
<1>5. IsFiniteSet(I) /\ Cardinality(I) <= Cardinality(k + 1 .. n)
  BY <1>3, <1>4, FS_Subset
<1>6. IsFiniteSet(S) /\ Cardinality(S) <= Cardinality(I)
  BY <1>2, <1>5, FS_Surjection
<1>7. Cardinality(I) \in Nat /\ Cardinality(S) \in Nat
  BY <1>5, <1>6, FS_CardinalityType
<1>8. Cardinality(k + 1 .. n) = IF k <= n THEN n - k ELSE 0
  BY <1>1, <1>4
<1>9. Cardinality(S) <= IF k <= n THEN n - k ELSE 0
  BY <1>1, <1>5, <1>6, <1>7, <1>8
<1>10. QED
  BY <1>6, <1>9 DEF n

(* The second statement of a request: `more` is what the client has seen with *)
(* its rows, `total` what it counts.                                          *)
Ends(w, x, more, total) ==
    /\ HasFields(x)
    /\ x.page = w.page + 1 /\ x.pages = Pages(total, Size) /\ x.seen = more
    /\ x.list = w.list /\ x.disturbed = w.disturbed /\ x.start = w.start
    /\ x.half = FALSE /\ x.total = 0 /\ x.got = <<>> /\ x.torn = w.torn

LEMMA PageEnds ==
  ASSUME NEW l, ListOk(l), NEW s \in Orders(l), NEW w, WalkGood(l, w), w.page < w.pages,
         NEW more \in Seq(Ids), NEW total \in Nat, NEW x, Ends(w, x, more, total),
         Kept(w) => /\ Reached(l, w, more)
                    /\ Cardinality(l.of) <= total + IF CountsFirst(w.list) THEN w.torn ELSE 0,
         w.disturbed = "no" => Filled(l, w, more) /\ total = Cardinality(l.of)
  PROVE  WalkGood(l, x)
<1> DEFINE n == Len(s)
           p == w.page
           k == (p + 1) * Size
           lost == w.start \ ToSet(more)
<1>1. /\ WalkFields(w) /\ p \in Nat /\ w.list \in ListNames /\ w.torn \in Nat
      /\ w.disturbed \in {"no", "insert", "other"}
  BY DEF WalkGood, WalkFields
<1>2. n \in Nat /\ n = Cardinality(l.of) /\ s \in [1 .. n -> l.of]
      /\ \A r \in l.of : \E i \in 1 .. n : s[i] = r
  BY OrderIs DEF ListOk
<1>3. /\ HasFields(x)
      /\ x.page = p + 1 /\ x.pages = Pages(total, Size) /\ x.seen = more
      /\ x.list = w.list /\ x.disturbed = w.disturbed /\ x.start = w.start
      /\ x.half = FALSE /\ x.total = 0 /\ x.got = <<>> /\ x.torn = w.torn
  BY DEF Ends
<1>4. Pages(total, Size) \in Nat /\ p + 1 \in Nat
  BY <1>1, PagesCover
<1>5. WalkFields(x)
  <2>1. <<>> \in Seq(Ids)
    OBVIOUS
  <2>2. /\ x.list \in ListNames /\ x.page \in Nat /\ x.pages \in Nat
        /\ x.disturbed \in {"no", "insert", "other"} /\ x.seen \in Seq(Ids)
        /\ x.got \in Seq(Ids) /\ x.total \in Nat /\ x.torn \in Nat
    BY <1>1, <1>3, <1>4, <2>1
  <2>3. QED
    BY <1>3, <2>2, FieldsOk
<1>6. ~RowsRead(x) /\ ~RowsCounted(x)
  BY <1>3 DEF RowsRead, RowsCounted
<1>7. k \in Nat
  BY <1>1, SizeAssumption
<1>8. x.page >= x.pages => k >= total
  BY <1>3, <1>4, PagesCover
<1> HIDE DEF p, n, k
<1>9. ASSUME Kept(x) PROVE Shown(l, x)
  <2>1. Kept(w)
    BY <1>3, <1>9 DEF Kept
  <2>2. Shown(l, w) /\ Reached(l, w, more)
    BY <2>1 DEF WalkGood
  <2>3. x.start \subseteq Identities(l.of)
    BY <1>3, <2>2 DEF Shown
  <2>4. ASSUME Sorted(l), NEW r \in l.of, Identity(r) \in w.start, Rank(l, r) <= k
        PROVE  Identity(r) \in ToSet(more)
    BY <2>2, <2>4 DEF Reached, k, p
  <2>5. ASSUME Sorted(l), x.page >= x.pages
        PROVE  /\ Cardinality(lost) <= w.torn
               /\ ~CountsFirst(w.list) => lost = {}
    <3>1. lost \subseteq Identities(l.of)
      BY <1>3, <2>3
    <3>2. ASSUME NEW i \in 1 .. n, Identity(s[i]) \in lost PROVE i > k
      <4>1. Rank(l, s[i]) = i /\ s[i] \in l.of
        BY <1>2, <2>5, RankIsPlace DEF n
      <4>2. ~(Rank(l, s[i]) <= k)
        BY <2>4, <2>5, <3>2, <4>1
      <4>3. QED
        BY <1>2, <1>7, <4>1, <4>2
    <3> HIDE DEF lost
    <3>3. IsFiniteSet(lost) /\ Cardinality(lost) <= IF k <= n THEN n - k ELSE 0
      BY <1>7, <3>1, <3>2, RowsBehind DEF n
    <3>4. Cardinality(lost) \in Nat
      BY <3>3, FS_CardinalityType
    <3>5. n <= total + IF CountsFirst(w.list) THEN w.torn ELSE 0
      BY <1>2, <2>1
    <3>6. k >= total
      BY <1>8, <2>5
    <3>7. CASE CountsFirst(w.list)
      BY <1>1, <1>2, <1>7, <3>3, <3>4, <3>5, <3>6, <3>7
    <3>8. CASE ~CountsFirst(w.list)
      <4>1. n <= total
        BY <3>5, <3>8
      <4>2. Cardinality(lost) = 0
        BY <1>2, <1>7, <3>3, <3>4, <3>6, <4>1
      <4>3. QED
        BY <1>1, <3>3, <4>2, FS_EmptySet
    <3>9. QED
      BY <3>7, <3>8
  <2>6. Sorted(l) => \A r \in l.of : Identity(r) \in x.start /\ Rank(l, r) <= x.page * Size =>
                         Identity(r) \in ToSet(x.seen)
    BY <1>3, <2>4 DEF k
  <2>7. ASSUME Sorted(l), x.page >= x.pages
        PROVE  /\ Cardinality(x.start \ ToSet(x.seen)) <= x.torn
               /\ ~CountsFirst(x.list) => x.start \subseteq ToSet(x.seen)
    BY <1>3, <2>5, <2>7
  <2>8. QED
    BY <1>6, <2>3, <2>6, <2>7 DEF Shown
<1>10. ASSUME x.disturbed = "no" PROVE Quiet(l, x)
  <2>1. Quiet(l, w) /\ Filled(l, w, more) /\ total = n
    BY <1>2, <1>3, <1>10 DEF WalkGood
  <2>2. x.start = Identities(l.of) /\ x.torn = 0
    BY <1>3, <2>1 DEF Quiet
  <2>3. /\ ToSet(x.seen) \subseteq x.start
        /\ Len(x.seen) = IF x.page * Size <= n THEN x.page * Size ELSE n
    BY <1>2, <1>3, <2>1 DEF Filled, p
  <2>4. x.page # 0 /\ x.pages = Pages(n, Size)
    BY <1>1, <1>3, <2>1
  <2>5. QED
    BY <1>2, <1>6, <2>2, <2>3, <2>4 DEF Quiet
<1>11. Tallied(l, x)
  BY <1>6 DEF Tallied
<1>12. QED
  BY <1>5, <1>9, <1>10, <1>11 DEF WalkGood

(* The first statement of a request. *)
Begins(w, x) ==
    /\ HasFields(x)
    /\ x.page = w.page /\ x.pages = w.pages /\ x.seen = w.seen
    /\ x.list = w.list /\ x.disturbed = w.disturbed /\ x.start = w.start
    /\ x.half = TRUE /\ x.torn = 0

LEMMA PageBegins ==
  ASSUME NEW l, ListOk(l), NEW w, WalkGood(l, w), w.page < w.pages, NEW x, Begins(w, x),
         x.total \in Nat, x.got \in Seq(Ids),
         CountsFirst(w.list) => x.total = Cardinality(l.of),
         ~CountsFirst(w.list) => /\ Shown(l, w) => Reached(l, w, w.seen \o x.got)
                                 /\ Quiet(l, w) => Filled(l, w, w.seen \o x.got)
  PROVE  WalkGood(l, x)
<1>1. /\ HasFields(x)
      /\ x.page = w.page /\ x.pages = w.pages /\ x.seen = w.seen
      /\ x.list = w.list /\ x.disturbed = w.disturbed /\ x.start = w.start
      /\ x.half = TRUE /\ x.torn = 0
  BY DEF Begins
<1>2. WalkFields(w)
  BY DEF WalkGood
<1>3. WalkFields(x)
  <2>1. /\ x.list \in ListNames /\ x.page \in Nat /\ x.pages \in Nat /\ x.page < x.pages
        /\ x.disturbed \in {"no", "insert", "other"} /\ x.seen \in Seq(Ids)
        /\ x.got \in Seq(Ids) /\ x.total \in Nat /\ x.torn \in Nat
    BY <1>1, <1>2 DEF WalkFields
  <2>2. QED
    BY <1>1, <2>1, FieldsOk
<1>4. Cardinality(l.of) \in Nat
  BY FS_CardinalityType DEF ListOk
<1>5. ~(x.page >= x.pages)
  BY <1>1, <1>2 DEF WalkFields
<1>6. /\ RowsRead(x) => ~CountsFirst(w.list)
      /\ RowsCounted(x) => CountsFirst(w.list)
  BY <1>1 DEF RowsRead, RowsCounted
<1> DEFINE more == w.seen \o x.got
<1>7. /\ Reached(l, x, x.seen \o x.got) = Reached(l, w, more)
      /\ Filled(l, x, x.seen \o x.got) = Filled(l, w, more)
  BY <1>1 DEF Reached, Filled
<1>8. ASSUME Kept(x) PROVE Shown(l, x) /\ Tallied(l, x)
  <2>1. Shown(l, w)
    BY <1>1, <1>8 DEF Kept, WalkGood
  <2>2. RowsRead(x) => Reached(l, x, x.seen \o x.got)
    BY <1>6, <1>7, <2>1
  <2>3. Shown(l, x)
    BY <1>1, <1>5, <2>1, <2>2 DEF Shown
  <2>4. Tallied(l, x)
    BY <1>1, <1>4, <1>6 DEF Tallied
  <2>5. QED
    BY <2>3, <2>4
<1>9. ASSUME x.disturbed = "no" PROVE Quiet(l, x)
  <2>1. Quiet(l, w)
    BY <1>1, <1>9 DEF WalkGood
  <2>2. RowsRead(x) => Filled(l, x, x.seen \o x.got)
    BY <1>6, <1>7, <2>1
  <2>3. RowsCounted(x) => x.total = Cardinality(l.of)
    BY <1>6
  <2> HIDE DEF more
  <2>4. QED
    BY <1>1, <2>1, <2>2, <2>3 DEF Quiet
<1>10. QED
  BY <1>3, <1>8, <1>9 DEF WalkGood

(* What both statements start from. *)
LEMMA WalkIs ==
  ASSUME TablesInv, WalkInv, walk # None
  PROVE  LET l == Named(walk.list, db)
         IN  /\ WalkGood(l, walk) /\ ListOk(l) /\ WalkFields(walk)
             /\ Cardinality(l.of) \in Nat
<1>1. WalkOk(walk, db)
  BY DEF WalkInv
<1>2. WalkGood(Named(walk.list, db), walk) /\ WalkFields(walk) /\ walk.list \in ListNames
  BY <1>1 DEF WalkOk, WalkGood, WalkFields
<1>3. ListOk(Named(walk.list, db))
  BY <1>2, NamedIsOk
<1>4. QED
  BY <1>2, <1>3, FS_CardinalityType DEF ListOk

LEMMA ReadIs ==
  ASSUME NEW l, ListOk(l), NEW s \in Orders(l), NEW w, WalkFields(w)
  PROVE  LET x == ReadRows(w, s)
         IN  /\ x = [w EXCEPT !.got = x.got]
             /\ x.got \in Seq(Ids)
             /\ w.seen \o x.got = Seen(w.seen, PageOf(s, w.page + 1))
<1> DEFINE p == w.page
           page == PageOf(s, p + 1)
           ids == [i \in DOMAIN page |-> Identity(page[i])]
           x == ReadRows(w, s)
<1>1. HasFields(w) /\ p \in Nat
  BY DEF WalkFields
<1>2. page \in Seq(l.of) /\ Len(page) \in Nat /\ DOMAIN page = 1 .. Len(page)
  BY <1>1, PageIs DEF ListOk
<1>3. x = [w EXCEPT !.got = ids]
  BY DEF ReadRows
<1>4. ids \in Seq(Ids)
  <2> HIDE DEF page
  <2>1. \A i \in 1 .. Len(page) : Identity(page[i]) \in Ids
    BY <1>2 DEF ListOk
  <2>2. ids \in [1 .. Len(page) -> Ids]
    BY <1>2, <2>1
  <2>3. QED
    BY <1>2, <2>2
<1>5. w.seen \o ids = Seen(w.seen, page)
  BY DEF Seen
<1> HIDE DEF ids, x
<1>6. x.got = ids
  BY <1>1, <1>3 DEF Fields, HasFields
<1>7. QED
  BY <1>3, <1>4, <1>5, <1>6 DEF x, page, p

LEMMA FirstKeeps ==
  ASSUME TablesInv, WalkInv, FirstStatement
  PROVE  WalkInv'
<1> DEFINE l == Named(walk.list, db)
           n == Cardinality(l.of)
           w == walk
           x == walk'
<1>1. w # None /\ w.page < w.pages /\ db' = db
  BY DEF FirstStatement, tables
<1>2. WalkGood(l, w) /\ ListOk(l) /\ WalkFields(w) /\ n \in Nat
  BY <1>1, WalkIs
<1>3. HasFields(w) /\ w.total \in Nat /\ w.got \in Seq(Ids)
  BY <1>2 DEF WalkFields
<1>4. PICK s \in Orders(l) :
         x = [IF CountsFirst(w.list) THEN CountRows(w) ELSE ReadRows(w, s)
                 EXCEPT !.half = TRUE, !.torn = 0]
  BY DEF FirstStatement
<1>5. CASE CountsFirst(w.list)
  <2>1. x = [w EXCEPT !.total = n, !.half = TRUE, !.torn = 0]
    BY <1>3, <1>4, <1>5 DEF CountRows
  <2> HIDE DEF l, n, w, x
  <2>2. Begins(w, x) /\ x.total = n /\ x.got = w.got
    BY <1>3, <2>1 DEF Begins, Fields, HasFields
  <2>3. WalkGood(l, x)
    BY <1>1, <1>2, <1>3, <1>5, <2>2, PageBegins DEF n
  <2>4. x.list = w.list
    BY <2>2 DEF Begins
  <2>5. QED
    BY <1>1, <2>3, <2>4 DEF WalkInv, WalkOk, l, w, x
<1>6. CASE ~CountsFirst(w.list)
  <2> DEFINE y == ReadRows(w, s)
  <2>1. /\ y = [w EXCEPT !.got = y.got] /\ y.got \in Seq(Ids)
        /\ w.seen \o y.got = Seen(w.seen, PageOf(s, w.page + 1))
    BY <1>2, ReadIs
  <2>2. x = [y EXCEPT !.half = TRUE, !.torn = 0]
    BY <1>4, <1>6
  <2> HIDE DEF l, n, w, x, y
  <2>3. Begins(w, x) /\ x.total = w.total /\ x.got = y.got
    <3>1. x = [w EXCEPT !.got = y.got, !.half = TRUE, !.torn = 0]
      BY <1>3, <2>1, <2>2 DEF Fields, HasFields
    <3>2. QED
      BY <1>3, <3>1 DEF Begins, Fields, HasFields
  <2>4. /\ Shown(l, w) => Reached(l, w, w.seen \o x.got)
        /\ Quiet(l, w) => Filled(l, w, w.seen \o x.got)
    BY <1>1, <1>2, <2>1, <2>3, PageReads
  <2>5. WalkGood(l, x)
    BY <1>1, <1>2, <1>3, <1>6, <2>1, <2>3, <2>4, PageBegins
  <2>6. x.list = w.list
    BY <2>3 DEF Begins
  <2>7. QED
    BY <1>1, <2>5, <2>6 DEF WalkInv, WalkOk, l, w, x
<1>7. QED
  BY <1>5, <1>6

LEMMA SecondKeeps ==
  ASSUME TablesInv, WalkInv, SecondStatement
  PROVE  WalkInv'
<1> DEFINE l == Named(walk.list, db)
           n == Cardinality(l.of)
           w == walk
           x == walk'
<1>1. w # None /\ w.half /\ db' = db
  BY DEF SecondStatement, tables
<1>2. WalkGood(l, w) /\ ListOk(l) /\ WalkFields(w) /\ n \in Nat
  BY <1>1, WalkIs
<1>3. /\ HasFields(w) /\ w.total \in Nat /\ w.got \in Seq(Ids) /\ w.seen \in Seq(Ids)
      /\ w.torn \in Nat /\ w.page < w.pages
  BY <1>1, <1>2 DEF WalkFields
<1>4. PICK s \in Orders(l) :
         LET y == IF CountsFirst(w.list) THEN ReadRows(w, s) ELSE CountRows(w)
         IN  x = Asked([y EXCEPT !.page = @ + 1, !.pages = Pages(y.total, Size),
                                 !.seen = @ \o y.got])
  BY DEF SecondStatement
<1>5. ASSUME NEW y, y = IF CountsFirst(w.list) THEN ReadRows(w, s) ELSE CountRows(w),
             y = [w EXCEPT !.total = y.total, !.got = y.got]
      PROVE  Ends(w, x, w.seen \o y.got, y.total)
  <2> DEFINE more == w.seen \o y.got
             pages == Pages(y.total, Size)
             total == y.total
             got == y.got
  <2>1. x = Asked([y EXCEPT !.page = @ + 1, !.pages = pages, !.seen = @ \o y.got])
    BY <1>4, <1>5
  <2>2. y.seen = w.seen
    BY <1>3, <1>5 DEF Fields, HasFields
  <2>3. x = [[y EXCEPT !.page = @ + 1, !.pages = pages, !.seen = more]
                EXCEPT !.half = FALSE, !.total = 0, !.got = <<>>]
    BY <2>1, <2>2 DEF Asked
  <2>4. y = [w EXCEPT !.total = total, !.got = got]
    BY <1>5
  <2> HIDE DEF w, x, more, pages, total, got
  <2>5. /\ HasFields(x)
        /\ x.page = w.page + 1 /\ x.pages = pages /\ x.seen = more
        /\ x.list = w.list /\ x.disturbed = w.disturbed /\ x.start = w.start
        /\ x.half = FALSE /\ x.total = 0 /\ x.got = <<>> /\ x.torn = w.torn
    BY <1>3, <2>3, <2>4 DEF Fields, HasFields
  <2>6. QED
    BY <2>5 DEF Ends, more, pages, total
<1>6. Kept(w) => Shown(l, w) /\ Tallied(l, w)
  BY <1>2 DEF WalkGood
<1>7. w.disturbed = "no" => Quiet(l, w) /\ Kept(w)
  BY <1>2 DEF WalkGood, Kept
<1>8. CASE CountsFirst(w.list)
  <2> DEFINE y == ReadRows(w, s)
             more == w.seen \o y.got
  <2>1. /\ y = [w EXCEPT !.got = y.got] /\ y.got \in Seq(Ids)
        /\ more = Seen(w.seen, PageOf(s, w.page + 1))
    BY <1>2, ReadIs
  <2> HIDE DEF l, n, w, x, y
  <2>2. y.total = w.total /\ y = [w EXCEPT !.total = y.total, !.got = y.got]
    BY <1>3, <2>1 DEF Fields, HasFields
  <2>3. Ends(w, x, more, w.total)
    <3>1. y = IF CountsFirst(w.list) THEN ReadRows(w, s) ELSE CountRows(w)
      BY <1>8 DEF y
    <3>2. QED
      BY <1>5, <2>2, <3>1
  <2> HIDE DEF more
  <2>4. /\ more \in Seq(Ids)
        /\ Shown(l, w) => Reached(l, w, more)
        /\ Quiet(l, w) => Filled(l, w, more)
    BY <1>2, <1>3, <2>1, PageReads
  <2>5. RowsCounted(w)
    BY <1>1, <1>8 DEF RowsCounted
  <2>6. Kept(w) => /\ Reached(l, w, more)
                   /\ Cardinality(l.of) <= w.total + IF CountsFirst(w.list) THEN w.torn ELSE 0
    BY <1>6, <1>8, <2>4, <2>5 DEF Tallied
  <2>7. w.disturbed = "no" => Filled(l, w, more) /\ w.total = Cardinality(l.of)
    BY <1>7, <2>4, <2>5 DEF Quiet
  <2>8. WalkGood(l, x)
    BY <1>2, <1>3, <2>3, <2>4, <2>6, <2>7, PageEnds
  <2>9. x.list = w.list
    BY <2>3 DEF Ends
  <2>10. QED
    BY <1>1, <2>8, <2>9 DEF WalkInv, WalkOk, l, w, x
<1>9. CASE ~CountsFirst(w.list)
  <2> DEFINE y == CountRows(w)
             more == w.seen \o w.got
  <2>1. y = [w EXCEPT !.total = n]
    BY DEF CountRows
  <2> HIDE DEF l, n, w, x, y
  <2>2. y.total = n /\ y.got = w.got /\ y = [w EXCEPT !.total = y.total, !.got = y.got]
    BY <1>3, <2>1 DEF Fields, HasFields
  <2>3. Ends(w, x, more, n)
    <3>1. y = IF CountsFirst(w.list) THEN ReadRows(w, s) ELSE CountRows(w)
      BY <1>9 DEF y
    <3>2. QED
      BY <1>5, <2>2, <3>1
  <2>4. more \in Seq(Ids)
    BY <1>3
  <2>5. RowsRead(w)
    BY <1>1, <1>9 DEF RowsRead
  <2>6. Kept(w) => /\ Reached(l, w, more)
                   /\ Cardinality(l.of) <= n + IF CountsFirst(w.list) THEN w.torn ELSE 0
    <3>1. Kept(w) => Reached(l, w, more)
      BY <1>6, <2>5 DEF Shown
    <3>2. Cardinality(l.of) <= n + 0
      BY <1>2 DEF n
    <3>3. QED
      BY <1>9, <3>1, <3>2
  <2>7. w.disturbed = "no" => Filled(l, w, more) /\ n = Cardinality(l.of)
    BY <1>7, <2>5 DEF Quiet, n
  <2> HIDE DEF more
  <2>8. WalkGood(l, x)
    BY <1>2, <1>3, <2>3, <2>4, <2>6, <2>7, PageEnds
  <2>9. x.list = w.list
    BY <2>3 DEF Ends
  <2>10. QED
    BY <1>1, <2>8, <2>9 DEF WalkInv, WalkOk, l, w, x
<1>10. QED
  BY <1>8, <1>9

LEMMA FailKeeps ==
  ASSUME TablesInv, WalkInv, RequestFails
  PROVE  WalkInv'
<1> DEFINE l == Named(walk.list, db)
           w == walk
           x == walk'
<1>1. w # None /\ w.page < w.pages /\ db' = db
  BY DEF RequestFails, tables
<1>2. WalkGood(l, w) /\ WalkFields(w)
  BY <1>1, WalkIs
<1>3. HasFields(w) /\ w.page \in Nat /\ w.torn \in Nat
  BY <1>2 DEF WalkFields
<1>4. CASE x = [Asked(w) EXCEPT !.page = @ + 1, !.pages = 0, !.disturbed = "other"]
  <2>1. x = [[w EXCEPT !.half = FALSE, !.total = 0, !.got = <<>>]
                EXCEPT !.page = @ + 1, !.pages = 0, !.disturbed = "other"]
    BY <1>4 DEF Asked
  <2> HIDE DEF l, w, x
  <2>2. /\ HasFields(x)
        /\ x.page = w.page + 1 /\ x.pages = 0 /\ x.seen = w.seen
        /\ x.list = w.list /\ x.disturbed = "other" /\ x.half = FALSE /\ x.total = 0
        /\ x.got = <<>> /\ x.torn = w.torn
    BY <1>3, <2>1 DEF Fields, HasFields
  <2>3. WalkFields(x)
    <3>1. <<>> \in Seq(Ids) /\ x.page \in Nat
      BY <1>3, <2>2
    <3>2. /\ x.list \in ListNames /\ x.page \in Nat /\ x.pages \in Nat
          /\ x.disturbed \in {"no", "insert", "other"} /\ x.seen \in Seq(Ids)
          /\ x.got \in Seq(Ids) /\ x.total \in Nat /\ x.torn \in Nat
      BY <1>2, <2>2, <3>1 DEF WalkFields
    <3>3. QED
      BY <2>2, <3>2, FieldsOk
  <2>4. WalkGood(l, x)
    BY <2>2, <2>3 DEF WalkGood, Kept
  <2>5. QED
    BY <1>1, <2>2, <2>4 DEF WalkInv, WalkOk, l, w, x
<1>5. CASE x = Asked(w)
  <2>1. x = [w EXCEPT !.half = FALSE, !.total = 0, !.got = <<>>]
    BY <1>5 DEF Asked
  <2> HIDE DEF l, w, x
  <2>2. /\ HasFields(x)
        /\ x.page = w.page /\ x.pages = w.pages /\ x.seen = w.seen
        /\ x.list = w.list /\ x.disturbed = w.disturbed /\ x.half = FALSE /\ x.total = 0
        /\ x.start = w.start /\ x.got = <<>> /\ x.torn = w.torn
    BY <1>3, <2>1 DEF Fields, HasFields
  <2>3. WalkFields(x)
    <3>1. <<>> \in Seq(Ids)
      OBVIOUS
    <3>2. /\ x.list \in ListNames /\ x.page \in Nat /\ x.pages \in Nat
          /\ x.disturbed \in {"no", "insert", "other"} /\ x.seen \in Seq(Ids)
          /\ x.got \in Seq(Ids) /\ x.total \in Nat /\ x.torn \in Nat
      BY <1>2, <2>2, <3>1 DEF WalkFields
    <3>3. QED
      BY <2>2, <3>2, FieldsOk
  <2>4. ~RowsRead(x) /\ ~RowsCounted(x)
    BY <2>2 DEF RowsRead, RowsCounted
  <2>5. Kept(x) => Shown(l, x) /\ Tallied(l, x)
    BY <1>2, <2>2, <2>4 DEF WalkGood, Kept, Shown, Tallied
  <2>6. x.disturbed = "no" => Quiet(l, x)
    BY <1>2, <2>2, <2>4 DEF WalkGood, Quiet
  <2>7. WalkGood(l, x)
    BY <2>3, <2>5, <2>6 DEF WalkGood
  <2>8. QED
    BY <1>1, <2>2, <2>7 DEF WalkInv, WalkOk, l, w, x
<1>6. QED
  BY <1>4, <1>5 DEF RequestFails

LEMMA WriteKeepsWalk ==
  ASSUME TablesInv, TablesInv', WalkInv, Write
  PROVE  WalkInv'
<1>1. \A rows, white, runs : Put(rows, white, runs) =>
         db'.rows = rows /\ db'.white = white /\ db'.runs = runs
  <2>1. db = [rows |-> db.rows, white |-> db.white, runs |-> db.runs, up |-> db.up]
    BY DEF TablesInv, Fits
  <2>2. ASSUME NEW rows, NEW white, NEW runs, Put(rows, white, runs)
        PROVE  db'.rows = rows /\ db'.white = white /\ db'.runs = runs
    <3>1. db' = [db EXCEPT !.rows = rows, !.white = white, !.runs = runs]
      BY <2>2 DEF Put
    <3>2. QED
      BY <2>1, <3>1
  <2>3. QED
    BY <2>2
<1>2. ASSUME NEW ip \in Ips, NEW p \in Payloads, CreateBlacklist(ip, p) PROVE WalkInv'
  <2> DEFINE old == {r \in db.rows : r.ip = ip /\ r.source = p.source}
             new == [id |-> serial + 1, ip |-> ip, source |-> p.source, data |-> p.data,
                     active |-> p.active, confidence |-> p.confidence, country |-> p.country,
                     detected |-> p.detected, removal |-> p.removal, seen |-> Today,
                     created |-> Today, updated |-> Today, count |-> 1, raw |-> "empty"]
             merged(r) == [new EXCEPT !.id = r.id, !.created = r.created, !.count = r.count + 1,
                                      !.country = IF p.country = None THEN r.country ELSE @,
                                      !.raw = r.raw]
             rows == (db.rows \ old) \cup (IF old = {} THEN {new} ELSE {merged(r) : r \in old})
  <2>1. Put(rows, db.white, db.runs) /\ Disturb(IF old = {} THEN "insert" ELSE "update")
    BY <1>2 DEF CreateBlacklist
  <2>2. CASE old = {}
    <3>1. rows = db.rows \cup {new}
      BY <2>2
    <3> HIDE DEF rows, new
    <3>2. db'.rows = db.rows \cup {new} /\ db'.white = db.white /\ db'.runs = db.runs
      BY <1>1, <2>1, <3>1
    <3>3. OneMore(db, db')
      BY <3>2 DEF OneMore
    <3>4. Disturb("insert")
      BY <2>1, <2>2
    <3>5. QED
      BY <3>3, <3>4, DisturbKeeps
  <2>3. CASE old # {}
    <3>1. Disturb("update")
      BY <2>1, <2>3
    <3>2. QED
      BY <3>1, DisturbKeeps
  <2>4. QED
    BY <2>2, <2>3
<1>3. ASSUME NEW ip \in Ips, CreateWhitelist(ip) PROVE WalkInv'
  <2> DEFINE old == {w \in db.white : w.ip = ip}
             new == [id |-> serial + 1, ip |-> ip, active |-> TRUE, source |-> "MANUAL", created |-> Today]
             white == IF old = {} THEN db.white \cup {new} ELSE db.white
  <2>1. Put(db.rows, white, db.runs) /\ Disturb(IF old = {} THEN "insert" ELSE "update")
    BY <1>3 DEF CreateWhitelist
  <2>2. CASE old = {}
    <3>1. white = db.white \cup {new}
      BY <2>2
    <3> HIDE DEF white, new
    <3>2. db'.rows = db.rows /\ db'.white = db.white \cup {new} /\ db'.runs = db.runs
      BY <1>1, <2>1, <3>1
    <3>3. OneMore(db, db')
      BY <3>2 DEF OneMore
    <3>4. Disturb("insert")
      BY <2>1, <2>2
    <3>5. QED
      BY <3>3, <3>4, DisturbKeeps
  <2>3. CASE old # {}
    <3>1. Disturb("update")
      BY <2>1, <2>3
    <3>2. QED
      BY <3>1, DisturbKeeps
  <2>4. QED
    BY <2>2, <2>3
<1>4. ASSUME NEW service, NEW items, NEW success, RecordCollectionHistory(service, items, success)
      PROVE  WalkInv'
  <2> DEFINE new == [id |-> serial + 1, service |-> service, date |-> Today,
                     items |-> items, success |-> success]
  <2>1. Put(db.rows, db.white, db.runs \cup {new}) /\ Disturb("insert")
    BY <1>4 DEF RecordCollectionHistory
  <2> HIDE DEF new
  <2>2. db'.rows = db.rows /\ db'.white = db.white /\ db'.runs = db.runs \cup {new}
    BY <1>1, <2>1
  <2>3. OneMore(db, db')
    BY <2>2 DEF OneMore
  <2>4. QED
    BY <2>1, <2>3, DisturbKeeps
<1>5. ASSUME NEW kind \in {"update", "delete"}, Disturb(kind) PROVE WalkInv'
  BY <1>5, DisturbKeeps
<1>6. CASE \/ \E ip \in Ips : ManuallyExpireIp(ip)
           \/ UpdateWhitelist \/ DeleteWhitelist \/ CleanupOldHistory
  <2>1. Disturb("update") \/ Disturb("delete")
    BY <1>6 DEF ManuallyExpireIp, UpdateWhitelist, DeleteWhitelist, CleanupOldHistory
  <2>2. QED
    BY <1>5, <2>1
<1>7. CASE Outage
  <2>1. db = [rows |-> db.rows, white |-> db.white, runs |-> db.runs, up |-> db.up]
    BY DEF TablesInv, Fits
  <2>2. db' = [db EXCEPT !.up = ~@] /\ walk' = walk
    BY <1>7 DEF Outage
  <2>3. db'.rows = db.rows /\ db'.white = db.white /\ db'.runs = db.runs
    BY <2>1, <2>2
  <2>4. QED
    BY <2>2, <2>3, StillKeeps
<1>8. QED
  BY <1>2, <1>3, <1>4, <1>6, <1>7 DEF Write

LEMMA WalkStep ==
  TablesInv /\ TablesInv' /\ WalkInv /\ [SystemNext]_<<tables, walk, registration>> => WalkInv'
<1> SUFFICES ASSUME TablesInv, TablesInv', WalkInv, [SystemNext]_<<tables, walk, registration>>
             PROVE  WalkInv'
  OBVIOUS
<1>1. CASE Write
  BY <1>1, WriteKeepsWalk
<1>2. CASE \E name \in ListNames : StartWalk(name)
  BY <1>2, StartKeeps
<1>3. CASE FirstStatement \/ SecondStatement \/ RequestFails
  BY <1>3, FirstKeeps, SecondKeeps, FailKeeps
<1>4. CASE EndWalk
  BY <1>4 DEF EndWalk, WalkInv
<1>5. CASE UNCHANGED <<tables, walk>>
  BY <1>5, StillKeeps DEF tables
<1>6. QED
  BY <1>1, <1>2, <1>3, <1>4, <1>5 DEF SystemNext

(* A list that was read to its end. *)
LEMMA WalksEndWell ==
  ASSUME TablesInv, WalkInv
  PROVE  PagesPartition /\ InsertionsLoseLittle
<1> DEFINE l == Named(walk.list, db)
           n == Cardinality(l.of)
<1>1. ASSUME Finished, walk.disturbed # "other", Sorted(l), walk.disturbed = "no" \/ walk.list # "activeIps"
      PROVE  /\ Cardinality(Lost) <= walk.torn
             /\ ~CountsFirst(walk.list) => Lost = {}
  <2>1. WalkOk(walk, db) /\ walk.page >= walk.pages
    BY <1>1 DEF WalkInv, Finished
  <2>2. Kept(walk)
    BY <1>1, <2>1 DEF WalkOk, WalkGood, WalkFields, Kept
  <2>3. QED
    BY <1>1, <2>1, <2>2 DEF WalkOk, WalkGood, Shown, Lost
<1>2. ASSUME Finished, walk.disturbed = "no", Sorted(l)
      PROVE  ToSet(walk.seen) = walk.start /\ Len(walk.seen) = Cardinality(walk.start)
  <2>1. /\ walk.page >= walk.pages /\ walk.page \in Nat /\ walk.pages \in Nat
        /\ walk.list \in ListNames /\ Quiet(l, walk)
    BY <1>2 DEF WalkInv, Finished, WalkOk, WalkGood, WalkFields
  <2>2. ListOk(l)
    BY <2>1, NamedIsOk
  <2> HIDE DEF l
  <2>3. n \in Nat
    BY <2>2, FS_CardinalityType DEF ListOk
  <2>4. walk.page * Size >= n
    <3>1. walk.page > 0
      BY <2>1 DEF Quiet
    <3>2. walk.page >= Pages(n, Size)
      BY <2>1, <3>1 DEF Quiet
    <3>3. QED
      BY <2>1, <2>3, <3>2, PagesCover
  <2>5. walk.page * Size \in Nat
    BY <2>1, SizeAssumption
  <2>6. Len(walk.seen) = n
    BY <2>1, <2>3, <2>4, <2>5 DEF Quiet
  <2>7. Cardinality(Identities(l.of)) = n
    <3> DEFINE f == [r \in l.of |-> Identity(r)]
    <3>1. f \in Bijection(l.of, Identities(l.of))
      <4>1. f \in [l.of -> Identities(l.of)]
        BY DEF Identities
      <4>2. \A r, q \in l.of : f[r] = f[q] => r = q
        BY <2>2 DEF ListOk
      <4>3. \A id \in Identities(l.of) : \E r \in l.of : f[r] = id
        BY DEF Identities
      <4> HIDE DEF f
      <4>4. QED
        BY <4>1, <4>2, <4>3 DEF Bijection, Injection, IsInjective, Surjection
    <3>2. IsFiniteSet(l.of)
      BY <2>2 DEF ListOk
    <3> HIDE DEF f
    <3>3. QED
      BY <3>1, <3>2, FS_Bijection DEF ExistsBijection
  <2>8. ToSet(walk.seen) \subseteq walk.start /\ walk.start = Identities(l.of)
    BY <2>1 DEF Quiet
  <2>9. walk.start \subseteq ToSet(walk.seen)
    <3>1. Cardinality(Lost) <= walk.torn /\ walk.torn = 0
      BY <1>1, <1>2, <2>1 DEF Quiet, l
    <3>2. IsFiniteSet(walk.start)
      <4>1. IsFiniteSet(Identities(l.of))
        <5> DEFINE f == [r \in l.of |-> Identity(r)]
        <5>1. f \in Surjection(l.of, Identities(l.of))
          <6>1. f \in [l.of -> Identities(l.of)]
            BY DEF Identities
          <6>2. \A id \in Identities(l.of) : \E r \in l.of : f[r] = id
            BY DEF Identities
          <6> HIDE DEF f
          <6>3. QED
            BY <6>1, <6>2 DEF Surjection
        <5> HIDE DEF f
        <5>2. QED
          BY <2>2, <5>1, FS_Surjection DEF ListOk
      <4>2. QED
        BY <2>8, <4>1
    <3>3. IsFiniteSet(Lost)
      BY <3>2, FS_Subset DEF Lost
    <3>4. Cardinality(Lost) = 0
      BY <3>1, <3>3, FS_CardinalityType
    <3>5. Lost = {}
      BY <3>3, <3>4, FS_EmptySet
    <3>6. QED
      BY <3>5 DEF Lost
  <2>10. QED
    BY <2>6, <2>7, <2>8, <2>9
<1>3. ASSUME Finished, walk.disturbed # "other", Sorted(l), walk.list # "activeIps"
      PROVE  /\ walk.list \in {"list", "history", "webList", "webHistory"} => Lost = {}
             /\ Cardinality(Lost) <= walk.torn
  <2>1. walk.list \in {"list", "history", "webList", "webHistory"} => ~CountsFirst(walk.list)
    BY DEF CountsFirst
  <2>2. QED
    BY <1>1, <1>3, <2>1
<1>4. QED
  BY <1>2, <1>3 DEF PagesPartition, InsertionsLoseLittle

(* Lists of one state. *)
LEMMA ExportsTell ==
  ASSUME TablesInv
  PROVE  /\ \A includeEmpty \in BOOLEAN :
                ExportRawData(db, TRUE, None, includeEmpty).of \subseteq Active(db)
         /\ ExportRawData(db, FALSE, None, FALSE).of \cup
            {r \in db.rows : RawColumns(r.raw) = {}} = db.rows
         /\ \A r \in ApiBlacklistExportRaw(db, FALSE, None, TRUE).of : RawColumns(r.raw) # {}
<1>1. ASSUME NEW empty \in BOOLEAN
      PROVE  ExportRawData(db, TRUE, None, empty).of \subseteq Active(db)
  BY DEF ExportRawData, List, Active
<1>2. ApiBlacklistExportRaw(db, FALSE, None, TRUE).of = {r \in db.rows : r.raw \notin {None, "empty"}}
  BY DEF ApiBlacklistExportRaw, List
<1>3. RawColumns(None) = {} /\ RawColumns("empty") = {}
  BY TodayAssumption DEF RawColumns
<1>4. "ip" \in RawColumns("cells") /\ "ip" \in RawColumns("api") /\ "ip" \in RawColumns("flat")
  BY DEF RawColumns
<1>5. \A r \in db.rows : r.raw \in {None, "empty", "cells", "api", "flat"}
  BY DEF TablesInv, Fits, Row
<1>6. \A r \in db.rows : r.raw \notin {None, "empty"} => RawColumns(r.raw) # {}
  BY <1>4, <1>5
<1>7. \A r \in db.rows : r.raw \in {None, "empty"} => RawColumns(r.raw) = {}
  BY <1>3
<1>8. ExportRawData(db, FALSE, None, FALSE).of = {r \in db.rows : r.raw \notin {None, "empty"}}
  BY DEF ExportRawData, List
<1>9. QED
  BY <1>1, <1>2, <1>6, <1>7, <1>8

LEMMA ListsAgree == TablesInv => ListsTellTheSame
<1> SUFFICES ASSUME TablesInv PROVE ListsTellTheSame
  OBVIOUS
<1>1. \A r \in GetWhitelistCandidates(db, 1).of : r \in Enforced(db)
  BY DEF GetWhitelistCandidates, List, Enforced, Active, Exempted
<1>2. \A r \in db.rows : ShownActive(r) => r.active
  BY DEF ShownActive
<1>3. \A r \in GetActiveSessions(db, 30).of : SessionStatus(r) = "active" \/ r \notin Enforced(db)
  BY DEF SessionStatus, Enforced, Active
<1>4. db.up => ConnectorOrder(db, None, None) = GetActiveIps(db)
  <2>1. SUFFICES ASSUME db.up PROVE ConnectorOrder(db, None, None) = GetActiveIps(db)
    OBVIOUS
  <2>2. GetJsonConnector(<<db, db>>, None, None).rows = Enforced(db)
    <3> DEFINE chosen == {r \in Enforced(db) : /\ Selected(None, r.confidence)
                                               /\ None # None => r.country = None}
    <3>1. Answered(<<db, db>>) /\ <<db, db>>[1] = db
      BY <2>1 DEF Answered
    <3>2. GetJsonConnector(<<db, db>>, None, None) =
             [status |-> 200, rows |-> chosen, total |-> Cardinality(Enforced(<<db, db>>[2]))]
      BY <3>1 DEF GetJsonConnector, Feed
    <3>3. \A c : Selected(None, c)
      BY TodayAssumption DEF Selected
    <3>4. chosen = Enforced(db)
      BY <3>3
    <3>5. QED
      BY <3>2, <3>4
  <2>3. QED
    BY <2>2 DEF ConnectorOrder, GetActiveIps
<1>5. \A r \in db.rows : r \in SearchIps(db, {r.ip}).of
  BY DEF SearchIps, List
<1>6. db.up => Cardinality(GetRealTimeDetectionLog(db).of) >= GetAnalyticsOverview(db).today
  <2>1. SUFFICES ASSUME db.up
                 PROVE  Cardinality(GetRealTimeDetectionLog(db).of) >= GetAnalyticsOverview(db).today
    OBVIOUS
  <2> DEFINE log == {r \in db.rows : r.created >= Today - 1}
             today == {r \in db.rows : r.created > Today - 1}
  <2>2. GetRealTimeDetectionLog(db).of = log
    BY DEF GetRealTimeDetectionLog, List
  <2>3. GetAnalyticsOverview(db).today = Cardinality(today)
    BY <2>1 DEF GetAnalyticsOverview, Known
  <2>4. IsFiniteSet(log) /\ today \subseteq log
    <3>1. IsFiniteSet(db.rows)
      BY DEF TablesInv, Keyed
    <3>2. IsFiniteSet(log)
      BY <3>1, FS_Subset
    <3>3. today \subseteq log
      BY RowsAreKeyed, TodayAssumption
    <3>4. QED
      BY <3>2, <3>3
  <2> HIDE DEF log, today
  <2>5. /\ Cardinality(today) <= Cardinality(log)
        /\ Cardinality(today) \in Nat /\ Cardinality(log) \in Nat
    BY <2>4, FS_Subset, FS_CardinalityType
  <2>6. QED
    BY <2>2, <2>3, <2>5
<1>7. QED
  BY <1>1, <1>2, <1>3, <1>4, <1>5, <1>6, ExportsTell DEF ListsTellTheSame

(* A list read to its end shows every row that stayed, once while nobody     *)
(* writes, but for as many as came in between the two statements of its last *)
(* page if it counts first, and lists, exports and proposals of one state do *)
(* not contradict each other (blacklist/core.py, ...).                       *)
THEOREM ListsReadToTheEnd == SystemSpec => []ListsAreComplete
<1>1. SystemInit => TablesInv /\ WalkInv
  BY TablesInit DEF SystemInit, InitTables, WalkInv
<1>2. TablesInv /\ WalkInv /\ [SystemNext]_<<tables, walk, registration>> => (TablesInv /\ WalkInv)'
  BY TablesStep, WalkStep
<1>3. TablesInv /\ WalkInv => ListsAreComplete
  BY WalksEndWell, ListsAgree DEF ListsAreComplete
<1>4. QED
  BY <1>1, <1>2, <1>3, PTL DEF SystemSpec

-----------------------------------------------------------------------------
(* Statements that count groups of rows *)

(* A statement that groups rows by a field: one line for each value of S, and *)
(* a figure of each line that counts the rows of T.                           *)
Lines(S, T, field, line, F) ==
    /\ DOMAIN F = {line[r[field]] : r \in S}
    /\ \A q, r \in S : line[q[field]] = line[r[field]] => q[field] = r[field]
    /\ \A r \in S : F[line[r[field]]] = Cardinality(Group(T, field, r[field]))

LEMMA LinesAddUp ==
  ASSUME NEW S, IsFiniteSet(S), NEW T \in SUBSET S, NEW field, NEW line, NEW F,
         Lines(S, T, field, line, F)
  PROVE  Sum(F) = Cardinality(T)
<1>0. /\ DOMAIN F = {line[r[field]] : r \in S}
      /\ \A q, r \in S : line[q[field]] = line[r[field]] => q[field] = r[field]
      /\ \A r \in S : F[line[r[field]]] = Cardinality(Group(T, field, r[field]))
  BY DEF Lines
<1> DEFINE key == [r \in S |-> line[r[field]]]
           I == DOMAIN F
<1>1. IsFiniteSet(I) /\ IsFiniteSet(T)
  <2>1. I = {key[r] : r \in S}
    BY <1>0
  <2> HIDE DEF key
  <2>2. QED
    BY <2>1, ImageIsFinite, FS_Subset
<1>2. Groups(T, key, I)
  BY <1>0, <1>1 DEF Groups
<1>3. ASSUME NEW i \in I PROVE F[i] = Cardinality(Of(T, key, i))
  <2>1. PICK r \in S : i = line[r[field]]
    BY <1>0
  <2>2. Of(T, key, i) = Group(T, field, r[field])
    BY <1>0, <2>1 DEF Of, Group
  <2>3. QED
    BY <1>0, <2>1, <2>2
<1>4. CountsOf(F, T, key, I)
  BY <1>3 DEF CountsOf
<1> HIDE DEF key, I
<1>5. SumFunctionOnSet(F, I) = Cardinality(T)
  BY <1>2, <1>4, CountOfGroups
<1>6. QED
  BY <1>5 DEF I, Sum, SumFunction

-----------------------------------------------------------------------------
(* The tables before the last write *)

(* A write drops no run that a figure may still count. *)
Retained(old, new) == \A r \in old : r.date >= Today - 30 => r \in new

BeforeInv ==
    /\ Fits(before)
    /\ IsFiniteSet(before.rows) /\ IsFiniteSet(before.runs)
    /\ Retained(before.runs, db.runs)

(* At the start nothing has been written. *)
LEMMA BeforeInit == InitTables => BeforeInv
<1> SUFFICES ASSUME InitTables PROVE BeforeInv
  OBVIOUS
<1>1. TablesInv /\ before = db
  BY TablesInit DEF InitTables
<1>2. QED
  BY <1>1 DEF TablesInv, Keyed, BeforeInv, Retained

(* What a write is for the runs that figures count. *)
LEMMA PutKeepsRuns ==
  ASSUME TablesInv, NEW rows, NEW white, NEW runs, Put(rows, white, runs), Retained(db.runs, runs)
  PROVE  before' = db /\ Retained(db.runs, db'.runs)
<1>1. db = [rows |-> db.rows, white |-> db.white, runs |-> db.runs, up |-> db.up]
  BY DEF TablesInv, Fits
<1>2. db'.runs = runs /\ before' = db
  BY <1>1 DEF Put
<1>3. QED
  BY <1>2

(* No write drops a run of the last month: the clean-up keeps more than that. *)
LEMMA WriteKeepsRuns ==
  ASSUME TablesInv, Write
  PROVE  before' = db /\ Retained(db.runs, db'.runs)
<1>1. Retained(db.runs, db.runs)
  BY DEF Retained
<1>2. ASSUME NEW ip \in Ips,
             (\E p \in Payloads : CreateBlacklist(ip, p)) \/ ManuallyExpireIp(ip) \/ CreateWhitelist(ip)
      PROVE  before' = db /\ Retained(db.runs, db'.runs)
  <2>1. \E rows, white : Put(rows, white, db.runs)
    BY <1>2 DEF CreateBlacklist, ManuallyExpireIp, CreateWhitelist
  <2>2. QED
    BY <1>1, <2>1, PutKeepsRuns
<1>3. CASE UpdateWhitelist \/ DeleteWhitelist
  <2>1. \E rows, white : Put(rows, white, db.runs)
    BY <1>3 DEF UpdateWhitelist, DeleteWhitelist
  <2>2. QED
    BY <1>1, <2>1, PutKeepsRuns
<1>4. CASE \E success \in BOOLEAN : RecordCollectionHistory("REGTECH", 1, success)
  <2>1. PICK new : Put(db.rows, db.white, db.runs \cup {new})
    BY <1>4 DEF RecordCollectionHistory
  <2>2. Retained(db.runs, db.runs \cup {new})
    BY DEF Retained
  <2>3. QED
    BY <2>1, <2>2, PutKeepsRuns
<1>5. CASE CleanupOldHistory
  <2> DEFINE runs == {r \in db.runs : r.date >= Today - Retention}
  <2>1. Put(db.rows, db.white, runs)
    BY <1>5 DEF CleanupOldHistory
  <2>2. Retained(db.runs, runs)
    <3>1. ASSUME NEW r \in db.runs, r.date >= Today - 30 PROVE r.date >= Today - Retention
      <4>1. r.date \in Int
        BY DEF TablesInv, Fits, Run, Days
      <4>2. QED
        BY <3>1, <4>1, TodayAssumption, RetentionAssumption
    <3>2. QED
      BY <3>1 DEF Retained
  <2> HIDE DEF runs
  <2>3. QED
    BY <2>1, <2>2, PutKeepsRuns
<1>6. CASE Outage
  <2>1. db = [rows |-> db.rows, white |-> db.white, runs |-> db.runs, up |-> db.up]
    BY DEF TablesInv, Fits
  <2>2. db'.runs = db.runs /\ before' = db
    BY <1>6, <2>1 DEF Outage
  <2>3. QED
    BY <1>1, <2>2
<1>7. QED
  BY <1>2, <1>3, <1>4, <1>5, <1>6 DEF Write

(* The tables before the last write stay tables, and their recent runs stay in the table. *)
LEMMA BeforeStep ==
  TablesInv /\ BeforeInv /\ [SystemNext]_<<tables, walk, registration>> => BeforeInv'
<1> SUFFICES ASSUME TablesInv, BeforeInv, [SystemNext]_<<tables, walk, registration>>
             PROVE  BeforeInv'
  OBVIOUS
<1>1. CASE Write
  BY <1>1, WriteKeepsRuns DEF TablesInv, Keyed, BeforeInv
<1>2. CASE UNCHANGED tables
  BY <1>2 DEF tables, BeforeInv
<1>3. QED
  BY <1>1, <1>2 DEF SystemNext, StartWalk, FirstStatement, SecondStatement, RequestFails, EndWalk

(* While nobody writes, every statement of an answer sees the same tables. *)
LEMMA RestIs ==
  ASSUME NEW n \in Nat \ {0}
  PROVE  /\ \A i \in 1 .. n : Rest(n)[i] = db
         /\ Answered(Rest(n)) <=> db.up
<1>1. (\A i \in 1 .. n : Rest(n)[i] = db) /\ DOMAIN Rest(n) = 1 .. n /\ 1 \in 1 .. n
  BY DEF Rest
<1>2. QED
  BY <1>1 DEF Answered

(* Across one commit the statements see the tables before it, then those after it. *)
LEMMA SnapshotIs ==
  ASSUME NEW S \in Snapshots(5)
  PROVE  \A i, j \in 1 .. 5 : /\ S[i] \in {before, db}
                              /\ i <= j => S[i] = S[j] \/ (S[i] = before /\ S[j] = db)
  BY DEF Snapshots

(* The tables on either side of a commit hold finitely many rows and runs. *)
LEMMA TablesAreFinite ==
  ASSUME TablesInv, BeforeInv, NEW T \in {before, db}
  PROVE  /\ IsFiniteSet(T.rows) /\ T.rows \subseteq Row
         /\ IsFiniteSet(T.runs) /\ T.runs \subseteq Run
  BY DEF TablesInv, BeforeInv, Keyed, Fits

(* The shares of sources are taken from the statement that counted their rows. *)
LEMMA SharesFit == TablesInv /\ BeforeInv => SharesAreShares
<1> SUFFICES ASSUME TablesInv, BeforeInv, NEW S \in Snapshots(5), GetSystemStats(S).shown
             PROVE  LET stats == GetSystemStats(S)
                    IN  \A v \in DOMAIN stats.shares :
                            /\ stats.shares[v].count <= stats.shares[v].of
                            /\ Sum([u \in DOMAIN stats.shares |-> stats.shares[u].count])
                                   <= stats.shares[v].of
  BY DEF SharesAreShares
<1> DEFINE stats == GetSystemStats(S)
           R == S[4].rows
           known == {r \in R : r.data # None}
           V == Known(R, "data")
           F == [u \in DOMAIN stats.shares |-> stats.shares[u].count]
<1>1. /\ DOMAIN stats.shares = V
      /\ \A v \in V : /\ stats.shares[v].count = Cardinality(Group(R, "data", v))
                       /\ stats.shares[v].of = Cardinality(R)
  <2>1. Answered(S)
    BY DEF GetSystemStats, NoFigures
  <2>2. QED
    BY <2>1 DEF GetSystemStats, Total
<1> HIDE DEF stats
<1>2. IsFiniteSet(R) /\ IsFiniteSet(known)
  <2>1. S[4] \in {before, db}
    BY SnapshotIs
  <2>2. IsFiniteSet(R)
    BY <2>1, TablesAreFinite
  <2>3. QED
    BY <2>2, FS_Subset
<1>3. ASSUME NEW v \in V PROVE stats.shares[v].count <= stats.shares[v].of
  <2>1. Group(R, "data", v) \subseteq R
    BY DEF Group
  <2>2. QED
    BY <1>1, <1>2, <2>1, FS_Subset
<1>4. Sum(F) = Cardinality(known)
  <2> DEFINE line == [v \in V |-> v]
  <2>1. V = {r.data : r \in known}
    BY DEF Known
  <2>2. V = {line[r["data"]] : r \in known}
    BY <2>1
  <2>3. DOMAIN F = {line[r["data"]] : r \in known}
    BY <1>1, <2>2
  <2>4. \A q, r \in known : line[q["data"]] = line[r["data"]] => q["data"] = r["data"]
    BY <2>1
  <2>5. ASSUME NEW r \in known PROVE F[line[r["data"]]] = Cardinality(Group(known, "data", r["data"]))
    <3>1. line[r["data"]] = r["data"] /\ r["data"] \in V
      BY <2>1
    <3>2. Group(R, "data", r["data"]) = Group(known, "data", r["data"])
      BY DEF Group
    <3>3. QED
      BY <1>1, <3>1, <3>2
  <2> HIDE DEF F, known, line
  <2>6. QED
    <3>1. known \in SUBSET known /\ IsFiniteSet(known)
      BY <1>2 DEF known
    <3>2. Lines(known, known, "data", line, F)
      BY <2>3, <2>4, <2>5 DEF Lines
    <3>3. QED
      BY <3>1, <3>2, LinesAddUp
<1>5. Cardinality(known) <= Cardinality(R)
  BY <1>2, FS_Subset
<1>6. ASSUME NEW v \in V PROVE Sum(F) <= stats.shares[v].of
  <2> HIDE DEF F
  <2>1. QED
    BY <1>1, <1>4, <1>5
<1>7. QED
  BY <1>1, <1>3, <1>6 DEF stats

(* The items of a part of the runs are not more than those of the whole. *)
ItemsOf(runs) == [r \in runs |-> r.items]

(* The items of a part are a sum of the function on the whole. *)
LEMMA ItemsAre ==
  ASSUME NEW S, NEW T \in SUBSET S
  PROVE  IsFiniteSet(S) => Items(T) = SumFunctionOnSet(ItemsOf(S), T)
<1>1. SUFFICES ASSUME IsFiniteSet(S) PROVE Items(T) = SumFunctionOnSet(ItemsOf(S), T)
  OBVIOUS
<1> DEFINE f == [r \in T |-> r.items]
<1>2. Items(T) = SumFunctionOnSet(f, T)
  BY DEF Items, Sum, SumFunction
<1>3. IsFiniteSet(T) /\ \A r \in T : f[r] = ItemsOf(S)[r]
  BY <1>1, FS_Subset DEF ItemsOf
<1> HIDE DEF f
<1>4. QED
  BY <1>2, <1>3, SumSame

LEMMA PartHasFewerItems ==
  ASSUME NEW S \in SUBSET Run, IsFiniteSet(S), NEW T \in SUBSET S
  PROVE  Items(T) <= Items(S) /\ Items(S) \in Nat
<1> DEFINE f == ItemsOf(S)
<1>1. \A r \in S : f[r] \in Nat
  BY DEF Run, ItemsOf
<1>2. S \in SUBSET S
  OBVIOUS
<1>3. Items(T) = SumFunctionOnSet(f, T) /\ Items(S) = SumFunctionOnSet(f, S)
  BY <1>2, ItemsAre
<1> HIDE DEF f
<1>4. QED
  BY <1>1, <1>3, SumOfSubset, SumIsNat

(* The items of runs grouped by a field. *)
LEMMA ItemsOfGroups ==
  ASSUME NEW S \in SUBSET Run, IsFiniteSet(S), NEW field, NEW F,
         DOMAIN F = {r[field] : r \in S},
         \A v \in DOMAIN F : F[v] = Items(Group(S, field, v))
  PROVE  Sum(F) = Items(S)
<1> DEFINE key == [r \in S |-> r[field]]
           f == ItemsOf(S)
           I == DOMAIN F
<1>1. Groups(S, key, I)
  <2>1. I = {key[r] : r \in S}
    OBVIOUS
  <2> HIDE DEF key
  <2>2. IsFiniteSet(I)
    BY <2>1, ImageIsFinite
  <2>3. QED
    BY <2>1, <2>2 DEF Groups
<1>2. \A r \in S : f[r] \in Int
  BY DEF Run, ItemsOf
<1>3. ASSUME NEW v \in I PROVE F[v] = SumFunctionOnSet(f, Of(S, key, v))
  <2>1. Group(S, field, v) = Of(S, key, v) /\ Group(S, field, v) \in SUBSET S
    BY DEF Of, Group
  <2>2. Items(Group(S, field, v)) = SumFunctionOnSet(f, Group(S, field, v))
    BY <2>1, ItemsAre
  <2>3. QED
    BY <2>1, <2>2
<1>4. SumsOf(F, f, S, key, I)
  BY <1>3 DEF SumsOf
<1>5. Items(S) = SumFunctionOnSet(f, S)
  <2>1. S \in SUBSET S
    OBVIOUS
  <2>2. QED
    BY <2>1, ItemsAre
<1> HIDE DEF key, f, I
<1>6. SumFunctionOnSet(F, I) = SumFunctionOnSet(f, S)
  BY <1>1, <1>2, <1>4, SumOfGroups
<1>7. QED
  BY <1>5, <1>6 DEF I, Sum, SumFunction

(* What a window of the narrower statement counts, the wider one still sees. *)
LEMMA WindowsNest ==
  ASSUME TablesInv, BeforeInv, NEW S \in Snapshots(5), NEW i \in 1 .. 5, NEW j \in 1 .. 5, i <= j,
         NEW from \in Int, from >= Today - 30
  PROVE  {r \in S[i].runs : r.date >= from} \subseteq S[j].runs
<1>1. ASSUME NEW r \in S[i].runs, r.date >= from PROVE r \in S[j].runs
  <2>1. r.date \in Int
    BY SnapshotIs, TablesAreFinite DEF Run, Days
  <2>2. r.date >= Today - 30
    BY <1>1, <2>1, TodayAssumption
  <2>3. Retained(S[i].runs, S[j].runs)
    BY SnapshotIs DEF BeforeInv, Retained
  <2>4. QED
    BY <2>2, <2>3 DEF Retained
<1>2. QED
  BY <1>1

-----------------------------------------------------------------------------
(* Figures of collection *)

(* The figures of collection, statement by statement. *)
LEMMA CollectionFigures ==
  ASSUME TablesInv, BeforeInv, NEW S \in Snapshots(5), GetCollectionStats(S).shown
  PROVE  LET stats == GetCollectionStats(S)
         IN  /\ stats.today = Items({r \in Successes(S[1], Today) : r.date = Today})
             /\ stats.week = Items(Successes(S[2], Today - 7))
             /\ stats.month = Items(Successes(S[3], Today - 30))
             /\ DOMAIN stats.sources = {r.service : r \in S[5].runs}
             /\ \A v \in DOMAIN stats.sources :
                    /\ stats.sources[v].items = Items(Group(S[5].runs, "service", v))
                    /\ stats.sources[v].collections = Cardinality(Group(S[5].runs, "service", v))
                    /\ stats.sources[v].successes =
                           Cardinality({r \in Group(S[5].runs, "service", v) : r.success})
<1>1. Answered(S)
  BY DEF GetCollectionStats
<1>2. QED
  BY <1>1 DEF GetCollectionStats

(* The sources of the last statement hold all items of its table. *)
LEMMA SourcesHoldAllItems ==
  ASSUME TablesInv, BeforeInv, NEW S \in Snapshots(5), GetCollectionStats(S).shown
  PROVE  LET sources == GetCollectionStats(S).sources
         IN  /\ Sum([v \in DOMAIN sources |-> sources[v].items]) = Items(S[5].runs)
             /\ \A v \in DOMAIN sources : sources[v].successes <= sources[v].collections
<1> DEFINE sources == GetCollectionStats(S).sources
           R == S[5].runs
           F == [v \in DOMAIN sources |-> sources[v].items]
<1>1. /\ DOMAIN sources = {r.service : r \in R}
      /\ \A v \in DOMAIN sources :
             /\ sources[v].items = Items(Group(R, "service", v))
             /\ sources[v].collections = Cardinality(Group(R, "service", v))
             /\ sources[v].successes = Cardinality({r \in Group(R, "service", v) : r.success})
  BY CollectionFigures
<1>2. R \in SUBSET Run /\ IsFiniteSet(R)
  BY SnapshotIs, TablesAreFinite
<1> HIDE DEF sources, R
<1>3. Sum(F) = Items(R)
  <2>1. DOMAIN F = {r["service"] : r \in R} /\ \A v \in DOMAIN F : F[v] = Items(Group(R, "service", v))
    BY <1>1
  <2> HIDE DEF F
  <2>2. QED
    BY <1>2, <2>1, ItemsOfGroups
<1>4. ASSUME NEW v \in DOMAIN sources PROVE sources[v].successes <= sources[v].collections
  <2> DEFINE G == Group(R, "service", v)
  <2>1. IsFiniteSet(G)
    BY <1>2, FS_Subset DEF Group
  <2> HIDE DEF G
  <2>2. Cardinality({r \in G : r.success}) <= Cardinality(G)
    BY <2>1, FS_Subset
  <2>3. QED
    BY <1>1, <2>2 DEF G
<1>5. QED
  BY <1>3, <1>4 DEF sources, R

(* Each window of collection is within the next, whichever commit came in between. *)
LEMMA WindowsFit ==
  ASSUME TablesInv, BeforeInv, NEW S \in Snapshots(5), GetCollectionStats(S).shown
  PROVE  LET stats == GetCollectionStats(S)
         IN  /\ stats.today <= stats.week
             /\ stats.week <= stats.month
             /\ stats.month <= Sum([v \in DOMAIN stats.sources |-> stats.sources[v].items])
             /\ \A v \in DOMAIN stats.sources :
                    stats.sources[v].successes <= stats.sources[v].collections
<1> DEFINE today == {r \in Successes(S[1], Today) : r.date = Today}
           week  == Successes(S[2], Today - 7)
           month == Successes(S[3], Today - 30)
           all   == S[5].runs
<1>1. \A i \in 1 .. 5 : S[i].runs \in SUBSET Run /\ IsFiniteSet(S[i].runs)
  BY SnapshotIs, TablesAreFinite
<1>2. week \in SUBSET Run /\ month \in SUBSET Run /\ all \in SUBSET Run
  BY <1>1 DEF Successes
<1>3. IsFiniteSet(week) /\ IsFiniteSet(month) /\ IsFiniteSet(all)
  BY <1>1, FS_Subset DEF Successes
<1>4. today \subseteq week
  <2>1. {r \in S[1].runs : r.date >= Today} \subseteq S[2].runs
    BY WindowsNest, TodayAssumption
  <2>2. \A r \in today : /\ r \in S[1].runs /\ r.success
                         /\ r.date = Today /\ r.date >= Today /\ r.date >= Today - 7
    BY TodayAssumption DEF Successes
  <2> HIDE DEF today
  <2>3. QED
    BY <2>1, <2>2 DEF Successes
<1>5. week \subseteq month
  <2>1. {r \in S[2].runs : r.date >= Today - 7} \subseteq S[3].runs
    BY WindowsNest, TodayAssumption
  <2>2. \A r \in week : r \in S[2].runs /\ r.date \in Int /\ r.date >= Today - 7 /\ r.success
    BY <1>1 DEF Successes, Run, Days
  <2>3. \A r \in week : r.date >= Today - 30
    BY <2>2, TodayAssumption
  <2> HIDE DEF week
  <2>4. QED
    BY <2>1, <2>2, <2>3 DEF Successes
<1>6. month \subseteq all
  <2>1. {r \in S[3].runs : r.date >= Today - 30} \subseteq S[5].runs
    BY WindowsNest, TodayAssumption
  <2>2. QED
    BY <2>1 DEF Successes
<1> HIDE DEF today, week, month, all
<1>7. Items(today) <= Items(week) /\ Items(week) <= Items(month) /\ Items(month) <= Items(all)
  BY <1>2, <1>3, <1>4, <1>5, <1>6, PartHasFewerItems
<1>8. QED
  BY <1>7, CollectionFigures, SourcesHoldAllItems DEF today, week, month, all

(* No commit in between is one of the ways to see the tables. *)
LEMMA RestIsSnapshot == Rest(5) \in Snapshots(5)
<1>1. Rest(5) = [i \in 1 .. 5 |-> IF i <= 0 THEN before ELSE db]
  BY DEF Rest
<1>2. 0 \in 0 .. 5
  OBVIOUS
<1>3. QED
  BY <1>1, <1>2 DEF Snapshots

(* The runs of the last month, which every page of history counts. *)
Month == {r \in db.runs : r.date >= Today - 30}

(* The month and its successful runs are finite parts of the history. *)
LEMMA MonthIs ==
  ASSUME TablesInv
  PROVE  /\ Month \in SUBSET Run /\ IsFiniteSet(Month)
         /\ Successes(db, Today - 30) \in SUBSET Month
<1>1. db.runs \in SUBSET Run /\ IsFiniteSet(db.runs)
  BY DEF TablesInv, Keyed, Fits
<1>2. QED
  BY <1>1, FS_Subset DEF Month, Successes

(* The figures of history while nobody writes. *)
LEMMA HistoryFigures ==
  ASSUME TablesInv, db.up
  PROVE  /\ GetCollectionStatistics(Rest(3)).items = Items(Month)
         /\ GetCollectionStatistics(Rest(3)).collections = Cardinality(Month)
         /\ GetCollectionStats(Rest(5)).shown
         /\ GetRecentHistory(db, None, 30).of = Month
         /\ GetUnifiedStatistics(Rest(2)).successful =
                Cardinality({r \in db.runs : r.date >= Today - 7 /\ r.success})
<1>1. Answered(Rest(2)) /\ Answered(Rest(3)) /\ Answered(Rest(5)) /\ Rest(3)[1] = db /\ Rest(2)[2] = db
  BY RestIs
<1>2. GetCollectionStatistics(Rest(3)).items = Items(Month)
  BY <1>1 DEF GetCollectionStatistics, Month
<1>3. GetCollectionStatistics(Rest(3)).collections = Cardinality(Month)
  BY <1>1 DEF GetCollectionStatistics, Month
<1>4. GetCollectionStats(Rest(5)).shown
  BY <1>1 DEF GetCollectionStats
<1>5. GetRecentHistory(db, None, 30).of = Month
  BY DEF GetRecentHistory, List, Month
<1>6. GetUnifiedStatistics(Rest(2)).successful = Cardinality({r \in db.runs : r.date >= Today - 7 /\ r.success})
  <2> DEFINE recent == {r \in db.runs : r.date >= Today - 7}
             good == {r \in recent : r.success}
  <2>1. GetUnifiedStatistics(Rest(2)).successful = Cardinality(good)
    BY <1>1 DEF GetUnifiedStatistics
  <2>2. good = {r \in db.runs : r.date >= Today - 7 /\ r.success}
    OBVIOUS
  <2> HIDE DEF good
  <2>3. QED
    BY <2>1, <2>2
<1>7. QED
  BY <1>2, <1>3, <1>4, <1>5, <1>6

(* Of finitely many runs, some are the latest. *)
LEMMA SomeRunIsLatest ==
  ASSUME NEW S \in SUBSET Run, IsFiniteSet(S), S # {}
  PROVE  \E r \in S : \A q \in S : q.date <= r.date
<1> DEFINE since(r) == {q \in S : q.date > r.date}
           D == {since(r) : r \in S}
<1>1. D \in SUBSET (SUBSET S) /\ D # {}
  OBVIOUS
<1>2. \A r \in S : since(r) \in D
  OBVIOUS
<1>3. \A V \in D : \E r \in S : V = since(r)
  OBVIOUS
<1> HIDE DEF D
<1>4. PICK V \in D : \A W \in SUBSET V : W # V => W \notin D
  BY <1>1, SmallestSubset
<1>5. PICK r \in S : V = since(r)
  BY <1>3, <1>4
<1>6. \A q \in S : q.date \in Int
  BY DEF Run, Days
<1>7. ASSUME NEW q \in S, ~(q.date <= r.date) PROVE FALSE
  <2>1. q \in since(r) /\ q \notin since(q) /\ since(q) \subseteq since(r)
    BY <1>6, <1>7
  <2>2. QED
    BY <1>2, <1>4, <1>5, <2>1
<1>8. QED
  BY <1>7

(* The status of the only service is the status of collection. *)
LEMMA StatusesAgree ==
  ASSUME TablesInv, db.up, \A r \in db.runs : r.service = "REGTECH",
         GetCollectionStatus(db) # {"unknown"}
  PROVE  GetSourceStatus(db, TRUE, "REGTECH") \cap GetCollectionStatus(db) # {}
<1> DEFINE recent == {r \in db.runs : r.date >= Today - 7}
           runs == {r \in db.runs : r.service = "REGTECH"}
           last == {r \in recent : \A q \in recent : q.date <= r.date}
           latest == {r \in runs : \A q \in runs : q.date <= r.date}
           told(r) == IF r.success THEN "success" ELSE "failed"
<1>1. recent # {} /\ GetCollectionStatus(db) = {told(r) : r \in last}
  BY DEF GetCollectionStatus
<1>2. runs = db.runs /\ recent \subseteq runs /\ runs \in SUBSET Run /\ IsFiniteSet(recent)
  <2>1. db.runs \in SUBSET Run /\ IsFiniteSet(db.runs)
    BY DEF TablesInv, Keyed, Fits
  <2>2. QED
    BY <2>1, FS_Subset
<1>3. runs # {} /\ GetSourceStatus(db, TRUE, "REGTECH") = {told(r) : r \in latest}
  BY <1>1, <1>2 DEF GetSourceStatus
<1>4. PICK r \in recent : \A q \in recent : q.date <= r.date
  <2> HIDE DEF recent
  <2>1. QED
    BY <1>1, <1>2, SomeRunIsLatest
<1>5. r \in last /\ r \in latest
  <2>1. ASSUME NEW q \in runs PROVE q.date <= r.date
    <3>1. q.date \in Int /\ r.date \in Int
      BY <1>2 DEF Run, Days
    <3>2. QED
      BY <1>2, <1>4, <3>1, TodayAssumption
  <2>2. QED
    BY <1>2, <1>4, <2>1
<1> HIDE DEF last, latest, recent, runs
<1>6. QED
  BY <1>1, <1>3, <1>5

(* The figures of collection nest, across a commit and between pages. *)
LEMMA HistoryFits == TablesInv /\ BeforeInv => HistoryWindowsNest
<1> SUFFICES ASSUME TablesInv, BeforeInv PROVE HistoryWindowsNest
  OBVIOUS
<1>1. ASSUME db.up
      PROVE  /\ Sum(GetChartData(db)) = GetCollectionStats(Rest(5)).month
             /\ GetCollectionStats(Rest(5)).month <= GetCollectionStatistics(Rest(3)).items
             /\ ApiCollectionStats(db).items <= GetCollectionStatistics(Rest(3)).items
             /\ Cardinality(GetRecentHistory(db, None, 30).of) =
                    GetCollectionStatistics(Rest(3)).collections
             /\ GetUnifiedStatistics(Rest(2)).successful <=
                    GetCollectionStatistics(Rest(3)).collections
  <2> DEFINE good == Successes(db, Today - 30)
             api == {r \in db.runs : r.date > Today - 30}
             week == {r \in db.runs : r.date >= Today - 7 /\ r.success}
             chart == GetChartData(db)
  <2>1. good \in SUBSET Month /\ good \in SUBSET Run /\ IsFiniteSet(good)
    BY MonthIs, FS_Subset
  <2>2. GetCollectionStats(Rest(5)).month = Items(good)
    <3>1. Rest(5)[3] = db
      BY RestIs
    <3>2. QED
      BY <1>1, <3>1, HistoryFigures, RestIsSnapshot, CollectionFigures
  <2>3. Sum(chart) = Items(good)
    <3>1. /\ DOMAIN chart = {r["date"] : r \in good}
          /\ \A v \in DOMAIN chart : chart[v] = Items(Group(good, "date", v))
      BY DEF GetChartData
    <3> HIDE DEF chart, good
    <3>2. QED
      BY <2>1, <3>1, ItemsOfGroups
  <2>4. \A r \in db.runs : r.date \in Int
    BY DEF TablesInv, Fits, Run, Days
  <2>5. api \in SUBSET Month /\ week \in SUBSET Month
    BY <2>4, TodayAssumption DEF Month
  <2>6. ApiCollectionStats(db).items = Items(api)
    BY DEF ApiCollectionStats
  <2> HIDE DEF good, api, week, chart
  <2>7. Items(good) <= Items(Month) /\ Items(api) <= Items(Month)
    BY <2>1, <2>5, MonthIs, PartHasFewerItems
  <2>8. Cardinality(week) <= Cardinality(Month)
    BY <2>5, MonthIs, FS_Subset
  <2>9. QED
    BY <1>1, <2>2, <2>3, <2>6, <2>7, <2>8, HistoryFigures DEF chart, week
<1>2. ASSUME db.up, GetSourceStatus(db, TRUE, "REGTECH") \cap GetCollectionStatus(db) = {},
             GetCollectionStatus(db) # {"unknown"}
      PROVE  \E r \in db.runs : r.service # "REGTECH"
  BY <1>2, StatusesAgree
<1>3. QED
  BY <1>1, <1>2, WindowsFit DEF HistoryWindowsNest

-----------------------------------------------------------------------------
(* Figures of one state *)

(* Every page and service shows the same totals. *)
LEMMA TotalsAgree ==
  ASSUME db.up
  PROVE  \A a \in {GetDashboardStats(Rest(8)), GetMonitoringDashboard(Rest(3)),
                   GetSystemStats(Rest(5)), GetAnalyticsOverview(db), GetUnifiedStatistics(Rest(2)),
                   GetBlacklistStats(Rest(3)), GetExpiryStats(db), ApiStats(Rest(2)),
                   Dashboard(Rest(3)), GetRealStats(Rest(5)), GetCollectionStats(Rest(5))} :
             a.total = Total(db) /\ a.active = ActiveOf(db)
<1> DEFINE Tells(a) == a.total = Total(db) /\ a.active = ActiveOf(db)
<1>1. \A n \in {2, 3, 5, 8} : Answered(Rest(n)) /\ \A i \in 1 .. n : Rest(n)[i] = db
  BY RestIs
<1>2. Tells(GetDashboardStats(Rest(8)))
  BY <1>1 DEF GetDashboardStats
<1>3. Tells(GetMonitoringDashboard(Rest(3)))
  BY <1>1 DEF GetMonitoringDashboard, List
<1>4. Tells(GetSystemStats(Rest(5)))
  BY <1>1 DEF GetSystemStats
<1>5. Tells(GetAnalyticsOverview(db))
  BY DEF GetAnalyticsOverview
<1>6. Tells(GetUnifiedStatistics(Rest(2)))
  BY <1>1 DEF GetUnifiedStatistics
<1>7. Tells(GetBlacklistStats(Rest(3)))
  BY <1>1 DEF GetBlacklistStats
<1>8. Tells(GetExpiryStats(db))
  BY DEF GetExpiryStats
<1>9. Tells(ApiStats(Rest(2)))
  BY <1>1 DEF ApiStats
<1>10. Tells(Dashboard(Rest(3)))
  BY <1>1 DEF Dashboard
<1>11. Tells(GetRealStats(Rest(5)))
  BY <1>1 DEF GetRealStats
<1>12. Tells(GetCollectionStats(Rest(5)))
  BY <1>1 DEF GetCollectionStats
<1>13. QED
  BY <1>2, <1>3, <1>4, <1>5, <1>6, <1>7, <1>8, <1>9, <1>10, <1>11, <1>12

(* The counts that single pages show are those of the others. *)
LEMMA CountsAgree ==
  ASSUME db.up
  PROVE  /\ GetDashboardCounts(Rest(3)).total = Total(db)
         /\ GetPerformanceMetrics(Rest(2)).active = GetSystemStats(Rest(5)).active
         /\ GetSystemStats(Rest(5)).expired = GetExpiryStats(db).inactive
         /\ Cardinality(BlacklistListAnswer(Rest(2)).rows) = BlacklistJsonAnswer(Rest(2)).total
<1>1. \A n \in {2, 3, 5} : Answered(Rest(n)) /\ \A i \in 1 .. n : Rest(n)[i] = db
  BY RestIs
<1>2. GetDashboardCounts(Rest(3)).total = Total(db)
  BY <1>1 DEF GetDashboardCounts
<1>3. GetPerformanceMetrics(Rest(2)).active = GetSystemStats(Rest(5)).active
  BY <1>1 DEF GetPerformanceMetrics, GetSystemStats, List
<1>4. GetSystemStats(Rest(5)).expired = GetExpiryStats(db).inactive
  BY <1>1 DEF GetSystemStats, GetExpiryStats
<1>5. Cardinality(BlacklistListAnswer(Rest(2)).rows) = BlacklistJsonAnswer(Rest(2)).total
  BY <1>1 DEF BlacklistListAnswer, BlacklistJsonAnswer, Feed, GetBlacklistList, List
<1>6. QED
  BY <1>2, <1>3, <1>4, <1>5

(* No two values of a field share a label. *)
Distinct(S, field) == \A q, r \in S : Label(q[field]) = Label(r[field]) => q[field] = r[field]

(* A breakdown adds up to what it breaks down while no two values share a label. *)
LEMMA BreakdownsAddUp ==
  ASSUME NEW S, IsFiniteSet(S), NEW field, Distinct(S, field), NEW d \in Breakdowns(S, field)
  PROVE  Sum(d) = Cardinality(S)
<1> DEFINE values == {r[field] : r \in S}
           labels == {Label(v) : v \in values}
           line == [v \in values |-> Label(v)]
<1>1. PICK pick \in [labels -> values] :
          /\ \A l \in labels : Label(pick[l]) = l
          /\ d = [l \in labels |-> Cardinality(Group(S, field, pick[l]))]
  BY DEF Breakdowns
<1>2. \A v, w \in values : Label(v) = Label(w) => v = w
  BY DEF Distinct
<1>3. DOMAIN d = {line[r[field]] : r \in S}
  <2>1. labels = {line[r[field]] : r \in S}
    OBVIOUS
  <2>2. DOMAIN d = labels
    BY <1>1
  <2> HIDE DEF labels, line
  <2>3. QED
    BY <2>1, <2>2
<1>4. \A q, r \in S : line[q[field]] = line[r[field]] => q[field] = r[field]
  BY <1>2
<1>5. ASSUME NEW r \in S PROVE d[line[r[field]]] = Cardinality(Group(S, field, r[field]))
  <2>1. r[field] \in values /\ line[r[field]] = Label(r[field]) /\ Label(r[field]) \in labels
    OBVIOUS
  <2>2. pick[Label(r[field])] \in values /\ Label(pick[Label(r[field])]) = Label(r[field])
    BY <1>1, <2>1
  <2>3. pick[Label(r[field])] = r[field]
    BY <1>2, <2>1, <2>2
  <2> HIDE DEF values, line, labels
  <2>4. d[Label(r[field])] = Cardinality(Group(S, field, pick[Label(r[field])]))
    BY <1>1, <2>1
  <2>5. QED
    BY <2>1, <2>3, <2>4
<1>6. S \in SUBSET S
  OBVIOUS
<1> HIDE DEF line
<1>7. Lines(S, S, field, line, d)
  BY <1>3, <1>4, <1>5 DEF Lines
<1>8. QED
  BY <1>6, <1>7, LinesAddUp

(* The active rows are finitely many rows of the table. *)
LEMMA ActiveIsFinite ==
  ASSUME TablesInv
  PROVE  /\ IsFiniteSet(db.rows) /\ db.rows \subseteq Row
         /\ IsFiniteSet(Active(db)) /\ Active(db) \subseteq db.rows
<1>1. IsFiniteSet(db.rows) /\ db.rows \subseteq Row
  BY DEF TablesInv, Keyed, Fits
<1>2. QED
  BY <1>1, FS_Subset DEF Active

(* The breakdowns of the dashboards add up to the active rows. *)
LEMMA BreakdownsAgree ==
  ASSUME TablesInv, db.up
  PROVE  LET stats == GetDashboardStats(Rest(8))
         IN  /\ \A d \in stats.bySource \cup Dashboard(Rest(3)).byData : Sum(d) = stats.active
             /\ ~Mixed(Active(db), "country") => \A d \in stats.byCountry : Sum(d) = stats.active
             /\ \A d \in stats.byReason : Sum(d) = stats.active
<1> DEFINE stats == GetDashboardStats(Rest(8))
           A == Active(db)
<1>1. \A n \in {3, 8} : Answered(Rest(n)) /\ \A i \in 1 .. n : Rest(n)[i] = db
  BY RestIs
<1>2. /\ stats.bySource = Breakdowns(A, "data")
      /\ stats.byCountry = Breakdowns(A, "country")
      /\ stats.byReason = Breakdowns(A, "source")
      /\ stats.active = Cardinality(A)
  BY <1>1 DEF GetDashboardStats, ActiveOf
<1>3. Dashboard(Rest(3)).byData = Breakdowns(A, "data")
  BY <1>1 DEF Dashboard
<1>4. Distinct(A, "data") /\ Distinct(A, "source")
  <2>1. \A r \in A : r.data \in {"REGTECH", "MANUAL", None} /\ r.source \in {"REGTECH", "MANUAL"}
    BY ActiveIsFinite DEF Row
  <2> HIDE DEF A
  <2>2. QED
    BY <2>1 DEF Distinct, Label
<1>5. ~Mixed(A, "country") => Distinct(A, "country")
  BY DEF Distinct, Label, Mixed
<1> HIDE DEF stats
<1>6. QED
  BY <1>2, <1>3, <1>4, <1>5, ActiveIsFinite, BreakdownsAddUp DEF stats

(* One line for each source, with its rows and how many of them are active. *)
LEMMA StatisticsAddUp ==
  ASSUME TablesInv
  PROVE  /\ Sum([l \in GetStatistics(db).black |-> l.count]) = Total(db)
         /\ Sum([l \in GetStatistics(db).black |-> l.active]) = ActiveOf(db)
<1> DEFINE R == db.rows
           A == Active(db)
           V == {r.source : r \in R}
           line == [v \in V |-> [source |-> v, count |-> Cardinality(Group(R, "source", v)),
                                 active |-> Cardinality({r \in Group(R, "source", v) : r.active})]]
           X == {line[r["source"]] : r \in R}
           F == [l \in X |-> l.count]
           G == [l \in X |-> l.active]
<1>1. GetStatistics(db).black = X
  <2>1. GetStatistics(db).black =
          {[source |-> v, count |-> Cardinality(Group(R, "source", v)),
            active |-> Cardinality({r \in Group(R, "source", v) : r.active})] : v \in V}
    BY DEF GetStatistics
  <2>2. QED
    BY <2>1
<1>2. IsFiniteSet(R) /\ A \in SUBSET R /\ R \in SUBSET R
  BY ActiveIsFinite
<1>3. \A v \in V : /\ line[v].source = v /\ line[v].count = Cardinality(Group(R, "source", v))
                   /\ line[v].active = Cardinality(Group(A, "source", v))
  <2>1. \A v : {r \in Group(R, "source", v) : r.active} = Group(A, "source", v)
    BY DEF Group, Active
  <2>2. QED
    BY <2>1
<1>4. \A r \in R : r["source"] \in V /\ line[r["source"]] \in X
  OBVIOUS
<1> HIDE DEF line
<1>5. Lines(R, R, "source", line, F) /\ Lines(R, A, "source", line, G)
  <2>1. \A q, r \in R : line[q["source"]] = line[r["source"]] => q["source"] = r["source"]
    BY <1>3, <1>4
  <2>2. DOMAIN F = X /\ DOMAIN G = X /\ \A l \in X : F[l] = l.count /\ G[l] = l.active
    OBVIOUS
  <2> HIDE DEF F, G
  <2>3. \A r \in R : /\ F[line[r["source"]]] = Cardinality(Group(R, "source", r["source"]))
                     /\ G[line[r["source"]]] = Cardinality(Group(A, "source", r["source"]))
    BY <1>3, <1>4, <2>2
  <2>4. QED
    BY <2>1, <2>2, <2>3 DEF Lines
<1> HIDE DEF F, G
<1>6. Sum(F) = Cardinality(R) /\ Sum(G) = Cardinality(A)
  BY <1>2, <1>5, LinesAddUp
<1>7. QED
  BY <1>1, <1>6 DEF F, G, Total, ActiveOf

(* The lines of a statement that counts the groups of a field. *)
LEMMA CountedLines ==
  ASSUME NEW S, IsFiniteSet(S), NEW field, NEW line, NEW X,
         \A r \in S : line[r[field]].count = Cardinality(Group(S, field, r[field])),
         \A q, r \in S : line[q[field]] = line[r[field]] => q[field] = r[field],
         X = {line[r[field]] : r \in S}
  PROVE  Sum([l \in X |-> l.count]) = Cardinality(S)
<1> DEFINE F == [l \in X |-> l.count]
<1>1. DOMAIN F = X /\ \A r \in S : line[r[field]] \in X /\ F[line[r[field]]] = line[r[field]].count
  OBVIOUS
<1> HIDE DEF F
<1>2. Lines(S, S, field, line, F)
  BY <1>1 DEF Lines
<1>3. S \in SUBSET S
  OBVIOUS
<1>4. Sum(F) = Cardinality(S)
  BY <1>2, <1>3, LinesAddUp
<1>5. QED
  BY <1>4 DEF F

(* The lines by source of the statistics and of the chart are the same and add up. *)
LEMMA ApiLinesAgree ==
  ASSUME TablesInv, db.up
  PROVE  /\ Sum([l \in ApiStats(Rest(2)).bySource |-> l.count]) = ActiveOf(db)
         /\ ApiStats(Rest(2)).bySource =
                {[label |-> c.label, count |-> c.value] : c \in ApiChartData(db, "source")}
<1> DEFINE A == Active(db)
           V == {r.data : r \in A}
           line == [v \in V |-> [label |-> v, count |-> Cardinality(Group(A, "data", v))]]
           X == ApiStats(Rest(2)).bySource
<1>1. X = {line[v] : v \in V}
  <2>1. Answered(Rest(2)) /\ Rest(2)[2] = db
    BY RestIs
  <2>2. QED
    BY <2>1 DEF ApiStats
<1>2. ApiChartData(db, "source") = {[label |-> v, value |-> Cardinality(Group(A, "data", v))] : v \in V}
  BY DEF ApiChartData
<1>3. X = {[label |-> c.label, count |-> c.value] : c \in ApiChartData(db, "source")}
  <2> DEFINE C == {[label |-> v, value |-> Cardinality(Group(A, "data", v))] : v \in V}
             Y == {[label |-> c.label, count |-> c.value] : c \in C}
  <2>1. ASSUME NEW v \in V PROVE line[v] \in Y
    <3>1. [label |-> v, value |-> Cardinality(Group(A, "data", v))] \in C
      OBVIOUS
    <3>2. QED
      BY <3>1
  <2>2. ASSUME NEW y \in Y PROVE \E v \in V : y = line[v]
    OBVIOUS
  <2> HIDE DEF X, Y, line
  <2>3. X = Y
    BY <1>1, <2>1, <2>2
  <2>4. QED
    BY <1>2, <2>3 DEF Y
<1>4. Sum([l \in X |-> l.count]) = Cardinality(A)
  <2>1. \A v \in V : line[v].label = v /\ line[v].count = Cardinality(Group(A, "data", v))
    OBVIOUS
  <2>2. \A r \in A : r["data"] \in V
    OBVIOUS
  <2>3. X = {line[r["data"]] : r \in A}
    BY <1>1
  <2> HIDE DEF line, X, V, A
  <2>4. \A r \in A : line[r["data"]].count = Cardinality(Group(A, "data", r["data"]))
    BY <2>1, <2>2
  <2>5. \A q, r \in A : line[q["data"]] = line[r["data"]] => q["data"] = r["data"]
    BY <2>1, <2>2
  <2>6. IsFiniteSet(A)
    BY ActiveIsFinite DEF A
  <2>7. QED
    BY <2>3, <2>4, <2>5, <2>6, CountedLines
<1>5. QED
  BY <1>3, <1>4 DEF ActiveOf

(* What a statement that groups rows by a field and counts them answers. *)
GroupLines(S, field) ==
    {[value |-> v, count |-> Cardinality(Group(S, field, v))] : v \in {r[field] : r \in S}}

(* The groups of one field add up to the rows they were made of. *)
LEMMA GroupLinesAddUp ==
  ASSUME NEW S, IsFiniteSet(S), NEW field
  PROVE  Sum([g \in GroupLines(S, field) |-> g.count]) = Cardinality(S)
<1> DEFINE V == {r[field] : r \in S}
           line == [v \in V |-> [value |-> v, count |-> Cardinality(Group(S, field, v))]]
           X == GroupLines(S, field)
<1>1. \A v \in V : line[v].value = v /\ line[v].count = Cardinality(Group(S, field, v))
  OBVIOUS
<1>2. \A r \in S : r[field] \in V
  OBVIOUS
<1>3. X = {line[r[field]] : r \in S}
  BY DEF GroupLines
<1> HIDE DEF line, X, V
<1>4. \A r \in S : line[r[field]].count = Cardinality(Group(S, field, r[field]))
  BY <1>1, <1>2
<1>5. \A q, r \in S : line[q[field]] = line[r[field]] => q[field] = r[field]
  BY <1>1, <1>2
<1>6. Sum([l \in X |-> l.count]) = Cardinality(S)
  BY <1>3, <1>4, <1>5, CountedLines
<1>7. QED
  BY <1>6 DEF X

(* The groups of the analysis of false positives: the recent active rows. *)
LEMMA PatternsAgree ==
  ASSUME TablesInv
  PROVE  LET found == AnalyzeFalsePositivePatterns(Rest(4), 30)
             sum(groups) == Sum([g \in groups |-> g.count])
         IN  /\ sum(found.bySource) = sum(found.byDay)
             /\ sum(found.byCountry) <= sum(found.bySource)
             /\ sum(found.byDay) <= ActiveOf(db)
<1> DEFINE A == Active(db)
           R == {r \in A : r.created > Today - 30}
           C == {r \in R : r.country # None}
           found == AnalyzeFalsePositivePatterns(Rest(4), 30)
           sum(groups) == Sum([g \in groups |-> g.count])
<1>1. Rest(4)[2] = db /\ Rest(4)[3] = db /\ Rest(4)[4] = db
  BY RestIs
<1>2. /\ found.bySource = GroupLines(R, "source")
      /\ found.byCountry = GroupLines(C, "country")
      /\ found.byDay = GroupLines(R, "created")
  BY <1>1 DEF AnalyzeFalsePositivePatterns, GroupLines
<1>3. IsFiniteSet(A) /\ R \in SUBSET A /\ C \in SUBSET R
  BY ActiveIsFinite
<1>4. IsFiniteSet(R) /\ IsFiniteSet(C)
  BY <1>3, FS_Subset
<1>5. Cardinality(C) <= Cardinality(R) /\ Cardinality(R) <= Cardinality(A)
  BY <1>3, <1>4, FS_Subset
<1> HIDE DEF found, R, C, A
<1>6. /\ sum(found.bySource) = Cardinality(R)
      /\ sum(found.byDay) = Cardinality(R)
      /\ sum(found.byCountry) = Cardinality(C)
  BY <1>2, <1>4, GroupLinesAddUp
<1>7. QED
  BY <1>5, <1>6 DEF found, A, ActiveOf

(* One line for each day, of every row. *)
LEMMA TimelineAddsUp ==
  ASSUME TablesInv, db.up
  PROVE  LET days == GetDetectionTimeline(Rest(2), None).timeline
         IN  Sum([d \in DOMAIN days |-> days[d].count]) = Total(db)
<1> DEFINE R == db.rows
           day(r) == IF r.detected # None THEN r.detected ELSE r.created
           key == [r \in R |-> day(r)]
           days == GetDetectionTimeline(Rest(2), None).timeline
           F == [d \in DOMAIN days |-> days[d].count]
           I == DOMAIN F
<1>1. /\ DOMAIN days = {day(r) : r \in R}
      /\ \A d \in DOMAIN days : days[d].count = Cardinality({r \in R : day(r) = d})
  <2> DEFINE rows == {r \in R : None # None => day(r) >= Today - None}
  <2>1. Answered(Rest(2)) /\ Rest(2)[1] = db
    BY RestIs
  <2>2. days = [d \in {day(r) : r \in rows} |->
                  [count |-> Cardinality({r \in rows : day(r) = d}),
                   sources |-> Known({r \in rows : day(r) = d}, "source")]]
    BY <2>1 DEF GetDetectionTimeline
  <2>3. rows = R
    OBVIOUS
  <2> HIDE DEF rows, days, day
  <2>4. QED
    BY <2>2, <2>3
<1>2. IsFiniteSet(R)
  BY ActiveIsFinite
<1> HIDE DEF days
<1>3. I = {key[r] : r \in R}
  BY <1>1
<1>4. ASSUME NEW d \in I PROVE F[d] = Cardinality(Of(R, key, d))
  <2>1. Of(R, key, d) = {r \in R : day(r) = d}
    BY DEF Of
  <2>2. QED
    BY <1>1, <2>1
<1> HIDE DEF key, F, I
<1>5. Groups(R, key, I) /\ CountsOf(F, R, key, I)
  BY <1>2, <1>3, <1>4, ImageIsFinite DEF Groups, CountsOf
<1>6. SumFunctionOnSet(F, I) = Cardinality(R)
  BY <1>5, CountOfGroups
<1>7. QED
  BY <1>6 DEF F, I, days, Sum, SumFunction, Total

(* All figures of one state fit together. *)
LEMMA FiguresOfOneState == TablesInv => FiguresAgree
<1> SUFFICES ASSUME TablesInv, db.up PROVE FiguresAgree
  BY DEF FiguresAgree
<1>1. GetDashboardStats(Rest(8)).total = Total(db) /\ GetDashboardStats(Rest(8)).active = ActiveOf(db)
  BY TotalsAgree
<1> QED
  BY <1>1, TotalsAgree, CountsAgree, BreakdownsAgree, StatisticsAddUp, ApiLinesAgree, PatternsAgree,
     TimelineAddsUp DEF FiguresAgree

(* Both invariants of the tables hold in every state. *)
LEMMA AlwaysBefore == SystemSpec => [](TablesInv /\ BeforeInv)
<1>1. SystemInit => TablesInv /\ BeforeInv
  BY TablesInit, BeforeInit DEF SystemInit
<1>2. TablesInv /\ BeforeInv /\ [SystemNext]_<<tables, walk, registration>> => (TablesInv /\ BeforeInv)'
  BY TablesStep, BeforeStep
<1>3. QED
  BY <1>1, <1>2, PTL DEF SystemSpec

(* The figures of all pages and services fit together: totals and breakdowns *)
(* agree while nobody writes, and shares and windows of the history stay      *)
(* sound across a commit between the statements of an answer                  *)
(* (dashboard_api.py, analytics.py, collection_history.py, ...).              *)
THEOREM FiguresFitTogether == SystemSpec => []FiguresHold
<1>1. TablesInv /\ BeforeInv => FiguresHold
  BY FiguresOfOneState, SharesFit, HistoryFits DEF FiguresHold
<1>2. QED
  BY <1>1, AlwaysBefore, PTL

-----------------------------------------------------------------------------
(* The ledgers of errors (Monitoring) *)

WebPcs == {"hooks", "route", "raised", "record", "recorded", "answering"}
CachePcs == {"hit", "miss", "lost", "compute", "set", "delete", "error"}

(* What a thread knows of its request or call, at each place of it. *)
Tasks == [pc : {"idle"} \cup WebPcs \cup CachePcs, endpoint : Endpoints \cup Keys \cup {Nil},
          error : Exceptions \cup {Nil}, status : Statuses \cup {Nil}, started : BOOLEAN]
ThreadOk(w) ==
    /\ w \in Tasks
    /\ w.pc \in WebPcs => w.endpoint \in Endpoints
    /\ w.pc \in CachePcs => w.endpoint \in Keys
    /\ w.pc \in {"hooks", "route"} => w.error = Nil
    /\ w.pc = "raised" => w.error \in Exceptions
    /\ w.pc \in {"record", "recorded"} =>
           w.error \in Exceptions \ {NotFound} /\ w.status = AnswerOf(w.error)
    /\ w.pc = "answering" => w.status \in Statuses

(* The lock is held from the first of the counters of an error to the last. *)
Records(w) == w.pc \in {"record", "recorded"}
WorkInv ==
    /\ work \in [Threads -> Tasks]
    /\ \A t \in Threads : ThreadOk(work[t])
    /\ lock \in Threads \cup {Nil}
    /\ \A t \in Threads : Records(work[t]) <=> lock = t

(* An error may be counted by its type and not yet by the rest. *)
HalfDone == IF \E t \in Threads : In(t, "recorded") THEN 1 ELSE 0

ErrorsInv ==
    /\ errors = [ring |-> errors.ring, byType |-> errors.byType, byEndpoint |-> errors.byEndpoint,
                 byStatus |-> errors.byStatus, total |-> errors.total]
    /\ errors.byType \in [Exceptions -> Nat]
    /\ errors.byEndpoint \in [Endpoints -> Nat]
    /\ errors.byStatus \in [Statuses -> Nat]
    /\ errors.total \in Nat
    /\ SumFunction(errors.byType) = errors.total + HalfDone
    /\ SumFunction(errors.byEndpoint) = errors.total
    /\ SumFunction(errors.byStatus) = errors.total

CacheInv ==
    /\ cacheOps = [ring |-> cacheOps.ring, hits |-> cacheOps.hits, misses |-> cacheOps.misses,
                   found |-> cacheOps.found, missed |-> cacheOps.missed, sets |-> cacheOps.sets,
                   deletes |-> cacheOps.deletes, errors |-> cacheOps.errors]
    /\ cacheOps.hits \in [KeyPrefixes -> Nat] /\ cacheOps.misses \in [KeyPrefixes -> Nat]
    /\ cacheOps.found \in Nat /\ cacheOps.missed \in Nat
    /\ SumFunction(cacheOps.hits) = cacheOps.found
    /\ SumFunction(cacheOps.misses) = cacheOps.missed

(* The errors known with a status, and who is about to answer one with it. *)
KnownErrors(s) == errors.byStatus[s] + (IF s = StatusOf[NotFound] THEN notFounds ELSE 0)
Answers(w, s) == w.pc = "answering" /\ w.error # Nil /\ w.status = s
Answering(s) == {t \in Threads : Answers(work[t], s)}

AnswersInv ==
    /\ notFounds \in Nat
    /\ httpRequests \in [Statuses -> Nat]
    /\ answered = [raised |-> answered.raised, early |-> answered.early]
    /\ answered.raised \in [Statuses -> Nat] /\ answered.early \in [Statuses -> Nat]
    /\ \A s \in Statuses :
           /\ KnownErrors(s) = answered.raised[s] + Cardinality(Answering(s))
           /\ answered.raised[s] <= httpRequests[s] + answered.early[s]

LedgersInv == WorkInv /\ ErrorsInv /\ CacheInv /\ AnswersInv

(* One more of a key adds one to the sum. *)
LEMMA SumOfPlus ==
  ASSUME NEW S, IsFiniteSet(S), NEW f \in [S -> Nat], NEW x \in S
  PROVE  /\ Plus(f, x) \in [S -> Nat]
         /\ SumFunction(Plus(f, x)) = SumFunction(f) + 1
<1> DEFINE g == Plus(f, x)
           T == S \ {x}
<1>1. g \in [S -> Nat] /\ g[x] = f[x] + 1 /\ \A y \in T : f[y] = g[y]
  BY DEF Plus
<1>2. DOMAIN g = S /\ DOMAIN f = S /\ IsFiniteSet(T)
  BY <1>1, FS_Subset
<1>3. (\A y \in S : f[y] \in Int) /\ (\A y \in S : g[y] \in Int)
  BY <1>1
<1> HIDE DEF g
<1>4. SumFunctionOnSet(f, S) = f[x] + SumFunctionOnSet(f, T)
  BY <1>3, SumTakes
<1>5. SumFunctionOnSet(g, S) = g[x] + SumFunctionOnSet(g, T)
  BY <1>3, SumTakes
<1>6. SumFunctionOnSet(f, T) = SumFunctionOnSet(g, T)
  <2> HIDE DEF T
  <2> QED
    BY <1>1, <1>2, SumSame
<1>7. SumFunctionOnSet(f, T) \in Int
  BY <1>2, <1>3, SumIsInt
<1> DEFINE m == SumFunctionOnSet(f, T)
<1>8. SumFunctionOnSet(f, S) = f[x] + m /\ SumFunctionOnSet(g, S) = (f[x] + 1) + m
  BY <1>1, <1>4, <1>5, <1>6
<1> HIDE DEF m
<1>9. SumFunctionOnSet(g, S) = SumFunctionOnSet(f, S) + 1
  BY <1>7, <1>8 DEF m
<1>10. SumFunction(g) = SumFunction(f) + 1
  BY <1>2, <1>9 DEF SumFunction
<1>11. QED
  BY <1>1, <1>10 DEF g

(* Where nothing is counted the sum is 0. *)
LEMMA SumOfNoCount ==
  ASSUME NEW S, IsFiniteSet(S)
  PROVE  NoCount(S) \in [S -> Nat] /\ SumFunction(NoCount(S)) = 0
<1> DEFINE f == NoCount(S)
           D == {V \in SUBSET S : SumFunctionOnSet(f, V) # 0}
<1>0. D \in SUBSET (SUBSET S) /\ \A W : W \in D <=> W \in SUBSET S /\ SumFunctionOnSet(f, W) # 0
  OBVIOUS
<1>1. f \in [S -> Nat] /\ \A x \in S : f[x] = 0
  BY DEF NoCount
<1> HIDE DEF D, f
<1>2. D = {}
  <2>1. SUFFICES ASSUME D # {} PROVE FALSE
    OBVIOUS
  <2>2. PICK V \in D : /\ IsFiniteSet(V)
                       /\ \A W \in SUBSET V : W # V => W \notin D
    BY <1>0, <2>1, SmallestSubset
  <2>3. V \in SUBSET S /\ SumFunctionOnSet(f, V) # 0
    BY <1>0, <2>2
  <2>4. PICK x \in V : TRUE
    BY <2>3, SumOfNone
  <2>5. \A y \in V : f[y] \in Int
    BY <1>1, <2>3
  <2>6. SumFunctionOnSet(f, V) = f[x] + SumFunctionOnSet(f, V \ {x})
    BY <2>2, <2>5, SumTakes
  <2>7. SumFunctionOnSet(f, V \ {x}) = 0
    BY <1>0, <2>2, <2>3
  <2>8. QED
    BY <1>1, <2>3, <2>6, <2>7
<1>3. SumFunctionOnSet(f, S) = 0
  BY <1>0, <1>2
<1>4. SumFunction(f) = 0
  BY <1>1, <1>3 DEF SumFunction
<1>5. QED
  BY <1>1, <1>4 DEF f

(* What is counted is counted by finitely many keys. *)
LEMMA CountedAreFinite ==
  /\ IsFiniteSet(Exceptions) /\ IsFiniteSet(Endpoints)
  /\ IsFiniteSet(Statuses) /\ IsFiniteSet(KeyPrefixes)
<1>1. IsFiniteSet(ApiErrors) /\ IsFiniteSet(HttpExceptions) /\ IsFiniteSet(Bugs)
      /\ IsFiniteSet(Endpoints) /\ IsFiniteSet(Keys)
  BY MonitoringAssumption
<1>2. IsFiniteSet(ApiErrors \cup HttpExceptions) /\ IsFiniteSet(Exceptions)
  BY <1>1, FS_Union DEF Exceptions
<1>3. IsFiniteSet({StatusOf[x] : x \in ApiErrors \cup HttpExceptions})
  BY <1>2, ImageIsFinite
<1>4. IsFiniteSet({200, 401, 500, 503})
  <2>1. \A m, n \in Int : IsFiniteSet(m .. n)
    BY FS_Interval
  <2>2. {200, 401, 500, 503} \subseteq 0 .. 600
    OBVIOUS
  <2>3. QED
    BY <2>1, <2>2, FS_Subset
<1>6. IsFiniteSet(Statuses)
  <2> DEFINE A == {200, 401, 500, 503}
             B == {StatusOf[x] : x \in ApiErrors \cup HttpExceptions}
  <2>1. IsFiniteSet(A) /\ IsFiniteSet(B) /\ Statuses = A \cup B
    BY <1>3, <1>4 DEF Statuses
  <2> HIDE DEF A, B
  <2>2. QED
    BY <2>1, FS_Union
<1>7. IsFiniteSet(KeyPrefixes)
  BY <1>1, ImageIsFinite DEF KeyPrefixes
<1>8. QED
  BY <1>1, <1>2, <1>6, <1>7

(* An exception is answered with a status of its own, which is the one it is  *)
(* recorded with; Nil is no exception.                                        *)
LEMMA AnswersAreStatuses ==
  /\ Nil \notin Exceptions /\ NotFound \in Exceptions /\ Nil \notin Threads
  /\ \A x \in Exceptions : AnswerOf(x) \in Statuses /\ RecordedStatus(x) = AnswerOf(x)
  /\ AnswerOf(NotFound) = StatusOf[NotFound]
<1>1. \A S \in {ApiErrors, HttpExceptions, Bugs} : Nil \notin S
  BY MonitoringAssumption
<1>2. NotFound \in HttpExceptions /\ NotFound \notin Bugs /\ Nil \notin Threads
  BY MonitoringAssumption
<1>3. QED
  BY <1>1, <1>2 DEF Exceptions, AnswerOf, RecordedStatus, Statuses

(* At the start nothing is counted. *)
LEMMA LedgersInit == Init => LedgersInv
<1>1. SUFFICES ASSUME Init PROVE LedgersInv
  OBVIOUS
<1>2. \A t \in Threads : work[t] = Free
  BY <1>1 DEF Init
<1>3. ThreadOk(Free) /\ Free.pc = "idle"
  BY DEF ThreadOk, Free, Tasks, WebPcs, CachePcs
<1>4. WorkInv
  <2>1. work = [t \in Threads |-> Free] /\ lock = Nil
    BY <1>1 DEF Init
  <2>2. work \in [Threads -> Tasks]
    BY <1>3, <2>1 DEF ThreadOk
  <2>3. \A t \in Threads : ~ Records(work[t]) /\ lock # t
    BY <1>2, <1>3, <2>1, AnswersAreStatuses DEF Records
  <2>4. QED
    BY <1>2, <1>3, <2>1, <2>2, <2>3 DEF WorkInv
<1>5. HalfDone = 0
  BY <1>2, <1>3 DEF HalfDone, In
<1>6. ErrorsInv
  BY <1>1, <1>5, CountedAreFinite, SumOfNoCount DEF Init, ErrorsInv
<1>7. CacheInv
  BY <1>1, CountedAreFinite, SumOfNoCount DEF Init, CacheInv
<1>8. AnswersInv
  <2>1. \A s \in Statuses : Answering(s) = {}
    BY <1>2, <1>3 DEF Answering, Answers
  <2>2. Cardinality({}) = 0
    BY FS_EmptySet
  <2>3. /\ notFounds = 0 /\ httpRequests = NoCount(Statuses)
        /\ answered = [raised |-> NoCount(Statuses), early |-> NoCount(Statuses)]
        /\ errors.byStatus = NoCount(Statuses)
    BY <1>1 DEF Init
  <2>4. NoCount(Statuses) \in [Statuses -> Nat] /\ \A s \in Statuses : NoCount(Statuses)[s] = 0
    BY DEF NoCount
  <2>5. \A s \in Statuses : KnownErrors(s) = 0 /\ Cardinality(Answering(s)) = 0
    BY <2>1, <2>2, <2>3, <2>4 DEF KnownErrors
  <2>6. QED
    BY <2>3, <2>4, <2>5 DEF AnswersInv
<1>9. QED
  BY <1>4, <1>6, <1>7, <1>8 DEF LedgersInv

(* A step of a thread that neither takes nor frees the lock keeps who works on what. *)
WorkGoesOn(t, w) ==
    /\ t \in Threads /\ ThreadOk(w) /\ Becomes(t, w)
    /\ lock' \in Threads \cup {Nil}
    /\ Records(w) <=> lock' = t
    /\ \A u \in Threads \ {t} : lock' = u <=> lock = u

LEMMA WorkStep ==
  ASSUME NEW t, NEW w, WorkInv, WorkGoesOn(t, w)
  PROVE  /\ WorkInv'
         /\ work'[t] = w /\ \A u \in Threads \ {t} : work'[u] = work[u]
<1>1. work \in [Threads -> Tasks] /\ t \in Threads /\ w \in Tasks
  BY DEF WorkInv, WorkGoesOn, ThreadOk
<1>2. work' = [work EXCEPT ![t] = w]
  BY DEF WorkGoesOn, Becomes
<1>3. work' \in [Threads -> Tasks] /\ work'[t] = w /\ \A u \in Threads \ {t} : work'[u] = work[u]
  BY <1>1, <1>2
<1>4. \A u \in Threads : ThreadOk(work'[u])
  BY <1>3 DEF WorkInv, WorkGoesOn
<1>5. \A u \in Threads : Records(work'[u]) <=> lock' = u
  BY <1>3 DEF WorkInv, WorkGoesOn
<1>6. QED
  BY <1>3, <1>4, <1>5 DEF WorkInv, WorkGoesOn, ThreadOk, Records

(* Who answers with a status: the same threads and, if it does, t. *)
LEMMA AnsweringStep ==
  ASSUME NEW t, NEW w, WorkInv, WorkGoesOn(t, w), NEW s
  PROVE  /\ IsFiniteSet(Answering(s)) /\ Cardinality(Answering(s)) \in Nat
         /\ Answers(work[t], s) <=> t \in Answering(s)
         /\ Answers(w, s) /\ ~ Answers(work[t], s) =>
                Cardinality(Answering(s)') = Cardinality(Answering(s)) + 1
         /\ ~ Answers(w, s) /\ Answers(work[t], s) =>
                Cardinality(Answering(s)') = Cardinality(Answering(s)) - 1
         /\ (Answers(w, s) <=> Answers(work[t], s)) =>
                Cardinality(Answering(s)') = Cardinality(Answering(s))
<1> DEFINE A == Answering(s)
           B == Answering(s)'
<1>1. t \in Threads /\ A \subseteq Threads /\ IsFiniteSet(Threads)
  BY MonitoringAssumption DEF Answering, WorkGoesOn
<1>2. IsFiniteSet(A) /\ Cardinality(A) \in Nat
  BY <1>1, FS_Subset, FS_CardinalityType
<1>3. work'[t] = w /\ \A u \in Threads \ {t} : work'[u] = work[u]
  BY WorkStep
<1>4. Answers(work[t], s) <=> t \in A
  BY <1>1 DEF Answering
<1>5. B = {u \in Threads : Answers(work'[u], s)}
  BY DEF Answering, Answers
<1>6. \A u \in Threads \ {t} : u \in A <=> u \in B
  BY <1>3, <1>5 DEF Answering
<1>7. Answers(w, s) <=> t \in B
  BY <1>1, <1>3, <1>5
<1>8. B \subseteq Threads
  BY <1>5
<1> HIDE DEF A, B
<1>9. CASE Answers(w, s) /\ ~ Answers(work[t], s)
  <2>1. t \notin A /\ B = A \cup {t}
    BY <1>1, <1>4, <1>6, <1>7, <1>8, <1>9
  <2>2. Cardinality(B) = Cardinality(A) + 1
    BY <1>2, <2>1, FS_AddElement
  <2>3. QED
    BY <1>2, <1>4, <1>9, <2>2 DEF A, B
<1>10. CASE ~ Answers(w, s) /\ Answers(work[t], s)
  <2>1. t \in A /\ B = A \ {t}
    BY <1>1, <1>4, <1>6, <1>7, <1>8, <1>10
  <2>2. Cardinality(B) = Cardinality(A) - 1
    BY <1>2, <2>1, FS_RemoveElement
  <2>3. QED
    BY <1>2, <1>4, <1>10, <2>2 DEF A, B
<1>11. CASE Answers(w, s) <=> Answers(work[t], s)
  <2>1. A = B
    BY <1>1, <1>4, <1>6, <1>7, <1>8, <1>11
  <2>2. QED
    BY <1>2, <1>4, <1>11, <2>1 DEF A, B
<1>12. QED
  BY <1>9, <1>10, <1>11

(* A step that counts nothing keeps what is counted. *)
Uncounted(t, w) ==
    /\ WorkGoesOn(t, w)
    /\ work[t].pc # "recorded" /\ w.pc # "recorded"
    /\ \A s \in Statuses : ~ Answers(work[t], s) /\ ~ Answers(w, s)
    /\ UNCHANGED <<errors, httpRequests, notFounds, answered>>

LEMMA UncountedStep ==
  ASSUME NEW t, NEW w, WorkInv, ErrorsInv, AnswersInv, Uncounted(t, w)
  PROVE  WorkInv' /\ ErrorsInv' /\ AnswersInv'
<1>0. WorkGoesOn(t, w) /\ t \in Threads
  BY DEF Uncounted, WorkGoesOn
<1>1. WorkInv' /\ work'[t] = w /\ \A u \in Threads \ {t} : work'[u] = work[u]
  BY <1>0, WorkStep
<1>2. HalfDone' = HalfDone
  BY <1>0, <1>1 DEF HalfDone, In, Uncounted
<1>3. ErrorsInv'
  BY <1>2 DEF ErrorsInv, Uncounted
<1>4. ASSUME NEW s \in Statuses
      PROVE  Cardinality(Answering(s)') = Cardinality(Answering(s)) /\ KnownErrors(s)' = KnownErrors(s)
  BY <1>0, AnsweringStep DEF Uncounted, KnownErrors
<1>5. AnswersInv'
  BY <1>4 DEF AnswersInv, Uncounted
<1>6. QED
  BY <1>1, <1>3, <1>5

(* Tasks that count nothing: those of the cache, and those of a request before it is answered. *)
Unanswered(w) == ~ Records(w) /\ w.pc # "answering"

LEMMA IdleStep ==
  ASSUME NEW t \in Threads, NEW w, WorkInv, ErrorsInv, AnswersInv,
         Unanswered(work[t]), ThreadOk(w), Unanswered(w) \/ (~ Records(w) /\ w.error = Nil), Becomes(t, w),
         lock' = lock, UNCHANGED <<errors, httpRequests, notFounds, answered>>
  PROVE  WorkInv' /\ ErrorsInv' /\ AnswersInv'
<1>1. lock # t /\ lock \in Threads \cup {Nil}
  BY DEF Unanswered, WorkInv
<1>2. WorkGoesOn(t, w)
  BY <1>1 DEF WorkGoesOn, Unanswered
<1>3. Uncounted(t, w)
  BY <1>2 DEF Uncounted, Unanswered, Answers, Records
<1>4. QED
  BY <1>3, UncountedStep

(* A request up to the answer, or the handling of the error, that it ends in. *)
LEMMA RequestStep ==
  ASSUME LedgersInv, NEW t \in Threads,
         (\E e \in Endpoints : Arrive(t, e)) \/ HookRefuses(t) \/ BeforeRequest(t) \/ Route(t)
  PROVE  LedgersInv'
<1>0. WorkInv /\ ErrorsInv /\ CacheInv /\ AnswersInv /\ ThreadOk(work[t])
  BY DEF LedgersInv, WorkInv
<1>1. ASSUME NEW w, ThreadOk(w), Unanswered(w) \/ (~ Records(w) /\ w.error = Nil), Becomes(t, w), Unanswered(work[t]),
             lock' = lock, UNCHANGED <<webVars, cacheVars>>
      PROVE  LedgersInv'
  <2>1. UNCHANGED <<errors, httpRequests, notFounds, answered, cacheOps>>
    BY <1>1 DEF webVars, cacheVars
  <2>2. WorkInv' /\ ErrorsInv' /\ AnswersInv'
    BY <1>0, <1>1, <2>1, IdleStep
  <2>3. CacheInv'
    BY <1>0, <2>1 DEF CacheInv
  <2>4. QED
    BY <2>2, <2>3 DEF LedgersInv
<1>a. ASSUME NEW s \in Statuses, work[t].pc \in {"hooks", "route"}, lock' = lock,
             UNCHANGED <<webVars, cacheVars>>,
             Becomes(t, [work[t] EXCEPT !.pc = "answering", !.status = s])
      PROVE  LedgersInv'
  <2> DEFINE w == [work[t] EXCEPT !.pc = "answering", !.status = s]
  <2>1. ThreadOk(w) /\ ~ Records(w) /\ w.error = Nil
    BY <1>0, <1>a DEF ThreadOk, Tasks, Records, WebPcs, CachePcs
  <2>2. Unanswered(work[t])
    BY <1>a DEF Unanswered, Records
  <2> HIDE DEF w
  <2>3. QED
    BY <1>1, <1>a, <2>1, <2>2 DEF w
<1>b. \A s \in {200, 401, 503} : s \in Statuses
  BY DEF Statuses
<1>2. ASSUME NEW e \in Endpoints, Arrive(t, e) PROVE LedgersInv'
  <2> DEFINE w == [Free EXCEPT !.pc = "hooks", !.endpoint = e]
  <2>1. Free \in Tasks /\ Free.error = Nil
    BY DEF Free, Tasks
  <2>2. ThreadOk(w) /\ Unanswered(w)
    BY <2>1 DEF ThreadOk, Tasks, WebPcs, CachePcs, Unanswered, Records
  <2>3. Unanswered(work[t])
    BY <1>2 DEF Arrive, In, Unanswered, Records
  <2>4. Becomes(t, w) /\ lock' = lock /\ UNCHANGED <<webVars, cacheVars>>
    BY <1>2 DEF Arrive
  <2> HIDE DEF w
  <2>5. QED
    BY <1>1, <2>2, <2>3, <2>4
<1>3. ASSUME HookRefuses(t) PROVE LedgersInv'
  <2>1. In(t, "hooks") /\ Unanswered(work[t]) /\ work[t].error = Nil
    BY <1>0, <1>3 DEF HookRefuses, In, Unanswered, Records, ThreadOk
  <2>2. CASE Becomes(t, [work[t] EXCEPT !.pc = "answering", !.status = 401])
    <3>1. lock' = lock /\ UNCHANGED <<webVars, cacheVars>>
      BY <1>3 DEF HookRefuses
    <3>2. QED
      BY <1>a, <1>b, <2>1, <2>2, <3>1 DEF In
  <2>3. ASSUME NEW x \in HookErrors, Becomes(t, [work[t] EXCEPT !.pc = "raised", !.error = x])
        PROVE  LedgersInv'
    <3> DEFINE w == [work[t] EXCEPT !.pc = "raised", !.error = x]
    <3>0. x \in Exceptions
      BY MonitoringAssumption DEF Exceptions
    <3>1. ThreadOk(w) /\ Unanswered(w)
      BY <1>0, <2>1, <3>0 DEF ThreadOk, Tasks, In, Unanswered, Records, WebPcs, CachePcs
    <3>2. lock' = lock /\ UNCHANGED <<webVars, cacheVars>>
      BY <1>3 DEF HookRefuses
    <3> HIDE DEF w
    <3>3. QED
      BY <1>1, <2>1, <2>3, <3>1, <3>2 DEF w
  <2>4. QED
    BY <1>3, <2>2, <2>3 DEF HookRefuses
<1>4. ASSUME BeforeRequest(t) PROVE LedgersInv'
  <2> DEFINE w == [work[t] EXCEPT !.pc = "route", !.started = TRUE]
  <2>1. In(t, "hooks") /\ Unanswered(work[t]) /\ work[t].error = Nil
    BY <1>0, <1>4 DEF BeforeRequest, In, Unanswered, Records, ThreadOk
  <2>2. ThreadOk(w) /\ Unanswered(w)
    BY <1>0, <2>1 DEF ThreadOk, Tasks, In, Unanswered, Records, WebPcs, CachePcs
  <2>3. Becomes(t, w) /\ lock' = lock /\ UNCHANGED <<webVars, cacheVars>>
    BY <1>4 DEF BeforeRequest
  <2> HIDE DEF w
  <2>4. QED
    BY <1>1, <2>1, <2>2, <2>3
<1>5. ASSUME Route(t) PROVE LedgersInv'
  <2>1. In(t, "route") /\ Unanswered(work[t]) /\ work[t].error = Nil
    BY <1>0, <1>5 DEF Route, In, Unanswered, Records, ThreadOk
  <2>2. lock' = lock /\ UNCHANGED <<webVars, cacheVars>>
    BY <1>5 DEF Route
  <2>3. ASSUME NEW s \in {200, 503}, Becomes(t, [work[t] EXCEPT !.pc = "answering", !.status = s])
        PROVE  LedgersInv'
    BY <1>a, <1>b, <2>1, <2>2, <2>3 DEF In
  <2>4. ASSUME NEW x \in Exceptions, Becomes(t, [work[t] EXCEPT !.pc = "raised", !.error = x])
        PROVE  LedgersInv'
    <3> DEFINE w == [work[t] EXCEPT !.pc = "raised", !.error = x]
    <3>1. ThreadOk(w) /\ Unanswered(w)
      BY <1>0, <2>1 DEF ThreadOk, Tasks, In, Unanswered, Records, WebPcs, CachePcs
    <3> HIDE DEF w
    <3>2. QED
      BY <1>1, <2>1, <2>2, <2>4, <3>1 DEF w
  <2>5. QED
    BY <1>5, <2>3, <2>4 DEF Route
<1>6. QED
  BY <1>2, <1>3, <1>4, <1>5

(* An unknown address is counted apart; it is one of the answers to come. *)
LEMMA NotFoundStep ==
  ASSUME LedgersInv, NEW t \in Threads, HandleNotFound(t)
  PROVE  LedgersInv'
<1> DEFINE w == [work[t] EXCEPT !.pc = "answering", !.status = AnswerOf(NotFound)]
<1>0. WorkInv /\ ErrorsInv /\ CacheInv /\ AnswersInv /\ ThreadOk(work[t])
  BY DEF LedgersInv, WorkInv
<1>1. /\ work[t].pc = "raised" /\ work[t].error = NotFound
      /\ Becomes(t, w) /\ notFounds' = notFounds + 1
      /\ lock' = lock /\ UNCHANGED <<errors, httpRequests, answered, cacheOps>>
  BY DEF HandleNotFound, In, cacheVars
<1>2. ThreadOk(w) /\ w.pc = "answering" /\ w.error = NotFound /\ w.status = StatusOf[NotFound]
  BY <1>0, <1>1, AnswersAreStatuses DEF ThreadOk, Tasks, WebPcs, CachePcs
<1> HIDE DEF w
<1>3. WorkGoesOn(t, w)
  BY <1>0, <1>1, <1>2 DEF WorkGoesOn, WorkInv, Records
<1>4. WorkInv' /\ work'[t] = w /\ \A u \in Threads \ {t} : work'[u] = work[u]
  BY <1>0, <1>3, WorkStep
<1>5. HalfDone' = HalfDone
  BY <1>1, <1>2, <1>4 DEF HalfDone, In
<1>6. ErrorsInv'
  BY <1>0, <1>1, <1>5 DEF ErrorsInv
<1>7. ASSUME NEW s \in Statuses
      PROVE  KnownErrors(s)' = answered.raised[s] + Cardinality(Answering(s)')
  <2>0. /\ KnownErrors(s) = answered.raised[s] + Cardinality(Answering(s))
        /\ errors.byStatus[s] \in Nat /\ notFounds \in Nat /\ answered.raised[s] \in Nat
        /\ Cardinality(Answering(s)) \in Nat
    BY <1>0, <1>3, AnsweringStep DEF AnswersInv, ErrorsInv
  <2>1. ~ Answers(work[t], s) /\ (Answers(w, s) <=> s = StatusOf[NotFound])
    BY <1>1, <1>2, AnswersAreStatuses DEF Answers
  <2>2. Cardinality(Answering(s)') = Cardinality(Answering(s)) + (IF s = StatusOf[NotFound] THEN 1 ELSE 0)
    BY <1>0, <1>3, <2>0, <2>1, AnsweringStep
  <2>3. KnownErrors(s)' = KnownErrors(s) + (IF s = StatusOf[NotFound] THEN 1 ELSE 0)
    BY <1>1, <2>0 DEF KnownErrors
  <2>4. QED
    BY <2>0, <2>2, <2>3
<1>8. AnswersInv'
  BY <1>0, <1>1, <1>7 DEF AnswersInv
<1>9. CacheInv'
  BY <1>0, <1>1 DEF CacheInv
<1>10. QED
  BY <1>4, <1>6, <1>8, <1>9 DEF LedgersInv

(* Who handles an error takes the lock, which nobody holds. *)
LEMMA HandlingStep ==
  ASSUME LedgersInv, NEW t \in Threads, NEW x \in Exceptions \ {NotFound}, Handling(t, x)
  PROVE  LedgersInv'
<1> DEFINE w == [work[t] EXCEPT !.pc = "record", !.status = AnswerOf(x)]
<1>0. WorkInv /\ ErrorsInv /\ CacheInv /\ AnswersInv /\ ThreadOk(work[t])
  BY DEF LedgersInv, WorkInv
<1>1. /\ work[t].pc = "raised" /\ work[t].error = x /\ lock = Nil /\ lock' = t
      /\ Becomes(t, w)
      /\ UNCHANGED <<errors, httpRequests, notFounds, answered, cacheOps>>
  BY DEF Handling, In, webVars, cacheVars
<1>2. ThreadOk(w) /\ w.pc = "record"
  BY <1>0, <1>1, AnswersAreStatuses DEF ThreadOk, Tasks, WebPcs, CachePcs
<1> HIDE DEF w
<1>3. WorkGoesOn(t, w)
  BY <1>0, <1>1, <1>2, AnswersAreStatuses DEF WorkGoesOn, WorkInv, Records
<1>4. Uncounted(t, w)
  BY <1>1, <1>2, <1>3 DEF Uncounted, Answers
<1>5. WorkInv' /\ ErrorsInv' /\ AnswersInv'
  BY <1>0, <1>4, UncountedStep
<1>6. CacheInv'
  BY <1>0, <1>1 DEF CacheInv
<1>7. QED
  BY <1>5, <1>6 DEF LedgersInv

(* The first half of record_error: the type is one ahead of the total. *)
LEMMA RecordErrorStep ==
  ASSUME LedgersInv, NEW t \in Threads, RecordError(t)
  PROVE  LedgersInv'
<1> DEFINE w == [work[t] EXCEPT !.pc = "recorded"]
           x == work[t].error
<1>0. WorkInv /\ ErrorsInv /\ CacheInv /\ AnswersInv /\ ThreadOk(work[t])
  BY DEF LedgersInv, WorkInv
<1>1. /\ work[t].pc = "record" /\ Becomes(t, w) /\ lock' = lock
      /\ UNCHANGED <<httpRequests, notFounds, answered, cacheOps>>
  BY DEF RecordError, In, cacheVars
<1>2. ThreadOk(w) /\ w.pc = "recorded" /\ x \in Exceptions
  BY <1>0, <1>1 DEF ThreadOk, Tasks, WebPcs, CachePcs
<1>3. lock = t
  BY <1>0, <1>1 DEF WorkInv, Records
<1>4. /\ errors' = [ring |-> errors'.ring, byType |-> Plus(errors.byType, x), byEndpoint |-> errors.byEndpoint,
                    byStatus |-> errors.byStatus, total |-> errors.total]
  BY <1>0 DEF RecordError, ErrorsInv
<1> HIDE DEF w, x
<1>5. WorkGoesOn(t, w)
  BY <1>0, <1>1, <1>2, <1>3 DEF WorkGoesOn, WorkInv, Records
<1>6. WorkInv' /\ work'[t] = w /\ \A u \in Threads \ {t} : work'[u] = work[u]
  BY <1>0, <1>5, WorkStep
<1>7. HalfDone = 0 /\ HalfDone' = 1
  <2>1. ASSUME NEW u \in Threads PROVE work[u].pc # "recorded"
    BY <1>0, <1>1, <1>3 DEF WorkInv, Records
  <2>2. QED
    BY <1>2, <1>6, <2>1 DEF HalfDone, In
<1>8. /\ Plus(errors.byType, x) \in [Exceptions -> Nat]
      /\ SumFunction(Plus(errors.byType, x)) = SumFunction(errors.byType) + 1
  BY <1>0, <1>2, CountedAreFinite, SumOfPlus DEF ErrorsInv
<1>9. /\ errors.byEndpoint \in [Endpoints -> Nat] /\ errors.byStatus \in [Statuses -> Nat]
      /\ errors.total \in Nat
      /\ SumFunction(errors.byType) = errors.total + 0
      /\ SumFunction(errors.byEndpoint) = errors.total /\ SumFunction(errors.byStatus) = errors.total
  BY <1>0, <1>7 DEF ErrorsInv
<1>10. /\ errors'.byType = Plus(errors.byType, x) /\ errors'.byEndpoint = errors.byEndpoint
       /\ errors'.byStatus = errors.byStatus /\ errors'.total = errors.total
       /\ errors' = [ring |-> errors'.ring, byType |-> errors'.byType, byEndpoint |-> errors'.byEndpoint,
                     byStatus |-> errors'.byStatus, total |-> errors'.total]
  BY <1>4
<1>11. SumFunction(errors'.byType) = errors'.total + HalfDone'
  BY <1>7, <1>8, <1>9, <1>10
<1>12. ErrorsInv'
  BY <1>8, <1>9, <1>10, <1>11 DEF ErrorsInv
<1>13. ASSUME NEW s \in Statuses
       PROVE  Cardinality(Answering(s)') = Cardinality(Answering(s)) /\ KnownErrors(s)' = KnownErrors(s)
  <2>1. ~ Answers(work[t], s) /\ ~ Answers(w, s)
    BY <1>1, <1>2 DEF Answers
  <2>2. QED
    BY <1>0, <1>1, <1>5, <1>10, <2>1, AnsweringStep DEF KnownErrors
<1>14. AnswersInv'
  BY <1>0, <1>1, <1>13 DEF AnswersInv
<1>15. CacheInv'
  BY <1>0, <1>1 DEF CacheInv
<1>16. QED
  BY <1>6, <1>12, <1>14, <1>15 DEF LedgersInv

(* The second half: the other counters follow, and with them the ledger of    *)
(* the status that the error is answered with.                                *)
LEMMA CountErrorStep ==
  ASSUME LedgersInv, NEW t \in Threads, CountError(t)
  PROVE  LedgersInv'
<1> DEFINE w == [work[t] EXCEPT !.pc = "answering"]
           x == work[t].error
           e == work[t].endpoint
           a == work[t].status
<1>0. WorkInv /\ ErrorsInv /\ CacheInv /\ AnswersInv /\ ThreadOk(work[t])
  BY DEF LedgersInv, WorkInv
<1>1. /\ work[t].pc = "recorded" /\ Becomes(t, w) /\ lock' = Nil
      /\ UNCHANGED <<httpRequests, notFounds, answered, cacheOps>>
  BY DEF CountError, In, cacheVars
<1>2. /\ ThreadOk(w) /\ w.pc = "answering" /\ w.error = x /\ w.status = a
      /\ x \in Exceptions /\ x # Nil /\ e \in Endpoints /\ a \in Statuses /\ RecordedStatus(x) = a
  BY <1>0, <1>1, AnswersAreStatuses DEF ThreadOk, Tasks, WebPcs, CachePcs
<1>3. lock = t
  BY <1>0, <1>1 DEF WorkInv, Records
<1>4. errors' = [ring |-> errors'.ring, byType |-> errors.byType, byEndpoint |-> Plus(errors.byEndpoint, e),
                 byStatus |-> Plus(errors.byStatus, RecordedStatus(x)), total |-> errors.total + 1]
  BY <1>0 DEF CountError, ErrorsInv
<1> HIDE DEF w, x, e, a
<1>5. WorkGoesOn(t, w)
  BY <1>0, <1>1, <1>2, <1>3, AnswersAreStatuses DEF WorkGoesOn, WorkInv, Records
<1>6. WorkInv' /\ work'[t] = w /\ \A u \in Threads \ {t} : work'[u] = work[u]
  BY <1>0, <1>5, WorkStep
<1>7. HalfDone = 1 /\ HalfDone' = 0
  <2>1. ASSUME NEW u \in Threads \ {t} PROVE work[u].pc # "recorded"
    BY <1>0, <1>3 DEF WorkInv, Records
  <2>2. QED
    BY <1>1, <1>2, <1>6, <2>1 DEF HalfDone, In
<1>8. /\ Plus(errors.byEndpoint, e) \in [Endpoints -> Nat]
      /\ SumFunction(Plus(errors.byEndpoint, e)) = SumFunction(errors.byEndpoint) + 1
      /\ Plus(errors.byStatus, a) \in [Statuses -> Nat]
      /\ SumFunction(Plus(errors.byStatus, a)) = SumFunction(errors.byStatus) + 1
  BY <1>0, <1>2, CountedAreFinite, SumOfPlus DEF ErrorsInv
<1>9. /\ errors.byType \in [Exceptions -> Nat] /\ errors.total \in Nat
      /\ SumFunction(errors.byType) = errors.total + 1
      /\ SumFunction(errors.byEndpoint) = errors.total /\ SumFunction(errors.byStatus) = errors.total
  BY <1>0, <1>7 DEF ErrorsInv
<1>10. /\ errors'.byType = errors.byType /\ errors'.byEndpoint = Plus(errors.byEndpoint, e)
       /\ errors'.byStatus = Plus(errors.byStatus, a) /\ errors'.total = errors.total + 1
       /\ errors' = [ring |-> errors'.ring, byType |-> errors'.byType, byEndpoint |-> errors'.byEndpoint,
                     byStatus |-> errors'.byStatus, total |-> errors'.total]
  BY <1>2, <1>4
<1>11. /\ SumFunction(errors'.byType) = errors'.total + HalfDone'
       /\ SumFunction(errors'.byEndpoint) = errors'.total /\ SumFunction(errors'.byStatus) = errors'.total
  BY <1>7, <1>8, <1>9, <1>10
<1>12. ErrorsInv'
  BY <1>8, <1>9, <1>10, <1>11 DEF ErrorsInv
<1>13. ASSUME NEW s \in Statuses
       PROVE  KnownErrors(s)' = answered.raised[s] + Cardinality(Answering(s)')
  <2>0. /\ KnownErrors(s) = answered.raised[s] + Cardinality(Answering(s))
        /\ errors.byStatus[s] \in Nat /\ notFounds \in Nat /\ answered.raised[s] \in Nat
        /\ Cardinality(Answering(s)) \in Nat
    BY <1>0, <1>5, AnsweringStep DEF AnswersInv, ErrorsInv
  <2>1. ~ Answers(work[t], s) /\ (Answers(w, s) <=> s = a)
    BY <1>1, <1>2 DEF Answers
  <2>2. Cardinality(Answering(s)') = Cardinality(Answering(s)) + (IF s = a THEN 1 ELSE 0)
    BY <1>0, <1>5, <2>0, <2>1, AnsweringStep
  <2>3. errors'.byStatus[s] = errors.byStatus[s] + (IF s = a THEN 1 ELSE 0)
    BY <1>0, <1>2, <1>10, <2>0 DEF Plus, ErrorsInv
  <2>4. KnownErrors(s)' = KnownErrors(s) + (IF s = a THEN 1 ELSE 0)
    BY <1>1, <2>0, <2>3 DEF KnownErrors
  <2>5. QED
    BY <2>0, <2>2, <2>4
<1>14. AnswersInv'
  BY <1>0, <1>1, <1>13 DEF AnswersInv
<1>15. CacheInv'
  BY <1>0, <1>1 DEF CacheInv
<1>16. QED
  BY <1>6, <1>12, <1>14, <1>15 DEF LedgersInv

(* The answer: one of those to come is given and counted. *)
LEMMA AnswerStep ==
  ASSUME LedgersInv, NEW t \in Threads, AfterRequest(t)
  PROVE  LedgersInv'
<1> DEFINE a == work[t].status
           one == IF work[t].error = Nil THEN 0 ELSE 1
<1>0. WorkInv /\ ErrorsInv /\ CacheInv /\ AnswersInv /\ ThreadOk(work[t])
  BY DEF LedgersInv, WorkInv
<1>1. /\ work[t].pc = "answering" /\ Becomes(t, Free) /\ lock' = lock
      /\ UNCHANGED <<errors, notFounds, cacheOps>>
      /\ httpRequests' = IF work[t].started THEN Plus(httpRequests, a) ELSE httpRequests
      /\ answered' = [raised |-> IF work[t].error = Nil THEN answered.raised ELSE Plus(answered.raised, a),
                      early |-> IF work[t].started THEN answered.early ELSE Plus(answered.early, a)]
  BY DEF AfterRequest, In, cacheVars
<1>2. a \in Statuses
  BY <1>0, <1>1 DEF ThreadOk
<1>3. ThreadOk(Free) /\ Free.pc = "idle"
  BY DEF ThreadOk, Free, Tasks, WebPcs, CachePcs
<1>4. WorkGoesOn(t, Free)
  BY <1>0, <1>1, <1>3 DEF WorkGoesOn, WorkInv, Records
<1>5. WorkInv' /\ work'[t] = Free /\ \A u \in Threads \ {t} : work'[u] = work[u]
  BY <1>0, <1>4, WorkStep
<1>6. HalfDone' = HalfDone
  BY <1>1, <1>3, <1>5 DEF HalfDone, In
<1>7. ErrorsInv' /\ CacheInv'
  BY <1>0, <1>1, <1>6 DEF ErrorsInv, CacheInv
<1>8. /\ answered = [raised |-> answered.raised, early |-> answered.early]
      /\ answered.raised \in [Statuses -> Nat] /\ answered.early \in [Statuses -> Nat]
      /\ httpRequests \in [Statuses -> Nat] /\ notFounds \in Nat
  BY <1>0 DEF AnswersInv
<1>9. /\ answered' = [raised |-> answered'.raised, early |-> answered'.early]
      /\ answered'.raised = IF work[t].error = Nil THEN answered.raised ELSE Plus(answered.raised, a)
      /\ answered'.early = IF work[t].started THEN answered.early ELSE Plus(answered.early, a)
  BY <1>1
<1> HIDE DEF a
<1>10. ASSUME NEW f \in [Statuses -> Nat]
       PROVE  /\ Plus(f, a) \in [Statuses -> Nat]
              /\ \A s \in Statuses : Plus(f, a)[s] = f[s] + (IF s = a THEN 1 ELSE 0)
  BY <1>2 DEF Plus
<1>11. ASSUME NEW s \in Statuses
       PROVE  /\ KnownErrors(s)' = answered'.raised[s] + Cardinality(Answering(s)')
              /\ answered'.raised[s] <= httpRequests'[s] + answered'.early[s]
  <2> DEFINE n == IF s = a THEN 1 ELSE 0
             r == IF work[t].error = Nil THEN 0 ELSE n
  <2>1. /\ answered.raised[s] \in Nat /\ answered.early[s] \in Nat /\ httpRequests[s] \in Nat
        /\ Cardinality(Answering(s)) \in Nat
        /\ KnownErrors(s) = answered.raised[s] + Cardinality(Answering(s))
        /\ answered.raised[s] <= httpRequests[s] + answered.early[s]
    BY <1>0, <1>4, <1>8, AnsweringStep DEF AnswersInv
  <2>2. answered'.raised[s] = answered.raised[s] + r
    BY <1>8, <1>9, <1>10, <2>1
  <2>3. \/ httpRequests'[s] = httpRequests[s] + n /\ answered'.early[s] = answered.early[s]
        \/ httpRequests'[s] = httpRequests[s] /\ answered'.early[s] = answered.early[s] + n
    BY <1>1, <1>8, <1>9, <1>10 DEF a
  <2>4. ~ Answers(Free, s) /\ (Answers(work[t], s) <=> work[t].error # Nil /\ s = a)
    BY <1>1, <1>3 DEF Answers, a
  <2>5. Cardinality(Answering(s)') = Cardinality(Answering(s)) - r
    BY <1>0, <1>4, <2>1, <2>4, AnsweringStep
  <2>6. KnownErrors(s)' = KnownErrors(s)
    BY <1>1 DEF KnownErrors
  <2>7. n \in {0, 1} /\ r \in {0, n}
    OBVIOUS
  <2> HIDE DEF n, r
  <2>8. QED
    BY <2>1, <2>2, <2>3, <2>5, <2>6, <2>7
<1>12. httpRequests' \in [Statuses -> Nat]
       /\ answered'.raised \in [Statuses -> Nat] /\ answered'.early \in [Statuses -> Nat]
  BY <1>1, <1>8, <1>9, <1>10 DEF a
<1>13. AnswersInv'
  BY <1>1, <1>8, <1>9, <1>11, <1>12 DEF AnswersInv
<1>14. QED
  BY <1>5, <1>7, <1>13 DEF LedgersInv

(* The calls of the cache: a thread moves, and a counter and its sum go on together. *)
LEMMA CacheStep ==
  ASSUME LedgersInv, NEW t \in Threads,
         \/ \E k \in Keys : Get(t, k) \/ Delete(t, k)
         \/ Cached(t) \/ RecordHit(t) \/ RecordMiss(t) \/ RecordSet(t) \/ RecordDelete(t)
         \/ RecordCacheError(t)
  PROVE  LedgersInv'
<1>0. WorkInv /\ ErrorsInv /\ CacheInv /\ AnswersInv /\ ThreadOk(work[t]) /\ work[t] \in Tasks
  BY DEF LedgersInv, WorkInv, ThreadOk
<1>1. ASSUME NEW w, ThreadOk(w), w.pc \in {"idle"} \cup CachePcs, Becomes(t, w),
             work[t].pc \in {"idle"} \cup CachePcs, lock' = lock, UNCHANGED webVars
      PROVE  WorkInv' /\ ErrorsInv' /\ AnswersInv'
  <2>1. Unanswered(work[t]) /\ Unanswered(w)
    BY <1>1 DEF Unanswered, Records, CachePcs
  <2>2. UNCHANGED <<errors, httpRequests, notFounds, answered>>
    BY <1>1 DEF webVars
  <2>3. QED
    BY <1>0, <1>1, <2>1, <2>2, IdleStep
<1>2. Free \in Tasks /\ ThreadOk(Free) /\ Free.pc = "idle"
  BY DEF Free, Tasks, ThreadOk, WebPcs, CachePcs
<1>3. ASSUME NEW k \in Keys, NEW op \in CachePcs
      PROVE  ThreadOk(Does(t, op, k)) /\ Does(t, op, k).pc = op
  BY <1>2 DEF Does, ThreadOk, Tasks, WebPcs, CachePcs
<1>4. ASSUME NEW op \in CachePcs, work[t].pc \in CachePcs
      PROVE  ThreadOk([work[t] EXCEPT !.pc = op]) /\ [work[t] EXCEPT !.pc = op].pc = op
  BY <1>0, <1>4 DEF ThreadOk, Tasks, WebPcs, CachePcs
<1>5. ASSUME UNCHANGED cacheOps PROVE CacheInv'
  BY <1>0, <1>5 DEF CacheInv
<1>6. ASSUME NEW k \in Keys, Get(t, k) PROVE LedgersInv'
  <2> DEFINE op == IF away THEN "lost" ELSE IF store[k] # Nil THEN "hit" ELSE "miss"
  <2>1. op \in CachePcs
    BY DEF CachePcs
  <2>2. /\ work[t].pc = "idle" /\ Becomes(t, Does(t, op, k)) /\ lock' = lock
        /\ UNCHANGED webVars /\ UNCHANGED cacheOps
    BY <1>6 DEF Get, In, cacheVars
  <2> HIDE DEF op
  <2>3. QED
    BY <1>1, <1>3, <1>5, <2>1, <2>2 DEF LedgersInv
<1>7. ASSUME NEW k \in Keys, Delete(t, k) PROVE LedgersInv'
  <2> DEFINE op == IF away THEN "error" ELSE "delete"
  <2>1. op \in CachePcs
    BY DEF CachePcs
  <2>2. /\ work[t].pc = "idle" /\ Becomes(t, Does(t, op, k)) /\ lock' = lock
        /\ UNCHANGED webVars /\ UNCHANGED cacheOps
    BY <1>7 DEF Delete, In
  <2> HIDE DEF op
  <2>3. QED
    BY <1>1, <1>3, <1>5, <2>1, <2>2 DEF LedgersInv
<1>8. ASSUME Cached(t) PROVE LedgersInv'
  <2> DEFINE op == IF away THEN "error" ELSE "set"
  <2>1. op \in CachePcs /\ work[t].pc \in CachePcs
    BY <1>8 DEF CachePcs, Cached, In
  <2>2. /\ Becomes(t, [work[t] EXCEPT !.pc = op]) /\ lock' = lock
        /\ UNCHANGED webVars /\ UNCHANGED cacheOps
    BY <1>8 DEF Cached
  <2> HIDE DEF op
  <2>3. QED
    BY <1>1, <1>4, <1>5, <2>1, <2>2 DEF LedgersInv
<1>9. work[t].pc \in CachePcs => PrefixOf[work[t].endpoint] \in KeyPrefixes
  BY <1>0 DEF ThreadOk, KeyPrefixes
<1>10. ASSUME RecordHit(t) PROVE LedgersInv'
  <2> DEFINE p == PrefixOf[work[t].endpoint]
  <2>1. work[t].pc \in CachePcs /\ Becomes(t, Free) /\ lock' = lock /\ UNCHANGED webVars
    BY <1>10 DEF CachePcs, RecordHit, In
  <2>2. /\ cacheOps'.hits = Plus(cacheOps.hits, p) /\ cacheOps'.found = cacheOps.found + 1
        /\ cacheOps'.misses = cacheOps.misses /\ cacheOps'.missed = cacheOps.missed
        /\ cacheOps' = [ring |-> cacheOps'.ring, hits |-> cacheOps'.hits, misses |-> cacheOps'.misses,
                        found |-> cacheOps'.found, missed |-> cacheOps'.missed, sets |-> cacheOps'.sets,
                        deletes |-> cacheOps'.deletes, errors |-> cacheOps'.errors]
    BY <1>0, <1>10 DEF RecordHit, CacheInv
  <2> HIDE DEF p
  <2>3. /\ Plus(cacheOps.hits, p) \in [KeyPrefixes -> Nat]
        /\ SumFunction(Plus(cacheOps.hits, p)) = SumFunction(cacheOps.hits) + 1
    BY <1>0, <1>9, <2>1, CountedAreFinite, SumOfPlus DEF CacheInv, p
  <2>4. CacheInv'
    BY <1>0, <2>2, <2>3 DEF CacheInv
  <2>5. QED
    BY <1>1, <1>2, <2>1, <2>4 DEF LedgersInv
<1>11. ASSUME RecordMiss(t) PROVE LedgersInv'
  <2> DEFINE p == PrefixOf[work[t].endpoint]
  <2>1. /\ work[t].pc \in CachePcs /\ Becomes(t, [work[t] EXCEPT !.pc = "compute"])
        /\ "compute" \in CachePcs /\ lock' = lock /\ UNCHANGED webVars
    BY <1>11 DEF CachePcs, RecordMiss, In
  <2>2. /\ cacheOps'.misses = Plus(cacheOps.misses, p) /\ cacheOps'.missed = cacheOps.missed + 1
        /\ cacheOps'.hits = cacheOps.hits /\ cacheOps'.found = cacheOps.found
        /\ cacheOps' = [ring |-> cacheOps'.ring, hits |-> cacheOps'.hits, misses |-> cacheOps'.misses,
                        found |-> cacheOps'.found, missed |-> cacheOps'.missed, sets |-> cacheOps'.sets,
                        deletes |-> cacheOps'.deletes, errors |-> cacheOps'.errors]
    BY <1>0, <1>11 DEF RecordMiss, CacheInv
  <2> HIDE DEF p
  <2>3. /\ Plus(cacheOps.misses, p) \in [KeyPrefixes -> Nat]
        /\ SumFunction(Plus(cacheOps.misses, p)) = SumFunction(cacheOps.misses) + 1
    BY <1>0, <1>9, <2>1, CountedAreFinite, SumOfPlus DEF CacheInv, p
  <2>4. CacheInv'
    BY <1>0, <2>2, <2>3 DEF CacheInv
  <2>5. QED
    BY <1>1, <1>4, <2>1, <2>4 DEF LedgersInv
<1>12. ASSUME RecordSet(t) \/ RecordDelete(t) \/ RecordCacheError(t) PROVE LedgersInv'
  <2>1. /\ work[t].pc \in CachePcs /\ "compute" \in CachePcs
        /\ Becomes(t, Free) \/ Becomes(t, [work[t] EXCEPT !.pc = "compute"])
        /\ lock' = lock /\ UNCHANGED webVars
    BY <1>12 DEF CachePcs, RecordSet, RecordDelete, RecordCacheError, In
  <2>2. /\ cacheOps'.hits = cacheOps.hits /\ cacheOps'.found = cacheOps.found
        /\ cacheOps'.misses = cacheOps.misses /\ cacheOps'.missed = cacheOps.missed
        /\ cacheOps' = [ring |-> cacheOps'.ring, hits |-> cacheOps'.hits, misses |-> cacheOps'.misses,
                        found |-> cacheOps'.found, missed |-> cacheOps'.missed, sets |-> cacheOps'.sets,
                        deletes |-> cacheOps'.deletes, errors |-> cacheOps'.errors]
    BY <1>0, <1>12 DEF RecordSet, RecordDelete, RecordCacheError, CacheInv
  <2>3. CacheInv'
    BY <1>0, <2>2 DEF CacheInv
  <2>4. QED
    BY <1>1, <1>2, <1>4, <2>1, <2>3 DEF LedgersInv
<1>13. QED
  BY <1>6, <1>7, <1>8, <1>10, <1>11, <1>12

(* A step that touches no counter and no thread. *)
LEMMA LedgersStay ==
  ASSUME LedgersInv, UNCHANGED <<work, lock, webVars, cacheOps>>
  PROVE  LedgersInv'
<1>1. UNCHANGED <<work, lock, errors, httpRequests, notFounds, answered, cacheOps>>
  BY DEF webVars
<1>2. WorkInv' /\ HalfDone' = HalfDone /\ \A s : Answering(s)' = Answering(s)
  BY <1>1 DEF LedgersInv, WorkInv, HalfDone, In, Answering
<1>3. ErrorsInv' /\ CacheInv' /\ AnswersInv'
  BY <1>1, <1>2 DEF LedgersInv, ErrorsInv, CacheInv, AnswersInv, KnownErrors
<1>4. QED
  BY <1>2, <1>3 DEF LedgersInv

LEMMA LedgersStep == LedgersInv /\ [MonitoringNext]_vars => LedgersInv'
<1>1. SUFFICES ASSUME LedgersInv, [MonitoringNext]_vars PROVE LedgersInv'
  OBVIOUS
<1>2. CASE UNCHANGED vars
  BY <1>1, <1>2, LedgersStay DEF vars, cacheVars
<1>3. CASE Tick
  BY <1>1, <1>3, LedgersStay DEF Tick
<1>4. ASSUME NEW t \in Threads, NEW e \in Endpoints, Arrive(t, e) PROVE LedgersInv'
  BY <1>1, <1>4, RequestStep
<1>5. ASSUME NEW t \in Threads, HookRefuses(t) \/ BeforeRequest(t) \/ Route(t) PROVE LedgersInv'
  BY <1>1, <1>5, RequestStep
<1>6. ASSUME NEW t \in Threads, HandleNotFound(t) PROVE LedgersInv'
  BY <1>1, <1>6, NotFoundStep
<1>7. ASSUME NEW t \in Threads, HandleApiError(t) \/ HandleHttpException(t) \/ HandleGenericException(t)
      PROVE  LedgersInv'
  <2>1. \A x \in ApiErrors \cup (HttpExceptions \ {NotFound}) \cup Bugs : x \in Exceptions \ {NotFound}
    BY MonitoringAssumption DEF Exceptions
  <2>2. PICK x \in Exceptions \ {NotFound} : Handling(t, x)
    BY <1>7, <2>1 DEF HandleApiError, HandleHttpException, HandleGenericException
  <2>3. QED
    BY <1>1, <2>2, HandlingStep
<1>8. ASSUME NEW t \in Threads, RecordError(t) PROVE LedgersInv'
  BY <1>1, <1>8, RecordErrorStep
<1>9. ASSUME NEW t \in Threads, CountError(t) PROVE LedgersInv'
  BY <1>1, <1>9, CountErrorStep
<1>10. ASSUME NEW t \in Threads, AfterRequest(t) PROVE LedgersInv'
  BY <1>1, <1>10, AnswerStep
<1>11. CASE WebNext
  BY <1>4, <1>5, <1>6, <1>7, <1>8, <1>9, <1>10, <1>11 DEF WebNext
<1>12. ASSUME NEW p, ClearPattern(p) PROVE LedgersInv'
  BY <1>1, <1>12, LedgersStay DEF ClearPattern
<1>13. CASE RedisGoesAway
  BY <1>1, <1>13, LedgersStay DEF RedisGoesAway
<1>14. CASE CacheNext
  BY <1>1, <1>12, <1>13, <1>14, CacheStep DEF CacheNext
<1>15. QED
  BY <1>1, <1>2, <1>3, <1>11, <1>14 DEF MonitoringNext

LEMMA AlwaysLedgers == MonitoringSpec => []LedgersInv
<1>1. Init => LedgersInv
  BY LedgersInit
<1>2. LedgersInv /\ [MonitoringNext]_vars => LedgersInv'
  BY LedgersStep
<1>3. QED
  BY <1>1, <1>2, PTL DEF MonitoringSpec

(* What is counted is counted once in each place: whenever nobody holds the   *)
(* lock the figures of errors and of the cache add up, and when no request is *)
(* open each error raised is in exactly one ledger, under the status it was   *)
(* answered with, and among the requests unless an early hook raised it -     *)
(* for all threads, endpoints, exceptions and keys.                           *)
THEOREM ErrorsCountedOnce == MonitoringSpec => []LedgersHold
<1>1. ASSUME LedgersInv PROVE FiguresAddUp
  <2>1. SUFFICES ASSUME lock = Nil PROVE
            /\ SumFunction(errors.byType) = errors.total
            /\ SumFunction(errors.byEndpoint) = errors.total
            /\ SumFunction(errors.byStatus) = errors.total
            /\ cacheOps.found + cacheOps.missed = SumFunction(cacheOps.hits) + SumFunction(cacheOps.misses)
    BY DEF FiguresAddUp, GetAllMetrics, ErrorStatistics, CacheStatistics
  <2>2. \A t \in Threads : ~ Records(work[t])
    BY <1>1, <2>1, AnswersAreStatuses DEF LedgersInv, WorkInv
  <2>3. HalfDone = 0
    BY <2>2 DEF HalfDone, In, Records
  <2>4. QED
    BY <1>1, <2>3 DEF LedgersInv, ErrorsInv, CacheInv
<1>2. ASSUME LedgersInv PROVE LedgersAgree
  <2>1. SUFFICES ASSUME \A t \in Threads : In(t, "idle"), NEW s \in Statuses
                 PROVE  /\ KnownErrors(s) = answered.raised[s]
                        /\ KnownErrors(s) <= httpRequests[s] + answered.early[s]
    BY DEF LedgersAgree, KnownErrors
  <2>2. Answering(s) = {}
    BY <2>1 DEF Answering, Answers, In
  <2>3. Cardinality(Answering(s)) = 0
    BY <2>2, FS_EmptySet
  <2>4. QED
    BY <1>2, <2>3 DEF LedgersInv, AnswersInv
<1>3. LedgersInv => LedgersHold
  BY <1>1, <1>2 DEF LedgersHold
<1>4. QED
  BY <1>3, AlwaysLedgers, PTL

-----------------------------------------------------------------------------
(* The reports (Monitoring) *)

(* A ring of events that have happened. *)
Events(types) == [at : 0 .. now, type : types, endpoint : Endpoints \cup {Nil}]
RingsInv ==
    /\ now \in Nat
    /\ errors.ring \in Seq(Events(Exceptions))
    /\ cacheOps.ring \in Seq(Events(CachePcs))

LEMMA RecentIs ==
  ASSUME NEW E, NEW ring \in Seq(E), NEW e \in E
  PROVE  Recent(ring, e) \in Seq(E)
<1> DEFINE longer == Append(ring, e)
<1>1. longer \in Seq(E) /\ longer # <<>>
  BY AppendProperties
<1>2. Tail(longer) \in Seq(E)
  BY <1>1
<1>3. QED
  BY <1>1, <1>2 DEF Recent

LEMMA RingsInit == Init => RingsInv
<1>1. SUFFICES ASSUME Init PROVE RingsInv
  OBVIOUS
<1>2. now = 0 /\ errors.ring = <<>> /\ cacheOps.ring = <<>>
  BY <1>1 DEF Init
<1>3. \A S : <<>> \in Seq(S)
  OBVIOUS
<1>4. errors.ring \in Seq(Events(Exceptions)) /\ cacheOps.ring \in Seq(Events(CachePcs))
  BY <1>2, <1>3
<1>5. QED
  BY <1>2, <1>4 DEF RingsInv

(* Who adds to a ring. *)
LEMMA RingsGrow ==
  ASSUME LedgersInv, RingsInv, [MonitoringNext]_vars
  PROVE  /\ \/ errors'.ring = errors.ring
            \/ \E e \in Events(Exceptions) : errors'.ring = Recent(errors.ring, e)
         /\ \/ cacheOps'.ring = cacheOps.ring
            \/ \E e \in Events(CachePcs) : cacheOps'.ring = Recent(cacheOps.ring, e)
         /\ now' = now \/ now' = now + 1
<1> DEFINE Goal == /\ \/ errors'.ring = errors.ring
                      \/ \E e \in Events(Exceptions) : errors'.ring = Recent(errors.ring, e)
                   /\ \/ cacheOps'.ring = cacheOps.ring
                      \/ \E e \in Events(CachePcs) : cacheOps'.ring = Recent(cacheOps.ring, e)
                   /\ now' = now \/ now' = now + 1
<1>0. /\ now \in 0 .. now
      /\ errors = [ring |-> errors.ring, byType |-> errors.byType, byEndpoint |-> errors.byEndpoint,
                   byStatus |-> errors.byStatus, total |-> errors.total]
      /\ cacheOps = [ring |-> cacheOps.ring, hits |-> cacheOps.hits, misses |-> cacheOps.misses,
                     found |-> cacheOps.found, missed |-> cacheOps.missed, sets |-> cacheOps.sets,
                     deletes |-> cacheOps.deletes, errors |-> cacheOps.errors]
      /\ \A t \in Threads : ThreadOk(work[t])
  BY DEF LedgersInv, RingsInv, ErrorsInv, CacheInv, WorkInv
<1>1. ASSUME UNCHANGED <<errors, cacheOps>>, now' = now \/ now' = now + 1 PROVE Goal
  BY <1>1
<1>2. CASE UNCHANGED vars
  BY <1>1, <1>2 DEF vars, webVars, cacheVars
<1>3. CASE Tick
  BY <1>1, <1>3 DEF Tick, webVars
<1>4. ASSUME NEW t \in Threads,
             \/ \E e \in Endpoints : Arrive(t, e)
             \/ HookRefuses(t) \/ BeforeRequest(t) \/ Route(t)
             \/ HandleNotFound(t) \/ HandleApiError(t) \/ HandleHttpException(t) \/ HandleGenericException(t)
             \/ AfterRequest(t)
      PROVE  Goal
  <2>1. now' = now /\ UNCHANGED <<errors, cacheOps>>
    BY <1>4 DEF Arrive, HookRefuses, BeforeRequest, Route, HandleNotFound, HandleApiError,
                HandleHttpException, HandleGenericException, Handling, AfterRequest, webVars, cacheVars
  <2>2. QED
    BY <1>1, <2>1
<1>5. ASSUME NEW t \in Threads, RecordError(t) PROVE Goal
  <2> DEFINE e == [at |-> now, type |-> work[t].error, endpoint |-> work[t].endpoint]
  <2>1. work[t].error \in Exceptions /\ work[t].endpoint \in Endpoints
    BY <1>0, <1>5 DEF RecordError, In, ThreadOk, WebPcs
  <2>2. e \in Events(Exceptions)
    BY <1>0, <2>1 DEF Events
  <2>3. errors'.ring = Recent(errors.ring, e) /\ now' = now /\ cacheOps' = cacheOps
    BY <1>0, <1>5 DEF RecordError, cacheVars
  <2> HIDE DEF e
  <2>4. QED
    BY <2>2, <2>3
<1>6. ASSUME NEW t \in Threads, CountError(t) PROVE Goal
  <2>1. errors'.ring = errors.ring /\ now' = now /\ cacheOps' = cacheOps
    BY <1>0, <1>6 DEF CountError, cacheVars
  <2>2. QED
    BY <2>1
<1>7. CASE WebNext
  BY <1>4, <1>5, <1>6, <1>7 DEF WebNext
<1>8. ASSUME NEW t \in Threads, RecordHit(t) \/ RecordMiss(t) \/ RecordSet(t) \/ RecordDelete(t) PROVE Goal
  <2>1. Event(t) \in Events(CachePcs)
    BY <1>0, <1>8 DEF Event, Events, RecordHit, RecordMiss, RecordSet, RecordDelete, In, CachePcs
  <2>2. cacheOps'.ring = Recent(cacheOps.ring, Event(t)) /\ now' = now /\ errors' = errors
    BY <1>0, <1>8 DEF RecordHit, RecordMiss, RecordSet, RecordDelete, webVars
  <2>3. QED
    BY <2>1, <2>2
<1>9. ASSUME NEW t \in Threads, RecordCacheError(t) PROVE Goal
  <2>1. cacheOps'.ring = cacheOps.ring /\ now' = now /\ errors' = errors
    BY <1>0, <1>9 DEF RecordCacheError, webVars
  <2>2. QED
    BY <2>1
<1>10. ASSUME NEW t \in Threads, (\E k \in Keys : Get(t, k) \/ Delete(t, k)) \/ Cached(t) PROVE Goal
  <2>1. now' = now /\ UNCHANGED <<errors, cacheOps>>
    BY <1>10 DEF Get, Delete, Cached, webVars, cacheVars
  <2>2. QED
    BY <1>1, <2>1
<1>11. ASSUME (\E p \in KeyPrefixes : ClearPattern(p)) \/ RedisGoesAway PROVE Goal
  <2>1. now' = now /\ UNCHANGED <<errors, cacheOps>>
    BY <1>11 DEF ClearPattern, RedisGoesAway, webVars
  <2>2. QED
    BY <1>1, <2>1
<1>12. CASE CacheNext
  BY <1>8, <1>9, <1>10, <1>11, <1>12 DEF CacheNext
<1>13. QED
  BY <1>2, <1>3, <1>7, <1>12 DEF MonitoringNext

LEMMA RingsStep == LedgersInv /\ RingsInv /\ [MonitoringNext]_vars => RingsInv'
<1>1. SUFFICES ASSUME LedgersInv, RingsInv, [MonitoringNext]_vars PROVE RingsInv'
  OBVIOUS
<1> DEFINE A == Events(Exceptions)
           B == Events(CachePcs)
<1>2. now \in Nat /\ errors.ring \in Seq(A) /\ cacheOps.ring \in Seq(B)
  BY <1>1 DEF RingsInv
<1>3. now' \in Nat /\ 0 .. now \subseteq 0 .. now'
  BY <1>1, <1>2, RingsGrow
<1>4. A \subseteq A' /\ B \subseteq B'
  BY <1>3 DEF Events
<1>5. errors'.ring \in Seq(A)
  <2> HIDE DEF A
  <2>1. errors'.ring = errors.ring \/ \E e \in A : errors'.ring = Recent(errors.ring, e)
    BY <1>1, RingsGrow DEF A
  <2>2. QED
    BY <1>2, <2>1, RecentIs
<1>6. cacheOps'.ring \in Seq(B)
  <2> HIDE DEF B
  <2>1. cacheOps'.ring = cacheOps.ring \/ \E e \in B : cacheOps'.ring = Recent(cacheOps.ring, e)
    BY <1>1, RingsGrow DEF B
  <2>2. QED
    BY <1>2, <2>1, RecentIs
<1>7. errors'.ring \in Seq(A') /\ cacheOps'.ring \in Seq(B')
  <2> HIDE DEF A, B
  <2>1. \A S, T, s : S \subseteq T /\ s \in Seq(S) => s \in Seq(T)
    OBVIOUS
  <2>2. QED
    BY <1>4, <1>5, <1>6, <2>1
<1>8. QED
  BY <1>3, <1>7 DEF RingsInv

LEMMA MaxOfTwo ==
  ASSUME NEW a \in Int, NEW b \in Int
  PROVE  Max({a, b}) = IF a >= b THEN a ELSE b
<1> DEFINE m == IF a >= b THEN a ELSE b
<1>1. m \in {a, b} /\ \A y \in {a, b} : m >= y
  OBVIOUS
<1>2. \A x \in {a, b} : (\A y \in {a, b} : x >= y) => x = m
  OBVIOUS
<1>3. QED
  BY <1>1, <1>2 DEF Max

LEMMA MinOfThree ==
  ASSUME NEW a \in Int, NEW b \in Int, NEW c \in Int
  PROVE  Min({a, b, c}) = Min({Min({a, b}), c})
<1> DEFINE m == IF a <= b THEN IF a <= c THEN a ELSE c ELSE IF b <= c THEN b ELSE c
<1>1. m \in {a, b, c} /\ \A y \in {a, b, c} : m <= y
  OBVIOUS
<1>2. \A x \in {a, b, c} : (\A y \in {a, b, c} : x <= y) => x = m
  OBVIOUS
<1>3. Min({a, b, c}) = m
  BY <1>1, <1>2 DEF Min
<1>4. Min({Min({a, b}), c}) = m
  BY MinOfTwo
<1>5. QED
  BY <1>3, <1>4

(* The top of the counted keys, whichever of the orders that sort them. *)
LEMMA TopIs ==
  ASSUME NEW D, IsFiniteSet(D), NEW f \in [D -> Nat], NEW limit \in Int, NEW top \in Top(f, limit)
  PROVE  /\ Cardinality(Counted(f)) \in Nat
         /\ limit >= 0 => Len(top) = Min({limit, Cardinality(Counted(f))})
         /\ \A i \in DOMAIN top :
                /\ \A j \in DOMAIN top : i <= j => f[top[i]] >= f[top[j]]
                /\ \A x \in DOMAIN f \ ToSet(top) : f[x] <= f[top[i]]
<1> DEFINE C == Counted(f)
           n == Cardinality(C)
<1>1. PICK s \in SetToSeqs(C) : /\ \A i, j \in DOMAIN s : i < j => f[s[i]] >= f[s[j]]
                                /\ top = Sliced(s, limit)
  BY DEF Top
<1>2. IsFiniteSet(C) /\ n \in Nat /\ C \subseteq D /\ \A x \in D \ C : f[x] = 0
  <2>1. C \subseteq D /\ \A x \in D \ C : f[x] = 0
    BY DEF Counted
  <2>2. QED
    BY <2>1, FS_Subset, FS_CardinalityType
<1> HIDE DEF C
<1>3. s \in [1 .. n -> C] /\ \A i, j \in 1 .. n : i # j => s[i] # s[j]
  BY DEF SetToSeqs
<1>4. \A x \in C : \E i \in 1 .. n : s[i] = x
  <2>1. s \in Injection(1 .. n, C)
    BY <1>3 DEF Injection, IsInjective
  <2>2. IsFiniteSet(1 .. n) /\ Cardinality(1 .. n) = n
    BY <1>2, FS_Interval
  <2>3. s \in Surjection(1 .. n, C)
    BY <1>2, <2>1, <2>2, FS_Injection
  <2>4. QED
    BY <2>3 DEF Surjection
<1>5. s \in Seq(C) /\ Len(s) = n /\ DOMAIN s = 1 .. n
  BY <1>2, <1>3
<1> DEFINE m == IF limit >= 0 THEN Min({limit, n}) ELSE n + limit
<1>6. m \in Int /\ m <= n /\ (limit >= 0 => m >= 0)
  BY <1>2, MinOfTwo
<1>7. top = SubSeq(s, 1, m)
  BY <1>1, <1>5 DEF Sliced
<1> HIDE DEF m, n
<1>8. /\ top \in Seq(C) /\ Len(top) = IF 1 <= m THEN m - 1 + 1 ELSE 0
      /\ \A i \in 1 .. m - 1 + 1 : top[i] = s[1 + i - 1]
  BY <1>5, <1>6, <1>7, SubSeqIs
<1>9. /\ DOMAIN top = 1 .. Len(top) /\ Len(top) \in Nat /\ Len(top) <= n
      /\ limit >= 0 => Len(top) = m
      /\ Len(top) > 0 => Len(top) = m
      /\ \A i \in 1 .. Len(top) : i \in 1 .. n /\ top[i] = s[i]
  BY <1>2, <1>6, <1>8
<1>10. ASSUME NEW i \in DOMAIN top, NEW j \in DOMAIN top, i <= j PROVE f[top[i]] >= f[top[j]]
  <2>1. i \in 1 .. n /\ j \in 1 .. n /\ top[i] = s[i] /\ top[j] = s[j]
    BY <1>9
  <2>2. CASE i = j
    BY <1>2, <1>3, <2>1, <2>2
  <2>3. CASE i < j
    BY <1>1, <1>5, <2>1, <2>3
  <2>4. i \in Int /\ j \in Int
    BY <2>1
  <2>5. QED
    BY <1>10, <2>2, <2>3, <2>4
<1>11. ASSUME NEW i \in DOMAIN top, NEW x \in D \ ToSet(top) PROVE f[x] <= f[top[i]]
  <2>1. i \in 1 .. n /\ top[i] = s[i] /\ f[s[i]] \in Nat /\ i <= Len(top)
    BY <1>2, <1>3, <1>9
  <2>2. CASE x \notin C
    BY <1>2, <2>1, <2>2
  <2>3. CASE x \in C
    <3>1. PICK j \in 1 .. n : s[j] = x
      BY <1>4, <2>3
    <3>2. ~(j <= Len(top))
      BY <1>9, <3>1 DEF ToSet
    <3>3. i < j
      BY <1>9, <2>1, <3>1, <3>2
    <3>4. QED
      BY <1>1, <1>5, <2>1, <3>1, <3>3
  <2>4. QED
    BY <2>2, <2>3
<1>12. limit >= 0 => Len(top) = Min({limit, n})
  BY <1>9 DEF m
<1>13. DOMAIN f = D
  OBVIOUS
<1>14. QED
  BY <1>2, <1>10, <1>11, <1>12, <1>13 DEF n, C

(* Reports of the top keys, of errors and of the cache. *)
LEMMA TopsAreTop == LedgersInv => TopAreTop
<1>1. SUFFICES ASSUME LedgersInv PROVE TopAreTop
  OBVIOUS
<1>2. /\ errors.byType \in [Exceptions -> Nat] /\ errors.byEndpoint \in [Endpoints -> Nat]
      /\ errors.byStatus \in [Statuses -> Nat]
      /\ cacheOps.hits \in [KeyPrefixes -> Nat] /\ cacheOps.misses \in [KeyPrefixes -> Nat]
  BY <1>1 DEF LedgersInv, ErrorsInv, CacheInv
<1>3. TopLimit \in Nat \ {0}
  BY MonitoringAssumption
<1> DEFINE Good(f, limit, top) ==
               /\ limit >= 0 => Len(top) = Min({limit, TopLimit, Cardinality(Counted(f))})
               /\ \A i \in DOMAIN top :
                      /\ \A j \in DOMAIN top : i <= j => f[top[i]] >= f[top[j]]
                      /\ \A x \in DOMAIN f \ ToSet(top) : f[x] <= f[top[i]]
<1>4. ASSUME NEW D, IsFiniteSet(D), NEW f \in [D -> Nat], NEW limit \in Int,
             NEW top \in Top(f, Min({limit, TopLimit}))
      PROVE  Good(f, limit, top)
  <2> DEFINE m == Min({limit, TopLimit})
  <2>1. m \in Int /\ (limit >= 0 => m >= 0)
    BY <1>3, MinOfTwo
  <2> HIDE DEF m
  <2>2. /\ Cardinality(Counted(f)) \in Nat
        /\ m >= 0 => Len(top) = Min({m, Cardinality(Counted(f))})
        /\ \A i \in DOMAIN top :
               /\ \A j \in DOMAIN top : i <= j => f[top[i]] >= f[top[j]]
               /\ \A x \in DOMAIN f \ ToSet(top) : f[x] <= f[top[i]]
    BY <1>4, <2>1, TopIs DEF m
  <2>3. Min({limit, TopLimit, Cardinality(Counted(f))}) = Min({m, Cardinality(Counted(f))})
    BY <1>3, <2>2, MinOfThree DEF m
  <2>4. QED
    BY <2>1, <2>2, <2>3
<1> HIDE DEF Good
<1>5. ASSUME NEW by \in {"hits", "misses"}, NEW limit \in Int, NEW top \in GetTopKeys(by, limit)
      PROVE  Good(IF by = "hits" THEN cacheOps.hits ELSE cacheOps.misses, limit, top)
  <2> DEFINE f == IF by = "hits" THEN cacheOps.hits ELSE cacheOps.misses
  <2>1. f \in [KeyPrefixes -> Nat] /\ top \in Top(f, Min({limit, TopLimit})) /\ IsFiniteSet(KeyPrefixes)
    BY <1>2, CountedAreFinite DEF GetTopKeys
  <2> HIDE DEF f
  <2>2. Good(f, limit, top)
    BY <1>4, <2>1
  <2>3. QED
    BY <2>2 DEF f
<1>6. ASSUME NEW by \in {"type", "endpoint", "status_code"}, NEW limit \in Int, NEW top \in GetTopErrors(by, limit)
      PROVE  Good(IF by = "type" THEN errors.byType ELSE IF by = "endpoint" THEN errors.byEndpoint
                  ELSE errors.byStatus, limit, top)
  <2> DEFINE f == IF by = "type" THEN errors.byType ELSE IF by = "endpoint" THEN errors.byEndpoint
                  ELSE errors.byStatus
             D == IF by = "type" THEN Exceptions ELSE IF by = "endpoint" THEN Endpoints ELSE Statuses
  <2>1. limit \in 1 .. TopLimit /\ top \in Top(f, limit)
    BY DEF GetTopErrors
  <2>2. Min({limit, TopLimit}) = limit
    BY <1>3, <2>1, MinOfTwo
  <2>3. f \in [D -> Nat] /\ IsFiniteSet(D)
    BY <1>2, CountedAreFinite
  <2> HIDE DEF f, D
  <2>4. Good(f, limit, top)
    BY <1>4, <2>1, <2>2, <2>3
  <2>5. QED
    BY <2>4 DEF f
<1>7. ASSUME NEW by \in {"type", "endpoint", "status_code", "hits", "misses"}, NEW limit \in -1 .. TopLimit + 1,
             NEW top \in IF by \in {"hits", "misses"} THEN GetTopKeys(by, limit) ELSE GetTopErrors(by, limit)
      PROVE  LET f == CASE by = "type" -> errors.byType [] by = "endpoint" -> errors.byEndpoint
                        [] by = "status_code" -> errors.byStatus
                        [] by = "hits" -> cacheOps.hits [] OTHER -> cacheOps.misses
             IN  Good(f, limit, top)
  <2>0. limit \in Int
    BY <1>3
  <2>1. CASE by = "hits"
    BY <1>5, <1>7, <2>0, <2>1
  <2>2. CASE by = "misses"
    BY <1>5, <1>7, <2>0, <2>2
  <2>3. CASE by = "type"
    BY <1>6, <1>7, <2>0, <2>3
  <2>4. CASE by = "endpoint"
    BY <1>6, <1>7, <2>0, <2>4
  <2>5. CASE by = "status_code"
    BY <1>6, <1>7, <2>0, <2>5
  <2>6. QED
    BY <2>1, <2>2, <2>3, <2>4, <2>5
<1>8. QED
  BY <1>7 DEF TopAreTop, Good

(* A set of positions has, in increasing order, each of its elements at its rank. *)
UpTo(S, i)   == {j \in S : j <= i}
Beyond(S, i) == {j \in S : j > i}

LEMMA RanksAre ==
  ASSUME NEW S, IsFiniteSet(S), S \subseteq Int, NEW i \in S
  PROVE  /\ Cardinality(S) \in Nat /\ Cardinality(Beyond(S, i)) \in Nat
         /\ Cardinality(UpTo(S, i)) = Cardinality(S) - Cardinality(Beyond(S, i))
         /\ Cardinality(UpTo(S, i)) \in 1 .. Cardinality(S)
         /\ \A k \in S : k # i => Cardinality(UpTo(S, k)) # Cardinality(UpTo(S, i))
<1> DEFINE A == UpTo(S, i)
           B == Beyond(S, i)
<1>1. A \cup B = S /\ A \cap B = {} /\ i \in A
  <2>1. i \in Int /\ \A j \in S : j \in Int /\ (j <= i <=> ~(j > i))
    OBVIOUS
  <2>2. i <= i
    BY <2>1
  <2>3. QED
    BY <2>1, <2>2 DEF UpTo, Beyond
<1>2. IsFiniteSet(A) /\ IsFiniteSet(B)
  BY FS_Subset DEF UpTo, Beyond
<1> HIDE DEF A, B
<1>3. Cardinality(A) \in Nat /\ Cardinality(B) \in Nat /\ Cardinality(S) \in Nat
  BY <1>2, FS_CardinalityType
<1>4. Cardinality(A \cup B) = Cardinality(A) + Cardinality(B) - Cardinality(A \cap B)
  BY <1>2, FS_Union
<1>5. Cardinality(A \cap B) = 0
  BY <1>1, FS_EmptySet
<1>6. Cardinality(A) = Cardinality(S) - Cardinality(B)
  <2>1. Cardinality(S) = Cardinality(A) + Cardinality(B) - 0
    BY <1>1, <1>4, <1>5
  <2>2. QED
    BY <1>3, <2>1
<1>7. Cardinality(A) # 0
  BY <1>1, <1>2, FS_EmptySet
<1>8. ASSUME NEW j \in S, NEW k \in S, j < k PROVE Cardinality(UpTo(S, j)) # Cardinality(UpTo(S, k))
  <2>1. UpTo(S, j) \subseteq UpTo(S, k) /\ k \in UpTo(S, k) /\ k \notin UpTo(S, j)
    <3>1. j \in Int /\ k \in Int /\ ~(k <= j) /\ k <= k
      BY <1>8
    <3>2. ASSUME NEW x \in S, x <= j PROVE x <= k
      <4>1. x \in Int
        OBVIOUS
      <4>2. QED
        BY <1>8, <3>1, <3>2, <4>1
    <3>3. QED
      BY <3>1, <3>2 DEF UpTo
  <2>2. IsFiniteSet(UpTo(S, k))
    BY FS_Subset DEF UpTo
  <2>3. QED
    BY <2>1, <2>2, FS_Subset
<1>9. ASSUME NEW k \in S, k # i PROVE Cardinality(UpTo(S, k)) # Cardinality(UpTo(S, i))
  <2>1. k < i \/ i < k
    BY <1>9
  <2>2. QED
    BY <1>8, <2>1
<1>10. QED
  BY <1>3, <1>6, <1>7, <1>9 DEF A, B

LEMMA InOrderIs ==
  ASSUME NEW S, IsFiniteSet(S), S \subseteq Int
  PROVE  /\ \E T : InOrder(S) \in Seq(T)
         /\ Len(InOrder(S)) = Cardinality(S) /\ Cardinality(S) \in Nat
         /\ \A i \in S : /\ Cardinality(Beyond(S, i)) \in 0 .. Cardinality(S) - 1
                         /\ InOrder(S)[Cardinality(S) - Cardinality(Beyond(S, i))] = i
<1> DEFINE n == Cardinality(S)
           s == InOrder(S)
           at(k) == CHOOSE i \in S : Cardinality(UpTo(S, i)) = k
<1>1. n \in Nat
  BY FS_CardinalityType
<1>2. s = [k \in 1 .. n |-> at(k)]
  BY DEF InOrder, UpTo
<1> DEFINE T == {at(k) : k \in 1 .. n}
<1>3. s \in Seq(T) /\ Len(s) = n
  <2> HIDE DEF n, s, at
  <2>1. s \in [1 .. n -> T]
    BY <1>2
  <2> HIDE DEF T
  <2>2. QED
    BY <1>1, <2>1
<1>4. ASSUME NEW i \in S
      PROVE  Cardinality(Beyond(S, i)) \in 0 .. n - 1 /\ s[n - Cardinality(Beyond(S, i))] = i
  <2> DEFINE k == Cardinality(UpTo(S, i))
  <2>1. /\ Cardinality(Beyond(S, i)) \in Nat /\ k = n - Cardinality(Beyond(S, i)) /\ k \in 1 .. n
        /\ \A j \in S : j # i => Cardinality(UpTo(S, j)) # k
    BY RanksAre
  <2> HIDE DEF n, s, k
  <2>2. at(k) = i
    BY <2>1 DEF k
  <2>3. s[k] = i
    BY <1>2, <2>1, <2>2
  <2>4. QED
    BY <1>1, <2>1, <2>3
<1>5. QED
  BY <1>1, <1>3, <1>4

(* The newest of a sequence: those with fewer than limit after them. *)
LEMMA NewestIs ==
  ASSUME NEW T, NEW s \in Seq(T), NEW limit \in Nat \ {0}
  PROVE  /\ Newest(s, limit) \in Seq(T)
         /\ Len(Newest(s, limit)) = Min({limit, Len(s)})
         /\ \A d \in 0 .. Len(s) - 1 : d < limit =>
                /\ Len(Newest(s, limit)) - d \in 1 .. Len(Newest(s, limit))
                /\ Newest(s, limit)[Len(Newest(s, limit)) - d] = s[Len(s) - d]
<1> DEFINE n == Len(s)
           a == Max({1, n - limit + 1})
           m == Min({limit, n})
           new == Newest(s, limit)
<1>1. n \in Nat
  OBVIOUS
<1>2. /\ a \in Int /\ a > 0 /\ a = IF 1 >= n - limit + 1 THEN 1 ELSE n - limit + 1
      /\ m = IF limit <= n THEN limit ELSE n
  BY <1>1, MaxOfTwo, MinOfTwo
<1>3. new = SubSeq(s, a, n)
  <2>1. limit > 0
    OBVIOUS
  <2>2. QED
    BY <2>1 DEF Newest
<1> HIDE DEF n, a, m, new
<1>4. /\ new \in Seq(T) /\ Len(new) = IF a <= n THEN n - a + 1 ELSE 0
      /\ \A i \in 1 .. n - a + 1 : new[i] = s[a + i - 1]
  BY <1>1, <1>2, <1>3, SubSeqIs DEF n
<1>5. Len(new) = m
  BY <1>1, <1>2, <1>4
<1>6. ASSUME NEW d \in 0 .. n - 1, d < limit
      PROVE  m - d \in 1 .. m /\ new[m - d] = s[n - d]
  <2>1. m - d \in 1 .. n - a + 1 /\ a + (m - d) - 1 = n - d /\ m - d \in 1 .. m
    BY <1>1, <1>2, <1>6
  <2>2. new[m - d] = s[a + (m - d) - 1]
    BY <1>4, <2>1
  <2>3. QED
    BY <2>1, <2>2
<1>7. QED
  BY <1>4, <1>5, <1>6 DEF n, m, new

(* What a report on the recent events of a ring gives. *)
IsReport(given, ring, type, endpoint, limit) ==
    LET matching == Matching(ring, type, endpoint)
        Newer(i) == Cardinality({j \in matching : j > i})
    IN  /\ Len(given) = Min({limit, Cardinality(matching)})
        /\ \A i \in matching : Newer(i) < limit => given[Len(given) - Newer(i)] = ring[i]

LEMMA RecentReport ==
  ASSUME NEW E, NEW ring \in Seq(E), NEW type, NEW endpoint, NEW limit \in Nat \ {0}
  PROVE  IsReport(GetRecent(ring, type, endpoint, limit), ring, type, endpoint, limit)
<1> DEFINE S == Matching(ring, type, endpoint)
           s == InOrder(S)
           new == Newest(s, limit)
           given == GetRecent(ring, type, endpoint, limit)
<1>1. S \subseteq Int /\ IsFiniteSet(S)
  <2>1. DOMAIN ring = 1 .. Len(ring) /\ Len(ring) \in Nat
    OBVIOUS
  <2>2. S \subseteq 1 .. Len(ring)
    BY <2>1 DEF Matching
  <2>3. IsFiniteSet(1 .. Len(ring))
    BY <2>1, FS_Interval
  <2>4. QED
    BY <2>2, <2>3, FS_Subset
<1> HIDE DEF S
<1>2. /\ Len(s) = Cardinality(S)
      /\ \A i \in S : /\ Cardinality(Beyond(S, i)) \in 0 .. Cardinality(S) - 1
                      /\ s[Cardinality(S) - Cardinality(Beyond(S, i))] = i
  BY <1>1, InOrderIs
<1>3. PICK T : s \in Seq(T)
  BY <1>1, InOrderIs
<1> HIDE DEF s
<1>4. /\ new \in Seq(T)
      /\ Len(new) = Min({limit, Len(s)})
      /\ \A d \in 0 .. Len(s) - 1 : d < limit =>
             Len(new) - d \in 1 .. Len(new) /\ new[Len(new) - d] = s[Len(s) - d]
  BY <1>3, NewestIs
<1> HIDE DEF new
<1>5. given = [k \in DOMAIN new |-> ring[new[k]]]
  BY DEF GetRecent, S, s, new
<1>6. DOMAIN new = 1 .. Len(new) /\ Len(new) \in Nat
  BY <1>4
<1> HIDE DEF given
<1>7. Len(given) = Len(new)
  <2>1. DOMAIN given = 1 .. Len(new)
    BY <1>5, <1>6
  <2> DEFINE V == {ring[new[k]] : k \in 1 .. Len(new)}
  <2>2. given \in [1 .. Len(new) -> V]
    BY <1>5, <1>6
  <2> HIDE DEF V
  <2>3. QED
    BY <1>6, <2>2
<1>8. ASSUME NEW i \in S, Cardinality(Beyond(S, i)) < limit
      PROVE  given[Len(given) - Cardinality(Beyond(S, i))] = ring[i]
  <2> DEFINE d == Cardinality(Beyond(S, i))
  <2>1. d \in 0 .. Len(s) - 1 /\ s[Len(s) - d] = i /\ d < limit
    BY <1>2, <1>8
  <2> HIDE DEF d
  <2>2. Len(new) - d \in 1 .. Len(new) /\ new[Len(new) - d] = i
    BY <1>4, <2>1
  <2>3. given[Len(new) - d] = ring[new[Len(new) - d]]
    BY <1>5, <1>6, <2>2
  <2>4. QED
    BY <1>7, <2>2, <2>3 DEF d
<1>9. QED
  BY <1>2, <1>4, <1>7, <1>8 DEF S, given, Beyond, IsReport

LEMMA RecentsAreNewest == RingsInv => RecentAreNewest
<1>1. SUFFICES ASSUME RingsInv,
                      NEW type \in {Nil, "hit"} \cup Exceptions, NEW endpoint \in {Nil} \cup Endpoints,
                      NEW limit \in 1 .. RingSize + 1
               PROVE  LET given == IF subject = "web" THEN GetRecentErrors(type, endpoint, limit)
                                   ELSE GetCacheOperations(type, endpoint, limit)
                          ring == IF subject = "web" THEN errors.ring ELSE cacheOps.ring
                          most == IF subject = "web" THEN limit ELSE Min({limit, CacheLimit})
                      IN  given # Nil => IsReport(given, ring, type, endpoint, most)
  BY DEF RecentAreNewest, IsReport
<1>2. RingSize \in Nat /\ CacheLimit \in Nat \ {0} /\ limit \in Nat \ {0}
  <2>1. RingSize \in Nat \ {0} /\ CacheLimit \in Nat \ {0}
    BY MonitoringAssumption
  <2>2. QED
    BY <2>1
<1>3. CASE subject = "web"
  <2>1. GetRecentErrors(type, endpoint, limit) # Nil =>
            GetRecentErrors(type, endpoint, limit) = GetRecent(errors.ring, type, endpoint, limit)
    BY DEF GetRecentErrors
  <2>2. errors.ring \in Seq(Events(Exceptions))
    BY <1>1 DEF RingsInv
  <2>3. QED
    BY <1>2, <1>3, <2>1, <2>2, RecentReport
<1>4. CASE subject # "web"
  <2> DEFINE most == Min({limit, CacheLimit})
  <2>1. most \in Nat \ {0}
    BY <1>2, MinOfTwo
  <2>2. cacheOps.ring \in Seq(Events(CachePcs))
    BY <1>1 DEF RingsInv
  <2>3. GetCacheOperations(type, endpoint, limit) = GetRecent(cacheOps.ring, type, endpoint, most)
    BY DEF GetCacheOperations
  <2> HIDE DEF most
  <2>4. QED
    BY <1>4, <2>1, <2>2, <2>3, RecentReport DEF most
<1>5. QED
  BY <1>3, <1>4

(* Each moment from the start on is in one bucket. *)
BucketOf(start, bucket, at) == start + bucket * ((at - start) \div bucket)

LEMMA MultiplesAre ==
  ASSUME NEW x \in Nat, NEW b \in Nat \ {0}
  PROVE  /\ x \div b \in Nat /\ b * (x \div b) \in Nat /\ b * (x \div b) <= x /\ x < b * (x \div b) + b
         /\ (b * (x \div b)) % b = 0
         /\ \A y \in Nat : y % b = 0 /\ y <= x /\ x < y + b => y = b * (x \div b)
<1>1. /\ x \div b \in Nat /\ b * (x \div b) \in Nat /\ b * (x \div b) <= x /\ x < b * (x \div b) + b
  OBVIOUS
<1>2. ASSUME NEW q \in Nat PROVE (b * q) % b = 0
  OBVIOUS
<1>3. ASSUME NEW y \in Nat, y % b = 0, y <= x, x < y + b PROVE y = b * (x \div b)
  <2>1. y \div b \in Nat /\ y = b * (y \div b)
    BY <1>3
  <2> DEFINE p == y \div b
             q == x \div b
  <2>2. p \in Nat /\ q \in Nat /\ b * p <= x /\ x < b * p + b /\ b * q <= x /\ x < b * q + b
    BY <1>1, <1>3, <2>1
  <2> HIDE DEF p, q
  <2>3. b * p < b * q + b /\ b * q < b * p + b
    BY <2>2
  <2>4. p < q + 1 /\ q < p + 1
    BY <2>2, <2>3
  <2>5. p = q
    BY <2>2, <2>4
  <2>6. QED
    BY <2>1, <2>5 DEF p, q
<1>4. QED
  BY <1>1, <1>2, <1>3

LEMMA BucketIs ==
  ASSUME NEW start \in Int, NEW bucket \in Nat \ {0}, NEW at \in Int, start <= at
  PROVE  LET b == BucketOf(start, bucket, at)
         IN  /\ b \in Int /\ start <= b /\ b <= at /\ (b - start) % bucket = 0
             /\ \A s \in Int : start <= s /\ (s - start) % bucket = 0 =>
                    (s <= at /\ at < s + bucket <=> s = b)
<1> DEFINE x == at - start
           m == bucket * (x \div bucket)
           b == BucketOf(start, bucket, at)
<1>1. x \in Nat
  OBVIOUS
<1>2. b = start + m
  BY DEF BucketOf
<1> HIDE DEF x
<1>3. /\ m \in Nat /\ m <= x /\ x < m + bucket /\ m % bucket = 0
      /\ \A y \in Nat : y % bucket = 0 /\ y <= x /\ x < y + bucket => y = m
  BY <1>1, MultiplesAre
<1> HIDE DEF m, b
<1>4. b \in Int /\ start <= b /\ b <= at /\ at < b + bucket /\ b - start = m
  BY <1>2, <1>3 DEF x
<1>5. ASSUME NEW s \in Int, start <= s, (s - start) % bucket = 0, s <= at, at < s + bucket
      PROVE  s = b
  <2>1. s - start \in Nat /\ s - start <= x /\ x < (s - start) + bucket
    BY <1>5 DEF x
  <2>2. s - start = m
    BY <1>3, <1>5, <2>1
  <2>3. QED
    BY <1>3, <1>4, <2>2
<1>6. (b - start) % bucket = 0
  BY <1>3, <1>4
<1>7. QED
  BY <1>4, <1>5, <1>6 DEF b

(* The buckets of a window count each event in it that is shown once. *)
LEMMA BucketsCountOnce ==
  ASSUME NEW all, NEW ring \in Seq(Events(all)), NEW types, now \in Nat,
         NEW later \in Nat \ {0}, NEW window \in Nat, NEW bucket \in Nat \ {0}
  PROVE  SumFunction(Trends(ring, types, now + later, window, bucket).buckets)
             = Cardinality(ShownEvents(ring, types, now + later - window))
<1> DEFINE clock == now + later
           start == clock - window
           starts == {s \in start .. clock - 1 : (s - start) % bucket = 0}
           S == ShownEvents(ring, types, start)
           F == [s \in starts |-> Cardinality({i \in S : InBucket(ring[i], s, bucket)})]
           key == [i \in S |-> BucketOf(start, bucket, ring[i].at)]
<1>1. Trends(ring, types, clock, window, bucket).buckets = F
  BY DEF Trends
<1>2. clock \in Int /\ start \in Int
  OBVIOUS
<1>3. IsFiniteSet(starts)
  <2> HIDE DEF clock, start
  <2>1. IsFiniteSet(start .. clock - 1)
    <3>1. clock - 1 \in Int
      BY <1>2
    <3>2. QED
      BY <1>2, <3>1, FS_Interval
  <2>2. QED
    BY <2>1, FS_Subset
<1>4. /\ IsFiniteSet(S)
      /\ \A i \in S : i \in 1 .. Len(ring) /\ ring[i] \in Events(all) /\ start <= ring[i].at
  <2>1. DOMAIN ring = 1 .. Len(ring) /\ Len(ring) \in Nat
    OBVIOUS
  <2>2. IsFiniteSet(1 .. Len(ring))
    BY <2>1, FS_Interval
  <2> HIDE DEF start
  <2>3. S \subseteq 1 .. Len(ring) /\ \A i \in S : ring[i].at >= start
    BY <2>1 DEF ShownEvents, Within
  <2>4. ASSUME NEW i \in S PROVE i \in 1 .. Len(ring) /\ ring[i] \in Events(all) /\ start <= ring[i].at
    <3>1. i \in 1 .. Len(ring) /\ ring[i] \in Events(all)
      BY <2>3
    <3>2. ring[i].at \in Int
      BY <3>1 DEF Events
    <3>3. QED
      BY <1>2, <2>3, <3>1, <3>2
  <2>5. QED
    BY <2>2, <2>3, <2>4, FS_Subset
<1>5. ASSUME NEW i \in S PROVE ring[i].at \in Int /\ start <= ring[i].at /\ ring[i].at <= clock - 1
  <2>1. ring[i].at \in 0 .. now
    BY <1>4 DEF Events
  <2>2. QED
    BY <1>4, <2>1
<1> HIDE DEF clock, start, S
<1>6. ASSUME NEW i \in S
      PROVE  /\ key[i] \in starts
             /\ \A s \in starts : InBucket(ring[i], s, bucket) <=> key[i] = s
  <2> DEFINE b == BucketOf(start, bucket, ring[i].at)
  <2>1. /\ b \in Int /\ start <= b /\ b <= ring[i].at /\ (b - start) % bucket = 0
        /\ \A s \in Int : start <= s /\ (s - start) % bucket = 0 =>
               (s <= ring[i].at /\ ring[i].at < s + bucket <=> s = b)
    BY <1>2, <1>5, BucketIs
  <2>2. key[i] = b
    OBVIOUS
  <2> HIDE DEF b, key
  <2>3. b \in starts
    BY <1>2, <1>5, <2>1
  <2>4. ASSUME NEW s \in starts PROVE InBucket(ring[i], s, bucket) <=> b = s
    <3>1. s \in Int /\ start <= s /\ (s - start) % bucket = 0
      BY <1>2
    <3>2. QED
      BY <2>1, <3>1 DEF InBucket
  <2>5. QED
    BY <2>2, <2>3, <2>4
<1> HIDE DEF starts, key
<1>7. Groups(S, key, starts)
  BY <1>3, <1>4, <1>6 DEF Groups
<1>8. CountsOf(F, S, key, starts)
  <2>1. ASSUME NEW s \in starts PROVE F[s] = Cardinality(Of(S, key, s))
    <3>1. {i \in S : InBucket(ring[i], s, bucket)} = Of(S, key, s)
      BY <1>6 DEF Of
    <3>2. F[s] = Cardinality({i \in S : InBucket(ring[i], s, bucket)})
      OBVIOUS
    <3>3. QED
      BY <3>1, <3>2
  <2> HIDE DEF F
  <2>2. QED
    BY <2>1 DEF CountsOf
<1>9. DOMAIN F = starts
  OBVIOUS
<1> HIDE DEF F
<1>10. SumFunction(F) = Cardinality(S)
  BY <1>7, <1>8, <1>9, CountOfGroups DEF SumFunction
<1>11. QED
  BY <1>1, <1>10 DEF clock, start, S

LEMMA TrendTotals ==
  ASSUME NEW ring, NEW types, NEW clock, NEW window, NEW bucket
  PROVE  Trends(ring, types, clock, window, bucket).total = Cardinality(Within(ring, clock - window))
<1> DEFINE start == clock - window
           total == Cardinality(Within(ring, start))
           buckets == [s \in {s \in start .. clock - 1 : (s - start) % bucket = 0} |->
                          Cardinality({i \in ShownEvents(ring, types, start) : InBucket(ring[i], s, bucket)})]
<1>1. Trends(ring, types, clock, window, bucket) = [buckets |-> buckets, total |-> total]
  BY DEF Trends
<1> HIDE DEF buckets, total
<1>2. QED
  BY <1>1 DEF total

LEMMA WindowsArePartitioned == RingsInv => TrendsPartition
<1>1. SUFFICES ASSUME RingsInv,
                      NEW later \in 1 .. 2, NEW window \in 0 .. MaxTime + 2, NEW bucket \in 0 .. MaxTime + 2
               PROVE  LET web == subject = "web"
                          trends == IF web THEN GetErrorTrends(now + later, window, bucket)
                                    ELSE GetCacheTrends(now + later, window, bucket)
                          shown == ShownEvents(cacheOps.ring, {"hit", "miss"}, now + later - window)
                      IN  trends # Nil =>
                              SumFunction(trends.buckets) = IF web THEN trends.total ELSE Cardinality(shown)
  BY DEF TrendsPartition
<1>2. MaxTime \in Nat
  BY MonitoringAssumption
<1>3. later \in Nat \ {0} /\ window \in Nat /\ bucket \in Nat
  BY <1>2
<1>4. now \in Nat /\ errors.ring \in Seq(Events(Exceptions)) /\ cacheOps.ring \in Seq(Events(CachePcs))
  BY <1>1 DEF RingsInv
<1>5. CASE subject = "web"
  <2> DEFINE trends == GetErrorTrends(now + later, window, bucket)
             of == Trends(errors.ring, Exceptions, now + later, window, bucket)
             start == now + later - window
  <2>1. SUFFICES ASSUME trends # Nil PROVE SumFunction(trends.buckets) = trends.total
    BY <1>5
  <2>2. trends = of /\ bucket \in 1 .. window
    BY <2>1 DEF GetErrorTrends
  <2>3. bucket \in Nat \ {0}
    BY <1>3, <2>2
  <2>4. SumFunction(of.buckets) = Cardinality(ShownEvents(errors.ring, Exceptions, start))
    BY <1>3, <1>4, <2>3, BucketsCountOnce
  <2> HIDE DEF start, of, trends
  <2>5. of.total = Cardinality(Within(errors.ring, start))
    <3> DEFINE clock == now + later
    <3>1. start = clock - window /\ of = Trends(errors.ring, Exceptions, clock, window, bucket)
      BY <1>3, <1>4 DEF start, of
    <3> HIDE DEF clock
    <3>2. QED
      BY <3>1, TrendTotals
  <2>6. ShownEvents(errors.ring, Exceptions, start) = Within(errors.ring, start)
    <3>1. \A i \in Within(errors.ring, start) : errors.ring[i] \in Events(Exceptions)
      BY <1>4 DEF Within
    <3>2. QED
      BY <3>1 DEF ShownEvents, Events
  <2>7. QED
    BY <2>2, <2>4, <2>5, <2>6
<1>6. CASE subject # "web"
  <2> DEFINE m == Max({bucket, 1})
  <2>1. m \in Nat \ {0}
    BY <1>3, MaxOfTwo
  <2>2. GetCacheTrends(now + later, window, bucket)
            = Trends(cacheOps.ring, {"hit", "miss"}, now + later, window, m)
    BY DEF GetCacheTrends
  <2> HIDE DEF m
  <2>3. SumFunction(Trends(cacheOps.ring, {"hit", "miss"}, now + later, window, m).buckets)
            = Cardinality(ShownEvents(cacheOps.ring, {"hit", "miss"}, now + later - window))
    BY <1>3, <1>4, <2>1, BucketsCountOnce
  <2>4. QED
    BY <1>6, <2>2, <2>3
<1>7. QED
  BY <1>5, <1>6

(* Every report gives what its parameters ask for: the newest events that     *)
(* match, in order and as many as it may; trends whose buckets count each     *)
(* event of the window once; and the most counted keys - for all rings,       *)
(* limits, threads, exceptions and keys.                                      *)
THEOREM ReportsGiveWhatIsAsked == MonitoringSpec => []ReportsHold
<1>1. LedgersInv /\ RingsInv => ReportsHold
  BY RecentsAreNewest, WindowsArePartitioned, TopsAreTop DEF ReportsHold
<1>2. Init => RingsInv
  BY RingsInit
<1>3. LedgersInv /\ RingsInv /\ [MonitoringNext]_vars => RingsInv'
  BY RingsStep
<1>4. QED
  BY <1>1, <1>2, <1>3, AlwaysLedgers, PTL DEF MonitoringSpec

=============================================================================
