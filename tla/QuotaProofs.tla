----------------------------- MODULE QuotaProofs -----------------------------
(* Theorems about Quota: what the sums over rows and months come to, and    *)
(* that the limits, the periods, the dashboard and the pages hold whatever  *)
(* the calendar, the plans and the sizes are.                               *)
EXTENDS Quota, FiniteSetTheorems, SequenceTheorems, WellFoundedInduction, TLAPS

-----------------------------------------------------------------------------
(* Induction: a set of finite sets, or of numbers, has a least member *)

Family(C, S) == IsFiniteSet(S) /\ C \in SUBSET SUBSET S /\ C # {}

\* A family of subsets of a finite set has a member that contains no other.
LEMMA LeastSet ==
  \A C, S : Family(C, S) => \E T \in C : \A U \in C : U \subseteq T => U = T
<1> TAKE C, S
<1> HAVE Family(C, S)
<1> DEFINE R == StrictSubsetOrdering(S)
<1>1. IsWellFoundedOn(R, FiniteSubsetsOf(S)) /\ C \subseteq FiniteSubsetsOf(S) /\ C # {}
  BY FS_StrictSubsetOrderingWellFounded, FS_FiniteSubsetsOfFinite DEF Family
<1>2. \E T \in C : \A U \in C : ~ (<<U, T>> \in R)
  <2> HIDE DEF R
  <2> QED BY <1>1, WFMin
<1>3. C \in SUBSET SUBSET S
  BY DEF Family
<1> QED BY <1>2, <1>3 DEF StrictSubsetOrdering

\* A nonempty set of natural numbers has a least element.
LEMMA LeastNat ==
  ASSUME NEW S \in SUBSET Nat, S # {}
  PROVE  \E m \in S : \A k \in S : m <= k
<1> PICK n \in S : TRUE
  OBVIOUS
<1> DEFINE C == {0..k : k \in {j \in S : j <= n}}
<1>1. Family(C, 0..n)
  <2>1. \A k \in S : k <= n => 0..k \subseteq 0..n
    OBVIOUS
  <2>2. 0..n \in C
    OBVIOUS
  <2>3. IsFiniteSet(0..n)
    BY FS_Interval
  <2> QED BY <2>1, <2>2, <2>3 DEF Family
<1>2. PICK T \in C : \A U \in C : U \subseteq T => U = T
  <2> HIDE DEF C
  <2> QED BY <1>1, LeastSet
<1>3. PICK m \in S : m <= n /\ T = 0..m
  OBVIOUS
<1>4. ASSUME NEW k \in S PROVE m <= k
  <2>1. CASE k <= n
    <3>1. 0..k \subseteq 0..m => 0..k = 0..m
      BY <1>2, <1>3, <2>1
    <3> QED BY <3>1
  <2> QED BY <2>1, <1>3
<1> QED BY <1>3, <1>4

\* A set with zero and every successor of its numbers up to n has all of them.
LEMMA Upwards ==
  ASSUME NEW n \in Nat, NEW S, 0 \in S, \A k \in 0..n : k < n /\ k \in S => k + 1 \in S
  PROVE  0..n \subseteq S
<1> DEFINE Missing == {k \in 0..n : k \notin S}
<1>1. SUFFICES ASSUME Missing # {} PROVE FALSE
  OBVIOUS
<1>2. PICK m \in Missing : \A k \in Missing : m <= k
  <2>1. Missing \in SUBSET Nat
    OBVIOUS
  <2> HIDE DEF Missing
  <2> QED BY <1>1, <2>1, LeastNat
<1>3. m \in Nat /\ m # 0 /\ m - 1 \in 0..n /\ m - 1 < n /\ m - 1 \notin Missing
  BY <1>2
<1> QED BY <1>2, <1>3

\* A family with every subset of a finite set whose smaller subsets it has, has the set.
LEMMA Growing ==
  ASSUME NEW S, IsFiniteSet(S), NEW C,
         \A T \in SUBSET S : (\A U \in SUBSET T : U # T => U \in C) => T \in C
  PROVE  S \in C
<1> DEFINE Missing == {T \in SUBSET S : T \notin C}
<1>1. SUFFICES ASSUME Missing # {} PROVE FALSE
  OBVIOUS
<1>2. PICK T \in Missing : \A U \in Missing : U \subseteq T => U = T
  <2>1. Family(Missing, S)
    BY <1>1 DEF Family
  <2> HIDE DEF Missing
  <2> QED BY <2>1, LeastSet
<1>3. \A U \in SUBSET T : U # T => U \in C
  BY <1>2
<1> QED BY <1>2, <1>3

-----------------------------------------------------------------------------
(* Sums *)

Pick(s) == CHOOSE x \in s : TRUE
Sums(g, f, S) ==
  g = [s \in SUBSET S |-> IF s = {} THEN 0 ELSE f[Pick(s)] + g[s \ {Pick(s)}]]

\* A total is what the function that sums up every subset has for the whole.
LEMMA TotalDef ==
  ASSUME NEW f, NEW S
  PROVE  Total(f, S) = (CHOOSE g : Sums(g, f, S))[S]
BY DEF Total, MapThenSumSet, MapThenFoldSet, Sums, Pick

\* Two functions that sum up subsets agree where both do.
LEMMA SumsAgree ==
  ASSUME NEW f, NEW S1, NEW S2, NEW g, NEW h, Sums(g, f, S1), Sums(h, f, S2),
         NEW T \in SUBSET (S1 \cap S2), IsFiniteSet(T)
  PROVE  g[T] = h[T]
<1> DEFINE C == {U \in SUBSET T : g[U] = h[U]}
<1>1. ASSUME NEW U \in SUBSET T, \A V \in SUBSET U : V # U => V \in C
      PROVE  U \in C
  <2>1. CASE U = {}
    BY <2>1 DEF Sums
  <2>2. CASE U # {}
    <3>1. Pick(U) \in U /\ U \ {Pick(U)} \in SUBSET U /\ U \ {Pick(U)} # U
      BY <2>2 DEF Pick
    <3>2. g[U] = f[Pick(U)] + g[U \ {Pick(U)}] /\ h[U] = f[Pick(U)] + h[U \ {Pick(U)}]
      BY <2>2 DEF Sums
    <3> QED BY <1>1, <3>1, <3>2
  <2> QED BY <2>1, <2>2
<1>2. T \in C
  <2> HIDE DEF C
  <2> QED BY <1>1, Growing
<1> QED BY <1>2

\* There is a function that sums up the subsets of a finite set.
LEMMA SumsExist ==
  ASSUME NEW f, NEW S, IsFiniteSet(S)
  PROVE  \E g : Sums(g, f, S)
<1> DEFINE Missing == {T \in SUBSET S : ~ \E g : Sums(g, f, T)}
           G(s) == CHOOSE g : Sums(g, f, s)
<1>1. SUFFICES ASSUME Missing # {} PROVE FALSE
  OBVIOUS
<1>2. PICK T \in Missing : \A U \in Missing : U \subseteq T => U = T
  <2>1. Family(Missing, S)
    BY <1>1 DEF Family
  <2> HIDE DEF Missing
  <2> QED BY <2>1, LeastSet
<1>3. \A s \in SUBSET T : s # T => Sums(G(s), f, s)
  <2> TAKE s \in SUBSET T
  <2> HAVE s # T
  <2>1. \E g : Sums(g, f, s)
    BY <1>2
  <2> QED BY <2>1
<1>4. \A s \in SUBSET T : IsFiniteSet(s)
  BY <1>2, FS_Subset
<1> HIDE DEF Missing, G
<1> DEFINE h == [s \in SUBSET T |-> IF s = {} THEN 0
                                    ELSE f[Pick(s)] + G(s \ {Pick(s)})[s \ {Pick(s)}]]
<1>5. \A s \in SUBSET T : s # {} => Pick(s) \in s
  BY DEF Pick
<1>6. ASSUME NEW s \in SUBSET T, s # T PROVE G(s)[s] = h[s]
  <2>1. Sums(G(s), f, s)
    BY <1>3, <1>6
  <2>2. CASE s = {}
    BY <2>1, <2>2 DEF Sums
  <2>3. CASE s # {}
    <3> DEFINE r == s \ {Pick(s)}
    <3>1. r \in SUBSET T /\ r # T /\ r \in SUBSET (s \cap r) /\ IsFiniteSet(r)
      BY <1>4, <1>6
    <3>2. Sums(G(r), f, r)
      BY <1>3, <3>1
    <3>3. G(s)[r] = G(r)[r]
      <4> HIDE DEF r
      <4> QED BY <2>1, <3>1, <3>2, SumsAgree
    <3>4. G(s)[s] = f[Pick(s)] + G(s)[r]
      BY <2>1, <2>3 DEF Sums
    <3>5. h[s] = f[Pick(s)] + G(r)[r]
      BY <2>3
    <3> QED BY <3>3, <3>4, <3>5
  <2> QED BY <2>2, <2>3
<1>7. Sums(h, f, T)
  <2>1. \A s \in SUBSET T : s # {} => h[s] = f[Pick(s)] + h[s \ {Pick(s)}]
    <3> TAKE s \in SUBSET T
    <3> HAVE s # {}
    <3> DEFINE r == s \ {Pick(s)}
    <3>1. r \in SUBSET T /\ r # T
      BY <1>5
    <3>2. G(r)[r] = h[r]
      BY <1>6, <3>1
    <3> QED BY <3>2
  <2>2. h[{}] = 0
    OBVIOUS
  <2>3. DOMAIN h = SUBSET T /\ h = [s \in SUBSET T |-> h[s]]
    OBVIOUS
  <2> HIDE DEF h
  <2> QED BY <2>1, <2>2, <2>3 DEF Sums
<1> QED BY <1>2, <1>7 DEF Missing

\* The empty total is zero, any other one is an element's value and the rest.
LEMMA TotalUnfold ==
  ASSUME NEW f, NEW S, IsFiniteSet(S)
  PROVE  /\ S = {} => Total(f, S) = 0
         /\ S # {} => Pick(S) \in S /\ Total(f, S) = f[Pick(S)] + Total(f, S \ {Pick(S)})
<1> DEFINE r == S \ {Pick(S)}
<1>1. IsFiniteSet(r)
  BY FS_Subset
<1>2. PICK g : Sums(g, f, S) /\ Total(f, S) = g[S]
  BY SumsExist, TotalDef
<1>3. PICK h : Sums(h, f, r) /\ Total(f, r) = h[r]
  <2> HIDE DEF r
  <2> QED BY <1>1, SumsExist, TotalDef
<1>4. g[r] = h[r]
  <2>1. r \in SUBSET (S \cap r)
    OBVIOUS
  <2> HIDE DEF r
  <2> QED BY <1>1, <1>2, <1>3, <2>1, SumsAgree
<1>5. S # {} => Pick(S) \in S
  BY DEF Pick
<1>6. /\ S = {} => g[S] = 0
      /\ S # {} => g[S] = f[Pick(S)] + g[r]
  BY <1>2 DEF Sums
<1> QED BY <1>2, <1>3, <1>4, <1>5, <1>6

\* A total of natural numbers is one.
LEMMA TotalNat ==
  ASSUME NEW f, NEW S, IsFiniteSet(S), \A x \in S : f[x] \in Nat
  PROVE  Total(f, S) \in Nat
<1> DEFINE C == {U \in SUBSET S : Total(f, U) \in Nat}
<1>1. ASSUME NEW U \in SUBSET S, \A V \in SUBSET U : V # U => V \in C
      PROVE  U \in C
  <2>1. IsFiniteSet(U)
    BY FS_Subset
  <2>2. CASE U = {}
    <3>1. Total(f, U) = 0
      BY <2>1, <2>2, TotalUnfold
    <3> QED BY <3>1
  <2>3. CASE U # {}
    <3>1. Pick(U) \in U /\ Total(f, U) = f[Pick(U)] + Total(f, U \ {Pick(U)})
      BY <2>1, <2>3, TotalUnfold
    <3>2. U \ {Pick(U)} \in C
      BY <1>1, <3>1
    <3> QED BY <3>1, <3>2
  <2> QED BY <2>2, <2>3
<1>2. S \in C
  <2> HIDE DEF C
  <2> QED BY <1>1, Growing
<1> QED BY <1>2

\* Any element may be taken out first.
LEMMA TotalRemove ==
  ASSUME NEW f, NEW S, IsFiniteSet(S), \A x \in S : f[x] \in Nat, NEW y \in S
  PROVE  /\ Total(f, S) = f[y] + Total(f, S \ {y})
         /\ Total(f, S) \in Nat /\ Total(f, S \ {y}) \in Nat
<1> DEFINE C == {U \in SUBSET S : \A x \in U : Total(f, U) = f[x] + Total(f, U \ {x})}
<1>0. \A U \in SUBSET S : IsFiniteSet(U) /\ Total(f, U) \in Nat
  BY FS_Subset, TotalNat
<1>1. ASSUME NEW U \in SUBSET S, \A V \in SUBSET U : V # U => V \in C
      PROVE  U \in C
  <2>1. ASSUME NEW x \in U PROVE Total(f, U) = f[x] + Total(f, U \ {x})
    <3> DEFINE p == Pick(U)
    <3>1. p \in U /\ Total(f, U) = f[p] + Total(f, U \ {p})
      BY <1>0, TotalUnfold
    <3>2. CASE x # p
      <4>1. U \ {p} \in C /\ U \ {x} \in C
        <5> HIDE DEF C
        <5> QED BY <1>1, <3>1
      <4>2. Total(f, U \ {p}) = f[x] + Total(f, (U \ {p}) \ {x})
        BY <3>1, <3>2, <4>1
      <4>3. Total(f, U \ {x}) = f[p] + Total(f, (U \ {x}) \ {p})
        BY <3>1, <3>2, <4>1
      <4>4. (U \ {p}) \ {x} = (U \ {x}) \ {p} /\ (U \ {p}) \ {x} \in SUBSET S
        OBVIOUS
      <4>5. f[x] \in Nat /\ f[p] \in Nat /\ Total(f, (U \ {x}) \ {p}) \in Nat
        BY <1>0, <3>1, <4>4
      <4> HIDE DEF p
      <4> QED BY <3>1, <4>2, <4>3, <4>4, <4>5
    <3> QED BY <3>1, <3>2
  <2> QED BY <2>1
<1>2. S \in C
  <2> HIDE DEF C
  <2> QED BY <1>1, Growing
<1>3. S \ {y} \in SUBSET S
  OBVIOUS
<1> QED BY <1>0, <1>2, <1>3

\* Totals of the same values are the same.
LEMMA TotalSame ==
  ASSUME NEW f, NEW g, NEW S, IsFiniteSet(S), \A x \in S : f[x] = g[x]
  PROVE  Total(f, S) = Total(g, S)
<1> DEFINE C == {U \in SUBSET S : Total(f, U) = Total(g, U)}
<1>1. ASSUME NEW U \in SUBSET S, \A V \in SUBSET U : V # U => V \in C
      PROVE  U \in C
  <2>1. IsFiniteSet(U)
    BY FS_Subset
  <2>2. CASE U = {}
    BY <2>1, <2>2, TotalUnfold
  <2>3. CASE U # {}
    <3>1. /\ Pick(U) \in U /\ Total(f, U) = f[Pick(U)] + Total(f, U \ {Pick(U)})
          /\ Total(g, U) = g[Pick(U)] + Total(g, U \ {Pick(U)})
      BY <2>1, <2>3, TotalUnfold
    <3>2. U \ {Pick(U)} \in C
      BY <1>1, <3>1
    <3> QED BY <3>1, <3>2
  <2> QED BY <2>2, <2>3
<1>2. S \in C
  <2> HIDE DEF C
  <2> QED BY <1>1, Growing
<1> QED BY <1>2

\* A change of one value changes the total by as much.
LEMMA TotalChange ==
  ASSUME NEW f, NEW g, NEW S, IsFiniteSet(S), NEW y \in S,
         \A x \in S : f[x] \in Nat /\ g[x] \in Nat /\ (x # y => f[x] = g[x])
  PROVE  Total(g, S) + f[y] = Total(f, S) + g[y]
<1>1. IsFiniteSet(S \ {y})
  BY FS_Subset
<1>2. Total(f, S \ {y}) = Total(g, S \ {y})
  BY <1>1, TotalSame
<1>3. /\ Total(f, S) = f[y] + Total(f, S \ {y}) /\ Total(f, S \ {y}) \in Nat
      /\ Total(g, S) = g[y] + Total(g, S \ {y})
  BY TotalRemove
<1> QED BY <1>2, <1>3

\* Zeros add nothing.
LEMMA TotalWithZero ==
  ASSUME NEW f, NEW S, IsFiniteSet(S), \A x \in S : f[x] \in Nat, NEW y \in S
  PROVE  f[y] = 0 => Total(f, S) = Total(f, S \ {y})
<1>1. Total(f, S) = f[y] + Total(f, S \ {y}) /\ Total(f, S \ {y}) \in Nat
  BY TotalRemove
<1> QED BY <1>1

LEMMA TotalZeros ==
  ASSUME NEW f, NEW S, NEW Z, IsFiniteSet(S), IsFiniteSet(Z), S \cap Z = {},
         \A x \in S : f[x] \in Nat, \A x \in Z : f[x] = 0
  PROVE  Total(f, S \cup Z) = Total(f, S)
<1> DEFINE C == {U \in SUBSET Z : Total(f, S \cup U) = Total(f, S)}
<1>1. ASSUME NEW U \in SUBSET Z, \A V \in SUBSET U : V # U => V \in C
      PROVE  U \in C
  <2>1. CASE U = {}
    <3>1. S \cup U = S
      BY <2>1
    <3> QED BY <3>1
  <2>2. CASE U # {}
    <3>1. PICK y \in U : TRUE
      BY <2>2
    <3>2. IsFiniteSet(U)
      BY FS_Subset
    <3> DEFINE W == S \cup U
    <3>3. IsFiniteSet(W)
      BY <3>2, FS_Union
    <3>4. /\ \A x \in W : f[x] \in Nat
          /\ y \in W /\ f[y] = 0
      BY <3>1
    <3>5. W \ {y} = S \cup (U \ {y})
      BY <3>1
    <3>6. Total(f, W) = Total(f, W \ {y})
      <4> HIDE DEF W
      <4> QED BY <3>3, <3>4, TotalWithZero
    <3>7. U \ {y} \in C
      BY <1>1, <3>1
    <3>8. Total(f, W) = Total(f, S \cup (U \ {y}))
      <4> HIDE DEF W
      <4> QED BY <3>4, <3>5, <3>6
    <3> QED BY <3>7, <3>8
  <2> QED BY <2>1, <2>2
<1>2. Z \in C
  <2> HIDE DEF C
  <2> QED BY <1>1, Growing
<1> QED BY <1>2

\* Of rows with a key in D there are as many as there are for each key together.
LEMMA TotalCount ==
  ASSUME NEW R, IsFiniteSet(R), NEW key, NEW D, IsFiniteSet(D)
  PROVE  Total([d \in D |-> Cardinality({m \in R : key[m] = d})], D)
           = Cardinality({m \in R : key[m] \in D})
<1> DEFINE f == [d \in D |-> Cardinality({m \in R : key[m] = d})]
           With(U) == {m \in R : key[m] \in U}
           C == {U \in SUBSET D : Total(f, U) = Cardinality(With(U))}
<1>1. ASSUME NEW U \in SUBSET D, \A V \in SUBSET U : V # U => V \in C
      PROVE  U \in C
  <2>1. IsFiniteSet(U)
    BY FS_Subset
  <2>2. CASE U = {}
    <3>1. With(U) = {}
      BY <2>2
    <3>2. Cardinality(With(U)) = 0
      BY <3>1, FS_EmptySet
    <3> QED BY <2>1, <2>2, <3>2, TotalUnfold
  <2>3. CASE U # {}
    <3> DEFINE y == Pick(U)
               A == With(U \ {y})
               B == {m \in R : key[m] = y}
    <3>1. y \in U /\ Total(f, U) = f[y] + Total(f, U \ {y})
      BY <2>1, <2>3, TotalUnfold
    <3>2. U \ {y} \in C
      <4> HIDE DEF C
      <4> QED BY <1>1, <3>1
    <3>3. f[y] = Cardinality(B) /\ Total(f, U \ {y}) = Cardinality(A)
      BY <3>1, <3>2
    <3>4. IsFiniteSet(A) /\ IsFiniteSet(B) /\ A \cap B = {} /\ A \cup B = With(U)
      BY <3>1, FS_Subset
    <3>5. Cardinality(A) \in Nat /\ Cardinality(B) \in Nat /\ Cardinality(A \cap B) = 0
      BY <3>4, FS_CardinalityType, FS_EmptySet
    <3>6. Cardinality(With(U)) = Cardinality(A) + Cardinality(B)
      <4>1. Cardinality(A \cup B) = Cardinality(A) + Cardinality(B) - Cardinality(A \cap B)
        <5> HIDE DEF A, B, With
        <5> QED BY <3>4, FS_Union
      <4> HIDE DEF A, B, With
      <4> QED BY <3>4, <3>5, <4>1
    <3> HIDE DEF A, B, With, f
    <3> QED BY <3>1, <3>3, <3>5, <3>6
  <2> QED BY <2>2, <2>3
<1>2. D \in C
  <2> HIDE DEF C
  <2> QED BY <1>1, Growing
<1> QED BY <1>2

-----------------------------------------------------------------------------
(* The calendar *)

Months == Len(MonthLengths)

\* A month starts where the one before it ends.
LEMMA MonthFacts ==
  /\ Months \in Nat
  /\ \A k \in 1..Months : MonthLengths[k] \in 28..31
  /\ \A k \in 1..(Months + 1) : MonthStart[k] \in Nat \ {0}
  /\ MonthStart[1] = 1
  /\ \A k \in 1..Months : MonthStart[k + 1] = MonthStart[k] + MonthLengths[k]
  /\ Horizon \in Nat /\ Horizon = MonthStart[Months + 1] - 1
<1>1. Months \in Nat /\ \A k \in 1..Months : MonthLengths[k] \in 28..31 /\ MonthLengths[k] \in Nat
  <2>1. MonthLengths \in Seq(28..31)
    BY QuotaAssumption
  <2>2. Months \in Nat /\ \A k \in 1..Months : MonthLengths[k] \in 28..31
    BY <2>1 DEF Months
  <2> QED BY <2>2
<1>2. \A k \in 0..Months : IsFiniteSet(1..k) /\ \A j \in 1..k : MonthLengths[j] \in Nat
  BY <1>1, FS_Interval
<1>3. \A k \in 0..Months : Total(MonthLengths, 1..k) \in Nat
  <2> TAKE k \in 0..Months
  <2> DEFINE I == 1..k
  <2>1. IsFiniteSet(I) /\ \A j \in I : MonthLengths[j] \in Nat
    BY <1>2
  <2> HIDE DEF I
  <2>2. Total(MonthLengths, I) \in Nat
    BY <2>1, TotalNat
  <2> QED BY <2>2 DEF I
<1>4. \A k \in 1..(Months + 1) : MonthStart[k] = 1 + Total(MonthLengths, 1..(k - 1))
  BY DEF MonthStart, Months
<1>5. \A k \in 1..(Months + 1) : MonthStart[k] \in Nat \ {0}
  <2> TAKE k \in 1..(Months + 1)
  <2>1. k - 1 \in 0..Months
    BY <1>1
  <2>2. Total(MonthLengths, 1..(k - 1)) \in Nat
    BY <1>3, <2>1
  <2> QED BY <1>4, <2>2
<1>6. MonthStart[1] = 1
  <2>1. MonthStart[1] = 1 + Total(MonthLengths, 1..(1 - 1)) /\ 1..(1 - 1) = {} /\ IsFiniteSet({})
    BY <1>1, <1>4, FS_EmptySet
  <2>2. Total(MonthLengths, {}) = 0
    BY <2>1, TotalUnfold
  <2> QED BY <2>1, <2>2
<1>7. \A k \in 1..Months : MonthStart[k + 1] = MonthStart[k] + MonthLengths[k]
  <2> TAKE k \in 1..Months
  <2> DEFINE I == 1..k
  <2>1. IsFiniteSet(I) /\ (\A j \in I : MonthLengths[j] \in Nat) /\ k \in I /\ I \ {k} = 1..(k - 1)
    BY <1>1, <1>2
  <2>2. Total(MonthLengths, I) = MonthLengths[k] + Total(MonthLengths, I \ {k})
    <3> HIDE DEF I
    <3> QED BY <2>1, TotalRemove
  <2>3. MonthStart[k] = 1 + Total(MonthLengths, 1..(k - 1))
    BY <1>1, <1>4
  <2>4. MonthStart[k + 1] = 1 + Total(MonthLengths, 1..k)
    <3>1. k + 1 \in 1..(Months + 1) /\ (k + 1) - 1 = k
      BY <1>1
    <3> QED BY <1>4, <3>1
  <2>5. MonthLengths[k] \in Nat /\ Total(MonthLengths, 1..(k - 1)) \in Nat
    BY <1>1, <1>3
  <2>6. Total(MonthLengths, 1..k) = MonthLengths[k] + Total(MonthLengths, 1..(k - 1))
    BY <2>1, <2>2
  <2> QED BY <2>3, <2>4, <2>5, <2>6
<1>8. Horizon \in Nat /\ Horizon = MonthStart[Months + 1] - 1
  <2>1. MonthStart[Months + 1] \in Nat \ {0}
    BY <1>1, <1>5
  <2> QED BY <2>1 DEF Horizon, Months
<1> QED BY <1>1, <1>5, <1>6, <1>7, <1>8

\* Months start one after the other.
LEMMA MonthsRise ==
  ASSUME NEW i \in 1..(Months + 1), NEW j \in i..(Months + 1)
  PROVE  MonthStart[i] <= MonthStart[j]
<1> DEFINE n == (Months + 1) - i
           S == {k \in 0..n : MonthStart[i] <= MonthStart[i + k]}
<1>1. Months \in Nat /\ n \in Nat /\ j - i \in 0..n /\ i + (j - i) = j
  BY MonthFacts
<1>2. 0 \in S
  BY <1>1, MonthFacts
<1>3. \A k \in 0..n : k < n /\ k \in S => k + 1 \in S
  <2> TAKE k \in 0..n
  <2> HAVE k < n /\ k \in S
  <2>1. i + k \in 1..Months /\ k + 1 \in 0..n /\ i + (k + 1) = (i + k) + 1
    BY <1>1
  <2>2. MonthStart[(i + k) + 1] = MonthStart[i + k] + MonthLengths[i + k] /\ MonthLengths[i + k] \in 28..31
    BY <2>1, MonthFacts
  <2>3. MonthStart[i + k] \in Nat /\ MonthStart[i] \in Nat /\ MonthStart[i] <= MonthStart[i + k]
    BY <1>1, <2>1, MonthFacts
  <2> QED BY <2>1, <2>2, <2>3
<1>4. 0..n \subseteq S
  <2> HIDE DEF S, n
  <2> QED BY <1>1, <1>2, <1>3, Upwards
<1> QED BY <1>1, <1>4

\* Every day of the calendar is in a month.
LEMMA MonthFound ==
  ASSUME NEW d \in 1..Horizon
  PROVE  /\ MonthOf(d) \in 1..Months
         /\ MonthStart[MonthOf(d)] <= d /\ d < MonthStart[MonthOf(d) + 1]
<1> DEFINE S == {k \in 1..Months : d < MonthStart[k + 1]}
<1>1. Months \in 1..Months /\ Months \in S
  BY MonthFacts
<1>2. PICK m \in S : \A k \in S : m <= k
  <2>1. S \in SUBSET Nat /\ S # {}
    BY <1>1
  <2> HIDE DEF S
  <2> QED BY <2>1, LeastNat
<1>3. MonthStart[m] <= d
  <2>1. CASE m = 1
    BY <2>1, MonthFacts
  <2>2. CASE m # 1
    <3>1. m - 1 \in 1..Months /\ (m - 1) + 1 = m /\ m - 1 \notin S
      BY <1>2, <2>2, MonthFacts
    <3>2. MonthStart[m] \in Nat
      BY <1>2, MonthFacts
    <3> QED BY <3>1, <3>2
  <2> QED BY <2>1, <2>2
<1>4. DOMAIN MonthLengths = 1..Months
  <2>1. MonthLengths \in Seq(28..31)
    BY QuotaAssumption
  <2> QED BY <2>1 DEF Months
<1>5. \E k \in DOMAIN MonthLengths : MonthStart[k] <= d /\ d < MonthStart[k + 1]
  BY <1>2, <1>3, <1>4
<1> QED BY <1>4, <1>5 DEF MonthOf

\* A month later it is 28 to 31 days later, and in a later month.
LEMMA MonthAdded ==
  ASSUME NEW d \in 1..Horizon
  PROVE  /\ AddMonth(d) \in Nat /\ AddMonth(d) - d \in 28..31
         /\ \A k \in 1..Months : MonthStart[k] <= d => MonthStart[k + 1] <= AddMonth(d)
<1> DEFINE m == MonthOf(d)
<1>1. /\ m \in 1..Months /\ MonthStart[m] <= d /\ d < MonthStart[m + 1]
      /\ MonthStart[m] \in Nat /\ MonthStart[m + 1] = MonthStart[m] + MonthLengths[m]
      /\ MonthLengths[m] \in 28..31 /\ Months \in Nat /\ d \in Nat
  BY MonthFound, MonthFacts
<1>2. AddMonth(d) = MonthStart[m + 1] + (d - MonthStart[m])
  BY DEF AddMonth
<1>3. AddMonth(d) = d + MonthLengths[m] /\ MonthStart[m + 1] <= AddMonth(d)
  <2> HIDE DEF m
  <2> QED BY <1>1, <1>2
<1>4. ASSUME NEW k \in 1..Months, MonthStart[k] <= d PROVE MonthStart[k + 1] <= AddMonth(d)
  <2>1. MonthStart[k] \in Nat /\ MonthStart[k + 1] \in Nat /\ MonthStart[m + 1] \in Nat
    BY <1>1, MonthFacts
  <2>2. k <= m
    <3>1. SUFFICES ASSUME m + 1 <= k PROVE FALSE
      BY <1>1
    <3>2. m + 1 \in 1..(Months + 1) /\ k \in (m + 1)..(Months + 1)
      BY <1>1, <3>1
    <3>3. MonthStart[m + 1] <= MonthStart[k]
      <4> HIDE DEF m
      <4> QED BY <3>2, MonthsRise
    <3> QED BY <1>1, <1>4, <2>1, <3>3
  <2>3. k + 1 \in 1..(Months + 1) /\ m + 1 \in (k + 1)..(Months + 1)
    BY <1>1, <2>2
  <2>4. MonthStart[k + 1] <= MonthStart[m + 1]
    <3> HIDE DEF m
    <3> QED BY <2>3, MonthsRise
  <2>5. AddMonth(d) \in Nat
    BY <1>1, <1>3
  <2> QED BY <1>3, <2>1, <2>4, <2>5
<1>5. AddMonth(d) \in Nat /\ AddMonth(d) - d \in 28..31
  BY <1>1, <1>3
<1> QED BY <1>4, <1>5

-----------------------------------------------------------------------------
(* Quota periods *)

Renewing(g, a, n) == g = [k \in 0..n |-> IF k = 0 THEN a ELSE Renewed(g[k - 1])]

\* The days of renewal are what their recursive definition says.
LEMMA RenewalsDef ==
  ASSUME NEW a
  PROVE  Renewing(Renewals(a), a, Months)
<1> DEFINE S == {n \in 0..Months : \E g : Renewing(g, a, n)}
<1>1. Months \in Nat
  BY MonthFacts
<1>2. 0 \in S
  <2> DEFINE g == [k \in 0..0 |-> a]
  <2>1. g = [k \in 0..0 |-> IF k = 0 THEN a ELSE Renewed(g[k - 1])]
    OBVIOUS
  <2>2. Renewing(g, a, 0)
    <3> HIDE DEF g
    <3> QED BY <2>1 DEF Renewing
  <2> HIDE DEF g
  <2> QED BY <1>1, <2>2
<1>3. \A n \in 0..Months : n < Months /\ n \in S => n + 1 \in S
  <2> TAKE n \in 0..Months
  <2> HAVE n < Months /\ n \in S
  <2>1. PICK g : Renewing(g, a, n)
    OBVIOUS
  <2> DEFINE h == [k \in 0..(n + 1) |-> IF k = n + 1 THEN Renewed(g[n]) ELSE g[k]]
  <2>2. \A k \in 0..n : h[k] = g[k] /\ g[k] = IF k = 0 THEN a ELSE Renewed(g[k - 1])
    BY <2>1 DEF Renewing
  <2>3. h[n + 1] = Renewed(h[n])
    BY <2>2
  <2>4. \A k \in 0..(n + 1) : h[k] = IF k = 0 THEN a ELSE Renewed(h[k - 1])
    <3> TAKE k \in 0..(n + 1)
    <3>1. CASE k = n + 1
      BY <2>3, <3>1
    <3>2. CASE k \in 0..n /\ k # 0
      <4>1. k - 1 \in 0..n
        BY <3>2
      <4>2. h[k] = Renewed(g[k - 1]) /\ h[k - 1] = g[k - 1]
        <5> HIDE DEF h
        <5> QED BY <2>2, <3>2, <4>1
      <4> HIDE DEF h
      <4> QED BY <3>2, <4>2
    <3>3. CASE k = 0
      <4> HIDE DEF h
      <4> QED BY <2>2, <3>3
    <3> QED BY <3>1, <3>2, <3>3
  <2>5. h = [k \in 0..(n + 1) |-> h[k]]
    OBVIOUS
  <2>6. Renewing(h, a, n + 1)
    <3> HIDE DEF h
    <3> QED BY <2>4, <2>5 DEF Renewing
  <2> HIDE DEF h
  <2> QED BY <1>1, <2>6
<1>4. Months \in S
  <2>1. 0..Months \subseteq S
    <3> HIDE DEF S
    <3> QED BY <1>1, <1>2, <1>3, Upwards
  <2> HIDE DEF S
  <2> QED BY <1>1, <2>1
<1>5. Renewals(a) = CHOOSE g : Renewing(g, a, Months)
  BY DEF Renewals, Renewing, Months
<1> QED BY <1>4, <1>5

\* Renewal k is not before month k + 1 starts, and a month after the one before.
LEMMA RenewalFacts ==
  ASSUME NEW a \in 1..Horizon
  PROVE  /\ Renewals(a)[0] = a
         /\ \A k \in 0..Months : Renewals(a)[k] \in Nat /\ MonthStart[k + 1] <= Renewals(a)[k]
         /\ \A k \in 0..Months : k < Months =>
              /\ Renewals(a)[k] <= Renewals(a)[k + 1]
              /\ Renewals(a)[k] <= Horizon => Renewals(a)[k + 1] - Renewals(a)[k] \in 28..31
<1> DEFINE r == Renewals(a)
           S == {k \in 0..Months : r[k] \in Nat /\ MonthStart[k + 1] <= r[k]}
<1>1. Months \in Nat /\ Horizon \in Nat /\ Horizon + 1 = MonthStart[Months + 1] /\ MonthStart[1] = 1
  BY MonthFacts
<1>2. \A k \in 0..Months : r[k] = IF k = 0 THEN a ELSE Renewed(r[k - 1])
  BY RenewalsDef DEF Renewing
<1>3. r[0] = a /\ \A k \in 0..Months : k < Months => r[k + 1] = Renewed(r[k])
  <2>1. \A k \in 0..Months : k < Months => k + 1 \in 0..Months /\ (k + 1) - 1 = k /\ k + 1 # 0
    BY <1>1
  <2>2. 0 \in 0..Months
    BY <1>1
  <2> HIDE DEF r
  <2> QED BY <1>2, <2>1, <2>2
<1> HIDE DEF r
<1>4. \A k \in 0..Months : k < Months /\ k \in S => k + 1 \in S
  <2> TAKE k \in 0..Months
  <2> HAVE k < Months /\ k \in S
  <2>1. /\ r[k + 1] = Renewed(r[k]) /\ r[k] \in Nat /\ MonthStart[k + 1] <= r[k]
        /\ k + 1 \in 1..Months /\ k + 1 \in 0..Months
    BY <1>1, <1>3
  <2>2. /\ MonthStart[k + 1] \in Nat \ {0} /\ MonthStart[(k + 1) + 1] \in Nat
        /\ MonthStart[Months + 1] \in Nat
    BY <1>1, <2>1, MonthFacts
  <2>3. CASE r[k] <= Horizon
    <3>1. r[k] \in 1..Horizon
      BY <1>1, <2>1, <2>2, <2>3
    <3>2. AddMonth(r[k]) \in Nat /\ MonthStart[(k + 1) + 1] <= AddMonth(r[k])
      BY <2>1, <3>1, MonthAdded
    <3>3. r[k + 1] = AddMonth(r[k])
      BY <2>1, <2>3 DEF Renewed
    <3> QED BY <2>1, <3>2, <3>3
  <2>4. CASE ~ r[k] <= Horizon
    <3>1. (k + 1) + 1 \in 1..(Months + 1) /\ Months + 1 \in ((k + 1) + 1)..(Months + 1)
      BY <1>1, <2>1
    <3>2. MonthStart[(k + 1) + 1] <= MonthStart[Months + 1]
      BY <3>1, MonthsRise
    <3>3. r[k + 1] = r[k]
      BY <2>1, <2>4 DEF Renewed
    <3> QED BY <1>1, <2>1, <2>2, <2>4, <3>2, <3>3
  <2> QED BY <2>3, <2>4
<1>5. 0 \in S
  BY <1>1, <1>3
<1>6. 0..Months \subseteq S
  <2> HIDE DEF S
  <2> QED BY <1>1, <1>4, <1>5, Upwards
<1>7. \A k \in 0..Months : r[k] \in Nat /\ MonthStart[k + 1] <= r[k]
  BY <1>6
<1>8. ASSUME NEW k \in 0..Months, k < Months
      PROVE  r[k] <= r[k + 1] /\ (r[k] <= Horizon => r[k + 1] - r[k] \in 28..31)
  <2>1. r[k + 1] = Renewed(r[k]) /\ r[k] \in Nat /\ MonthStart[k + 1] <= r[k] /\ k + 1 \in 1..Months
    BY <1>1, <1>3, <1>7, <1>8
  <2>2. CASE r[k] <= Horizon
    <3>1. MonthStart[k + 1] \in Nat \ {0}
      BY <2>1, MonthFacts
    <3>2. r[k] \in 1..Horizon
      BY <1>1, <2>1, <2>2, <3>1
    <3>3. AddMonth(r[k]) \in Nat /\ AddMonth(r[k]) - r[k] \in 28..31
      BY <3>2, MonthAdded
    <3>4. r[k + 1] = AddMonth(r[k])
      BY <2>1, <2>2 DEF Renewed
    <3> QED BY <2>1, <3>3, <3>4
  <2>3. CASE ~ r[k] <= Horizon
    BY <2>1, <2>3 DEF Renewed
  <2> QED BY <2>2, <2>3
<1> QED BY <1>3, <1>7, <1>8 DEF r

\* Renewals come one after the other.
LEMMA RenewalsRise ==
  ASSUME NEW a \in 1..Horizon, NEW i \in 0..Months, NEW j \in i..Months
  PROVE  Renewals(a)[i] <= Renewals(a)[j]
<1> DEFINE n == Months - i
           S == {k \in 0..n : Renewals(a)[i] <= Renewals(a)[i + k]}
<1>1. Months \in Nat /\ n \in Nat /\ j - i \in 0..n /\ i + (j - i) = j
  BY MonthFacts
<1>2. 0 \in S
  <2>1. Renewals(a)[i] \in Nat /\ i + 0 = i /\ 0 \in 0..n
    BY <1>1, RenewalFacts
  <2> QED BY <2>1
<1>3. \A k \in 0..n : k < n /\ k \in S => k + 1 \in S
  <2> TAKE k \in 0..n
  <2> HAVE k < n /\ k \in S
  <2>1. i + k \in 0..Months /\ i + k < Months /\ k + 1 \in 0..n /\ i + (k + 1) = (i + k) + 1
        /\ (i + k) + 1 \in 0..Months
    BY <1>1
  <2>2. /\ Renewals(a)[i + k] <= Renewals(a)[(i + k) + 1] /\ Renewals(a)[(i + k) + 1] \in Nat
        /\ Renewals(a)[i + k] \in Nat /\ Renewals(a)[i] \in Nat
    BY <2>1, RenewalFacts
  <2>3. Renewals(a)[i] <= Renewals(a)[i + k]
    OBVIOUS
  <2> QED BY <2>1, <2>2, <2>3
<1>4. 0..n \subseteq S
  <2> HIDE DEF S, n
  <2> QED BY <1>1, <1>2, <1>3, Upwards
<1> QED BY <1>1, <1>4

\* Every day since the subscription started is in one of its periods.
LEMMA PeriodFound ==
  ASSUME NEW a \in 1..Horizon, NEW d \in a..Horizon
  PROVE  \E k \in 0..Months : /\ k < Months
                              /\ Renewals(a)[k] <= d /\ d < Renewals(a)[k + 1]
                              /\ CurrentQuotaPeriod(a, d) = <<Renewals(a)[k], Renewals(a)[k + 1]>>
<1> DEFINE r == Renewals(a)
           S == {k \in 1..Months : d < r[k]}
<1>1. Months \in Nat /\ Horizon \in Nat /\ Horizon + 1 = MonthStart[Months + 1] /\ MonthStart[1] = 1
  BY MonthFacts
<1>2. r[0] = a /\ \A k \in 0..Months : r[k] \in Nat /\ MonthStart[k + 1] <= r[k]
  BY RenewalFacts
<1> HIDE DEF r
<1>3. Months \in S
  <2>1. Months # 0 /\ Months \in 0..Months
    BY <1>1
  <2>2. MonthStart[Months + 1] <= r[Months] /\ r[Months] \in Nat
    BY <1>2, <2>1
  <2> QED BY <1>1, <2>1, <2>2
<1>4. PICK m \in S : \A k \in S : m <= k
  <2>1. S \in SUBSET Nat /\ S # {}
    BY <1>3
  <2> HIDE DEF S
  <2> QED BY <2>1, LeastNat
<1>5. r[m - 1] <= d
  <2>1. CASE m = 1
    BY <1>2, <2>1
  <2>2. CASE m # 1
    <3>1. m - 1 \in 1..Months /\ m - 1 \notin S
      BY <1>1, <1>4, <2>2
    <3>2. r[m - 1] \in Nat
      BY <1>1, <1>2, <3>1
    <3> QED BY <3>1, <3>2
  <2> QED BY <2>1, <2>2
<1>6. \E j \in 1..Len(MonthLengths) : d < r[j] /\ r[j - 1] <= d
  BY <1>4, <1>5 DEF Months
<1> DEFINE k == CHOOSE j \in 1..Len(MonthLengths) : d < r[j] /\ r[j - 1] <= d
<1>7. k \in 1..Months /\ d < r[k] /\ r[k - 1] <= d
  BY <1>6 DEF Months
<1>8. CurrentQuotaPeriod(a, d) = <<r[k - 1], r[k]>>
  <2>1. ~ d < a
    BY <1>1
  <2> QED BY <2>1 DEF CurrentQuotaPeriod, r
<1> HIDE DEF k
<1>9. k - 1 \in 0..Months /\ k - 1 < Months /\ (k - 1) + 1 = k
  BY <1>1, <1>7
<1> QED BY <1>7, <1>8, <1>9 DEF r

\* The period of a day holds it, and is that of a later day or over by then.
LEMMA PeriodsFollow ==
  ASSUME NEW a \in 1..Horizon, NEW e \in a..Horizon, NEW d \in a..e
  PROVE  LET p == CurrentQuotaPeriod(a, e)
             q == CurrentQuotaPeriod(a, d)
         IN  /\ p[1] \in Nat /\ p[2] \in Nat /\ q[1] \in Nat /\ q[2] \in Nat
             /\ p[1] <= e /\ e < p[2] /\ q[1] <= d /\ d < q[2]
             /\ p[2] - p[1] \in 28..31
             /\ q = p \/ q[2] <= p[1]
<1> DEFINE r == Renewals(a)
<1>1. Months \in Nat /\ Horizon \in Nat /\ d \in a..Horizon
  BY MonthFacts
<1>2. PICK k \in 0..Months : /\ k < Months /\ r[k] <= e /\ e < r[k + 1]
                            /\ CurrentQuotaPeriod(a, e) = <<r[k], r[k + 1]>>
  BY PeriodFound
<1>3. PICK j \in 0..Months : /\ j < Months /\ r[j] <= d /\ d < r[j + 1]
                            /\ CurrentQuotaPeriod(a, d) = <<r[j], r[j + 1]>>
  BY <1>1, PeriodFound
<1>4. k + 1 \in 0..Months /\ j + 1 \in 0..Months
  BY <1>1, <1>2, <1>3
<1>5. r[k] \in Nat /\ r[k + 1] \in Nat /\ r[j] \in Nat /\ r[j + 1] \in Nat
  BY <1>4, RenewalFacts
<1>6. r[k + 1] - r[k] \in 28..31
  <2>1. r[k] <= Horizon
    BY <1>1, <1>2, <1>5
  <2> QED BY <1>2, <2>1, RenewalFacts
<1>7. j < k => r[j + 1] <= r[k]
  <2>1. j < k => k \in (j + 1)..Months
    BY <1>1
  <2> QED BY <1>4, <2>1, RenewalsRise
<1>8. ~ k < j
  <2>1. k < j => j \in (k + 1)..Months
    BY <1>1
  <2>2. k < j => r[k + 1] <= r[j]
    BY <1>4, <2>1, RenewalsRise
  <2> QED BY <1>1, <1>2, <1>3, <1>5, <2>2
<1> HIDE DEF r
<1> QED BY <1>1, <1>2, <1>3, <1>5, <1>6, <1>7, <1>8

-----------------------------------------------------------------------------
(* Types *)

Subscriptions == [plan : Plans, active : BOOLEAN, QuotaPeriodStart : Days, customer : BOOLEAN]
Requests == [batch : Batches, campaign : CampaignIds]

\* What is kept beside the rows.
SideTypes == gone \subseteq {"launch"} /\ presigns \subseteq Requests /\ late \in BOOLEAN

\* The rows are numbered from one, and every day is in the calendar.
LEMMA RowFacts ==
  ASSUME TypeOK
  PROVE  /\ Len(media) \in Nat /\ Ids = 1..Len(media) /\ IsFiniteSet(Ids) /\ Ids \subseteq Nat
         /\ media \in Seq(MediaRow) /\ media \in [Ids -> MediaRow]
         /\ contents \in Seq(Seq(ContentRow)) /\ contents \in [Ids -> Seq(ContentRow)]
         /\ Len(contents) = Len(media)
         /\ today \in Days /\ Days \subseteq 1..Horizon /\ Days \subseteq Nat \ {0}
         /\ sub \in Subscriptions /\ sub.QuotaPeriodStart \in Days /\ MaxMedias \in Nat
         /\ SideTypes /\ reading \subseteq Ids
<1>1. media \in Seq(MediaRow) /\ Len(media) \in Nat
  BY DEF TypeOK
<1>2. Ids = 1..Len(media) /\ IsFiniteSet(Ids) /\ Ids \subseteq Nat
  BY <1>1, FS_Interval DEF Ids
<1>3. media \in [Ids -> MediaRow]
  BY <1>1, <1>2
<1>4. contents \in [1..Len(media) -> Seq(ContentRow)]
  BY <1>2 DEF TypeOK
<1>5. contents \in Seq(Seq(ContentRow)) /\ Len(contents) = Len(media)
  BY <1>1, <1>4
<1>6. Days \subseteq 1..Horizon /\ Horizon \in Nat /\ MaxMedias \in Nat
  BY QuotaAssumption, MonthFacts
<1>7. sub \in Subscriptions /\ today \in Days
  BY DEF TypeOK, Subscriptions
<1>8. Days \subseteq Nat \ {0} /\ sub.QuotaPeriodStart \in Days
  BY <1>6, <1>7 DEF Subscriptions
<1>9. SideTypes /\ reading \subseteq Ids
  BY DEF TypeOK, SideTypes, Requests
<1> QED BY <1>1, <1>2, <1>3, <1>4, <1>5, <1>6, <1>7, <1>8, <1>9

\* The fields of a row.
LEMMA MediaFields ==
  ASSUME TypeOK, NEW m \in Ids
  PROVE  /\ media[m] \in MediaRow
         /\ media[m].created \in Days /\ media[m].created \in Nat
         /\ media[m].analyzedAt \in Days \cup {NoDay} /\ media[m].analyzedAt \in Nat
         /\ media[m].size \in Nat /\ media[m].campaign \in CampaignIds /\ media[m].deleted \in BOOLEAN
         /\ media[m].status \in Statuses /\ media[m].label \in AllLabels \cup {"none"}
         /\ contents[m] \in Seq(ContentRow) /\ Len(contents[m]) \in Nat
         /\ DOMAIN contents[m] = 1..Len(contents[m])
<1>1. media[m] \in MediaRow /\ contents[m] \in Seq(ContentRow) /\ Days \subseteq Nat \ {0}
  BY RowFacts
<1>2. Len(contents[m]) \in Nat /\ DOMAIN contents[m] = 1..Len(contents[m])
  BY <1>1, LenProperties
<1>3. /\ media[m].created \in Days /\ media[m].analyzedAt \in Days \cup {NoDay}
      /\ media[m].size \in Nat /\ media[m].campaign \in CampaignIds /\ media[m].deleted \in BOOLEAN
      /\ media[m].status \in Statuses /\ media[m].label \in AllLabels \cup {"none"}
  BY <1>1 DEF MediaRow
<1>4. media[m].created \in Nat /\ media[m].analyzedAt \in Nat
  <2>1. Days \subseteq Nat /\ NoDay \in Nat
    BY <1>1 DEF NoDay
  <2> QED BY <1>3, <2>1
<1> QED BY <1>1, <1>2, <1>3, <1>4

LEMMA PartFields ==
  ASSUME TypeOK, NEW m \in Ids, NEW i \in DOMAIN contents[m]
  PROVE  /\ contents[m][i] \in ContentRow
         /\ contents[m][i].updated \in Days /\ contents[m][i].updated \in Nat
         /\ contents[m][i].status \in {"uploaded", "analyzing", "analyzed", "failed"}
         /\ contents[m][i].label \in AllLabels \cup {"none"}
<1>1. contents[m] \in Seq(ContentRow) /\ i \in 1..Len(contents[m]) /\ Days \subseteq Nat \ {0}
  BY RowFacts, MediaFields
<1>2. contents[m][i] \in ContentRow
  BY <1>1, ElementOfSeq
<1> QED BY <1>1, <1>2 DEF ContentRow

\* The period of today.
LEMMA PeriodFacts ==
  ASSUME TypeOK, Dated
  PROVE  /\ Period(today)[1] \in Nat /\ Period(today)[2] \in Nat
         /\ Period(today)[1] <= today /\ today < Period(today)[2]
         /\ Period(today)[2] - Period(today)[1] \in 28..31
         /\ \A d \in sub.QuotaPeriodStart..today :
              /\ Period(d)[1] \in Nat /\ Period(d)[2] \in Nat
              /\ Period(d)[1] <= d /\ d < Period(d)[2]
              /\ Period(d) = Period(today) \/ Period(d)[2] <= Period(today)[1]
<1> DEFINE a == sub.QuotaPeriodStart
<1>1. a \in 1..Horizon /\ today \in a..Horizon /\ today \in a..today /\ Horizon \in Nat
  <2>1. a \in Days /\ today \in Days /\ Days \subseteq 1..Horizon /\ a <= today /\ Horizon \in Nat
    BY RowFacts, MonthFacts DEF Dated
  <2>2. a \in 1..Horizon /\ today \in 1..Horizon
    BY <2>1
  <2> HIDE DEF a
  <2> QED BY <2>1, <2>2
<1>2. \A d \in a..today : Period(d) = CurrentQuotaPeriod(a, d)
  BY DEF Period
<1> HIDE DEF a
<1>3. Period(today) = CurrentQuotaPeriod(a, today)
  BY <1>1, <1>2
<1>4. \A d \in a..today :
        /\ Period(today)[1] \in Nat /\ Period(today)[2] \in Nat
        /\ Period(d)[1] \in Nat /\ Period(d)[2] \in Nat
        /\ Period(today)[1] <= today /\ today < Period(today)[2] /\ Period(d)[1] <= d /\ d < Period(d)[2]
        /\ Period(today)[2] - Period(today)[1] \in 28..31
        /\ Period(d) = Period(today) \/ Period(d)[2] <= Period(today)[1]
  BY <1>1, <1>2, <1>3, PeriodsFollow
<1> QED BY <1>1, <1>4 DEF a

\* Rows that are changed in place keep their types.
LEMMA RowsKeepTypes ==
  ASSUME TypeOK,
         media' \in [Ids -> MediaRow], contents' \in [Ids -> Seq(ContentRow)],
         today' \in Days, sub' \in Subscriptions, changes' \in 0..MaxChanges,
         overlapped' \in BOOLEAN, carried' \in BOOLEAN, SideTypes', reading' \subseteq Ids,
         DOMAIN uploads' \subseteq Ids,
         \A m \in DOMAIN uploads' : uploads'[m] \in Sizes /\ media'[m].status = "pending_upload"
  PROVE  TypeOK' /\ Ids' = Ids
<1>1. Ids = 1..Len(media) /\ Len(media) \in Nat /\ Len(media) <= MaxMedias
  BY RowFacts DEF TypeOK
<1>2. media' \in Seq(MediaRow) /\ Len(media') = Len(media)
  BY <1>1
<1>3. Ids' = Ids
  BY <1>1, <1>2 DEF Ids
<1> QED BY <1>1, <1>2, <1>3 DEF TypeOK, Subscriptions, SideTypes, Requests

\* A handler that saves has one media less to save.
LEMMA HandledFacts ==
  ASSUME TypeOK, NEW x, Handles(x), gone' = gone, presigns' = presigns, late' \in BOOLEAN
  PROVE  x \in Ids /\ reading' \subseteq Ids /\ SideTypes'
<1>1. SideTypes /\ reading \subseteq Ids /\ Visible \subseteq Ids
  BY RowFacts DEF Visible
<1>2. x \in Visible \cup reading /\ reading' = reading \ {x}
  BY DEF Handles
<1> QED BY <1>1, <1>2 DEF SideTypes

-----------------------------------------------------------------------------
(* Figures *)

\* There are finitely many contents.
LEMMA PartsFacts ==
  ASSUME TypeOK, Progress
  PROVE  /\ IsFiniteSet(Parts)
         /\ \A p : p \in Parts <=> \E m \in Ids : \E i \in DOMAIN contents[m] : p = <<m, i>>
<1>1. Parts \subseteq Ids \X (1..(MaxHardFrames + 1))
  <2>1. \A m \in Ids : DOMAIN contents[m] \subseteq 1..(MaxHardFrames + 1)
    <3> TAKE m \in Ids
    <3>1. DOMAIN contents[m] = 1..Len(contents[m]) /\ Len(contents[m]) \in Nat
      BY MediaFields
    <3>2. Len(contents[m]) <= MaxHardFrames + 1 /\ MaxHardFrames \in Nat
      BY QuotaAssumption DEF Progress
    <3> QED BY <3>1, <3>2
  <2> QED BY <2>1 DEF Parts
<1>2. IsFiniteSet(Ids \X (1..(MaxHardFrames + 1)))
  <2> DEFINE J == 1..(MaxHardFrames + 1)
  <2>1. IsFiniteSet(Ids) /\ IsFiniteSet(J)
    BY RowFacts, FS_Interval, QuotaAssumption
  <2> HIDE DEF J
  <2>2. IsFiniteSet(Ids \X J)
    BY <2>1, FS_Product
  <2> QED BY <2>2 DEF J
<1>3. IsFiniteSet(Parts)
  <2> DEFINE X == Ids \X (1..(MaxHardFrames + 1))
  <2>1. IsFiniteSet(X) /\ Parts \in SUBSET X
    BY <1>1, <1>2
  <2> HIDE DEF X
  <2> QED BY <2>1, FS_Subset
<1>4. \A p : p \in Parts <=> \E m \in Ids : \E i \in DOMAIN contents[m] : p = <<m, i>>
  BY DEF Parts
<1> QED BY <1>3, <1>4

\* The bytes of media are among those stored.
LEMMA BytesFacts ==
  ASSUME TypeOK, Progress
  PROVE  MediaBytes \in Nat /\ SumStorageBytes \in Nat /\ MediaBytes <= SumStorageBytes
<1> DEFINE f == [m \in Ids |-> media[m].size]
           F == {p \in Parts : media[p[1]].type = "video"}
<1>1. IsFiniteSet(Ids) /\ \A m \in Ids : f[m] \in Nat
  BY RowFacts, MediaFields
<1>2. MediaBytes \in Nat
  <2>1. Total(f, Ids) \in Nat
    <3> HIDE DEF f
    <3> QED BY <1>1, TotalNat
  <2> QED BY <2>1 DEF MediaBytes
<1>3. Cardinality(F) \in Nat
  <2>1. IsFiniteSet(Parts) /\ F \in SUBSET Parts
    BY PartsFacts
  <2> HIDE DEF F
  <2>2. IsFiniteSet(F)
    BY <2>1, FS_Subset
  <2> QED BY <2>2, FS_CardinalityType
<1>4. \A a, b \in Nat : a * b \in Nat
  OBVIOUS
<1>5. FrameSize * Cardinality(F) \in Nat
  BY <1>3, <1>4, QuotaAssumption
<1>6. SumStorageBytes = MediaBytes + FrameSize * Cardinality(F)
  BY DEF SumStorageBytes
<1> HIDE DEF F
<1> QED BY <1>2, <1>5, <1>6

\* Sizes that stay make the same bytes.
LEMMA BytesStay ==
  ASSUME Ids' = Ids, \A m \in Ids : media'[m].size = media[m].size
  PROVE  MediaBytes' = MediaBytes
<1>1. [m \in Ids |-> media[m].size]' = [m \in Ids |-> media[m].size]
  OBVIOUS
<1> QED BY <1>1 DEF MediaBytes

\* A size that is set makes as many bytes more.
LEMMA BytesAdded ==
  ASSUME TypeOK, media' \in [Ids -> MediaRow], Ids' = Ids, NEW x \in Ids, media[x].size = 0,
         \A m \in Ids : m # x => media'[m].size = media[m].size
  PROVE  MediaBytes' = MediaBytes + media'[x].size
<1> DEFINE f == [m \in Ids |-> media[m].size]
           g == [m \in Ids |-> media'[m].size]
<1>1. \A m \in Ids : media'[m].size \in Nat
  BY DEF MediaRow
<1>2. IsFiniteSet(Ids) /\ \A m \in Ids : f[m] \in Nat /\ g[m] \in Nat /\ (m # x => f[m] = g[m])
  BY <1>1, RowFacts, MediaFields
<1>3. Total(g, Ids) + f[x] = Total(f, Ids) + g[x] /\ Total(g, Ids) \in Nat /\ Total(f, Ids) \in Nat
  <2> HIDE DEF f, g
  <2> QED BY <1>2, TotalChange, TotalNat
<1>4. MediaBytes = Total(f, Ids) /\ MediaBytes' = Total(g, Ids) /\ f[x] = 0 /\ g[x] = media'[x].size
  BY DEF MediaBytes
<1>5. g[x] \in Nat
  BY <1>2
<1> HIDE DEF f, g
<1> QED BY <1>3, <1>4, <1>5

\* Rows without a size make no more bytes.
LEMMA BytesAppended ==
  ASSUME TypeOK, Len(media') \in Nat, Len(media) <= Len(media'),
         \A m \in Ids : media'[m].size = media[m].size,
         \A m \in (Len(media) + 1)..Len(media') : media'[m].size = 0
  PROVE  MediaBytes' = MediaBytes
<1> DEFINE f == [m \in Ids |-> media[m].size]
           g == [m \in Ids' |-> media'[m].size]
           Z == (Len(media) + 1)..Len(media')
<1>1. /\ Ids = 1..Len(media) /\ Len(media) \in Nat /\ Ids' = 1..Len(media')
      /\ IsFiniteSet(Ids) /\ IsFiniteSet(Z)
  BY RowFacts, FS_Interval DEF Ids
<1>2. Ids' = Ids \cup Z /\ Ids \cap Z = {}
  BY <1>1
<1>3. /\ \A m \in Ids : g[m] \in Nat /\ g[m] = f[m]
      /\ \A m \in Z : g[m] = 0
  BY <1>2, MediaFields
<1>4. MediaBytes = Total(f, Ids) /\ MediaBytes' = Total(g, Ids')
  BY DEF MediaBytes
<1> HIDE DEF f, g, Z
<1>5. Total(g, Ids \cup Z) = Total(g, Ids)
  BY <1>1, <1>2, <1>3, TotalZeros
<1>6. Total(g, Ids) = Total(f, Ids)
  BY <1>1, <1>3, TotalSame
<1> QED BY <1>2, <1>4, <1>5, <1>6

\* The limits in force are some plan's.
LEMMA LimitsFacts ==
  ASSUME TypeOK
  PROVE  /\ Limits \in QuotaRow
         /\ Limits.MaxVerificationsPerMonth \in Nat /\ Limits.Grace \in Nat /\ Limits.MaxStorage \in Nat
<1>1. Limits \in QuotaRow
  BY QuotaAssumption DEF TypeOK, Limits
<1> QED BY <1>1 DEF QuotaRow

\* The contents counted as verifications of the current period.
Units == {p \in Parts : QuotaUnit(p, Period(today)[1], Period(today)[2])}
Counted(m, i) ==
  LET day == IF media[m].analyzedAt # NoDay THEN media[m].analyzedAt ELSE contents[m][i].updated
  IN \/ contents[m][i].status = "analyzing"
     \/ contents[m][i].status = "analyzed" /\ Period(today)[1] <= day /\ day < Period(today)[2]

LEMMA UnitsShape ==
  /\ \A p : p \in Units <=> \E m \in Ids : \E i \in DOMAIN contents[m] : p = <<m, i>> /\ Counted(m, i)
  /\ \A p : p \in Units' => \E m \in Ids' : \E i \in DOMAIN contents'[m] : p = <<m, i>> /\ Counted(m, i)'
<1>1. \A m, i : QuotaUnit(<<m, i>>, Period(today)[1], Period(today)[2]) <=> Counted(m, i)
  BY DEF QuotaUnit, Part, Counted
<1>2. \A m, i : QuotaUnit(<<m, i>>, Period(today)[1], Period(today)[2])' <=> Counted(m, i)'
  BY DEF QuotaUnit, Part, Counted
<1>3. \A p : p \in Parts <=> \E m \in Ids : \E i \in DOMAIN contents[m] : p = <<m, i>>
  BY DEF Parts
<1>4. \A p : p \in Parts' => \E m \in Ids' : \E i \in DOMAIN contents'[m] : p = <<m, i>>
  BY DEF Parts
<1>5. \A p : p \in Units <=> p \in Parts /\ QuotaUnit(p, Period(today)[1], Period(today)[2])
  BY DEF Units
<1>6. \A p : p \in Units' => p \in Parts' /\ QuotaUnit(p, Period(today)[1], Period(today)[2])'
  BY DEF Units
<1> QED BY <1>1, <1>2, <1>3, <1>4, <1>5, <1>6

LEMMA UnitsFacts ==
  ASSUME TypeOK, Progress
  PROVE  IsFiniteSet(Units) /\ Cardinality(Units) \in Nat /\ Usage.verifications = Cardinality(Units)
<1>1. IsFiniteSet(Parts) /\ Units \in SUBSET Parts
  BY PartsFacts DEF Units
<1>2. IsFiniteSet(Units) /\ Cardinality(Units) \in Nat
  BY <1>1, FS_Subset, FS_CardinalityType
<1> QED BY <1>2 DEF Usage, CountQuotaUnits, Units

\* What was counted before makes no higher count.
LEMMA UnitsKept ==
  ASSUME TypeOK, Progress,
         \A m \in Ids' : \A i \in DOMAIN contents'[m] :
           Counted(m, i)' => m \in Ids /\ i \in DOMAIN contents[m] /\ Counted(m, i)
  PROVE  Usage'.verifications \in Nat /\ Usage'.verifications <= Usage.verifications
<1>1. Units' \in SUBSET Units
  BY UnitsShape
<1>2. IsFiniteSet(Units')
  BY <1>1, UnitsFacts, FS_Subset
<1>3. Cardinality(Units') <= Cardinality(Units) /\ Cardinality(Units') \in Nat
  BY <1>1, <1>2, UnitsFacts, FS_Subset, FS_CardinalityType
<1>4. Usage'.verifications = Cardinality(Units')
  BY DEF Usage, CountQuotaUnits, Units
<1> QED BY <1>3, <1>4, UnitsFacts

\* One content that starts is one more.
LEMMA UnitAdded ==
  ASSUME TypeOK, Progress, NEW x, NEW y,
         \A m \in Ids' : \A i \in DOMAIN contents'[m] :
           Counted(m, i)' => \/ m = x /\ i = y
                             \/ m \in Ids /\ i \in DOMAIN contents[m] /\ Counted(m, i)
  PROVE  Usage'.verifications \in Nat /\ Usage'.verifications <= Usage.verifications + 1
<1> DEFINE p == <<x, y>>
           U == Units \cup {p}
<1>1. IsFiniteSet(U) /\ Cardinality(U) \in Nat /\ Cardinality(U) <= Cardinality(Units) + 1
  <2>1. IsFiniteSet(Units) /\ Cardinality(Units) \in Nat
    BY UnitsFacts
  <2> HIDE DEF p
  <2>2. IsFiniteSet(U) /\ Cardinality(U) = IF p \in Units THEN Cardinality(Units) ELSE Cardinality(Units) + 1
    BY <2>1, FS_AddElement
  <2> QED BY <2>1, <2>2
<1>2. Units' \in SUBSET U
  BY UnitsShape
<1> HIDE DEF U
<1>3. IsFiniteSet(Units') /\ Cardinality(Units') <= Cardinality(U)
  BY <1>1, <1>2, FS_Subset
<1>4. Cardinality(Units') \in Nat
  BY <1>3, FS_CardinalityType
<1>5. Usage'.verifications = Cardinality(Units')
  BY DEF Usage, CountQuotaUnits, Units
<1> QED BY <1>1, <1>3, <1>4, <1>5, UnitsFacts

\* The limit is kept by steps that count no more.
LEMMA VerificationsKept ==
  ASSUME TypeOK, Progress, VerificationsPerPeriod, sub' = sub,
         changes' = 0 => changes = 0, ~carried' => ~carried,
         changes' = 0 /\ ~carried' => Usage'.verifications \in Nat /\ Usage'.verifications <= Usage.verifications
  PROVE  VerificationsPerPeriod'
<1>1. Limits' = Limits
  BY DEF Limits
<1>2. /\ Limits.MaxVerificationsPerMonth \in Nat /\ Limits.Grace \in Nat
      /\ Usage.verifications \in Nat
  BY LimitsFacts, UnitsFacts
<1>3. SUFFICES ASSUME changes' = 0, ~carried', Limits.OveragePriceCents = 0
               PROVE  Usage'.verifications <= Limits.MaxVerificationsPerMonth + Limits.Grace
  BY <1>1 DEF VerificationsPerPeriod
<1>4. Usage.verifications <= Limits.MaxVerificationsPerMonth + Limits.Grace
  BY <1>3 DEF VerificationsPerPeriod
<1> QED BY <1>2, <1>3, <1>4

\* The storage is kept by steps that store no more.
LEMMA StorageKept ==
  ASSUME Reserved, StorageBounded, sub' = sub, changes' = 0 => changes = 0, ~overlapped' => ~overlapped,
         MediaBytes' = MediaBytes,
         DOMAIN uploads' \subseteq DOMAIN uploads, \A m \in DOMAIN uploads' : uploads'[m] = uploads[m]
  PROVE  Reserved' /\ StorageBounded'
<1>1. Limits' = Limits
  BY DEF Limits
<1> QED BY <1>1 DEF Reserved, StorageBounded

-----------------------------------------------------------------------------
(* The steps keep the invariant *)

\* Rows that are appended come after the others.
LEMMA RowsAppended ==
  ASSUME NEW S, NEW s \in Seq(S), NEW t \in Seq(S), NEW u, u = s \o t
  PROVE  /\ u \in Seq(S) /\ Len(s) \in Nat /\ Len(t) \in Nat /\ Len(u) = Len(s) + Len(t)
         /\ \A i \in 1..Len(s) : u[i] = s[i]
         /\ \A i \in 1..Len(u) : i \notin 1..Len(s) => i - Len(s) \in 1..Len(t) /\ u[i] = t[i - Len(s)]
<1>1. /\ s \o t \in Seq(S) /\ Len(s \o t) = Len(s) + Len(t)
      /\ \A i \in 1..Len(s) + Len(t) : (s \o t)[i] = IF i <= Len(s) THEN s[i] ELSE t[i - Len(s)]
  BY ConcatProperties
<1>2. Len(s) \in Nat /\ Len(t) \in Nat
  BY LenProperties
<1>3. \A i \in 1..Len(s) : i \in 1..Len(s) + Len(t) /\ i <= Len(s)
  BY <1>2
<1>4. \A i \in 1..Len(s) + Len(t) : i \notin 1..Len(s) => ~ i <= Len(s) /\ i - Len(s) \in 1..Len(t)
  BY <1>2
<1> QED BY <1>1, <1>2, <1>3, <1>4

\* A step that leaves the day, the subscription and every count alone.
LEMMA FiguresKept ==
  ASSUME TypeOK, QuotaInv, today' = today, sub' = sub, changes' = changes, carried' = carried,
         ~overlapped' => ~overlapped,
         MediaBytes' = MediaBytes,
         DOMAIN uploads' \subseteq DOMAIN uploads, \A m \in DOMAIN uploads' : uploads'[m] = uploads[m],
         \A m \in Ids' : \A i \in DOMAIN contents'[m] :
           Counted(m, i)' => m \in Ids /\ i \in DOMAIN contents[m] /\ Counted(m, i)
  PROVE  VerificationsPerPeriod' /\ Reserved' /\ StorageBounded'
<1>1. VerificationsPerPeriod'
  <2>1. Usage'.verifications \in Nat /\ Usage'.verifications <= Usage.verifications
    BY UnitsKept DEF QuotaInv
  <2> QED BY <2>1, VerificationsKept DEF QuotaInv
<1>2. Reserved' /\ StorageBounded'
  BY StorageKept DEF QuotaInv
<1> QED BY <1>1, <1>2

\* A step that leaves the rows alone, or forgets an upload.
LEMMA RowsUntouched ==
  ASSUME TypeOK, QuotaInv,
         UNCHANGED <<today, sub, gone, media, contents, changes, overlapped, carried, late>>,
         presigns' \subseteq Requests, reading' \subseteq Ids,
         DOMAIN uploads' \subseteq DOMAIN uploads, \A m \in DOMAIN uploads' : uploads'[m] = uploads[m]
  PROVE  TypeOK' /\ QuotaInv'
<1>1. TypeOK' /\ Ids' = Ids
  <2>1. /\ today \in Days /\ sub \in Subscriptions /\ changes \in 0..MaxChanges
        /\ overlapped \in BOOLEAN /\ carried \in BOOLEAN
        /\ media \in [Ids -> MediaRow] /\ contents \in [Ids -> Seq(ContentRow)] /\ SideTypes
    BY RowFacts DEF TypeOK
  <2>2. DOMAIN uploads \subseteq Ids /\ \A m \in DOMAIN uploads : uploads[m] \in Sizes /\ media[m].status = "pending_upload"
    BY DEF TypeOK
  <2>3. SideTypes'
    BY <2>1 DEF SideTypes
  <2> QED BY <2>1, <2>2, <2>3, RowsKeepTypes
<1>2. Dated' /\ Progress' /\ Together'
  BY <1>1 DEF QuotaInv, Dated, Progress, Together, Visible
<1>3. VerificationsPerPeriod' /\ Reserved' /\ StorageBounded'
  <2>1. MediaBytes' = MediaBytes
    BY <1>1, BytesStay
  <2>2. \A m \in Ids' : \A i \in DOMAIN contents'[m] :
          Counted(m, i)' => m \in Ids /\ i \in DOMAIN contents[m] /\ Counted(m, i)
    BY <1>1 DEF Counted, Period
  <2> QED BY <2>1, <2>2, FiguresKept
<1> QED BY <1>1, <1>2, <1>3 DEF QuotaInv

LEMMA PresignKeeps ==
  ASSUME TypeOK, QuotaInv, NEW batch \in Batches, NEW c \in CampaignIds, PresignMedia(batch, c)
  PROVE  TypeOK' /\ QuotaInv'
<1>1. /\ presigns' = presigns \cup {[batch |-> batch, campaign |-> c]}
      /\ UNCHANGED <<today, sub, gone, media, contents, uploads, reading, changes, overlapped, carried, late>>
  BY DEF PresignMedia
<1>2. presigns \subseteq Requests /\ reading \subseteq Ids /\ [batch |-> batch, campaign |-> c] \in Requests
  BY RowFacts DEF SideTypes, Requests
<1> QED BY <1>1, <1>2, RowsUntouched

\* The rows are inserted under the campaign that was read.
Inserted(batch, c) ==
  /\ Len(media) + Len(batch) <= MaxMedias
  /\ media' = media \o [i \in DOMAIN batch |-> NewPendingUpload(batch[i], c)]
  /\ contents' = contents \o [i \in DOMAIN batch |-> <<>>]
  /\ late' = (late \/ c \in gone)
  /\ UNCHANGED <<today, sub, gone, uploads, reading, changes, overlapped, carried>>

LEMMA InsertKeeps ==
  ASSUME TypeOK, QuotaInv, NEW batch \in Batches, NEW c \in CampaignIds,
         presigns' \subseteq Requests, Inserted(batch, c)
  PROVE  TypeOK' /\ QuotaInv'
<1> DEFINE New(type) == NewPendingUpload(type, c)
           R == [i \in DOMAIN batch |-> New(batch[i])]
           E == [i \in DOMAIN batch |-> <<>>]
           n == Len(batch)
<1>1. /\ media' = media \o R /\ contents' = contents \o E /\ Len(media) + n <= MaxMedias
      /\ late' = (late \/ c \in gone)
      /\ UNCHANGED <<today, sub, gone, uploads, reading, changes, overlapped, carried>>
  BY DEF Inserted
<1>2. /\ n \in Nat /\ DOMAIN batch = 1..n /\ \A i \in 1..n : batch[i] \in {"image", "video"}
  <2>1. batch \in Seq({"image", "video"})
    BY QuotaAssumption
  <2> QED BY <2>1
<1>3. R \in Seq(MediaRow) /\ Len(R) = n /\ E \in Seq(Seq(ContentRow)) /\ Len(E) = n
  <2>1. today \in Days /\ 0 \in Nat
    BY RowFacts
  <2>2. \A i \in 1..n : New(batch[i]) \in MediaRow
    BY <1>2, <2>1 DEF NewPendingUpload, MediaRow, Statuses
  <2>3. <<>> \in Seq(ContentRow)
    OBVIOUS
  <2> HIDE DEF New
  <2> QED BY <1>2, <2>2, <2>3
<1>4. /\ Len(media) \in Nat /\ Ids = 1..Len(media) /\ media \in Seq(MediaRow)
      /\ contents \in Seq(Seq(ContentRow)) /\ Len(contents) = Len(media)
  BY RowFacts
<1>5. /\ media' \in Seq(MediaRow) /\ Len(media') = Len(media) + n
      /\ \A m \in Ids : media'[m] = media[m]
      /\ \A m \in 1..Len(media') : m \notin Ids => m - Len(media) \in 1..n /\ media'[m] = R[m - Len(media)]
  <2> HIDE DEF R, n
  <2>1. media \in Seq(MediaRow) /\ R \in Seq(MediaRow) /\ media' = media \o R
    BY <1>1, <1>3, <1>4
  <2>2. /\ media' \in Seq(MediaRow) /\ Len(media') = Len(media) + Len(R)
        /\ \A m \in 1..Len(media) : media'[m] = media[m]
        /\ \A m \in 1..Len(media') : m \notin 1..Len(media) =>
             m - Len(media) \in 1..Len(R) /\ media'[m] = R[m - Len(media)]
    BY <2>1, RowsAppended
  <2> QED BY <1>3, <1>4, <2>2
<1>6. /\ contents' \in Seq(Seq(ContentRow)) /\ Len(contents') = Len(media) + n
      /\ \A m \in Ids : contents'[m] = contents[m]
      /\ \A m \in 1..Len(contents') : m \notin Ids =>
           m - Len(media) \in 1..n /\ contents'[m] = E[m - Len(media)]
  <2> HIDE DEF E, n
  <2>1. contents \in Seq(Seq(ContentRow)) /\ E \in Seq(Seq(ContentRow)) /\ contents' = contents \o E
    BY <1>1, <1>3, <1>4
  <2>2. /\ contents' \in Seq(Seq(ContentRow)) /\ Len(contents') = Len(contents) + Len(E)
        /\ \A m \in 1..Len(contents) : contents'[m] = contents[m]
        /\ \A m \in 1..Len(contents') : m \notin 1..Len(contents) =>
             m - Len(contents) \in 1..Len(E) /\ contents'[m] = E[m - Len(contents)]
    BY <2>1, RowsAppended
  <2> QED BY <1>3, <1>4, <2>2
<1>7. Ids' = 1..Len(media') /\ Len(media') = Len(contents') /\ Ids \subseteq Ids' /\ Len(media') \in Nat
  <2> HIDE DEF n
  <2> QED BY <1>2, <1>4, <1>5, <1>6 DEF Ids
<1>8. \A m \in Ids : media'[m] = media[m] /\ contents'[m] = contents[m]
  BY <1>5, <1>6
<1>9. \A m \in Ids' : m \notin Ids =>
        /\ media'[m].status = "pending_upload" /\ media'[m].size = 0 /\ media'[m].created = today
        /\ media'[m].analyzedAt = NoDay /\ media'[m].label = "none" /\ media'[m].campaign = c
        /\ media'[m].deleted = FALSE /\ contents'[m] = <<>>
  <2> TAKE m \in Ids'
  <2> HAVE m \notin Ids
  <2>1. /\ m - Len(media) \in 1..n /\ m \in 1..Len(media') /\ m \in 1..Len(contents')
        /\ media'[m] = R[m - Len(media)] /\ contents'[m] = E[m - Len(media)]
    <3> HIDE DEF n, R, E
    <3> QED BY <1>5, <1>6, <1>7
  <2>2. media'[m] = New(batch[m - Len(media)]) /\ contents'[m] = <<>>
    BY <1>2, <2>1
  <2> QED BY <2>2 DEF NewPendingUpload
<1>10. TypeOK'
  <2>1. contents' \in [Ids' -> Seq(ContentRow)]
    BY <1>6, <1>7
  <2>2. DOMAIN uploads' \subseteq Ids'
    BY <1>1, <1>7 DEF TypeOK
  <2>3. \A m \in DOMAIN uploads' : uploads'[m] \in Sizes /\ media'[m].status = "pending_upload"
    BY <1>1, <1>8 DEF TypeOK
  <2>4. reading' \subseteq Ids' /\ late' \in BOOLEAN
    BY <1>1, <1>7, RowFacts DEF SideTypes
  <2> HIDE DEF R, E, n
  <2> QED BY <1>1, <1>5, <2>1, <2>2, <2>3, <2>4 DEF TypeOK, Requests
<1> HIDE DEF R, E, n
<1>11. Dated'
  <2>1. today \in Nat /\ NoDay \in Nat /\ NoDay <= today
    BY RowFacts DEF NoDay
  <2>2. \A m \in Ids' : m \notin Ids => DOMAIN contents'[m] = {}
    BY <1>9
  <2>3. sub.QuotaPeriodStart <= today
    BY DEF QuotaInv, Dated
  <2>4. ASSUME NEW m \in Ids'
        PROVE  /\ media'[m].created <= today /\ media'[m].analyzedAt <= today
               /\ \A i \in DOMAIN contents'[m] :
                    /\ contents'[m][i].updated <= today
                    /\ changes = 0 => sub.QuotaPeriodStart <= contents'[m][i].updated
    <3>1. CASE m \in Ids
      BY <1>8, <3>1 DEF QuotaInv, Dated
    <3>2. CASE m \notin Ids
      BY <1>9, <2>1, <2>2, <3>2
    <3> QED BY <3>1, <3>2
  <2> QED BY <1>1, <2>3, <2>4 DEF Dated
<1>12. Progress'
  <2>1. \A m \in Ids' : m \notin Ids => Len(contents'[m]) = 0 /\ 0 <= MaxHardFrames + 1
    BY <1>9, QuotaAssumption
  <2> QED BY <1>8, <1>9, <2>1 DEF QuotaInv, Progress
<1>13. Together'
  <2>1. ASSUME ~ late', NEW m \in Ids', ~ media'[m].deleted PROVE media'[m].campaign \notin gone
    <3>1. ~ late /\ c \notin gone
      BY <1>1, <2>1
    <3>2. CASE m \in Ids
      BY <1>8, <2>1, <3>1, <3>2 DEF QuotaInv, Together, Visible
    <3>3. CASE m \notin Ids
      BY <1>9, <3>1, <3>3
    <3> QED BY <3>2, <3>3
  <2> QED BY <1>1, <2>1 DEF Together, Visible
<1>14. MediaBytes' = MediaBytes
  <2>1. \A m \in (Len(media) + 1)..Len(media') : m \in Ids' /\ m \notin Ids
    BY <1>4, <1>5, <1>7
  <2>2. Len(media') \in Nat /\ Len(media) <= Len(media')
    BY <1>2, <1>4, <1>5
  <2> QED BY <1>8, <1>9, <2>1, <2>2, BytesAppended
<1>15. \A m \in Ids' : \A i \in DOMAIN contents'[m] :
         Counted(m, i)' => m \in Ids /\ i \in DOMAIN contents[m] /\ Counted(m, i)
  <2>1. \A m \in Ids' : m \notin Ids => DOMAIN contents'[m] = {}
    BY <1>9
  <2> QED BY <1>1, <1>8, <2>1 DEF Counted, Period
<1>16. VerificationsPerPeriod' /\ Reserved' /\ StorageBounded'
  BY <1>1, <1>14, <1>15, FiguresKept DEF TypeOK
<1> QED BY <1>10, <1>11, <1>12, <1>13, <1>16 DEF QuotaInv

LEMMA PresignSaveKeeps ==
  ASSUME TypeOK, QuotaInv, NEW r \in presigns, PresignSave(r)
  PROVE  TypeOK' /\ QuotaInv'
<1>1. /\ presigns' = presigns \ {r}
      /\ UNCHANGED <<today, sub, gone, uploads, reading, changes, overlapped, carried>>
  BY DEF PresignSave
<1>2. /\ presigns' \subseteq Requests /\ reading \subseteq Ids
      /\ r.batch \in Batches /\ r.campaign \in CampaignIds
  BY <1>1, RowFacts DEF SideTypes, Requests
<1>3. CASE UNCHANGED <<media, contents, late>>
  BY <1>1, <1>2, <1>3, RowsUntouched
<1>4. CASE /\ Len(media) + Len(r.batch) <= MaxMedias
           /\ media' = media \o [i \in DOMAIN r.batch |-> NewPendingUpload(r.batch[i], r.campaign)]
           /\ contents' = contents \o [i \in DOMAIN r.batch |-> <<>>]
           /\ late' = (late \/ r.campaign \in gone)
  <2>1. Inserted(r.batch, r.campaign)
    BY <1>1, <1>4 DEF Inserted
  <2> QED BY <1>2, <2>1, InsertKeeps
<1> QED BY <1>3, <1>4 DEF PresignSave

\* Dates that stay, or are set to today.
LEMMA DatedKept ==
  ASSUME TypeOK, Dated, Ids' = Ids, today' = today, sub' = sub, changes' = changes,
         \A m \in Ids : /\ media'[m].created = media[m].created
                        /\ media'[m].analyzedAt \in {media[m].analyzedAt, today}
                        /\ \A i \in DOMAIN contents'[m] :
                             \/ contents'[m][i].updated = today
                             \/ i \in DOMAIN contents[m] /\ contents'[m][i].updated = contents[m][i].updated
  PROVE  Dated'
<1>1. today \in Nat /\ sub.QuotaPeriodStart <= today
  BY RowFacts DEF Dated
<1>2. ASSUME NEW m \in Ids
      PROVE  /\ media'[m].created <= today /\ media'[m].analyzedAt <= today
             /\ \A i \in DOMAIN contents'[m] :
                  /\ contents'[m][i].updated <= today
                  /\ changes = 0 => sub.QuotaPeriodStart <= contents'[m][i].updated
  BY <1>1 DEF Dated
<1> QED BY <1>1, <1>2 DEF Dated

\* Media that stay in their campaigns, and are late when a deletion is undone.
LEMMA TogetherKept ==
  ASSUME Together, Ids' = Ids, gone' = gone, late => late',
         \A m \in Ids : /\ media'[m].campaign = media[m].campaign
                        /\ ~ late' /\ ~ media'[m].deleted => ~ media[m].deleted
  PROVE  Together'
<1>1. ASSUME ~ late', NEW m \in Ids, ~ media'[m].deleted PROVE media'[m].campaign \notin gone
  <2>1. ~ late /\ ~ media[m].deleted /\ media'[m].campaign = media[m].campaign
    BY <1>1
  <2> QED BY <2>1 DEF Together, Visible
<1> QED BY <1>1 DEF Together, Visible

\* A media that fails changes its status, and is no longer deleted.
LEMMA FailedFacts ==
  ASSUME TypeOK, NEW x \in Ids, MarkFailed(x)
  PROVE  /\ media' \in [Ids -> MediaRow] /\ Ids' = Ids /\ media'[x].status = "failed"
         /\ \A m \in Ids : m # x => media'[m] = media[m]
         /\ \A m \in Ids : /\ media'[m].created = media[m].created
                           /\ media'[m].analyzedAt = media[m].analyzedAt
                           /\ media'[m].label = media[m].label /\ media'[m].size = media[m].size
                           /\ media'[m].campaign = media[m].campaign
                           /\ ~ late' /\ ~ media'[m].deleted => ~ media[m].deleted
         /\ late' \in BOOLEAN /\ (late => late')
<1> DEFINE row == [media[x] EXCEPT !.status = "failed", !.deleted = FALSE]
<1>1. media \in [Ids -> MediaRow] /\ Ids = 1..Len(media) /\ Len(media) \in Nat /\ late \in BOOLEAN
  BY RowFacts DEF SideTypes
<1>2. media' = [media EXCEPT ![x] = row] /\ late' = (late \/ media[x].deleted)
  BY DEF MarkFailed, AsRead
<1>3. /\ row \in MediaRow /\ row.status = "failed"
      /\ row.created = media[x].created /\ row.analyzedAt = media[x].analyzedAt
      /\ row.label = media[x].label /\ row.size = media[x].size /\ row.campaign = media[x].campaign
  <2>1. media[x] \in MediaRow
    BY <1>1
  <2> QED BY <2>1 DEF MediaRow, Statuses
<1> HIDE DEF row
<1>4. /\ media' \in [Ids -> MediaRow] /\ media'[x] = row
      /\ \A m \in Ids : m # x => media'[m] = media[m]
  BY <1>1, <1>2, <1>3
<1>5. Ids' = Ids
  <2>1. Len(media') = Len(media)
    BY <1>1, <1>4
  <2> QED BY <2>1 DEF Ids
<1>6. late' \in BOOLEAN /\ (late => late') /\ (~ late' => ~ media[x].deleted)
  BY <1>1, <1>2
<1> QED BY <1>3, <1>4, <1>5, <1>6

\* A step that changes contents, and may fail a media that is not being uploaded.
LEMMA ContentsChange ==
  ASSUME TypeOK, QuotaInv, UNCHANGED <<today, sub, gone, presigns, changes, overlapped, carried>>,
         reading' \subseteq Ids,
         DOMAIN uploads' \subseteq DOMAIN uploads, \A m \in DOMAIN uploads' : uploads'[m] = uploads[m],
         \/ media' = media /\ late' = late
         \/ \E x \in Ids \ DOMAIN uploads' : MarkFailed(x) /\ media[x].status # "analyzed",
         contents' \in [Ids -> Seq(ContentRow)],
         \A m \in Ids : Len(contents'[m]) <= MaxHardFrames + 1,
         \A m \in Ids : \A i \in DOMAIN contents'[m] :
           \/ contents'[m][i].updated = today
           \/ i \in DOMAIN contents[m] /\ contents'[m][i].updated = contents[m][i].updated
  PROVE  /\ TypeOK' /\ Dated' /\ Progress' /\ Together' /\ MediaBytes' = MediaBytes
         /\ Ids' = Ids /\ \A m \in Ids : media'[m].analyzedAt = media[m].analyzedAt
<1>1. /\ today \in Days /\ sub \in Subscriptions /\ changes \in 0..MaxChanges
      /\ overlapped \in BOOLEAN /\ carried \in BOOLEAN /\ media \in [Ids -> MediaRow]
      /\ SideTypes
  BY RowFacts DEF TypeOK
<1>2. DOMAIN uploads \subseteq Ids /\ \A m \in DOMAIN uploads : uploads[m] \in Sizes /\ media[m].status = "pending_upload"
  BY DEF TypeOK
<1>3. /\ media' \in [Ids -> MediaRow] /\ Ids' = Ids
      /\ \A m \in DOMAIN uploads' : media'[m].status = media[m].status
      /\ \A m \in Ids : \/ media'[m].status = media[m].status
                        \/ media'[m].status = "failed" /\ media[m].status # "analyzed"
      /\ \A m \in Ids : /\ media'[m].created = media[m].created
                        /\ media'[m].analyzedAt = media[m].analyzedAt
                        /\ media'[m].label = media[m].label /\ media'[m].size = media[m].size
                        /\ media'[m].campaign = media[m].campaign
                        /\ ~ late' /\ ~ media'[m].deleted => ~ media[m].deleted
      /\ late' \in BOOLEAN /\ (late => late')
  <2>1. CASE media' = media /\ late' = late
    <3>1. Ids' = Ids /\ late \in BOOLEAN
      BY <1>1, <2>1 DEF Ids, SideTypes
    <3> QED BY <1>1, <2>1, <3>1
  <2>2. ASSUME NEW x \in Ids \ DOMAIN uploads', MarkFailed(x), media[x].status # "analyzed"
        PROVE  <1>3
    <3>1. /\ media' \in [Ids -> MediaRow] /\ Ids' = Ids /\ media'[x].status = "failed"
          /\ \A m \in Ids : m # x => media'[m] = media[m]
          /\ \A m \in Ids : /\ media'[m].created = media[m].created
                            /\ media'[m].analyzedAt = media[m].analyzedAt
                            /\ media'[m].label = media[m].label /\ media'[m].size = media[m].size
                            /\ media'[m].campaign = media[m].campaign
                            /\ ~ late' /\ ~ media'[m].deleted => ~ media[m].deleted
          /\ late' \in BOOLEAN /\ (late => late')
      BY <2>2, FailedFacts
    <3>2. \A m \in DOMAIN uploads' : m \in Ids /\ m # x
      BY <1>2
    <3> QED BY <2>2, <3>1, <3>2
  <2> QED BY <2>1, <2>2
<1>4. TypeOK'
  <2>1. \A m \in DOMAIN uploads' : uploads'[m] \in Sizes /\ media'[m].status = "pending_upload"
    BY <1>2, <1>3
  <2>2. SideTypes' /\ DOMAIN uploads' \subseteq Ids
    BY <1>1, <1>2, <1>3 DEF SideTypes
  <2> QED BY <1>1, <1>3, <2>1, <2>2, RowsKeepTypes
<1>5. Dated'
  BY <1>3, DatedKept DEF QuotaInv
<1>6. Progress'
  <2>1. ASSUME NEW m \in Ids
        PROVE  /\ media'[m].status = "analyzed" <=> media'[m].analyzedAt # NoDay
               /\ media'[m].status = "analyzed" <=> media'[m].label # "none"
               /\ media'[m].status = "pending_upload" => media'[m].size = 0
    <3>1. CASE media'[m].status = media[m].status
      BY <1>3, <3>1 DEF QuotaInv, Progress
    <3>2. CASE media'[m].status = "failed" /\ media[m].status # "analyzed"
      BY <1>3, <3>2 DEF QuotaInv, Progress
    <3> QED BY <1>3, <3>1, <3>2
  <2> QED BY <1>3, <2>1 DEF Progress
<1>7. Together'
  BY <1>3, TogetherKept DEF QuotaInv
<1>8. MediaBytes' = MediaBytes
  BY <1>3, BytesStay
<1> QED BY <1>3, <1>4, <1>5, <1>6, <1>7, <1>8

LEMMA ProcessKeeps ==
  ASSUME TypeOK, QuotaInv, NEW x \in Ids, NEW size \in Sizes, ProcessUpload(x, size)
  PROVE  TypeOK' /\ QuotaInv'
<1>1. /\ x \notin DOMAIN uploads /\ media[x].status = "pending_upload" /\ Handles(x)
      /\ UNCHANGED <<today, sub, gone, presigns, contents, changes, overlapped, carried>>
  BY DEF ProcessUpload
<1>2. /\ today \in Days /\ sub \in Subscriptions /\ changes \in 0..MaxChanges
      /\ overlapped \in BOOLEAN /\ carried \in BOOLEAN /\ late \in BOOLEAN
      /\ media \in [Ids -> MediaRow] /\ contents \in [Ids -> Seq(ContentRow)]
  BY RowFacts DEF TypeOK
<1>3. DOMAIN uploads \subseteq Ids /\ \A m \in DOMAIN uploads : uploads[m] \in Sizes /\ media[m].status = "pending_upload"
  BY DEF TypeOK
<1>4. CASE /\ AssertStorageReserve(size)
           /\ uploads' = [n \in DOMAIN uploads \cup {x} |-> IF n = x THEN size ELSE uploads[n]]
           /\ UNCHANGED <<media, late>>
  <2>1. /\ DOMAIN uploads' = DOMAIN uploads \cup {x} /\ uploads'[x] = size
        /\ \A m \in DOMAIN uploads : uploads'[m] = uploads[m]
    BY <1>1, <1>4
  <2>2. TypeOK' /\ Ids' = Ids
    <3>1. \A m \in DOMAIN uploads' : uploads'[m] \in Sizes /\ media'[m].status = "pending_upload"
      BY <1>1, <1>3, <1>4, <2>1
    <3>2. reading' \subseteq Ids /\ SideTypes'
      BY <1>1, <1>2, <1>4, HandledFacts
    <3> QED BY <1>1, <1>2, <1>3, <1>4, <2>1, <3>1, <3>2, RowsKeepTypes
  <2>3. Dated' /\ Progress' /\ Together'
    BY <1>1, <1>4, <2>2 DEF QuotaInv, Dated, Progress, Together, Visible
  <2>4. MediaBytes' = MediaBytes
    BY <1>4, <2>2, BytesStay
  <2>5. Limits' = Limits
    BY <1>1 DEF Limits
  <2>6. VerificationsPerPeriod'
    <3>1. \A m \in Ids' : \A i \in DOMAIN contents'[m] :
            Counted(m, i)' => m \in Ids /\ i \in DOMAIN contents[m] /\ Counted(m, i)
      BY <1>1, <1>4, <2>2 DEF Counted, Period
    <3>2. Usage'.verifications \in Nat /\ Usage'.verifications <= Usage.verifications
      BY <3>1, UnitsKept DEF QuotaInv
    <3> QED BY <1>1, <3>2, VerificationsKept DEF QuotaInv
  <2>7. StorageBounded'
    BY <1>1, <2>4, <2>5 DEF QuotaInv, StorageBounded
  <2>8. Limits.MaxStorage > 0 => MediaBytes + size <= Limits.MaxStorage
    <3>1. Limits.MaxStorage > 0 => SumStorageBytes + size <= Limits.MaxStorage
      BY <1>4 DEF AssertStorageReserve, Usage
    <3>2. MediaBytes \in Nat /\ SumStorageBytes \in Nat /\ MediaBytes <= SumStorageBytes
      BY BytesFacts DEF QuotaInv
    <3>3. size \in Nat /\ Limits.MaxStorage \in Nat
      BY QuotaAssumption, LimitsFacts
    <3> QED BY <3>1, <3>2, <3>3
  <2>9. Reserved'
    BY <1>1, <2>1, <2>4, <2>5, <2>8 DEF QuotaInv, Reserved
  <2> QED BY <2>2, <2>3, <2>6, <2>7, <2>9 DEF QuotaInv
<1>5. CASE MarkFailed(x) /\ UNCHANGED uploads
  <2>1. /\ TypeOK' /\ Dated' /\ Progress' /\ Together' /\ MediaBytes' = MediaBytes
        /\ Ids' = Ids /\ \A m \in Ids : media'[m].analyzedAt = media[m].analyzedAt
    <3>1. \A m \in Ids : Len(contents'[m]) <= MaxHardFrames + 1
      BY <1>1 DEF QuotaInv, Progress
    <3>2. late' \in BOOLEAN
      BY <1>5, FailedFacts
    <3>3. reading' \subseteq Ids
      BY <1>1, <3>2, HandledFacts
    <3>4. \E y \in Ids \ DOMAIN uploads' : MarkFailed(y) /\ media[y].status # "analyzed"
      BY <1>1, <1>5
    <3> QED BY <1>1, <1>2, <1>5, <3>1, <3>3, <3>4, ContentsChange
  <2>2. \A m \in Ids' : \A i \in DOMAIN contents'[m] :
          Counted(m, i)' => m \in Ids /\ i \in DOMAIN contents[m] /\ Counted(m, i)
    BY <1>1, <2>1 DEF Counted, Period
  <2>3. VerificationsPerPeriod' /\ Reserved' /\ StorageBounded'
    BY <1>1, <1>5, <2>1, <2>2, FiguresKept
  <2> QED BY <2>1, <2>3 DEF QuotaInv
<1> QED BY <1>4, <1>5 DEF ProcessUpload

\* A fetched image of which there is no thumbnail fails its media.
LEMMA UploadFailsKeeps ==
  ASSUME TypeOK, QuotaInv, NEW x \in Ids, UploadFails(x)
  PROVE  TypeOK' /\ QuotaInv'
<1>1. /\ uploads' = [n \in DOMAIN uploads \ {x} |-> uploads[n]] /\ x \in DOMAIN uploads
      /\ Handles(x) /\ MarkFailed(x)
      /\ UNCHANGED <<today, sub, gone, presigns, contents, changes, overlapped, carried>>
  BY DEF UploadFails, Fetched
<1>2. /\ DOMAIN uploads' = DOMAIN uploads \ {x} /\ \A m \in DOMAIN uploads' : uploads'[m] = uploads[m]
      /\ contents \in [Ids -> Seq(ContentRow)]
  BY <1>1, RowFacts
<1>3. /\ TypeOK' /\ Dated' /\ Progress' /\ Together' /\ MediaBytes' = MediaBytes
      /\ Ids' = Ids /\ \A m \in Ids : media'[m].analyzedAt = media[m].analyzedAt
  <2>1. \A m \in Ids : Len(contents'[m]) <= MaxHardFrames + 1
    BY <1>1 DEF QuotaInv, Progress
  <2>2. late' \in BOOLEAN
    BY <1>1, FailedFacts
  <2>3. reading' \subseteq Ids
    BY <1>1, <2>2, HandledFacts
  <2>4. \E y \in Ids \ DOMAIN uploads' : MarkFailed(y) /\ media[y].status # "analyzed"
    <3>1. media[x].status = "pending_upload"
      BY <1>1 DEF TypeOK
    <3> QED BY <1>1, <1>2, <3>1
  <2> QED BY <1>1, <1>2, <2>1, <2>3, <2>4, ContentsChange
<1>4. \A m \in Ids' : \A i \in DOMAIN contents'[m] :
        Counted(m, i)' => m \in Ids /\ i \in DOMAIN contents[m] /\ Counted(m, i)
  BY <1>1, <1>3 DEF Counted, Period
<1>5. VerificationsPerPeriod' /\ Reserved' /\ StorageBounded'
  BY <1>1, <1>2, <1>3, <1>4, FiguresKept
<1> QED BY <1>3, <1>5 DEF QuotaInv

LEMMA UploadEndsKeeps ==
  ASSUME TypeOK, QuotaInv, NEW x \in Ids, UploadEnds(x)
  PROVE  TypeOK' /\ QuotaInv'
<1>1. /\ uploads' = [n \in DOMAIN uploads \ {x} |-> uploads[n]]
      /\ UNCHANGED <<today, sub, gone, presigns, media, contents, reading, changes, overlapped, carried, late>>
  BY DEF UploadEnds, Fetched
<1>2. /\ DOMAIN uploads' \subseteq DOMAIN uploads /\ \A m \in DOMAIN uploads' : uploads'[m] = uploads[m]
      /\ presigns \subseteq Requests /\ reading \subseteq Ids
  BY <1>1, RowFacts DEF SideTypes
<1> QED BY <1>1, <1>2, RowsUntouched

LEMMA SaveKeeps ==
  ASSUME TypeOK, QuotaInv, NEW x \in Ids, UploadSave(x)
  PROVE  TypeOK' /\ QuotaInv'
<1> DEFINE size == uploads[x]
<1>1. /\ x \in DOMAIN uploads /\ uploads' = [n \in DOMAIN uploads \ {x} |-> uploads[n]]
      /\ Handles(x)
      /\ media' = [media EXCEPT ![x].status = "processing", ![x].size = size, ![x].deleted = FALSE]
      /\ contents' = IF media[x].type = "image" THEN [contents EXCEPT ![x] = <<NewContent>>] ELSE contents
      /\ overlapped' = (overlapped \/ DOMAIN uploads # {x})
      /\ late' = (late \/ media[x].deleted)
      /\ UNCHANGED <<today, sub, gone, presigns, changes, carried>>
  BY DEF UploadSave, Fetched, AsRead
<1>2. /\ today \in Days /\ sub \in Subscriptions /\ changes \in 0..MaxChanges
      /\ overlapped \in BOOLEAN /\ carried \in BOOLEAN /\ late \in BOOLEAN /\ Ids = 1..Len(media) /\ Len(media) \in Nat
      /\ media \in [Ids -> MediaRow] /\ contents \in [Ids -> Seq(ContentRow)]
  BY RowFacts DEF TypeOK
<1>3. DOMAIN uploads \subseteq Ids /\ \A m \in DOMAIN uploads : uploads[m] \in Sizes /\ media[m].status = "pending_upload"
  BY DEF TypeOK
<1>4. /\ DOMAIN uploads' = DOMAIN uploads \ {x} /\ \A m \in DOMAIN uploads' : uploads'[m] = uploads[m]
      /\ size \in Nat /\ media[x].status = "pending_upload"
  BY <1>1, <1>3, QuotaAssumption
<1>5. /\ media' \in [Ids -> MediaRow]
      /\ media'[x].status = "processing" /\ media'[x].size = size
      /\ \A m \in Ids : m # x => media'[m] = media[m]
      /\ \A m \in Ids : /\ media'[m].created = media[m].created
                        /\ media'[m].analyzedAt = media[m].analyzedAt
                        /\ media'[m].label = media[m].label
                        /\ media'[m].campaign = media[m].campaign
                        /\ ~ late' /\ ~ media'[m].deleted => ~ media[m].deleted
  <2> DEFINE row == [media[x] EXCEPT !.status = "processing", !.size = size, !.deleted = FALSE]
  <2>1. media' = [media EXCEPT ![x] = row]
    BY <1>1
  <2>2. media[x] \in MediaRow
    BY <1>2
  <2>3. /\ row \in MediaRow /\ row.status = "processing" /\ row.size = size
        /\ row.created = media[x].created /\ row.analyzedAt = media[x].analyzedAt
        /\ row.label = media[x].label /\ row.campaign = media[x].campaign
    <3> HIDE DEF size
    <3> QED BY <1>4, <2>2 DEF MediaRow, Statuses
  <2>4. ~ late' => ~ media[x].deleted
    BY <1>1
  <2> HIDE DEF row, size
  <2> QED BY <1>2, <2>1, <2>3, <2>4
<1>6. Ids' = Ids
  <2>1. Len(media') = Len(media)
    BY <1>2, <1>5
  <2> QED BY <2>1 DEF Ids
<1>7. \A m \in Ids : \/ contents'[m] = contents[m]
                     \/ m = x /\ contents'[m] = <<NewContent>>
  BY <1>1, <1>2
<1>8. NewContent \in ContentRow /\ NewContent.status = "uploaded" /\ NewContent.updated = today
  BY <1>2 DEF NewContent, ContentRow
<1>9. contents' \in [Ids -> Seq(ContentRow)]
  <2>1. <<NewContent>> \in Seq(ContentRow)
    BY <1>8
  <2> QED BY <1>1, <1>2, <2>1
<1>10. TypeOK'
  <2>1. \A m \in DOMAIN uploads' : uploads'[m] \in Sizes /\ media'[m].status = "pending_upload"
    BY <1>3, <1>4, <1>5
  <2>2. overlapped' \in BOOLEAN /\ late' \in BOOLEAN
    BY <1>1, <1>2
  <2>3. DOMAIN uploads' \subseteq Ids
    BY <1>3, <1>4
  <2>4. reading' \subseteq Ids /\ SideTypes'
    BY <1>1, <2>2, HandledFacts
  <2> QED BY <1>1, <1>2, <1>5, <1>9, <2>1, <2>2, <2>3, <2>4, RowsKeepTypes
<1>11. \A m \in Ids : \A i \in DOMAIN contents'[m] :
        \/ i \in DOMAIN contents[m] /\ contents'[m][i] = contents[m][i]
        \/ contents'[m][i] = NewContent
  <2> TAKE m \in Ids
  <2>1. CASE contents'[m] = contents[m]
    BY <2>1
  <2>2. CASE contents'[m] = <<NewContent>>
    BY <2>2
  <2> QED BY <1>7, <2>1, <2>2
<1>12. Dated'
  BY <1>1, <1>5, <1>6, <1>8, <1>11, DatedKept DEF QuotaInv
<1>13. Progress'
  <2>1. \A m \in Ids : Len(contents'[m]) <= MaxHardFrames + 1
    <3>1. Len(<<NewContent>>) = 1 /\ 1 <= MaxHardFrames + 1
      BY QuotaAssumption
    <3> QED BY <1>7, <3>1 DEF QuotaInv, Progress
  <2> QED BY <1>4, <1>5, <1>6, <2>1 DEF QuotaInv, Progress
<1>14. Together'
  BY <1>1, <1>5, <1>6, TogetherKept DEF QuotaInv
<1>15. VerificationsPerPeriod'
  <2>1. \A m \in Ids' : \A i \in DOMAIN contents'[m] :
          Counted(m, i)' => m \in Ids /\ i \in DOMAIN contents[m] /\ Counted(m, i)
    BY <1>1, <1>5, <1>6, <1>8, <1>11 DEF Counted, Period
  <2>2. Usage'.verifications \in Nat /\ Usage'.verifications <= Usage.verifications
    BY <2>1, UnitsKept DEF QuotaInv
  <2> QED BY <1>1, <2>2, VerificationsKept DEF QuotaInv
<1>16. overlapped' \/ (DOMAIN uploads' = {} /\ ~ overlapped)
  BY <1>1, <1>2, <1>4
<1>17. Limits' = Limits
  BY <1>1 DEF Limits
<1>18. Reserved'
  BY <1>16 DEF Reserved
<1>19. StorageBounded'
  <2>1. media[x].size = 0
    BY <1>4 DEF QuotaInv, Progress
  <2>2. MediaBytes' = MediaBytes + size
    BY <1>5, <1>6, <2>1, BytesAdded
  <2>3. changes = 0 /\ ~ overlapped /\ Limits.MaxStorage > 0 => MediaBytes + size <= Limits.MaxStorage
    BY <1>1 DEF QuotaInv, Reserved
  <2> HIDE DEF size
  <2> QED BY <1>1, <1>16, <1>17, <2>2, <2>3 DEF StorageBounded
<1> QED BY <1>10, <1>12, <1>13, <1>14, <1>15, <1>18, <1>19 DEF QuotaInv

LEMMA FramesKeep ==
  ASSUME TypeOK, QuotaInv, NEW x \in Ids, NEW n \in 1..MaxHardFrames, ExtractFrames(x, n)
  PROVE  TypeOK' /\ QuotaInv'
<1>1. /\ media[x].status = "processing" /\ x \notin DOMAIN uploads /\ Handles(x)
      /\ UNCHANGED <<today, sub, gone, presigns, uploads, changes, overlapped, carried>>
  BY DEF ExtractFrames, TypeOK
<1>2. today \in Days /\ contents \in [Ids -> Seq(ContentRow)] /\ MaxHardFrames \in Nat
  BY RowFacts, QuotaAssumption
<1> DEFINE frames == [i \in 1..n |-> NewContent]
<1>3. NewContent \in ContentRow /\ NewContent.status = "uploaded" /\ NewContent.updated = today
  BY <1>2 DEF NewContent, ContentRow
<1>4. frames \in Seq(ContentRow) /\ Len(frames) = n /\ n <= MaxHardFrames + 1
      /\ \A i \in DOMAIN frames : frames[i] = NewContent
  BY <1>2, <1>3
<1>5. \/ MarkFailed(x) /\ contents' = contents
      \/ media' = media /\ late' = late /\ contents' = [contents EXCEPT ![x] = frames]
  BY DEF ExtractFrames
<1> HIDE DEF frames
<1>6. /\ contents' \in [Ids -> Seq(ContentRow)]
      /\ \A m \in Ids : contents'[m] = contents[m] \/ contents'[m] = frames
  BY <1>2, <1>4, <1>5
<1>7. \A m \in Ids : \A i \in DOMAIN contents'[m] :
        \/ i \in DOMAIN contents[m] /\ contents'[m][i] = contents[m][i]
        \/ contents'[m][i] = NewContent
  BY <1>4, <1>6
<1>8. /\ TypeOK' /\ Dated' /\ Progress' /\ Together' /\ MediaBytes' = MediaBytes
      /\ Ids' = Ids /\ \A m \in Ids : media'[m].analyzedAt = media[m].analyzedAt
  <2>1. \A m \in Ids : Len(contents'[m]) <= MaxHardFrames + 1
    BY <1>4, <1>6 DEF QuotaInv, Progress
  <2>2. \/ media' = media /\ late' = late
        \/ \E y \in Ids \ DOMAIN uploads' : MarkFailed(y) /\ media[y].status # "analyzed"
    BY <1>1, <1>5
  <2>3. late' \in BOOLEAN
    BY <1>5, RowFacts, FailedFacts DEF SideTypes
  <2>4. reading' \subseteq Ids
    BY <1>1, <2>3, HandledFacts
  <2> QED BY <1>1, <1>3, <1>6, <1>7, <2>1, <2>2, <2>4, ContentsChange
<1>9. \A m \in Ids' : \A i \in DOMAIN contents'[m] :
        Counted(m, i)' => m \in Ids /\ i \in DOMAIN contents[m] /\ Counted(m, i)
  BY <1>1, <1>3, <1>7, <1>8 DEF Counted, Period
<1>10. VerificationsPerPeriod' /\ Reserved' /\ StorageBounded'
  BY <1>1, <1>8, <1>9, FiguresKept
<1> QED BY <1>8, <1>10 DEF QuotaInv

\* One content changes, today.
LEMMA SetPartFacts ==
  ASSUME TypeOK, Progress, NEW x \in Ids, NEW y \in DOMAIN contents[x],
         NEW status \in {"uploaded", "analyzing", "analyzed", "failed"},
         NEW label \in AllLabels \cup {"none"}, SetPart(x, y, status, label)
  PROVE  /\ contents' \in [Ids -> Seq(ContentRow)]
         /\ contents'[x][y].status = status
         /\ \A m \in Ids : /\ Len(contents'[m]) <= MaxHardFrames + 1
                           /\ DOMAIN contents'[m] = DOMAIN contents[m]
         /\ \A m \in Ids : \A i \in DOMAIN contents'[m] :
              \/ contents'[m][i] = contents[m][i]
              \/ m = x /\ i = y /\ contents'[m][i].updated = today
<1> DEFINE part == [status |-> status, updated |-> today, label |-> label]
           parts == [contents[x] EXCEPT ![y] = part]
<1>1. contents \in [Ids -> Seq(ContentRow)] /\ contents[x] \in Seq(ContentRow) /\ today \in Days
  BY RowFacts
<1>2. part \in ContentRow /\ part.status = status /\ part.updated = today
  BY <1>1 DEF ContentRow
<1>3. contents' = [contents EXCEPT ![x] = parts]
  BY DEF SetPart
<1> HIDE DEF part
<1>4. /\ parts \in Seq(ContentRow) /\ Len(parts) = Len(contents[x])
      /\ DOMAIN parts = DOMAIN contents[x] /\ parts[y] = part
      /\ \A i \in DOMAIN parts : i # y => parts[i] = contents[x][i]
  BY <1>1, <1>2
<1> HIDE DEF parts
<1>5. /\ contents' \in [Ids -> Seq(ContentRow)] /\ contents'[x] = parts
      /\ \A m \in Ids : m # x => contents'[m] = contents[m]
  BY <1>1, <1>3, <1>4
<1>6. \A m \in Ids : Len(contents'[m]) <= MaxHardFrames + 1 /\ DOMAIN contents'[m] = DOMAIN contents[m]
  BY <1>4, <1>5 DEF Progress
<1>7. \A m \in Ids : \A i \in DOMAIN contents'[m] :
        \/ contents'[m][i] = contents[m][i]
        \/ m = x /\ i = y /\ contents'[m][i].updated = today
  BY <1>2, <1>4, <1>5
<1> QED BY <1>2, <1>4, <1>5, <1>6, <1>7

LEMMA AnalyzeKeeps ==
  ASSUME TypeOK, QuotaInv, NEW x \in Ids, NEW y, AnalyzeContent(x, y)
  PROVE  TypeOK' /\ QuotaInv'
<1>1. /\ y \in DOMAIN contents[x] /\ Handles(x)
      /\ UNCHANGED <<today, sub, gone, presigns, uploads, changes, overlapped, carried>>
  BY DEF AnalyzeContent
<1>2. CASE assertVerificationSlots(1) /\ SetPart(x, y, "analyzing", "none") /\ UNCHANGED <<media, late>>
  <2>1. /\ contents' \in [Ids -> Seq(ContentRow)]
        /\ \A m \in Ids : /\ Len(contents'[m]) <= MaxHardFrames + 1
                          /\ DOMAIN contents'[m] = DOMAIN contents[m]
        /\ \A m \in Ids : \A i \in DOMAIN contents'[m] :
             \/ contents'[m][i] = contents[m][i]
             \/ m = x /\ i = y /\ contents'[m][i].updated = today
    BY <1>1, <1>2, SetPartFacts DEF QuotaInv
  <2>2. /\ TypeOK' /\ Dated' /\ Progress' /\ Together' /\ MediaBytes' = MediaBytes
        /\ Ids' = Ids /\ \A m \in Ids : media'[m].analyzedAt = media[m].analyzedAt
    <3>1. reading' \subseteq Ids
      BY <1>1, <1>2, RowFacts, HandledFacts DEF SideTypes
    <3> QED BY <1>1, <1>2, <2>1, <3>1, ContentsChange
  <2>3. Reserved' /\ StorageBounded'
    BY <1>1, <2>2, StorageKept DEF QuotaInv
  <2>4. VerificationsPerPeriod'
    <3>1. \A m \in Ids' : \A i \in DOMAIN contents'[m] :
            Counted(m, i)' => \/ m = x /\ i = y
                              \/ m \in Ids /\ i \in DOMAIN contents[m] /\ Counted(m, i)
      BY <1>1, <1>2, <2>1, <2>2 DEF Counted, Period
    <3>2. Usage'.verifications \in Nat /\ Usage'.verifications <= Usage.verifications + 1
      BY <3>1, UnitAdded DEF QuotaInv
    <3>3. Limits.OveragePriceCents = 0 =>
            Usage.verifications + 1 <= Limits.MaxVerificationsPerMonth + Limits.Grace
      BY <1>2, LimitsFacts DEF assertVerificationSlots
    <3>4. /\ Limits.MaxVerificationsPerMonth \in Nat /\ Limits.Grace \in Nat
          /\ Usage.verifications \in Nat
      BY LimitsFacts, UnitsFacts DEF QuotaInv
    <3>5. Limits' = Limits
      BY <1>1 DEF Limits
    <3> QED BY <3>2, <3>3, <3>4, <3>5 DEF VerificationsPerPeriod
  <2> QED BY <2>2, <2>3, <2>4 DEF QuotaInv
<1>3. CASE /\ SetPart(x, y, "failed", "none")
           /\ IF media[x].status = "processing" THEN MarkFailed(x) ELSE UNCHANGED <<media, late>>
  <2>1. /\ contents' \in [Ids -> Seq(ContentRow)] /\ contents'[x][y].status = "failed"
        /\ \A m \in Ids : /\ Len(contents'[m]) <= MaxHardFrames + 1
                          /\ DOMAIN contents'[m] = DOMAIN contents[m]
        /\ \A m \in Ids : \A i \in DOMAIN contents'[m] :
             \/ contents'[m][i] = contents[m][i]
             \/ m = x /\ i = y /\ contents'[m][i].updated = today
    BY <1>1, <1>3, SetPartFacts DEF QuotaInv
  <2>2. \/ media' = media /\ late' = late
        \/ \E z \in Ids \ DOMAIN uploads' : MarkFailed(z) /\ media[z].status # "analyzed"
    <3>1. media[x].status = "processing" => x \notin DOMAIN uploads
      BY DEF TypeOK
    <3> QED BY <1>1, <1>3, <3>1
  <2>3. /\ TypeOK' /\ Dated' /\ Progress' /\ Together' /\ MediaBytes' = MediaBytes
        /\ Ids' = Ids /\ \A m \in Ids : media'[m].analyzedAt = media[m].analyzedAt
    <3>1. late' \in BOOLEAN
      BY <1>3, RowFacts, FailedFacts DEF SideTypes
    <3>2. reading' \subseteq Ids
      BY <1>1, <3>1, HandledFacts
    <3> QED BY <1>1, <2>1, <2>2, <3>2, ContentsChange
  <2>4. \A m \in Ids' : \A i \in DOMAIN contents'[m] :
          Counted(m, i)' => m \in Ids /\ i \in DOMAIN contents[m] /\ Counted(m, i)
    <3>1. contents'[x][y].status \notin {"analyzing", "analyzed"}
      BY <2>1
    <3> QED BY <1>1, <2>1, <2>3, <3>1 DEF Counted, Period
  <2>5. VerificationsPerPeriod' /\ Reserved' /\ StorageBounded'
    BY <1>1, <2>3, <2>4, FiguresKept
  <2> QED BY <2>3, <2>5 DEF QuotaInv
<1> QED BY <1>2, <1>3 DEF AnalyzeContent

LEMMA VerdictKeeps ==
  ASSUME TypeOK, QuotaInv, NEW x \in Ids, NEW y, NEW l \in Labels, RenderVerdict(x, y, l)
  PROVE  TypeOK' /\ QuotaInv'
<1>1. /\ y \in DOMAIN contents[x] /\ contents[x][y].status = "analyzing"
      /\ SetPart(x, y, "analyzed", l) /\ l \in AllLabels /\ Handles(x)
      /\ UNCHANGED <<today, sub, gone, presigns, media, uploads, changes, overlapped, carried, late>>
  BY QuotaAssumption DEF RenderVerdict
<1>2. /\ contents' \in [Ids -> Seq(ContentRow)]
      /\ \A m \in Ids : /\ Len(contents'[m]) <= MaxHardFrames + 1
                        /\ DOMAIN contents'[m] = DOMAIN contents[m]
      /\ \A m \in Ids : \A i \in DOMAIN contents'[m] :
           \/ contents'[m][i] = contents[m][i]
           \/ m = x /\ i = y /\ contents'[m][i].updated = today
  BY <1>1, SetPartFacts DEF QuotaInv
<1>3. /\ TypeOK' /\ Dated' /\ Progress' /\ Together' /\ MediaBytes' = MediaBytes
      /\ Ids' = Ids /\ \A m \in Ids : media'[m].analyzedAt = media[m].analyzedAt
  <2>1. reading' \subseteq Ids
    BY <1>1, RowFacts, HandledFacts DEF SideTypes
  <2> QED BY <1>1, <1>2, <2>1, ContentsChange
<1>4. \A m \in Ids' : \A i \in DOMAIN contents'[m] :
        Counted(m, i)' => m \in Ids /\ i \in DOMAIN contents[m] /\ Counted(m, i)
  BY <1>1, <1>2, <1>3 DEF Counted, Period
<1>5. VerificationsPerPeriod' /\ Reserved' /\ StorageBounded'
  BY <1>1, <1>3, <1>4, FiguresKept
<1> QED BY <1>3, <1>5 DEF QuotaInv

LEMMA StaleKeeps ==
  ASSUME TypeOK, QuotaInv, NEW x \in Ids, FailStale(x)
  PROVE  TypeOK' /\ QuotaInv'
<1> DEFINE old == contents[x]
           parts == [i \in DOMAIN old |-> IF old[i].status \in {"analyzed", "failed"} THEN old[i]
                                          ELSE [old[i] EXCEPT !.status = "failed", !.updated = today]]
<1>1. /\ media[x].status = "processing" /\ x \notin DOMAIN uploads /\ MarkFailed(x) /\ Handles(x)
      /\ contents' = [contents EXCEPT ![x] = parts]
      /\ UNCHANGED <<today, sub, gone, presigns, uploads, changes, overlapped, carried>>
  BY DEF FailStale, TypeOK
<1>2. contents \in [Ids -> Seq(ContentRow)] /\ old \in Seq(ContentRow) /\ today \in Days
      /\ Len(old) \in Nat /\ DOMAIN old = 1..Len(old) /\ \A i \in 1..Len(old) : old[i] \in ContentRow
  <2>1. contents \in [Ids -> Seq(ContentRow)] /\ today \in Days
    BY RowFacts
  <2> QED BY <2>1
<1>3. /\ parts \in Seq(ContentRow) /\ Len(parts) = Len(old) /\ DOMAIN parts = DOMAIN old
      /\ \A i \in DOMAIN parts : \/ parts[i] = old[i]
                                 \/ parts[i].status = "failed" /\ parts[i].updated = today
  <2>1. \A i \in 1..Len(old) : [old[i] EXCEPT !.status = "failed", !.updated = today] \in ContentRow
    <3> HIDE DEF old
    <3> QED BY <1>2 DEF ContentRow
  <2>2. \A i \in DOMAIN old : parts[i] \in ContentRow
    <3> HIDE DEF old
    <3> QED BY <1>2, <2>1
  <2>3. parts \in [1..Len(old) -> ContentRow]
    <3>1. parts = [i \in 1..Len(old) |-> parts[i]]
      BY <1>2
    <3> HIDE DEF parts, old
    <3> QED BY <1>2, <2>2, <3>1
  <2>4. \A i \in DOMAIN old : \/ parts[i] = old[i]
                              \/ parts[i].status = "failed" /\ parts[i].updated = today
    <3> HIDE DEF old
    <3> QED BY <1>2 DEF ContentRow
  <2>5. DOMAIN parts = DOMAIN old /\ DOMAIN parts = 1..Len(old)
    BY <1>2
  <2> HIDE DEF parts, old
  <2>6. parts \in Seq(ContentRow) /\ Len(parts) = Len(old)
    <3>1. Len(old) \in Nat
      BY <1>2
    <3> QED BY ONLY <2>3, <3>1
  <2> QED BY <2>4, <2>5, <2>6
<1> HIDE DEF parts
<1>4. /\ contents' \in [Ids -> Seq(ContentRow)] /\ contents'[x] = parts
      /\ \A m \in Ids : m # x => contents'[m] = contents[m]
  BY <1>1, <1>2, <1>3
<1>5. \A m \in Ids : /\ Len(contents'[m]) <= MaxHardFrames + 1
                     /\ \A i \in DOMAIN contents'[m] :
                          /\ i \in DOMAIN contents[m]
                          /\ \/ contents'[m][i] = contents[m][i]
                             \/ contents'[m][i].status = "failed" /\ contents'[m][i].updated = today
  BY <1>3, <1>4 DEF QuotaInv, Progress
<1>6. /\ TypeOK' /\ Dated' /\ Progress' /\ Together' /\ MediaBytes' = MediaBytes
      /\ Ids' = Ids /\ \A m \in Ids : media'[m].analyzedAt = media[m].analyzedAt
  <2>1. \E y \in Ids \ DOMAIN uploads' : MarkFailed(y) /\ media[y].status # "analyzed"
    BY <1>1
  <2>2. late' \in BOOLEAN
    BY <1>1, FailedFacts
  <2>3. reading' \subseteq Ids
    BY <1>1, <2>2, HandledFacts
  <2> QED BY <1>1, <1>4, <1>5, <2>1, <2>3, ContentsChange
<1>7. \A m \in Ids' : \A i \in DOMAIN contents'[m] :
        Counted(m, i)' => m \in Ids /\ i \in DOMAIN contents[m] /\ Counted(m, i)
  BY <1>1, <1>5, <1>6 DEF Counted, Period
<1>8. VerificationsPerPeriod' /\ Reserved' /\ StorageBounded'
  BY <1>1, <1>6, <1>7, FiguresKept
<1> QED BY <1>6, <1>8 DEF QuotaInv

\* A media finalized in the period of its contents' verdicts counts as before.
LEMMA GlobalVerdictKeeps ==
  ASSUME TypeOK, QuotaInv, NEW x \in Ids, RenderGlobalVerdict(x)
  PROVE  TypeOK' /\ QuotaInv'
<1> DEFINE label == AggregateMediaVerdict(contents[x])
           row == [media[x] EXCEPT !.status = "analyzed", !.analyzedAt = today, !.label = label,
                              !.deleted = FALSE]
<1>1. /\ media[x].status = "processing"
      /\ media' = [media EXCEPT ![x].status = "analyzed", ![x].analyzedAt = today, ![x].label = label,
                                ![x].deleted = FALSE]
      /\ Handles(x) /\ late' = (late \/ media[x].deleted)
      /\ carried' = (carried \/ \E i \in DOMAIN contents[x] :
                                  Period(contents[x][i].updated) # Period(today))
      /\ UNCHANGED <<today, sub, gone, presigns, contents, uploads, changes, overlapped>>
  BY DEF RenderGlobalVerdict, AsRead
<1>2. /\ today \in Days /\ today \in Nat /\ today # NoDay /\ sub \in Subscriptions /\ changes \in 0..MaxChanges
      /\ overlapped \in BOOLEAN /\ carried \in BOOLEAN /\ late \in BOOLEAN /\ Ids = 1..Len(media) /\ Len(media) \in Nat
      /\ media \in [Ids -> MediaRow] /\ contents \in [Ids -> Seq(ContentRow)]
  BY RowFacts DEF TypeOK, NoDay
<1>3. label \in AllLabels /\ label # "none"
  BY DEF AggregateMediaVerdict, AllLabels
<1> HIDE DEF label
<1>4. /\ row \in MediaRow /\ row.status = "analyzed" /\ row.analyzedAt = today /\ row.label = label
      /\ row.created = media[x].created /\ row.size = media[x].size
      /\ row.campaign = media[x].campaign
  <2>1. media[x] \in MediaRow
    BY <1>2
  <2> QED BY <1>2, <1>3, <2>1 DEF MediaRow, Statuses
<1>5. media' = [media EXCEPT ![x] = row]
  BY <1>1
<1> HIDE DEF row
<1>6. /\ media' \in [Ids -> MediaRow] /\ media'[x] = row
      /\ \A m \in Ids : m # x => media'[m] = media[m]
  BY <1>2, <1>4, <1>5
<1>7. Ids' = Ids
  <2>1. Len(media') = Len(media)
    BY <1>2, <1>6
  <2> QED BY <2>1 DEF Ids
<1>8. TypeOK'
  <2>1. DOMAIN uploads \subseteq Ids /\ \A m \in DOMAIN uploads : /\ uploads[m] \in Sizes /\ m # x
                                                                 /\ media[m].status = "pending_upload"
    BY <1>1 DEF TypeOK
  <2>2. \A m \in DOMAIN uploads' : uploads'[m] \in Sizes /\ media'[m].status = "pending_upload"
    BY <1>1, <1>6, <2>1
  <2>3. carried' \in BOOLEAN /\ late' \in BOOLEAN
    BY <1>1, <1>2
  <2>4. reading' \subseteq Ids /\ SideTypes'
    BY <1>1, <2>3, HandledFacts
  <2> QED BY <1>1, <1>2, <1>6, <2>1, <2>2, <2>3, <2>4, RowsKeepTypes
<1>9. Dated'
  BY <1>1, <1>4, <1>6, <1>7, DatedKept DEF QuotaInv
<1>10. Progress'
  BY <1>1, <1>2, <1>3, <1>4, <1>6, <1>7 DEF QuotaInv, Progress
<1>11. Together'
  <2>1. ~ late' => ~ media[x].deleted
    BY <1>1
  <2>2. \A m \in Ids : /\ media'[m].campaign = media[m].campaign
                       /\ ~ late' /\ ~ media'[m].deleted => ~ media[m].deleted
    BY <1>4, <1>6, <2>1
  <2> QED BY <1>1, <1>7, <2>2, TogetherKept DEF QuotaInv
<1>12. MediaBytes' = MediaBytes
  BY <1>4, <1>6, <1>7, BytesStay
<1>13. Reserved' /\ StorageBounded'
  BY <1>1, <1>12, StorageKept DEF QuotaInv
<1>14. VerificationsPerPeriod'
  <2>1. ASSUME changes' = 0, ~ carried'
        PROVE  Usage'.verifications \in Nat /\ Usage'.verifications <= Usage.verifications
    <3>1. media[x].analyzedAt = NoDay
      BY <1>1 DEF QuotaInv, Progress
    <3>2. ASSUME NEW i \in DOMAIN contents[x]
          PROVE  /\ Period(today)[1] <= contents[x][i].updated
                 /\ contents[x][i].updated < Period(today)[2]
      <4>1. Period(contents[x][i].updated) = Period(today)
        BY <1>1, <2>1
      <4>2. contents[x][i].updated \in sub.QuotaPeriodStart..today
        <5>1. contents[x][i].updated \in Nat /\ sub.QuotaPeriodStart \in Nat
          BY RowFacts, PartFields
        <5> QED BY <1>1, <1>2, <2>1, <5>1 DEF QuotaInv, Dated
      <4>3. /\ Period(contents[x][i].updated)[1] <= contents[x][i].updated
            /\ contents[x][i].updated < Period(contents[x][i].updated)[2]
        BY <4>2, PeriodFacts DEF QuotaInv
      <4> QED BY <4>1, <4>3
    <3>3. \A m \in Ids' : \A i \in DOMAIN contents'[m] :
            Counted(m, i)' => m \in Ids /\ i \in DOMAIN contents[m] /\ Counted(m, i)
      <4> TAKE m \in Ids'
      <4> TAKE i \in DOMAIN contents'[m]
      <4>1. CASE m = x
        BY <1>1, <1>7, <3>1, <3>2, <4>1 DEF Counted
      <4>2. CASE m # x
        BY <1>1, <1>6, <1>7, <4>2 DEF Counted, Period
      <4> QED BY <4>1, <4>2
    <3> QED BY <3>3, UnitsKept DEF QuotaInv
  <2>2. ~ carried' => ~ carried
    BY <1>1
  <2> QED BY <1>1, <2>1, <2>2, VerificationsKept DEF QuotaInv
<1> QED BY <1>8, <1>9, <1>10, <1>11, <1>13, <1>14 DEF QuotaInv

LEMMA DeleteKeeps ==
  ASSUME TypeOK, QuotaInv, NEW read \in SUBSET Visible, DeleteCampaign(read)
  PROVE  TypeOK' /\ QuotaInv'
<1> DEFINE bare(m) == [media[m] EXCEPT !.deleted = TRUE]
<1>1. /\ media' = [m \in Ids |-> IF media[m].campaign = "launch" THEN bare(m) ELSE media[m]]
      /\ gone' = gone \cup {"launch"} /\ reading' = read
      /\ UNCHANGED <<today, sub, presigns, contents, uploads, changes, overlapped, carried, late>>
  BY DEF DeleteCampaign
<1>2. /\ today \in Days /\ sub \in Subscriptions /\ changes \in 0..MaxChanges
      /\ overlapped \in BOOLEAN /\ carried \in BOOLEAN /\ Ids = 1..Len(media) /\ Len(media) \in Nat
      /\ media \in [Ids -> MediaRow] /\ contents \in [Ids -> Seq(ContentRow)]
  BY RowFacts DEF TypeOK
<1>3. ASSUME NEW m \in Ids
      PROVE  /\ bare(m) \in MediaRow /\ bare(m).deleted = TRUE
             /\ bare(m).status = media[m].status /\ bare(m).created = media[m].created
             /\ bare(m).analyzedAt = media[m].analyzedAt /\ bare(m).label = media[m].label
             /\ bare(m).size = media[m].size /\ bare(m).campaign = media[m].campaign
  <2>1. media[m] \in MediaRow
    BY <1>2
  <2> QED BY <2>1 DEF MediaRow
<1> HIDE DEF bare
<1>4. media' \in [Ids -> MediaRow]
  BY <1>1, <1>2, <1>3
<1>5. \A m \in Ids : /\ media'[m].status = media[m].status
                     /\ media'[m].created = media[m].created
                     /\ media'[m].analyzedAt = media[m].analyzedAt
                     /\ media'[m].label = media[m].label /\ media'[m].size = media[m].size
                     /\ media'[m].campaign = media[m].campaign
  <2> TAKE m \in Ids
  <2>1. media'[m] = bare(m) \/ media'[m] = media[m]
    BY <1>1
  <2> QED BY <1>3, <2>1
<1>6. \A m \in Ids : /\ media[m].campaign = "launch" => media'[m].deleted = TRUE
                     /\ media[m].campaign # "launch" => media'[m].deleted = media[m].deleted
  BY <1>1, <1>3
<1>7. Ids' = Ids
  <2>1. Len(media') = Len(media)
    BY <1>2, <1>4
  <2> QED BY <2>1 DEF Ids
<1>8. TypeOK'
  <2>1. DOMAIN uploads \subseteq Ids /\ \A m \in DOMAIN uploads : uploads[m] \in Sizes /\ media[m].status = "pending_upload"
    BY DEF TypeOK
  <2>2. \A m \in DOMAIN uploads' : uploads'[m] \in Sizes /\ media'[m].status = "pending_upload"
    BY <1>1, <1>5, <2>1
  <2>3. reading' \subseteq Ids /\ SideTypes'
    BY <1>1, RowFacts DEF SideTypes, Visible
  <2> QED BY <1>1, <1>2, <1>4, <2>1, <2>2, <2>3, RowsKeepTypes
<1>9. Dated'
  BY <1>1, <1>5, <1>7, DatedKept DEF QuotaInv
<1>10. Progress'
  BY <1>1, <1>5, <1>7 DEF QuotaInv, Progress
<1>11. Together'
  <2>1. ASSUME ~ late', NEW m \in Ids, ~ media'[m].deleted PROVE media'[m].campaign \notin gone'
    <3>1. media[m].campaign # "launch" /\ media'[m].campaign = media[m].campaign /\ ~ media[m].deleted
      BY <1>5, <1>6, <2>1
    <3>2. media[m].campaign \notin gone
      BY <1>1, <2>1, <3>1 DEF QuotaInv, Together, Visible
    <3> QED BY <1>1, <3>1, <3>2
  <2> QED BY <1>7, <2>1 DEF Together, Visible
<1>12. VerificationsPerPeriod' /\ Reserved' /\ StorageBounded'
  <2>1. MediaBytes' = MediaBytes
    BY <1>5, <1>7, BytesStay
  <2>2. \A m \in Ids' : \A i \in DOMAIN contents'[m] :
          Counted(m, i)' => m \in Ids /\ i \in DOMAIN contents[m] /\ Counted(m, i)
    BY <1>1, <1>5, <1>7 DEF Counted, Period
  <2> QED BY <1>1, <2>1, <2>2, FiguresKept
<1> QED BY <1>8, <1>9, <1>10, <1>11, <1>12 DEF QuotaInv

\* The periods are counted from a day of the past.
LEMMA SubscriptionKeeps ==
  ASSUME TypeOK, QuotaInv, NEW new \in Subscriptions, new.QuotaPeriodStart <= today,
         SubscriptionChanges(new)
  PROVE  TypeOK' /\ QuotaInv'
<1>1. /\ changes < MaxChanges /\ changes' = changes + 1 /\ sub' = new
      /\ UNCHANGED <<today, gone, presigns, media, contents, uploads, reading, overlapped, carried, late>>
  BY DEF SubscriptionChanges
<1>2. /\ today \in Days /\ changes \in 0..MaxChanges
      /\ overlapped \in BOOLEAN /\ carried \in BOOLEAN
      /\ media \in [Ids -> MediaRow] /\ contents \in [Ids -> Seq(ContentRow)]
      /\ MaxChanges \in Nat /\ SideTypes /\ reading \subseteq Ids
  BY RowFacts, QuotaAssumption DEF TypeOK
<1>3. changes' \in 0..MaxChanges /\ changes' # 0
  BY <1>1, <1>2
<1>4. TypeOK' /\ Ids' = Ids
  <2>1. DOMAIN uploads \subseteq Ids /\ \A m \in DOMAIN uploads : uploads[m] \in Sizes /\ media[m].status = "pending_upload"
    BY DEF TypeOK
  <2>2. SideTypes'
    BY <1>1, <1>2 DEF SideTypes
  <2> QED BY <1>1, <1>2, <1>3, <2>1, <2>2, RowsKeepTypes
<1>5. Dated' /\ Progress' /\ Together'
  BY <1>1, <1>3, <1>4 DEF QuotaInv, Dated, Progress, Together, Visible
<1>6. VerificationsPerPeriod' /\ Reserved' /\ StorageBounded'
  BY <1>3 DEF VerificationsPerPeriod, Reserved, StorageBounded
<1> QED BY <1>4, <1>5, <1>6 DEF QuotaInv

LEMMA CheckoutKeeps ==
  ASSUME TypeOK, QuotaInv, NEW p \in Plans, NEW a \in BOOLEAN, NEW start \in Days,
         CheckoutCompleted(p, a, start)
  PROVE  TypeOK' /\ QuotaInv'
<1> DEFINE day == IF sub.plan = "free" THEN start ELSE sub.QuotaPeriodStart
           new == [plan |-> p, active |-> a, customer |-> TRUE, QuotaPeriodStart |-> day]
<1>1. start <= today /\ SubscriptionChanges(new)
  BY DEF CheckoutCompleted
<1>2. day \in Days /\ day <= today
  BY <1>1, RowFacts DEF QuotaInv, Dated
<1> HIDE DEF day
<1>3. new \in Subscriptions /\ new.QuotaPeriodStart <= today
  BY <1>2 DEF Subscriptions
<1> QED BY <1>1, <1>3, SubscriptionKeeps

LEMMA UpdateKeeps ==
  ASSUME TypeOK, QuotaInv, NEW p \in Plans, NEW a \in BOOLEAN, SubscriptionUpdated(p, a)
  PROVE  TypeOK' /\ QuotaInv'
<1> DEFINE new == [sub EXCEPT !.plan = p, !.active = a]
<1>1. SubscriptionChanges(new)
  BY DEF SubscriptionUpdated
<1>2. new \in Subscriptions /\ new.QuotaPeriodStart = sub.QuotaPeriodStart
  <2>1. sub \in Subscriptions
    BY RowFacts
  <2> QED BY <2>1 DEF Subscriptions
<1>3. sub.QuotaPeriodStart <= today
  BY DEF QuotaInv, Dated
<1> HIDE DEF new
<1> QED BY <1>1, <1>2, <1>3, SubscriptionKeeps

\* What the new period counts, the one before counted too: it is the same, or
\* over before the new one starts.
LEMMA DaysKeep ==
  ASSUME TypeOK, QuotaInv, NEW d \in Days, DaysPass(d)
  PROVE  TypeOK' /\ QuotaInv'
<1> DEFINE a == sub.QuotaPeriodStart
<1>1. /\ today < d /\ today' = d
      /\ UNCHANGED <<sub, gone, presigns, media, contents, uploads, reading, changes, overlapped, carried, late>>
  BY DEF DaysPass
<1>2. /\ today \in Days /\ sub \in Subscriptions /\ changes \in 0..MaxChanges
      /\ overlapped \in BOOLEAN /\ carried \in BOOLEAN
      /\ media \in [Ids -> MediaRow] /\ contents \in [Ids -> Seq(ContentRow)]
      /\ Days \subseteq 1..Horizon /\ Horizon \in Nat /\ a \in Days
      /\ SideTypes /\ reading \subseteq Ids
  BY RowFacts, MonthFacts DEF TypeOK
<1>3. TypeOK' /\ Ids' = Ids
  <2>1. DOMAIN uploads \subseteq Ids /\ \A m \in DOMAIN uploads : uploads[m] \in Sizes /\ media[m].status = "pending_upload"
    BY DEF TypeOK
  <2>2. SideTypes'
    BY <1>1, <1>2 DEF SideTypes
  <2> QED BY <1>1, <1>2, <2>1, <2>2, RowsKeepTypes
<1>4. a \in 1..Horizon /\ today \in 1..Horizon /\ d \in 1..Horizon /\ a <= today
  BY <1>2 DEF QuotaInv, Dated
<1>5. Dated'
  <2>1. a <= d /\ \A t \in Nat : t <= today => t <= d
    BY <1>1, <1>4
  <2>2. \A m \in Ids : media[m].created \in Nat /\ media[m].analyzedAt \in Nat
    BY MediaFields
  <2>3. \A m \in Ids : \A i \in DOMAIN contents[m] : contents[m][i].updated \in Nat
    BY PartFields
  <2> QED BY <1>1, <1>3, <2>1, <2>2, <2>3 DEF QuotaInv, Dated
<1>6. Progress' /\ Together'
  BY <1>1, <1>3 DEF QuotaInv, Progress, Together, Visible
<1>7. \A m \in Ids' : \A i \in DOMAIN contents'[m] :
        Counted(m, i)' => m \in Ids /\ i \in DOMAIN contents[m] /\ Counted(m, i)
  <2> DEFINE p == CurrentQuotaPeriod(a, d)
             q == CurrentQuotaPeriod(a, today)
  <2>1. /\ p[1] \in Nat /\ p[2] \in Nat /\ q[1] \in Nat /\ q[2] \in Nat
        /\ today < q[2]
        /\ q = p \/ q[2] <= p[1]
    <3>1. d \in a..Horizon /\ today \in a..d
      BY <1>1, <1>4
    <3> HIDE DEF a
    <3> QED BY <1>4, <3>1, PeriodsFollow
  <2>2. Period(today) = q /\ Period(today)' = p
    BY <1>1 DEF Period
  <2> HIDE DEF p, q
  <2>3. \A t \in Nat : t <= today /\ p[1] <= t /\ t < p[2] => q[1] <= t /\ t < q[2]
    BY <1>4, <2>1
  <2>4. \A m \in Ids : media[m].analyzedAt \in Nat /\ media[m].analyzedAt <= today
    BY MediaFields DEF QuotaInv, Dated
  <2>5. \A m \in Ids : \A i \in DOMAIN contents[m] :
          contents[m][i].updated \in Nat /\ contents[m][i].updated <= today
    BY PartFields DEF QuotaInv, Dated
  <2> QED BY <1>1, <1>3, <2>2, <2>3, <2>4, <2>5 DEF Counted
<1>8. VerificationsPerPeriod'
  <2>1. Usage'.verifications \in Nat /\ Usage'.verifications <= Usage.verifications
    BY <1>7, UnitsKept DEF QuotaInv
  <2> QED BY <1>1, <2>1, VerificationsKept DEF QuotaInv
<1>9. Reserved' /\ StorageBounded'
  <2>1. MediaBytes' = MediaBytes
    BY <1>1, <1>3, BytesStay
  <2> QED BY <1>1, <2>1, StorageKept DEF QuotaInv
<1> QED BY <1>3, <1>5, <1>6, <1>8, <1>9 DEF QuotaInv

\* At the start there is nothing to count.
LEMMA InitInv ==
  ASSUME Init
  PROVE  TypeOK /\ QuotaInv
<1>1. /\ today \in Anchors /\ media = <<>> /\ contents = <<>> /\ uploads = <<>>
      /\ changes = 0 /\ overlapped = FALSE /\ carried = FALSE /\ late = FALSE
      /\ gone = {} /\ presigns = {} /\ reading = {}
  BY DEF Init
<1>2. Ids = {} /\ Len(media) = 0
  BY <1>1 DEF Ids
<1>3. TypeOK
  <2>1. PICK p \in Plans : sub = [plan |-> p, active |-> TRUE, QuotaPeriodStart |-> today,
                                customer |-> p # "free"]
    BY DEF Init
  <2>2. today \in Days /\ MaxMedias \in Nat /\ MaxChanges \in Nat
    BY <1>1, QuotaAssumption
  <2>3. media \in Seq(MediaRow) /\ DOMAIN uploads = {}
    BY <1>1
  <2>4. contents \in [Ids -> Seq(ContentRow)]
    BY <1>1, <1>2
  <2>5. sub \in [plan : Plans, active : BOOLEAN, QuotaPeriodStart : Days, customer : BOOLEAN]
    BY <2>1, <2>2
  <2>6. 0 <= MaxMedias /\ 0 \in 0..MaxChanges
    BY <2>2
  <2> QED BY <1>1, <1>2, <2>2, <2>3, <2>4, <2>5, <2>6 DEF TypeOK
<1>4. Dated /\ Progress /\ Together
  <2>1. sub.QuotaPeriodStart = today /\ today \in Nat
    BY <1>3, RowFacts DEF Init
  <2> QED BY <1>2, <2>1 DEF Dated, Progress, Together, Visible
<1>5. MediaBytes = 0
  <2> DEFINE f == [m \in {} |-> media[m].size]
  <2>1. Total(f, {}) = 0
    <3> HIDE DEF f
    <3> QED BY TotalUnfold, FS_EmptySet
  <2> QED BY <1>2, <2>1 DEF MediaBytes
<1>6. Limits \in QuotaRow /\ Limits.MaxVerificationsPerMonth \in Nat /\ Limits.Grace \in Nat /\ Limits.MaxStorage \in Nat
  BY <1>3, LimitsFacts
<1>7. VerificationsPerPeriod
  <2>1. Units = {}
    BY <1>2 DEF Units, Parts
  <2>2. Usage.verifications = 0
    BY <1>3, <1>4, <2>1, UnitsFacts, FS_EmptySet
  <2> QED BY <1>6, <2>2 DEF VerificationsPerPeriod
<1>8. StorageBounded /\ Reserved
  <2>1. DOMAIN uploads = {}
    BY <1>1
  <2> QED BY <1>5, <1>6, <2>1 DEF StorageBounded, Reserved
<1> QED BY <1>3, <1>4, <1>7, <1>8 DEF QuotaInv

LEMMA NextInv ==
  ASSUME TypeOK, QuotaInv, [Next]_vars
  PROVE  TypeOK' /\ QuotaInv'
<1>1. CASE UNCHANGED vars
  <2>1. presigns \subseteq Requests /\ reading \subseteq Ids
    BY RowFacts DEF SideTypes
  <2>2. UNCHANGED <<today, sub, gone, presigns, media, contents, uploads, reading,
                    changes, overlapped, carried, late>>
    BY <1>1 DEF vars
  <2> QED BY <2>1, <2>2, RowsUntouched
<1>2. ASSUME NEW batch \in Batches, NEW c \in CampaignIds, PresignMedia(batch, c)
      PROVE  TypeOK' /\ QuotaInv'
  BY <1>2, PresignKeeps
<1>3. ASSUME NEW m \in Ids, NEW size \in Sizes, ProcessUpload(m, size)
      PROVE  TypeOK' /\ QuotaInv'
  BY <1>3, ProcessKeeps
<1>4. ASSUME NEW m \in Ids, UploadSave(m) PROVE TypeOK' /\ QuotaInv'
  BY <1>4, SaveKeeps
<1>5. ASSUME NEW m \in Ids, NEW n \in 1..MaxHardFrames, ExtractFrames(m, n)
      PROVE  TypeOK' /\ QuotaInv'
  BY <1>5, FramesKeep
<1>6. ASSUME NEW m \in Ids, NEW i \in 1..MaxHardFrames, AnalyzeContent(m, i)
      PROVE  TypeOK' /\ QuotaInv'
  BY <1>6, AnalyzeKeeps
<1>7. ASSUME NEW m \in Ids, NEW i \in 1..MaxHardFrames, NEW l \in Labels, RenderVerdict(m, i, l)
      PROVE  TypeOK' /\ QuotaInv'
  BY <1>7, VerdictKeeps
<1>8. ASSUME NEW m \in Ids, RenderGlobalVerdict(m) PROVE TypeOK' /\ QuotaInv'
  BY <1>8, GlobalVerdictKeeps
<1>9. ASSUME NEW m \in Ids, FailStale(m) PROVE TypeOK' /\ QuotaInv'
  BY <1>9, StaleKeeps
<1>10. ASSUME NEW read \in SUBSET Visible, DeleteCampaign(read) PROVE TypeOK' /\ QuotaInv'
  BY <1>10, DeleteKeeps
<1>11. ASSUME NEW p \in Plans, NEW a \in BOOLEAN, SubscriptionUpdated(p, a)
       PROVE  TypeOK' /\ QuotaInv'
  BY <1>11, UpdateKeeps
<1>12. ASSUME NEW d \in Days, DaysPass(d) PROVE TypeOK' /\ QuotaInv'
  BY <1>12, DaysKeep
<1>13. ASSUME NEW r \in presigns, PresignSave(r) PROVE TypeOK' /\ QuotaInv'
  BY <1>13, PresignSaveKeeps
<1>14. ASSUME NEW m \in Ids, UploadFails(m) PROVE TypeOK' /\ QuotaInv'
  BY <1>14, UploadFailsKeeps
<1>15. ASSUME NEW m \in Ids, UploadEnds(m) PROVE TypeOK' /\ QuotaInv'
  BY <1>15, UploadEndsKeeps
<1>16. ASSUME NEW p \in Plans, NEW a \in BOOLEAN, NEW start \in Days, CheckoutCompleted(p, a, start)
       PROVE  TypeOK' /\ QuotaInv'
  BY <1>16, CheckoutKeeps
<1> QED BY <1>1, <1>2, <1>3, <1>4, <1>5, <1>6, <1>7, <1>8, <1>9, <1>10, <1>11, <1>12,
           <1>13, <1>14, <1>15, <1>16 DEF Next

LEMMA Invariance == Spec => [](TypeOK /\ QuotaInv)
<1>1. Init => TypeOK /\ QuotaInv
  BY InitInv
<1>2. TypeOK /\ QuotaInv /\ [Next]_vars => (TypeOK /\ QuotaInv)'
  BY NextInv
<1> QED BY <1>1, <1>2, PTL DEF Spec

-----------------------------------------------------------------------------
(* The properties *)

\* Every row keeps its columns, and an upload between its check and its save is
\* that of a media that waits for it.
THEOREM QuotaTypes == Spec => []TypeOK
BY Invariance, PTL

\* Whatever the calendar and the day the subscription's periods are counted from,
\* they follow each other without gap or overlap, 28 to 31 days each.
THEOREM PeriodsFollowEachOther == Spec => []PeriodsTile
<1>1. ASSUME TypeOK, QuotaInv PROVE PeriodsTile
  BY <1>1, PeriodFacts DEF QuotaInv, PeriodsTile
<1> QED BY <1>1, Invariance, PTL

\* For every plan, calendar and number of media the verifications of a period
\* stay within the plan and its grace, over any number of renewals, while the
\* subscription is unchanged and no media is finalized in a later period than one
\* of its verdicts.
THEOREM VerificationsStayWithinPlan == Spec => []VerificationsPerPeriod
<1>1. TypeOK /\ QuotaInv => VerificationsPerPeriod
  BY DEF QuotaInv
<1> QED BY <1>1, Invariance, PTL

\* The files accepted stay within the plan's storage, whatever their sizes, as
\* long as the subscription is unchanged and no two uploads are between check and
\* save at one time.
THEOREM StorageStaysWithinPlan == Spec => []StorageBounded
<1>1. TypeOK /\ QuotaInv => StorageBounded
  BY DEF QuotaInv
<1> QED BY <1>1, Invariance, PTL

-----------------------------------------------------------------------------
(* Pages and the dashboard *)

LEMMA Times ==
  ASSUME NEW a \in Nat, NEW b \in Nat, NEW c \in Nat, a < b
  PROVE  a * c \in Nat /\ b * c \in Nat /\ a * c + c <= b * c
OBVIOUS

LEMMA Division ==
  ASSUME NEW a \in Nat, NEW b \in Nat \ {0}
  PROVE  a \div b \in Nat /\ (a \div b) * b \in Nat /\ (a \div b) * b <= a /\ a < (a \div b) * b + b
OBVIOUS

\* The rows that are not deleted, and any of them, are finitely many.
LEMMA VisibleFacts ==
  ASSUME TypeOK
  PROVE  \A R \in SUBSET Visible : IsFiniteSet(R) /\ Cardinality(R) \in Nat
<1> TAKE R \in SUBSET Visible
<1>1. IsFiniteSet(Ids) /\ R \in SUBSET Ids
  BY RowFacts DEF Visible
<1>2. IsFiniteSet(R)
  BY <1>1, FS_Subset
<1> QED BY <1>2, FS_CardinalityType

\* The list of the media created since a day is what its page is taken from.
LEMMA Listed ==
  ASSUME TypeOK, QuotaInv, NEW from \in Days \cup {NoDay}, NEW page, NEW limit
  PROVE  List(from, NoDay, page, limit) = Paginate({m \in Visible : from <= media[m].created}, page, limit)
<1> DEFINE rows == {m \in Visible : from <= media[m].created}
           w == ParseOptionalMediaPeriod(from, NoDay)
<1>1. w[1] = from /\ w[2] = IF from = NoDay THEN Horizon ELSE today
  BY DEF ParseOptionalMediaPeriod
<1>2. \A m \in Visible : /\ media[m].created \in Nat /\ media[m].created <= today
                         /\ media[m].created <= Horizon
  <2> TAKE m \in Visible
  <2>1. m \in Ids
    BY DEF Visible
  <2>2. media[m].created \in Days /\ Days \subseteq 1..Horizon /\ media[m].created <= today
    BY <2>1, RowFacts, MediaFields DEF QuotaInv, Dated
  <2>3. media[m].created \in 1..Horizon /\ Horizon \in Nat
    BY <2>2, MonthFacts
  <2> QED BY <2>2, <2>3
<1>3. from \in Nat /\ today \in Nat /\ Horizon \in Nat /\ w[2] \in Nat
  BY <1>1, RowFacts, MonthFacts DEF NoDay
<1>4. \A m \in Visible : from <= media[m].created => from <= w[2] /\ media[m].created <= w[2]
  BY <1>1, <1>2, <1>3
<1>5. ListByClient(w[1], w[2], {}, {}, {}) =
        IF from <= w[2] THEN {m \in Visible : from <= media[m].created /\ media[m].created <= w[2]} ELSE {}
  <2> HIDE DEF w
  <2> QED BY <1>1 DEF ListByClient, FindPageByClientID, InWindow
<1>6. ListByClient(w[1], w[2], {}, {}, {}) = rows
  <2> HIDE DEF w
  <2> QED BY <1>4, <1>5
<1>7. List(from, NoDay, page, limit) = Paginate(ListByClient(w[1], w[2], {}, {}, {}), page, limit)
  BY DEF List
<1> QED BY <1>6, <1>7

\* A row is on the page of as many rows as come before it, and on no other.
LEMMA Paged ==
  ASSUME NEW rows \in SUBSET Nat, IsFiniteSet(rows), NEW limit \in Nat \ {0}
  PROVE  LET pages == 1..TotalPages(Cardinality(rows), limit)
         IN  /\ UNION {Paginate(rows, p, limit) : p \in pages} = rows
             /\ \A p, q \in pages : p # q => Paginate(rows, p, limit) \cap Paginate(rows, q, limit) = {}
<1> DEFINE n == Cardinality(rows)
           pages == 1..TotalPages(n, limit)
           rank(m) == Cardinality({k \in rows : k > m})
<1>1. n \in Nat
  BY FS_CardinalityType
<1>2. ASSUME NEW m \in rows PROVE rank(m) \in Nat /\ rank(m) < n
  <2> DEFINE above == {k \in rows : k > m}
             rest == rows \ {m}
  <2>1. IsFiniteSet(rest) /\ Cardinality(rest) = n - 1
    BY FS_RemoveElement
  <2>2. above \in SUBSET rest
    OBVIOUS
  <2>3. IsFiniteSet(above) /\ Cardinality(above) <= Cardinality(rest) /\ Cardinality(above) \in Nat
    <3> HIDE DEF above, rest
    <3> QED BY <2>1, <2>2, FS_Subset, FS_CardinalityType
  <2> HIDE DEF above, rest, n
  <2>4. Cardinality(above) < n
    BY <1>1, <2>1, <2>3
  <2> QED BY <2>3, <2>4 DEF above
<1>3. \A p, m : m \in Paginate(rows, p, limit) <=>
                  m \in rows /\ (p - 1) * limit <= rank(m) /\ rank(m) < (p - 1) * limit + limit
  BY DEF Paginate, Offset
<1> HIDE DEF rank, n
<1>4. ASSUME NEW m \in rows PROVE \E p \in pages : m \in Paginate(rows, p, limit)
  <2> DEFINE q == rank(m) \div limit
             total == (n + limit - 1) \div limit
  <2>1. rank(m) \in Nat /\ rank(m) < n /\ n + limit - 1 \in Nat
    BY <1>1, <1>2
  <2>2. q \in Nat /\ q * limit \in Nat /\ q * limit <= rank(m) /\ rank(m) < q * limit + limit
    BY <2>1, Division
  <2>3. /\ total \in Nat /\ total * limit \in Nat
        /\ n + limit - 1 < total * limit + limit
    BY <2>1, Division
  <2> HIDE DEF q, total
  <2>4. q * limit < total * limit
    BY <1>1, <2>1, <2>2, <2>3
  <2>5. q < total
    <3>1. total < q => total * limit + limit <= q * limit
      BY <2>2, <2>3, Times
    <3> QED BY <2>2, <2>3, <2>4, <3>1
  <2>6. q + 1 \in pages /\ (q + 1) - 1 = q
    BY <2>2, <2>3, <2>5 DEF TotalPages, total
  <2> QED BY <1>3, <2>2, <2>6
<1>5. ASSUME NEW p \in pages, NEW q \in pages, NEW m, p < q,
             m \in Paginate(rows, p, limit), m \in Paginate(rows, q, limit)
      PROVE  FALSE
  <2>1. p - 1 \in Nat /\ q - 1 \in Nat /\ p - 1 < q - 1
    BY <1>5
  <2>2. (p - 1) * limit \in Nat /\ (q - 1) * limit \in Nat /\ (p - 1) * limit + limit <= (q - 1) * limit
    BY <2>1, Times
  <2>3. /\ m \in rows /\ rank(m) < (p - 1) * limit + limit /\ (q - 1) * limit <= rank(m)
    BY <1>3, <1>5
  <2>4. rank(m) \in Nat
    BY <1>2, <2>3
  <2> QED BY <2>2, <2>3, <2>4
<1>6. UNION {Paginate(rows, p, limit) : p \in pages} = rows
  BY <1>3, <1>4
<1>7. \A p, q \in pages : p # q => Paginate(rows, p, limit) \cap Paginate(rows, q, limit) = {}
  BY <1>5
<1> QED BY <1>6, <1>7 DEF n

\* Leafing through the list shows every media once, whatever the length of a
\* page and the number of media are.
THEOREM PagesCoverTheList == Spec => []PagesCoverList
<1>1. ASSUME TypeOK, QuotaInv PROVE PagesCoverList
  <2> SUFFICES ASSUME NEW limit \in 1..MaxMedias, NEW from \in Days \cup {NoDay}
               PROVE  LET rows  == {m \in Visible : from <= media[m].created}
                          pages == 1..TotalPages(Cardinality(rows), limit)
                      IN /\ UNION {List(from, NoDay, p, limit) : p \in pages} = rows
                         /\ \A p, q \in pages : p # q => List(from, NoDay, p, limit) \cap List(from, NoDay, q, limit) = {}
    BY DEF PagesCoverList
  <2> DEFINE rows == {m \in Visible : from <= media[m].created}
  <2>1. rows \in SUBSET Nat /\ IsFiniteSet(rows)
    <3>1. rows \in SUBSET Visible /\ Visible \subseteq Nat
      BY <1>1, RowFacts DEF Visible
    <3> QED BY <1>1, <3>1, VisibleFacts
  <2>2. limit \in Nat \ {0}
    BY QuotaAssumption
  <2>3. \A p : List(from, NoDay, p, limit) = Paginate(rows, p, limit)
    BY <1>1, Listed
  <2> HIDE DEF rows
  <2>4. LET pages == 1..TotalPages(Cardinality(rows), limit)
        IN  /\ UNION {Paginate(rows, p, limit) : p \in pages} = rows
            /\ \A p, q \in pages : p # q => Paginate(rows, p, limit) \cap Paginate(rows, q, limit) = {}
    BY <2>1, <2>2, Paged
  <2> QED BY <2>3, <2>4 DEF rows
<1> QED BY <1>1, Invariance, PTL

\* The window a dashboard is asked for is one of days of the calendar.
LEMMA WindowFacts ==
  ASSUME TypeOK, NEW x \in Asked
  PROVE  LET w == ParseMediaStatsPeriod(x[1], x[2])
         IN  w[1] \in 1..Horizon /\ w[2] \in w[1]..Horizon
<1>1. today \in 1..Horizon /\ Days \subseteq 1..Horizon /\ Horizon \in Nat /\ Months \in Nat
  <2>1. today \in Days /\ Days \subseteq 1..Horizon
    BY RowFacts
  <2> QED BY <2>1, MonthFacts
<1>2. CASE x[1] = NoDay
  <2> DEFINE k == MonthOf(today)
  <2>1. k \in 1..Months /\ MonthStart[k] <= today /\ today < MonthStart[k + 1]
    BY <1>1, MonthFound
  <2> HIDE DEF k
  <2>2. MonthStart[k] \in Nat \ {0} /\ MonthStart[k + 1] \in Nat /\ MonthStart[Months + 1] \in Nat
    BY <1>1, <2>1, MonthFacts
  <2>3. MonthStart[k + 1] <= MonthStart[Months + 1]
    <3>1. k + 1 \in 1..(Months + 1) /\ Months + 1 \in (k + 1)..(Months + 1)
      BY <1>1, <2>1
    <3> QED BY <3>1, MonthsRise
  <2>4. Horizon = MonthStart[Months + 1] - 1
    BY MonthFacts
  <2>5. MonthStart[k] \in 1..Horizon /\ MonthStart[k + 1] - 1 \in MonthStart[k]..Horizon
    BY <1>1, <2>1, <2>2, <2>3, <2>4
  <2> QED BY <1>2, <2>5 DEF ParseMediaStatsPeriod, k
<1>3. CASE x[1] # NoDay
  <2>1. /\ x[1] \in 0..Horizon /\ x[2] \in 0..Horizon
        /\ x[1] <= IF x[2] = NoDay THEN today ELSE x[2]
    BY <1>3, QuotaAssumption DEF Asked
  <2>2. x[1] \in 1..Horizon /\ (x[2] # NoDay => x[2] \in 1..Horizon)
    BY <1>1, <1>3, <2>1 DEF NoDay
  <2>3. ParseMediaStatsPeriod(x[1], x[2]) = <<x[1], IF x[2] = NoDay THEN today ELSE x[2]>>
    BY <1>3 DEF ParseMediaStatsPeriod
  <2> QED BY <1>1, <2>1, <2>2, <2>3
<1> QED BY <1>2, <1>3

\* The window compared with ends the day before.
LEMMA PreviousFacts ==
  ASSUME NEW from \in 1..Horizon, NEW to \in from..Horizon
  PROVE  LET p == PreviousStatsPeriod(from, to)
         IN  p[1] \in Nat /\ p[1] <= from /\ p[2] = from - 1
<1>1. Horizon \in Nat /\ from \in Nat /\ to \in Nat /\ from <= to
  BY MonthFacts
<1>2. CASE from = MonthStart[MonthOf(from)] /\ to = MonthStart[MonthOf(from) + 1] - 1
  <2> DEFINE k == MonthOf(from)
             first == IF k = 1 THEN 0 ELSE MonthStart[k - 1]
  <2>1. k \in 1..Months /\ Months \in Nat
    BY MonthFound, MonthFacts
  <2>2. first \in Nat /\ first <= from
    <3>1. CASE k = 1
      BY <1>1, <3>1
    <3>2. CASE k # 1
      <4> HIDE DEF k
      <4>1. k - 1 \in 1..(Months + 1) /\ k \in (k - 1)..(Months + 1)
        BY <2>1, <3>2
      <4>2. MonthStart[k - 1] <= MonthStart[k] /\ MonthStart[k - 1] \in Nat
        BY <4>1, MonthsRise, MonthFacts
      <4> QED BY <1>2, <3>2, <4>2 DEF k
    <3> QED BY <3>1, <3>2
  <2>3. PreviousStatsPeriod(from, to) = <<first, from - 1>>
    BY <1>2 DEF PreviousStatsPeriod
  <2> HIDE DEF first
  <2> QED BY <2>2, <2>3
<1>3. CASE ~ (from = MonthStart[MonthOf(from)] /\ to = MonthStart[MonthOf(from) + 1] - 1)
  <2> DEFINE first == IF to + 1 - from < from THEN from - (to + 1 - from) ELSE 0
  <2>1. first \in Nat /\ first <= from
    BY <1>1
  <2>2. PreviousStatsPeriod(from, to) = <<first, from - 1>>
    BY <1>3 DEF PreviousStatsPeriod
  <2> HIDE DEF first
  <2> QED BY <2>1, <2>2
<1> QED BY <1>2, <1>3

\* Sets without a common element have as many as each together.
LEMMA Apart ==
  ASSUME NEW A, NEW B, IsFiniteSet(A), IsFiniteSet(B), A \cap B = {}
  PROVE  Cardinality(A \cup B) = Cardinality(A) + Cardinality(B)
<1>1. Cardinality(A \cap B) = 0 /\ Cardinality(A) \in Nat /\ Cardinality(B) \in Nat
  BY FS_EmptySet, FS_CardinalityType
<1>2. Cardinality(A \cup B) = Cardinality(A) + Cardinality(B) - Cardinality(A \cap B)
  BY FS_Union
<1> QED BY <1>1, <1>2

\* Two rates of parts of a whole are at most 100.1 percent together.
LEMMA RatesFit ==
  ASSUME NEW a \in Nat, NEW b \in Nat, NEW total \in Nat, a + b <= total
  PROVE  RatePercent(a, total) + RatePercent(b, total) <= 1001
<1>1. CASE total = 0
  <2>1. RatePercent(a, total) = 0 /\ RatePercent(b, total) = 0
    BY <1>1 DEF RatePercent
  <2> QED BY <2>1
<1>2. CASE total # 0
  <2> DEFINE t == 2 * total
             r == (2000 * a + total) \div t
             s == (2000 * b + total) \div t
  <2>1. t \in Nat \ {0} /\ 2000 * a + total \in Nat /\ 2000 * b + total \in Nat
    BY <1>2
  <2>2. /\ r \in Nat /\ r * t \in Nat /\ r * t <= 2000 * a + total
        /\ s \in Nat /\ s * t \in Nat /\ s * t <= 2000 * b + total
    <3> HIDE DEF t
    <3> QED BY <2>1, Division
  <2>3. RatePercent(a, total) = r /\ RatePercent(b, total) = s
    BY <1>2 DEF RatePercent
  <2> HIDE DEF r, s
  <2>4. (r + s) * t = r * t + s * t /\ (r + s) * t \in Nat
    <3> HIDE DEF t
    <3> QED BY <2>1, <2>2
  <2>5. (r + s) * t <= 2002 * total
    BY <2>2, <2>4
  <2>6. 1001 < r + s => 1001 * t + t <= (r + s) * t
    <3>1. r + s \in Nat
      BY <2>2
    <3> HIDE DEF t
    <3> QED BY <2>1, <3>1, Times
  <2>7. 1001 * t + t = 2004 * total
    OBVIOUS
  <2>8. 2004 * total > 2002 * total
    BY <1>2
  <2> QED BY <2>2, <2>3, <2>4, <2>5, <2>6, <2>7, <2>8
<1> QED BY <1>1, <1>2

\* A deleted campaign has no media to list, so its list is not refused for anything,
\* while none is saved late.
LEMMA ListMatches ==
  ASSUME TypeOK, QuotaInv, NEW from, NEW to, from <= to, NEW C \in {{}, {"launch"}}, NEW s, NEW l,
         late => C \cap gone = {}
  PROVE  ListByClient(from, to, C, s, l) = FindPageByClientID(from, to, C, s, l)
<1>1. CASE \A c \in C : CampaignFound(c)
  BY <1>1 DEF ListByClient
<1>2. ASSUME NEW c \in C, ~ CampaignFound(c)
      PROVE  ListByClient(from, to, C, s, l) = FindPageByClientID(from, to, C, s, l)
  <2>1. C = {c}
    OBVIOUS
  <2>2. c \in C \cap gone
    BY <1>2 DEF CampaignFound
  <2>3. ~ late
    BY <2>2
  <2>4. \A n \in Visible : n \in Ids /\ media[n].campaign # c
    BY <2>2, <2>3 DEF QuotaInv, Together, Visible
  <2>5. FindPageByClientID(from, to, C, s, l) = {}
    BY <2>1, <2>4 DEF FindPageByClientID, InWindow
  <2>6. ListByClient(from, to, C, s, l) = {}
    BY <1>2 DEF ListByClient
  <2> QED BY <2>5, <2>6
<1> QED BY <1>1, <1>2

\* The figures over the days are the figures of the window.
LEMMA CountsAddUp ==
  ASSUME TypeOK, QuotaInv, NEW from \in 1..Horizon, NEW to \in from..Horizon,
         NEW C \in {{}, {"launch"}}
  PROVE  LET counts == CountStatsByClientID(from, to, C)
             daily  == CountDailyControls(from, to, C)
             listed == late => C \cap gone = {}
         IN  /\ \A s \in Statuses :
                  /\ listed => counts.status[s] = Cardinality(ListByClient(from, to, C, {s}, {}))
                  /\ counts.status[s] = Total([d \in DOMAIN daily |-> daily[d].status[s]], DOMAIN daily)
             /\ \A l \in AllLabels :
                  listed => counts.label[l] = Cardinality(ListByClient(from, to, C, {}, {l}))
             /\ counts.status["analyzed"] = Total(counts.label, AllLabels)
<1> DEFINE rows == {m \in Visible : InWindow(m, from, to, C)}
           counts == CountStatsByClientID(from, to, C)
           daily == CountDailyControls(from, to, C)
           listed == late => C \cap gone = {}
<1>1. /\ \A s \in Statuses : counts.status[s] = Cardinality({m \in rows : media[m].status = s})
      /\ \A l \in AllLabels : counts.label[l] = Cardinality({m \in rows : media[m].label = l})
      /\ counts.label = [l \in AllLabels |-> Cardinality({m \in rows : media[m].label = l})]
  BY DEF CountStatsByClientID
<1>2. from \in Nat /\ to \in Nat /\ from <= to /\ Horizon \in Nat
  BY MonthFacts
<1>3. listed => \A s, l : ListByClient(from, to, C, s, l) = FindPageByClientID(from, to, C, s, l)
  BY <1>2, ListMatches
<1>4. ASSUME NEW s \in Statuses, listed PROVE counts.status[s] = Cardinality(ListByClient(from, to, C, {s}, {}))
  <2>1. FindPageByClientID(from, to, C, {s}, {}) = {m \in rows : media[m].status = s}
    BY DEF FindPageByClientID
  <2>2. ListByClient(from, to, C, {s}, {}) = FindPageByClientID(from, to, C, {s}, {})
    BY <1>3, <1>4
  <2>3. counts.status[s] = Cardinality({m \in rows : media[m].status = s})
    BY <1>1
  <2> HIDE DEF rows, counts
  <2> QED BY <2>1, <2>2, <2>3
<1>5. ASSUME NEW l \in AllLabels, listed PROVE counts.label[l] = Cardinality(ListByClient(from, to, C, {}, {l}))
  <2>1. FindPageByClientID(from, to, C, {}, {l}) = {m \in rows : media[m].label = l}
    BY DEF FindPageByClientID
  <2>2. ListByClient(from, to, C, {}, {l}) = FindPageByClientID(from, to, C, {}, {l})
    BY <1>3, <1>5
  <2>3. counts.label[l] = Cardinality({m \in rows : media[m].label = l})
    BY <1>1
  <2> HIDE DEF rows, counts
  <2> QED BY <2>1, <2>2, <2>3
<1>6. counts.status["analyzed"] = Total(counts.label, AllLabels)
  <2> DEFINE key == [m \in Ids |-> media[m].label]
  <2>1. \A m \in rows : m \in Ids /\ key[m] = media[m].label
    BY DEF Visible
  <2>2. IsFiniteSet(rows) /\ IsFiniteSet(AllLabels)
    <3>1. rows \in SUBSET Visible
      OBVIOUS
    <3>2. IsFiniteSet(AllLabels)
      <4>1. IsFiniteSet({}) /\ IsFiniteSet({} \cup {"human"}) /\ IsFiniteSet(({} \cup {"human"}) \cup {"ai_generated"})
            /\ IsFiniteSet((({} \cup {"human"}) \cup {"ai_generated"}) \cup {"uncertain"})
        BY FS_EmptySet, FS_AddElement
      <4>2. AllLabels = (({} \cup {"human"}) \cup {"ai_generated"}) \cup {"uncertain"}
        BY DEF AllLabels
      <4> QED BY <4>1, <4>2
    <3> QED BY <3>1, <3>2, VisibleFacts
  <2>3. \A l \in AllLabels : {m \in rows : media[m].label = l} = {m \in rows : key[m] = l}
    BY <2>1
  <2>4. {m \in rows : key[m] \in AllLabels} = {m \in rows : media[m].status = "analyzed"}
    <3>1. \A m \in rows : media[m].status = "analyzed" <=> media[m].label # "none"
      BY <2>1 DEF QuotaInv, Progress
    <3>2. \A m \in rows : media[m].label \in AllLabels \cup {"none"}
      BY <2>1, MediaFields
    <3>3. "none" \notin AllLabels
      BY DEF AllLabels
    <3> HIDE DEF key, rows
    <3> QED BY <2>1, <3>1, <3>2, <3>3
  <2> HIDE DEF rows, key
  <2>5. counts.label = [l \in AllLabels |-> Cardinality({m \in rows : key[m] = l})]
    BY <1>1, <2>3
  <2>6. Total(counts.label, AllLabels) = Cardinality({m \in rows : key[m] \in AllLabels})
    BY <2>2, <2>5, TotalCount
  <2>7. "analyzed" \in Statuses
    BY DEF Statuses
  <2> QED BY <1>1, <2>4, <2>6, <2>7
<1>7. ASSUME NEW s \in Statuses
      PROVE  counts.status[s] = Total([d \in DOMAIN daily |-> daily[d].status[s]], DOMAIN daily)
  <2> DEFINE R == {m \in rows : media[m].status = s}
             D == {media[m].created : m \in rows}
             key == [m \in Ids |-> media[m].created]
  <2>1. /\ DOMAIN daily = D
        /\ \A d \in D : daily[d].status[s] =
             Cardinality({m \in {n \in Visible : InWindow(n, d, d, C)} : media[m].status = s})
    BY DEF CountDailyControls, CountStatsByClientID
  <2>2. \A m \in rows : m \in Ids /\ key[m] = media[m].created /\ media[m].created \in D
    BY DEF Visible
  <2>3. IsFiniteSet(R) /\ R \subseteq rows
    <3>1. R \in SUBSET Visible
      OBVIOUS
    <3> QED BY <3>1, VisibleFacts
  <2>4. D \subseteq from..to /\ IsFiniteSet(D)
    <3>1. \A m \in rows : media[m].created \in Nat /\ from <= media[m].created /\ media[m].created <= to
      BY <2>2, MediaFields DEF InWindow
    <3>2. D \in SUBSET (from..to)
      BY <1>2, <3>1
    <3> HIDE DEF D
    <3>3. IsFiniteSet(from..to)
      BY <1>2, FS_Interval
    <3> QED BY <3>2, <3>3, FS_Subset
  <2>5. ASSUME NEW d \in D
        PROVE  {m \in {n \in Visible : InWindow(n, d, d, C)} : media[m].status = s} = {m \in R : key[m] = d}
    <3>1. d \in Nat /\ from <= d /\ d <= to
      BY <1>2, <2>4
    <3>2. \A m \in Visible : m \in Ids /\ media[m].created \in Nat
      BY MediaFields DEF Visible
    <3>3. ASSUME NEW m \in Visible
          PROVE  InWindow(m, d, d, C) <=> InWindow(m, from, to, C) /\ key[m] = d
      <4>1. (d <= media[m].created /\ media[m].created <= d) <=> media[m].created = d
        BY <3>1, <3>2
      <4>2. key[m] = media[m].created
        BY <3>2
      <4> HIDE DEF key
      <4> QED BY <3>1, <4>1, <4>2 DEF InWindow
    <3> HIDE DEF key
    <3> QED BY <3>3
  <2>6. {m \in R : key[m] \in D} = {m \in rows : media[m].status = s}
    BY <2>2
  <2> HIDE DEF R, D, key, rows, counts, daily
  <2>7. [d \in DOMAIN daily |-> daily[d].status[s]] = [d \in D |-> Cardinality({m \in R : key[m] = d})]
    BY <2>1, <2>5
  <2>8. Total([d \in DOMAIN daily |-> daily[d].status[s]], DOMAIN daily) = Cardinality({m \in R : key[m] \in D})
    <3>1. Total([d \in D |-> Cardinality({m \in R : key[m] = d})], D) = Cardinality({m \in R : key[m] \in D})
      <4>1. IsFiniteSet(R) /\ IsFiniteSet(D)
        BY <2>3, <2>4
      <4> QED BY ONLY <4>1, TotalCount
    <3> QED BY <2>1, <2>7, <3>1
  <2> QED BY <1>1, <2>6, <2>8
<1> HIDE DEF counts, daily, listed
<1>8. /\ \A s \in Statuses :
           /\ listed => counts.status[s] = Cardinality(ListByClient(from, to, C, {s}, {}))
           /\ counts.status[s] = Total([d \in DOMAIN daily |-> daily[d].status[s]], DOMAIN daily)
      /\ \A l \in AllLabels : listed => counts.label[l] = Cardinality(ListByClient(from, to, C, {}, {l}))
      /\ counts.status["analyzed"] = Total(counts.label, AllLabels)
  BY <1>4, <1>5, <1>6, <1>7
<1> QED BY <1>8 DEF counts, daily, listed

\* The verifications of a window are those of each verdict, and with those of the
\* window before it make the ones of both.
LEMMA KPIsAddUp ==
  ASSUME TypeOK, QuotaInv, NEW from \in 1..Horizon, NEW to \in from..Horizon, NEW C
  PROVE  LET k == DashboardKPIs(from, to, C)
         IN  /\ k.verifications = k.validated + k.toReview + k.aiGenerated
             /\ k.verifications + k.previous = Verified(PreviousStatsPeriod(from, to)[1], to, C, AllLabels)
             /\ k.authenticityRate + k.aiShare <= 1001
<1> DEFINE k == DashboardKPIs(from, to, C)
           p == PreviousStatsPeriod(from, to)
           In(a, b, L) == {m \in Visible : /\ media[m].status = "analyzed"
                                           /\ a <= media[m].analyzedAt /\ media[m].analyzedAt <= b
                                           /\ C # {} => media[m].campaign \in C
                                           /\ media[m].label \in L}
           H == In(from, to, {"human"})
           U == In(from, to, {"uncertain"})
           A == In(from, to, {"ai_generated"})
           All == In(from, to, AllLabels)
           Before == In(p[1], p[2], AllLabels)
           Both == In(p[1], to, AllLabels)
<1>1. /\ k.verifications = Cardinality(All) /\ k.validated = Cardinality(H)
      /\ k.toReview = Cardinality(U) /\ k.aiGenerated = Cardinality(A)
      /\ k.previous = Cardinality(Before)
      /\ k.authenticityRate = RatePercent(Cardinality(H), Cardinality(All))
      /\ k.aiShare = RatePercent(Cardinality(A), Cardinality(All))
  BY DEF DashboardKPIs, Verified
<1>2. Verified(p[1], to, C, AllLabels) = Cardinality(Both)
  BY DEF Verified
<1>3. \A a, b, L : IsFiniteSet(In(a, b, L)) /\ Cardinality(In(a, b, L)) \in Nat
  <2> TAKE a, b, L
  <2>1. In(a, b, L) \in SUBSET Visible
    OBVIOUS
  <2> HIDE DEF In
  <2> QED BY <2>1, VisibleFacts
<1>4. /\ H \cap U = {} /\ (H \cup U) \cap A = {} /\ (H \cup U) \cup A = All
  BY DEF AllLabels
<1>5. /\ Before \cap All = {} /\ Before \cup All = Both
  <2>1. p[1] \in Nat /\ p[1] <= from /\ p[2] = from - 1
    BY PreviousFacts
  <2>2. from \in Nat /\ to \in Nat /\ from <= to
    BY MonthFacts
  <2>3. \A m \in Visible : media[m].analyzedAt \in Nat
    BY MediaFields DEF Visible
  <2> HIDE DEF p
  <2>4. \A t \in Nat : /\ ~ (t <= p[2] /\ from <= t)
                       /\ (p[1] <= t /\ t <= p[2]) \/ (from <= t /\ t <= to) <=> p[1] <= t /\ t <= to
    BY <2>1, <2>2
  <2> QED BY <2>3, <2>4
<1>6. /\ IsFiniteSet(H) /\ IsFiniteSet(U) /\ IsFiniteSet(A) /\ IsFiniteSet(All) /\ IsFiniteSet(Before)
      /\ Cardinality(H) \in Nat /\ Cardinality(U) \in Nat /\ Cardinality(A) \in Nat
      /\ Cardinality(All) \in Nat /\ Cardinality(Before) \in Nat
  <2> HIDE DEF In
  <2> QED BY <1>3
<1> HIDE DEF k, p, H, U, A, All, Before, Both
<1>7. Cardinality(All) = Cardinality(H) + Cardinality(U) + Cardinality(A)
  <2>1. Cardinality(H \cup U) = Cardinality(H) + Cardinality(U)
    BY <1>4, <1>6, Apart
  <2>2. IsFiniteSet(H \cup U)
    BY <1>6, FS_Union
  <2>3. Cardinality((H \cup U) \cup A) = Cardinality(H \cup U) + Cardinality(A)
    BY <1>4, <1>6, <2>2, Apart
  <2> QED BY <1>4, <2>1, <2>3
<1>8. Cardinality(All) + Cardinality(Before) = Cardinality(Both)
  <2>1. Cardinality(Before \cup All) = Cardinality(Before) + Cardinality(All)
    BY <1>5, <1>6, Apart
  <2>2. Cardinality(Before \cup All) = Cardinality(Both)
    BY <1>5
  <2> QED BY <1>6, <2>1, <2>2
<1>9. Cardinality(H) + Cardinality(A) <= Cardinality(All)
  BY <1>6, <1>7
<1>10. RatePercent(Cardinality(H), Cardinality(All)) + RatePercent(Cardinality(A), Cardinality(All)) <= 1001
  BY <1>6, <1>9, RatesFit
<1>11. /\ k.verifications = k.validated + k.toReview + k.aiGenerated
       /\ k.verifications + k.previous = Verified(p[1], to, C, AllLabels)
       /\ k.authenticityRate + k.aiShare <= 1001
  BY <1>1, <1>2, <1>6, <1>7, <1>8, <1>10
<1> QED BY <1>11 DEF k, p

\* The counters of a campaign have every day in their window.
LEMMA CampaignCounts ==
  ASSUME TypeOK, NEW c \in CampaignIds
  PROVE  AttachContentCounts(c) = CountStatsByClientID(1, Horizon, {c})
<1>1. ASSUME NEW m \in Visible PROVE InWindow(m, 1, Horizon, {c}) <=> media[m].campaign = c
  <2>1. media[m].created \in 1..Horizon
    BY RowFacts, MediaFields DEF Visible
  <2>2. 1 <= media[m].created /\ media[m].created <= Horizon
    BY <2>1, MonthFacts
  <2> QED BY <2>2 DEF InWindow
<1>2. {m \in Visible : media[m].campaign = c} = {m \in Visible : InWindow(m, 1, Horizon, {c})}
  BY <1>1
<1> QED BY <1>2 DEF AttachContentCounts, CountStatsByClientID

\* The dashboard, its days, its verdicts and its campaigns agree, for any number of
\* media, every window and any calendar; so do the lists it links to, but that of a
\* deleted campaign once a media was saved after a deletion by a request or handler
\* that had read before it.
THEOREM DashboardAlwaysAddsUp == Spec => []DashboardAddsUp
<1>1. ASSUME TypeOK, QuotaInv PROVE DashboardAddsUp
  <2> DEFINE Agree(w, campaigns) ==
               LET stats == Stats(w, campaigns)
                   total(s, l) == Cardinality(ListByClient(w[1], w[2], campaigns, s, l))
                   listed == late => campaigns \cap gone = {}
               IN /\ \A s \in Statuses :
                       /\ listed => stats.counts.status[s] = total({s}, {})
                       /\ stats.counts.status[s] =
                            Total([d \in DOMAIN stats.daily |-> stats.daily[d].status[s]], DOMAIN stats.daily)
                  /\ \A l \in AllLabels : listed => stats.counts.label[l] = total({}, {l})
                  /\ stats.counts.status["analyzed"] = Total(stats.counts.label, AllLabels)
                  /\ stats.kpis.verifications = stats.kpis.validated + stats.kpis.toReview + stats.kpis.aiGenerated
                  /\ stats.kpis.verifications + stats.kpis.previous =
                       Verified(PreviousStatsPeriod(w[1], w[2])[1], w[2], campaigns, AllLabels)
                  /\ stats.kpis.authenticityRate + stats.kpis.aiShare <= 1001
  <2>1. ASSUME NEW w, w[1] \in 1..Horizon, w[2] \in w[1]..Horizon, NEW campaigns \in {{}, {"launch"}}
        PROVE  Agree(w, campaigns)
    <3> DEFINE counts == CountStatsByClientID(w[1], w[2], campaigns)
               daily == CountDailyControls(w[1], w[2], campaigns)
               kpis == DashboardKPIs(w[1], w[2], campaigns)
               listed == late => campaigns \cap gone = {}
    <3>1. /\ \A s \in Statuses :
               /\ listed => counts.status[s] = Cardinality(ListByClient(w[1], w[2], campaigns, {s}, {}))
               /\ counts.status[s] = Total([d \in DOMAIN daily |-> daily[d].status[s]], DOMAIN daily)
          /\ \A l \in AllLabels : listed => counts.label[l] = Cardinality(ListByClient(w[1], w[2], campaigns, {}, {l}))
          /\ counts.status["analyzed"] = Total(counts.label, AllLabels)
      BY <1>1, <2>1, CountsAddUp
    <3>2. /\ kpis.verifications = kpis.validated + kpis.toReview + kpis.aiGenerated
          /\ kpis.verifications + kpis.previous =
               Verified(PreviousStatsPeriod(w[1], w[2])[1], w[2], campaigns, AllLabels)
          /\ kpis.authenticityRate + kpis.aiShare <= 1001
      BY <1>1, <2>1, KPIsAddUp
    <3>3. Stats(w, campaigns) = [counts |-> counts, daily |-> daily, kpis |-> kpis]
      BY DEF Stats
    <3> HIDE DEF counts, daily, kpis, listed
    <3>4. /\ Stats(w, campaigns).counts = counts /\ Stats(w, campaigns).daily = daily
          /\ Stats(w, campaigns).kpis = kpis
      BY <3>3
    <3>5. /\ \A s \in Statuses :
               /\ listed => Stats(w, campaigns).counts.status[s]
                              = Cardinality(ListByClient(w[1], w[2], campaigns, {s}, {}))
               /\ Stats(w, campaigns).counts.status[s]
                    = Total([d \in DOMAIN Stats(w, campaigns).daily |-> Stats(w, campaigns).daily[d].status[s]],
                            DOMAIN Stats(w, campaigns).daily)
          /\ \A l \in AllLabels : listed => Stats(w, campaigns).counts.label[l]
                                         = Cardinality(ListByClient(w[1], w[2], campaigns, {}, {l}))
      BY <3>1, <3>4
    <3> QED BY <3>1, <3>2, <3>4, <3>5 DEF listed
  <2> HIDE DEF Agree
  <2>2. \A x \in Asked : \A campaigns \in {{}, {"launch"}} :
          Agree(ParseMediaStatsPeriod(x[1], x[2]), campaigns)
    BY <1>1, <2>1, WindowFacts
  <2>3. \A w \in {ParseMediaStatsPeriod(x[1], x[2]) : x \in Asked}, campaigns \in {{}, {"launch"}} :
          Agree(w, campaigns)
    BY <2>2
  <2>4. \A c \in CampaignIds : AttachContentCounts(c) = CountStatsByClientID(1, Horizon, {c})
    BY <1>1, CampaignCounts
  <2> QED BY <2>3, <2>4 DEF DashboardAddsUp, Agree
<1> QED BY <1>1, Invariance, PTL

=============================================================================
