-------------------------------- MODULE Sums --------------------------------
(***************************************************************************)
(* Sums over finite sets, as the library's MapThenSumSet computes them:    *)
(* what the provers do not know of its recursion, by an induction that     *)
(* takes a smallest counterexample; and what rounding does to an amount.   *)
(***************************************************************************)
EXTENDS Integers, FiniteSets, FiniteSetsExt, Money, FiniteSetTheorems, TLAPS

\* The sum of f[x] for x in S.
Total(f, S) == MapThenSumSet(LAMBDA x : f[x], S)

-----------------------------------------------------------------------------
\* Of the subsets of a finite set that have some property, one is smallest.
LEMMA Smallest ==
    ASSUME NEW S, IsFiniteSet(S), NEW C, C \subseteq SUBSET S, C # {}
    PROVE  \E T \in C : \A U \in C : U \subseteq T => U = T
<1>1. C \subseteq FiniteSubsetsOf(S)
  BY FS_Subset DEF FiniteSubsetsOf
<1>2. PICK T \in C : \A U \in C : ~(<<U, T>> \in StrictSubsetOrdering(S))
  BY <1>1, FS_StrictSubsetOrderingWellFounded, WFMin
<1>3. \A U \in C : U \subseteq T => U = T
  BY <1>2 DEF StrictSubsetOrdering
<1> QED
  BY <1>3

-----------------------------------------------------------------------------
(* The table of the sums over all subsets.                                 *)

First(T) == CHOOSE x \in T : TRUE

IsTable(g, f, S) ==
    g = [T \in SUBSET S |->
           IF T = {} THEN 0 ELSE f[First(T)] + g[T \ {First(T)}]]

LEMMA TotalIsEntry ==
    ASSUME NEW f, NEW S
    PROVE  Total(f, S) = (CHOOSE g : IsTable(g, f, S))[S]
BY DEF Total, MapThenSumSet, MapThenFoldSet, IsTable, First

LEMMA EntryOf ==
    ASSUME NEW f, NEW S, NEW g, IsTable(g, f, S), NEW T \in SUBSET S
    PROVE  /\ T = {} => g[T] = 0
           /\ T # {} => /\ First(T) \in T
                        /\ T \ {First(T)} \in SUBSET S
                        /\ g[T] = f[First(T)] + g[T \ {First(T)}]
<1>1. T # {} => First(T) \in T
  BY DEF First
<1> DEFINE e(R) == IF R = {} THEN 0 ELSE f[First(R)] + g[R \ {First(R)}]
<1>2. g = [R \in SUBSET S |-> e(R)]
  BY DEF IsTable
<1> HIDE DEF e
<1>3. g[T] = e(T)
  BY <1>2
<1> QED
  BY <1>1, <1>3 DEF e

\* Two tables agree where they overlap.
LEMMA TablesAgree ==
    ASSUME NEW f, NEW S, IsFiniteSet(S), NEW R, NEW g, NEW h,
           IsTable(g, f, S), IsTable(h, f, R), NEW T \in SUBSET (S \cap R)
    PROVE  g[T] = h[T]
<1> DEFINE Bad == {U \in SUBSET (S \cap R) : g[U] # h[U]}
<1>1. SUFFICES ASSUME Bad # {} PROVE FALSE
  OBVIOUS
<1>2. Bad \subseteq SUBSET S
  OBVIOUS
<1>3. \E U \in Bad : \A W \in Bad : W \subseteq U => W = U
  <2> HIDE DEF Bad
  <2> QED
    BY <1>1, <1>2, Smallest
<1>4. PICK U \in Bad : \A W \in Bad : W \subseteq U => W = U
  BY <1>3
<1>5. U \in SUBSET S /\ U \in SUBSET R /\ U \in SUBSET (S \cap R)
  OBVIOUS
<1>6. /\ U = {} => g[U] = 0
      /\ U # {} => /\ First(U) \in U
                   /\ g[U] = f[First(U)] + g[U \ {First(U)}]
  BY <1>5, EntryOf
<1>7. /\ U = {} => h[U] = 0
      /\ U # {} => h[U] = f[First(U)] + h[U \ {First(U)}]
  BY <1>5, EntryOf
<1>8. U # {} => U \ {First(U)} \notin Bad
  BY <1>4, <1>6
<1> QED
  BY <1>5, <1>6, <1>7, <1>8

LEMMA TableExists ==
    ASSUME NEW f, NEW S, IsFiniteSet(S)
    PROVE  \E g : IsTable(g, f, S)
<1> DEFINE Bad == {U \in SUBSET S : ~\E g : IsTable(g, f, U)}
<1>1. SUFFICES ASSUME Bad # {} PROVE FALSE
  OBVIOUS
<1>2. Bad \subseteq SUBSET S
  OBVIOUS
<1>3. \E U \in Bad : \A W \in Bad : W \subseteq U => W = U
  <2> HIDE DEF Bad
  <2> QED
    BY <1>1, <1>2, Smallest
<1>4. PICK U \in Bad : \A W \in Bad : W \subseteq U => W = U
  BY <1>3
<1>5. \A W \in SUBSET U : W # U => \E g : IsTable(g, f, W)
  BY <1>4
<1> DEFINE table(W) == CHOOSE g : IsTable(g, f, W)
           sum(W) == IF W = {} THEN 0
                     ELSE f[First(W)] + table(W \ {First(W)})[W \ {First(W)}]
           h == [W \in SUBSET U |-> sum(W)]
<1>6. \A W \in SUBSET U : W # U => IsTable(table(W), f, W)
  BY <1>5
<1>7. ASSUME NEW W \in SUBSET U, W # U
      PROVE  table(W)[W] = sum(W)
  <2>1. IsTable(table(W), f, W)
    BY <1>6, <1>7
  <2> DEFINE g == table(W)
             V == W \ {First(W)}
  <2> HIDE DEF table, g
  <2>2. CASE W = {}
    BY <2>1, <2>2, EntryOf
  <2>3. CASE W # {}
    <3>1. First(W) \in W /\ table(W)[W] = f[First(W)] + table(W)[V]
      BY <2>1, <2>3, EntryOf
    <3>2. IsTable(table(V), f, V)
      BY <1>6, <1>7, <3>1
    <3>3. IsFiniteSet(W)
      BY FS_Subset, <1>4
    <3>4. table(W)[V] = table(V)[V]
      <4> HIDE DEF V
      <4>1. V \in SUBSET (W \cap V)
        BY DEF V
      <4> QED
        BY <2>1, <3>2, <3>3, <4>1, TablesAgree
    <3> QED
      BY <2>3, <3>1, <3>4
  <2> QED
    BY <2>2, <2>3
<1>8. IsTable(h, f, U)
  <2>1. ASSUME NEW W \in SUBSET U, W # {}
        PROVE  h[W \ {First(W)}] = table(W \ {First(W)})[W \ {First(W)}]
    <3>1. First(W) \in W
      BY <2>1 DEF First
    <3>2. W \ {First(W)} \in SUBSET U /\ W \ {First(W)} # U
      BY <3>1
    <3> HIDE DEF table, sum
    <3> QED
      BY <1>7, <3>2
  <2>2. \A W \in SUBSET U :
          sum(W) = IF W = {} THEN 0 ELSE f[First(W)] + h[W \ {First(W)}]
    <3> HIDE DEF table, h
    <3> QED
      BY <2>1
  <2> HIDE DEF table, sum
  <2> QED
    BY <2>2 DEF IsTable
<1> HIDE DEF h
<1> QED
  BY <1>4, <1>8

-----------------------------------------------------------------------------
(* What a sum satisfies.                                                   *)

LEMMA TotalFirst ==
    ASSUME NEW f, NEW S, IsFiniteSet(S)
    PROVE  /\ S = {} => Total(f, S) = 0
           /\ S # {} => /\ First(S) \in S
                        /\ Total(f, S) = f[First(S)] + Total(f, S \ {First(S)})
<1> DEFINE g == CHOOSE t : IsTable(t, f, S)
           R == S \ {First(S)}
           h == CHOOSE t : IsTable(t, f, R)
<1>1. IsFiniteSet(R)
  BY FS_RemoveElement
<1>2. IsTable(g, f, S) /\ IsTable(h, f, R)
  BY <1>1, TableExists
<1>3. Total(f, S) = g[S] /\ Total(f, R) = h[R]
  BY TotalIsEntry
<1>4. R \in SUBSET (S \cap R) /\ R = S \ {First(S)}
  OBVIOUS
<1> HIDE DEF g, h, R
<1>5. g[R] = h[R]
  BY <1>2, <1>4, TablesAgree
<1>6. /\ S = {} => g[S] = 0
      /\ S # {} => First(S) \in S /\ g[S] = f[First(S)] + g[S \ {First(S)}]
  <2>1. S \in SUBSET S
    OBVIOUS
  <2> QED
    BY <1>2, <2>1, EntryOf
<1> QED
  BY <1>3, <1>4, <1>5, <1>6

\* The sum of the empty set.
LEMMA TotalEmpty ==
    ASSUME NEW f
    PROVE  Total(f, {}) = 0
BY TotalFirst, FS_EmptySet

\* A sum is a number, and any element may be the one that is added last.
LEMMA TotalTypeAndPick ==
    ASSUME NEW S, IsFiniteSet(S), NEW f, \A x \in S : f[x] \in Int
    PROVE  /\ Total(f, S) \in Int
           /\ \A x \in S : Total(f, S) = f[x] + Total(f, S \ {x})
<1> DEFINE Good(T) == /\ Total(f, T) \in Int
                      /\ \A x \in T : Total(f, T) = f[x] + Total(f, T \ {x})
           Bad == {T \in SUBSET S : ~Good(T)}
<1>1. SUFFICES ASSUME Bad # {} PROVE FALSE
  OBVIOUS
<1>2. Bad \subseteq SUBSET S
  OBVIOUS
<1>3. \E T \in Bad : \A W \in Bad : W \subseteq T => W = T
  <2> HIDE DEF Bad
  <2> QED
    BY <1>1, <1>2, Smallest
<1>4. PICK T \in Bad : \A W \in Bad : W \subseteq T => W = T
  BY <1>3
<1>5. \A W \in SUBSET T : IsFiniteSet(W) /\ (W # T => Good(W))
  <2> HIDE DEF Good
  <2> QED
    BY <1>2, <1>4, FS_Subset
<1>6. ~Good(T)
  OBVIOUS
<1>7. ASSUME T = {} PROVE FALSE
  <2>1. Total(f, {}) = 0
    BY TotalEmpty
  <2> QED
    BY <1>6, <1>7, <2>1
<1> DEFINE y == First(T)
           R == T \ {y}
<1>8. y \in T /\ R \in SUBSET T /\ R # T /\ Total(f, T) = f[y] + Total(f, R)
  BY <1>5, <1>7, TotalFirst
<1> HIDE DEF y
<1>9. Good(R) /\ f[y] \in Int
  <2> HIDE DEF Good
  <2> QED
    BY <1>5, <1>8
<1>10. Total(f, T) \in Int
  BY <1>8, <1>9
<1>11. ASSUME NEW x \in T, x # y
       PROVE  Total(f, T) = f[x] + Total(f, T \ {x})
  <2> DEFINE Q == R \ {x}
  <2>1. Total(f, R) = f[x] + Total(f, Q)
    BY <1>9, <1>11
  <2>2. /\ T \ {x} \in SUBSET T /\ T \ {x} # T
        /\ y \in T \ {x} /\ (T \ {x}) \ {y} = Q
    BY <1>8, <1>11
  <2>3. Good(T \ {x})
    <3> HIDE DEF Good
    <3> QED
      BY <1>5, <2>2
  <2>4. Total(f, T \ {x}) = f[y] + Total(f, Q)
    <3>1. Total(f, T \ {x}) = f[y] + Total(f, (T \ {x}) \ {y})
      BY <2>2, <2>3
    <3> QED
      BY <3>1, <2>2
  <2>5. Total(f, Q) \in Int
    <3>1. Q \in SUBSET T /\ Q # T
      BY <1>8
    <3>2. Good(Q)
      <4> HIDE DEF Good, Q
      <4> QED
        BY <1>5, <3>1
    <3> QED
      BY <3>2
  <2>6. f[x] \in Int
    BY <1>4
  <2> HIDE DEF Q
  <2> QED
    BY <1>8, <1>9, <2>1, <2>4, <2>5, <2>6
<1> QED
  BY <1>6, <1>8, <1>10, <1>11

LEMMA TotalType ==
    ASSUME NEW S, IsFiniteSet(S), NEW f, \A x \in S : f[x] \in Int
    PROVE  Total(f, S) \in Int
BY TotalTypeAndPick

LEMMA TotalPick ==
    ASSUME NEW S, IsFiniteSet(S), NEW f, \A x \in S : f[x] \in Int, NEW y \in S
    PROVE  Total(f, S) = f[y] + Total(f, S \ {y})
BY TotalTypeAndPick

\* A sum grows with its summands.
LEMMA TotalMonotone ==
    ASSUME NEW S, IsFiniteSet(S), NEW f, \A x \in S : f[x] \in Int,
           NEW g, \A x \in S : g[x] \in Int, \A x \in S : f[x] <= g[x]
    PROVE  Total(f, S) <= Total(g, S)
<1> DEFINE Bad == {T \in SUBSET S : ~(Total(f, T) <= Total(g, T))}
<1>1. SUFFICES ASSUME Bad # {} PROVE FALSE
  OBVIOUS
<1>2. Bad \subseteq SUBSET S
  OBVIOUS
<1>3. \E T \in Bad : \A W \in Bad : W \subseteq T => W = T
  <2> HIDE DEF Bad
  <2> QED
    BY <1>1, <1>2, Smallest
<1>4. PICK T \in Bad : \A W \in Bad : W \subseteq T => W = T
  BY <1>3
<1>5. IsFiniteSet(T) /\ T \subseteq S
  BY <1>4, FS_Subset
<1>6. ASSUME T = {} PROVE FALSE
  <2>1. Total(f, {}) = 0 /\ Total(g, {}) = 0
    BY TotalEmpty
  <2> QED
    BY <1>4, <1>6, <2>1
<1>7. PICK y \in T : TRUE
  BY <1>6
<1> DEFINE R == T \ {y}
<1>8. IsFiniteSet(R) /\ R \notin Bad /\ R \in SUBSET S
  BY <1>4, <1>5, <1>7, FS_RemoveElement
<1>9. Total(f, R) <= Total(g, R)
  BY <1>8
<1>10. Total(f, R) \in Int /\ Total(g, R) \in Int
  <2> HIDE DEF R
  <2> QED
    BY <1>8, TotalType
<1>11. Total(f, T) = f[y] + Total(f, R) /\ Total(g, T) = g[y] + Total(g, R)
  BY <1>5, <1>7, TotalPick
<1>12. f[y] \in Int /\ g[y] \in Int /\ f[y] <= g[y]
  BY <1>5, <1>7
<1>13. ~(Total(f, T) <= Total(g, T))
  BY <1>4
<1> HIDE DEF R
<1> QED
  BY <1>9, <1>10, <1>11, <1>12, <1>13

\* A sum depends on the summands only.
LEMMA TotalSame ==
    ASSUME NEW S, IsFiniteSet(S), NEW f, NEW g,
           \A x \in S : f[x] \in Int /\ g[x] = f[x]
    PROVE  Total(f, S) = Total(g, S)
<1>1. \A x \in S : f[x] \in Int /\ g[x] \in Int /\ f[x] <= g[x] /\ g[x] <= f[x]
  OBVIOUS
<1>2. Total(f, S) <= Total(g, S) /\ Total(g, S) <= Total(f, S)
  BY <1>1, TotalMonotone
<1>3. Total(f, S) \in Int /\ Total(g, S) \in Int
  BY <1>1, TotalType
<1> QED
  BY <1>2, <1>3

\* A summand that changes takes the sum with it.
LEMMA TotalChange ==
    ASSUME NEW S, IsFiniteSet(S), NEW f, NEW g, NEW y \in S,
           \A x \in S : f[x] \in Int /\ g[x] \in Int,
           \A x \in S \ {y} : g[x] = f[x]
    PROVE  Total(g, S) = Total(f, S) + (g[y] - f[y])
<1> DEFINE R == S \ {y}
<1>1. Total(f, S) = f[y] + Total(f, R) /\ Total(g, S) = g[y] + Total(g, R)
  BY TotalPick
<1>2. IsFiniteSet(R)
  BY FS_RemoveElement
<1>3. Total(f, R) = Total(g, R)
  BY <1>2, TotalSame
<1>4. Total(f, R) \in Int
  BY <1>2, TotalType
<1> HIDE DEF R
<1> QED
  BY <1>1, <1>3, <1>4

\* Zeros may be left out.
LEMMA TotalWithin ==
    ASSUME NEW S, IsFiniteSet(S), NEW R, R \subseteq S,
           NEW f, \A x \in S : f[x] \in Int, \A x \in S \ R : f[x] = 0
    PROVE  Total(f, S) = Total(f, R)
<1> DEFINE Bad == {T \in SUBSET S : R \subseteq T /\ Total(f, T) # Total(f, R)}
<1>1. SUFFICES ASSUME Bad # {} PROVE FALSE
  OBVIOUS
<1>2. Bad \subseteq SUBSET S
  OBVIOUS
<1>3. \E T \in Bad : \A W \in Bad : W \subseteq T => W = T
  <2> HIDE DEF Bad
  <2> QED
    BY <1>1, <1>2, Smallest
<1>4. PICK T \in Bad : \A W \in Bad : W \subseteq T => W = T
  BY <1>3
<1>5. T \subseteq S /\ R \subseteq T /\ T # R /\ IsFiniteSet(T)
  BY <1>4, FS_Subset
<1>6. PICK y \in T : y \notin R
  BY <1>5
<1> DEFINE V == T \ {y}
<1>7. V \in SUBSET S /\ R \subseteq V /\ V \notin Bad
  BY <1>4, <1>5, <1>6
<1>8. Total(f, V) = Total(f, R)
  BY <1>7
<1>9. Total(f, T) = f[y] + Total(f, V)
  BY <1>5, <1>6, TotalPick
<1>10. f[y] = 0 /\ Total(f, V) \in Int
  <2>1. IsFiniteSet(V) /\ \A x \in V : f[x] \in Int
    BY <1>5, <1>6, FS_RemoveElement
  <2> HIDE DEF V
  <2> QED
    BY <1>5, <1>6, <2>1, TotalType
<1>11. Total(f, T) # Total(f, R)
  BY <1>4
<1> HIDE DEF V
<1> QED
  BY <1>8, <1>9, <1>10, <1>11

\* What adds up natural numbers is one.
LEMMA TotalIsNatural ==
    ASSUME NEW S, IsFiniteSet(S), NEW f, \A x \in S : f[x] \in Nat
    PROVE  Total(f, S) \in Nat
<1>1. PICK z : z = [x \in S |-> 0]
  OBVIOUS
<1>2. \A x \in S : z[x] \in Int /\ f[x] \in Int /\ z[x] <= f[x] /\ z[x] = 0
  BY <1>1
<1>3. Total(z, S) <= Total(f, S)
  BY ONLY <1>2, IsFiniteSet(S), TotalMonotone
<1>4. Total(f, S) \in Int
  BY ONLY <1>2, IsFiniteSet(S), TotalType
<1>5. Total(z, S) = Total(z, {})
  <2>1. {} \subseteq S
    OBVIOUS
  <2> QED
    BY ONLY <1>2, <2>1, IsFiniteSet(S), TotalWithin
<1>6. Total(z, {}) = 0
  BY TotalEmpty
<1> QED
  BY <1>3, <1>4, <1>5, <1>6

-----------------------------------------------------------------------------
(* Rounding.                                                               *)

LEMMA QuotientBounds ==
    ASSUME NEW a \in Nat, NEW b \in Nat \ {0}
    PROVE  /\ a \div b \in Nat
           /\ b * (a \div b) <= a
           /\ a < b * (a \div b) + b
OBVIOUS

\* A rounded amount is off by at most half a unit.
LEMMA RoundedNear ==
    ASSUME NEW amount \in Nat, NEW unit \in Nat \ {0}
    PROVE  /\ Rounded(amount, unit) \in Nat
           /\ 2 * Rounded(amount, unit) <= 2 * amount + unit
           /\ 2 * Rounded(amount, unit) >= 2 * amount - unit
<1> DEFINE q == (2 * amount + unit) \div (2 * unit)
<1>1. 2 * amount + unit \in Nat /\ 2 * unit \in Nat \ {0}
  OBVIOUS
<1>2. /\ q \in Nat
      /\ (2 * unit) * q <= 2 * amount + unit
      /\ 2 * amount + unit < (2 * unit) * q + 2 * unit
  BY ONLY <1>1, QuotientBounds, Zenon
<1>3. (2 * unit) * q = 2 * (unit * q) /\ unit * q \in Nat
  BY <1>2
<1>4. Rounded(amount, unit) = unit * q
  BY DEF Rounded
<1> HIDE DEF q
<1> QED
  BY <1>2, <1>3, <1>4

\* Rounding stays below a bound that needs none.
LEMMA RoundedWithin ==
    ASSUME NEW amount \in Nat, NEW unit \in Nat \ {0}, NEW n \in Nat,
           amount <= unit * n
    PROVE  Rounded(amount, unit) <= unit * n
<1> DEFINE q == (2 * amount + unit) \div (2 * unit)
<1>1. 2 * amount + unit \in Nat /\ 2 * unit \in Nat \ {0}
  OBVIOUS
<1>2. q \in Nat /\ (2 * unit) * q <= 2 * amount + unit
  BY ONLY <1>1, QuotientBounds, Zenon
<1>3. Rounded(amount, unit) = unit * q
  BY DEF Rounded
<1> HIDE DEF q
<1>4. q <= n
  <2> SUFFICES ASSUME q >= n + 1 PROVE FALSE
    BY <1>2
  <2>1. PICK d \in Nat : q = n + 1 + d
    <3>1. q - (n + 1) \in Nat
      BY <1>2
    <3> QED
      BY <1>2, <3>1
  <2>2. unit * q = unit * n + unit + unit * d /\ unit * d \in Nat /\ unit * n \in Nat
    BY <2>1
  <2>3. 2 * (unit * q) <= 2 * amount + unit
    BY <1>2
  <2> QED
    BY <2>2, <2>3
<1>5. PICK d \in Nat : n = q + d
  <2>1. n - q \in Nat
    BY <1>2, <1>4
  <2> QED
    BY <1>2, <2>1
<1>6. unit * n = unit * q + unit * d /\ unit * d \in Nat /\ unit * q \in Nat
  BY <1>2, <1>5
<1> QED
  BY <1>3, <1>6

-----------------------------------------------------------------------------
(* The largest of some numbers.                                            *)

LEMMA MaxIsLargest ==
    ASSUME NEW S, IsFiniteSet(S), S # {}, S \subseteq Int
    PROVE  Max(S) \in S /\ \A x \in S : x <= Max(S)
<1> DEFINE Bad == {T \in SUBSET S : T # {} /\ ~\E x \in T : \A y \in T : y <= x}
<1>1. Bad = {}
  <2> SUFFICES ASSUME Bad # {} PROVE FALSE
    OBVIOUS
  <2>1. Bad \subseteq SUBSET S
    OBVIOUS
  <2>2. \E T \in Bad : \A W \in Bad : W \subseteq T => W = T
    <3> HIDE DEF Bad
    <3> QED
      BY ONLY IsFiniteSet(S), Bad # {}, <2>1, Smallest
  <2>3. PICK T \in Bad : \A W \in Bad : W \subseteq T => W = T
    BY <2>2
  <2>4. PICK y \in T : TRUE
    BY <2>3
  <2> DEFINE V == T \ {y}
  <2>5. V \in SUBSET S /\ V \subseteq T /\ V # T /\ T \subseteq Int
    BY <2>3, <2>4
  <2>6. V \notin Bad
    BY <2>3, <2>5
  <2>7. CASE V = {}
    <3>1. \A z \in T : z <= y
      BY <2>4, <2>5, <2>7
    <3> QED
      BY <2>3, <2>4, <3>1
  <2>8. CASE V # {}
    <3>1. PICK x \in V : \A z \in V : z <= x
      BY <2>5, <2>6, <2>8
    <3>2. x \in T /\ x \in Int /\ y \in Int
      BY <2>4, <2>5, <3>1
    <3>3. CASE y <= x
      <4>1. \A z \in T : z <= x
        BY <3>1, <3>3
      <4> QED
        BY <2>3, <3>2, <4>1
    <3>4. CASE x <= y
      <4>1. \A z \in T : z <= y
        BY <2>5, <3>1, <3>2, <3>4
      <4> QED
        BY <2>3, <2>4, <4>1
    <3> QED
      BY <3>2, <3>3, <3>4
  <2> QED
    BY <2>7, <2>8
<1>2. \E x \in S : \A y \in S : x >= y
  BY <1>1
<1> QED
  BY <1>2 DEF Max
=============================================================================
