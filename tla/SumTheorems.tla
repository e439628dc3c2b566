----------------------------- MODULE SumTheorems -----------------------------
(***************************************************************************)
(* What a sum over a finite set is, for every function with integer values, *)
(* and that a finite set has a largest element.                            *)
(* Sum is a recursive function over the subsets of the set.  The induction *)
(* theorems of the library cannot be applied to it, so each induction here *)
(* takes a smallest subset for which the claim fails (SmallestSubset) and  *)
(* finds a smaller one.                                                    *)
(***************************************************************************)
EXTENDS Sums, FiniteSetTheorems, TLAPS

\* g is the table of the sums of f over the subsets of S.
Unfolded(f, g, s) ==
    IF s = {} THEN 0 ELSE f[CHOOSE x \in s : TRUE] + g[s \ {CHOOSE x \in s : TRUE}]
IsSum(f, S, g) == g = [s \in SUBSET S |-> Unfolded(f, g, s)]
Table(f, S) == CHOOSE g : IsSum(f, S, g)

\* The definition of the library, with its recursive function made explicit.
LEMMA SumIsChosen ==
  ASSUME NEW f, NEW S
  PROVE  Sum(f, S) = Table(f, S)[S]
  BY DEF Sum, MapThenSumSet, MapThenFoldSet, Table, IsSum, Unfolded

\* Strict inclusion is well founded on the subsets of a finite set.
LEMMA SmallestSubset ==
  ASSUME NEW S, IsFiniteSet(S), NEW Bad \in SUBSET (SUBSET S), Bad # {}
  PROVE  \E T \in Bad : \A U \in SUBSET T : U # T => U \notin Bad
<1>1. FiniteSubsetsOf(S) = SUBSET S
  BY FS_FiniteSubsetsOfFinite
<1>2. IsWellFoundedOn(StrictSubsetOrdering(S), SUBSET S)
  BY <1>1, FS_StrictSubsetOrderingWellFounded
<1>3. PICK T \in Bad : \A U \in Bad : <<U, T>> \notin StrictSubsetOrdering(S)
  BY <1>2, WFMin
<1>4. ASSUME NEW U \in SUBSET T, U # T, U \in Bad PROVE FALSE
  BY <1>3, <1>4 DEF StrictSubsetOrdering
<1> QED
  BY <1>4

\* Two tables agree where both are defined.
LEMMA TablesAgree ==
  ASSUME NEW f, NEW S, IsFiniteSet(S), NEW T \in SUBSET S, NEW g, NEW h,
         IsSum(f, S, g), IsSum(f, T, h)
  PROVE  \A U \in SUBSET T : g[U] = h[U]
<1> DEFINE Bad == {U \in SUBSET T : g[U] # h[U]}
<1>1. SUFFICES ASSUME Bad # {} PROVE FALSE
  OBVIOUS
<1>2. Bad \in SUBSET (SUBSET T)
  OBVIOUS
<1> HIDE DEF Bad
<1>3. PICK U \in Bad : \A V \in SUBSET U : V # U => V \notin Bad
  <2>1. IsFiniteSet(T)
    BY FS_Subset
  <2> QED
    BY <1>1, <1>2, <2>1, SmallestSubset
<1> USE DEF Bad
<1>4. g[U] = Unfolded(f, g, U) /\ h[U] = Unfolded(f, h, U)
  BY DEF IsSum
<1>5. CASE U = {}
  BY <1>4, <1>5 DEF Unfolded
<1>6. CASE U # {}
  <2> DEFINE V == U \ {CHOOSE x \in U : TRUE}
  <2>1. V \in SUBSET U /\ V # U
    BY <1>6
  <2>2. g[V] = h[V]
    BY <1>3, <2>1
  <2> QED
    BY <1>4, <1>6, <2>2 DEF Unfolded
<1> QED
  BY <1>5, <1>6

\* What is left of s when the element summed first is taken away.
Rest(s) == s \ {CHOOSE x \in s : TRUE}

\* By induction on S: the table of S is put together from those of its subsets.
LEMMA TableExists ==
  ASSUME NEW f, NEW S, IsFiniteSet(S)
  PROVE  IsSum(f, S, Table(f, S))
<1> DEFINE Good(T) == IsSum(f, T, Table(f, T))
           Bad == {T \in SUBSET S : ~Good(T)}
<1>1. SUFFICES ASSUME Bad # {} PROVE FALSE
  OBVIOUS
<1>2. Bad \in SUBSET (SUBSET S)
  OBVIOUS
<1> HIDE DEF Bad
<1>3. PICK T \in Bad : \A U \in SUBSET T : U # T => U \notin Bad
  BY <1>1, <1>2, SmallestSubset
<1>4. /\ T \in SUBSET S
      /\ \A U \in SUBSET T : U # T => Good(U)
  BY <1>3 DEF Bad
<1>5. \A U \in SUBSET T : IsFiniteSet(U)
  BY <1>4, FS_Subset
<1>6. \A s \in SUBSET T : s # {} => Rest(s) \in SUBSET s /\ Rest(s) # s
  BY DEF Rest
<1> DEFINE h == [s \in SUBSET T |->
                    IF s = {} THEN 0
                    ELSE f[CHOOSE x \in s : TRUE] + Table(f, Rest(s))[Rest(s)]]
<1>7. /\ h[{}] = 0
      /\ h = [s \in SUBSET T |-> h[s]]
      /\ \A s \in SUBSET T : s # {} =>
            h[s] = f[CHOOSE x \in s : TRUE] + Table(f, Rest(s))[Rest(s)]
  OBVIOUS
<1> HIDE DEF Good, h
<1>8. ASSUME NEW s \in SUBSET T, s # {}
      PROVE  h[Rest(s)] = Table(f, Rest(s))[Rest(s)]
  <2> DEFINE u == Rest(s)
  <2>1. u \in SUBSET T /\ u # T /\ IsFiniteSet(u)
    BY <1>5, <1>6, <1>8
  <2>2. IsSum(f, u, Table(f, u))
    BY <1>4, <2>1 DEF Good
  <2>3. Table(f, u)[u] = Unfolded(f, Table(f, u), u)
    BY <2>2 DEF IsSum
  <2> HIDE DEF u
  <2>4. CASE u = {}
    BY <1>7, <2>3, <2>4 DEF Unfolded, u
  <2>5. CASE u # {}
    <3>1. Rest(u) \in SUBSET u /\ Rest(u) \in SUBSET T /\ Rest(u) # T
      BY <1>6, <2>1, <2>5
    <3>2. IsSum(f, Rest(u), Table(f, Rest(u))) /\ Rest(u) \in SUBSET Rest(u)
      BY <1>4, <3>1 DEF Good
    <3>3. Table(f, u)[Rest(u)] = Table(f, Rest(u))[Rest(u)]
      BY <2>1, <2>2, <3>1, <3>2, TablesAgree
    <3>4. Table(f, u)[u] = f[CHOOSE x \in u : TRUE] + Table(f, u)[Rest(u)]
      BY <2>3, <2>5 DEF Unfolded, Rest
    <3>5. h[u] = f[CHOOSE x \in u : TRUE] + Table(f, Rest(u))[Rest(u)]
      BY <1>7, <2>1, <2>5
    <3> QED
      BY <3>3, <3>4, <3>5 DEF u
  <2> QED
    BY <2>4, <2>5
<1>9. IsSum(f, T, h)
  <2>1. ASSUME NEW s \in SUBSET T PROVE h[s] = Unfolded(f, h, s)
    <3>1. CASE s = {}
      BY <1>7, <3>1 DEF Unfolded
    <3>2. CASE s # {}
      <4>1. h[s] = f[CHOOSE x \in s : TRUE] + h[Rest(s)]
        BY <1>7, <1>8, <3>2
      <4> QED
        BY <3>2, <4>1 DEF Unfolded, Rest
    <3> QED
      BY <3>1, <3>2
  <2>2. h = [s \in SUBSET T |-> Unfolded(f, h, s)]
    BY <1>7, <2>1
  <2> QED
    BY <2>2 DEF IsSum
<1>10. Good(T)
  BY <1>9 DEF Good, Table
<1> QED
  BY <1>3, <1>10 DEF Bad

-----------------------------------------------------------------------------
\* Nothing adds up to 0.
LEMMA SumEmpty ==
  ASSUME NEW f
  PROVE  Sum(f, {}) = 0
<1>1. IsFiniteSet({})
  BY FS_EmptySet
<1>2. IsSum(f, {}, Table(f, {}))
  BY <1>1, TableExists
<1> QED
  BY <1>2, SumIsChosen DEF IsSum, Unfolded

\* A sum is one term and the rest: the term that is summed first ...
LEMMA SumChosen ==
  ASSUME NEW f, NEW S, IsFiniteSet(S), S # {}
  PROVE  LET x == CHOOSE y \in S : TRUE IN Sum(f, S) = f[x] + Sum(f, S \ {x})
<1> DEFINE x == CHOOSE y \in S : TRUE
           R == S \ {x}
<1>1. R \in SUBSET S /\ R \in SUBSET R /\ IsFiniteSet(R) /\ x \in S
  BY FS_Subset
<1>2. IsSum(f, S, Table(f, S)) /\ IsSum(f, R, Table(f, R))
  BY <1>1, TableExists
<1>3. Table(f, S)[S] = f[x] + Table(f, S)[R]
  BY <1>2 DEF IsSum, Unfolded
<1>4. Table(f, S)[R] = Table(f, R)[R]
  <2> HIDE DEF R
  <2> QED
    BY <1>1, <1>2, TablesAgree
<1>5. Sum(f, S) = f[x] + Sum(f, R)
  BY <1>3, <1>4, SumIsChosen
<1> QED
  BY <1>1, <1>5

\* ... which is some term ...
LEMMA SumUnfolds ==
  ASSUME NEW f, NEW S, IsFiniteSet(S), S # {}
  PROVE  \E x \in S : Sum(f, S) = f[x] + Sum(f, S \ {x})
  BY SumChosen

\* A sum of integers is an integer.
LEMMA SumInt ==
  ASSUME NEW S, IsFiniteSet(S), NEW f, \A x \in S : f[x] \in Int
  PROVE  Sum(f, S) \in Int
<1> DEFINE Bad == {T \in SUBSET S : Sum(f, T) \notin Int}
<1>1. Bad \in SUBSET (SUBSET S)
  OBVIOUS
<1>2. SUFFICES ASSUME Bad # {} PROVE FALSE
  OBVIOUS
<1> HIDE DEF Bad
<1>3. PICK T \in Bad : \A U \in SUBSET T : U # T => U \notin Bad
  BY <1>1, <1>2, SmallestSubset
<1> USE DEF Bad
<1>4. T # {}
  BY SumEmpty
<1>5. IsFiniteSet(T)
  BY FS_Subset
<1>6. PICK x \in T : Sum(f, T) = f[x] + Sum(f, T \ {x})
  BY <1>4, <1>5, SumUnfolds
<1>7. Sum(f, T \ {x}) \in Int
  BY <1>3
<1> QED
  BY <1>6, <1>7

\* ... and any other does as well, since addition commutes.
LEMMA SumRemove ==
  ASSUME NEW S, IsFiniteSet(S), NEW f, \A x \in S : f[x] \in Int, NEW z \in S
  PROVE  Sum(f, S) = f[z] + Sum(f, S \ {z})
<1> DEFINE Bad == {T \in SUBSET S : \E x \in T : Sum(f, T) # f[x] + Sum(f, T \ {x})}
<1>1. Bad \in SUBSET (SUBSET S)
  OBVIOUS
<1>2. SUFFICES ASSUME Bad # {} PROVE FALSE
  OBVIOUS
<1> HIDE DEF Bad
<1>3. PICK T \in Bad : \A U \in SUBSET T : U # T => U \notin Bad
  BY <1>1, <1>2, SmallestSubset
<1>4. \A U \in SUBSET T : U # T =>
         \A x \in U : Sum(f, U) = f[x] + Sum(f, U \ {x})
  BY <1>3 DEF Bad
<1>5. T \in SUBSET S /\ \E x \in T : Sum(f, T) # f[x] + Sum(f, T \ {x})
  BY DEF Bad
<1>6. PICK x \in T : Sum(f, T) # f[x] + Sum(f, T \ {x})
  BY <1>5
<1>7. \A U \in SUBSET T : IsFiniteSet(U) /\ Sum(f, U) \in Int
  <2>1. \A U \in SUBSET T : IsFiniteSet(U) /\ \A y \in U : f[y] \in Int
    BY <1>5, FS_Subset
  <2> QED
    BY <2>1, SumInt
<1>8. PICK c \in T : Sum(f, T) = f[c] + Sum(f, T \ {c})
  BY <1>6, <1>7, SumUnfolds
<1>9. c # x /\ f[c] \in Int /\ f[x] \in Int
  BY <1>5, <1>6, <1>8
<1>10. Sum(f, T \ {c}) = f[x] + Sum(f, (T \ {c}) \ {x})
  BY <1>4, <1>9
<1>11. Sum(f, T \ {x}) = f[c] + Sum(f, (T \ {x}) \ {c})
  BY <1>4, <1>9
<1>12. (T \ {c}) \ {x} = (T \ {x}) \ {c}
  OBVIOUS
<1> DEFINE rest == Sum(f, (T \ {c}) \ {x})
<1>13. /\ rest \in Int
       /\ Sum(f, T \ {c}) = f[x] + rest
       /\ Sum(f, T \ {x}) = f[c] + rest
  BY <1>7, <1>10, <1>11, <1>12
<1> HIDE DEF rest
<1>14. Sum(f, T) = f[x] + Sum(f, T \ {x})
  BY <1>8, <1>9, <1>13
<1> QED
  BY <1>6, <1>14

\* A new element adds its term.
LEMMA SumAdd ==
  ASSUME NEW S, IsFiniteSet(S), NEW z, z \notin S, NEW f, \A x \in S \cup {z} : f[x] \in Int
  PROVE  Sum(f, S \cup {z}) = f[z] + Sum(f, S)
<1>1. IsFiniteSet(S \cup {z}) /\ (S \cup {z}) \ {z} = S
  BY FS_AddElement
<1> QED
  BY <1>1, SumRemove

\* The sum depends on the terms only.
LEMMA SumSame ==
  ASSUME NEW S, IsFiniteSet(S), NEW f, NEW g, \A x \in S : f[x] = g[x]
  PROVE  Sum(f, S) = Sum(g, S)
<1> DEFINE Bad == {T \in SUBSET S : Sum(f, T) # Sum(g, T)}
<1>1. Bad \in SUBSET (SUBSET S)
  OBVIOUS
<1>2. SUFFICES ASSUME Bad # {} PROVE FALSE
  OBVIOUS
<1> HIDE DEF Bad
<1>3. PICK T \in Bad : \A U \in SUBSET T : U # T => U \notin Bad
  BY <1>1, <1>2, SmallestSubset
<1> USE DEF Bad
<1>4. T # {} /\ IsFiniteSet(T)
  BY SumEmpty, FS_Subset
<1> DEFINE c == CHOOSE y \in T : TRUE
<1>5. \A h : Sum(h, T) = h[c] + Sum(h, T \ {c})
  BY <1>4, SumChosen
<1>6. Sum(f, T \ {c}) = Sum(g, T \ {c})
  BY <1>3, <1>4
<1> QED
  BY <1>4, <1>5, <1>6

\* Sums are added term by term.
LEMMA SumPlus ==
  ASSUME NEW S, IsFiniteSet(S), NEW f, NEW g, NEW h,
         \A x \in S : f[x] \in Int /\ g[x] \in Int /\ h[x] = f[x] + g[x]
  PROVE  Sum(h, S) = Sum(f, S) + Sum(g, S)
<1> DEFINE Bad == {T \in SUBSET S : Sum(h, T) # Sum(f, T) + Sum(g, T)}
<1>1. Bad \in SUBSET (SUBSET S)
  OBVIOUS
<1>2. SUFFICES ASSUME Bad # {} PROVE FALSE
  OBVIOUS
<1> HIDE DEF Bad
<1>3. PICK T \in Bad : \A U \in SUBSET T : U # T => U \notin Bad
  BY <1>1, <1>2, SmallestSubset
<1>4. T \in SUBSET S /\ Sum(h, T) # Sum(f, T) + Sum(g, T)
  BY DEF Bad
<1>5. T # {} /\ IsFiniteSet(T)
  <2>1. T = {} => Sum(h, T) = 0 /\ Sum(f, T) = 0 /\ Sum(g, T) = 0
    BY SumEmpty
  <2>2. T # {}
    BY <1>4, <2>1
  <2> QED
    BY <1>4, <2>2, FS_Subset
<1> DEFINE c == CHOOSE y \in T : TRUE
           R == T \ {c}
<1>6. \A k : Sum(k, T) = k[c] + Sum(k, R)
  BY <1>5, SumChosen
<1>7. c \in S /\ R \in SUBSET T /\ R # T /\ IsFiniteSet(R)
  BY <1>4, <1>5, FS_Subset
<1> HIDE DEF c, R
<1>8. Sum(h, R) = Sum(f, R) + Sum(g, R)
  BY <1>3, <1>4, <1>7 DEF Bad
<1>9. Sum(f, R) \in Int /\ Sum(g, R) \in Int
  BY <1>4, <1>7, SumInt
<1> QED
  BY <1>4, <1>6, <1>7, <1>8, <1>9

\* Terms that are no greater have a sum that is no greater.
LEMMA SumMonotone ==
  ASSUME NEW S, IsFiniteSet(S), NEW f, NEW g,
         \A x \in S : f[x] \in Int /\ g[x] \in Int /\ f[x] <= g[x]
  PROVE  Sum(f, S) <= Sum(g, S)
<1> DEFINE Bad == {T \in SUBSET S : ~(Sum(f, T) <= Sum(g, T))}
<1>1. Bad \in SUBSET (SUBSET S)
  OBVIOUS
<1>2. SUFFICES ASSUME Bad # {} PROVE FALSE
  OBVIOUS
<1> HIDE DEF Bad
<1>3. PICK T \in Bad : \A U \in SUBSET T : U # T => U \notin Bad
  BY <1>1, <1>2, SmallestSubset
<1>4. T \in SUBSET S /\ ~(Sum(f, T) <= Sum(g, T))
  BY DEF Bad
<1>5. T # {} /\ IsFiniteSet(T)
  <2>1. T # {}
    BY <1>4, SumEmpty
  <2> QED
    BY <1>4, <2>1, FS_Subset
<1> DEFINE c == CHOOSE y \in T : TRUE
           R == T \ {c}
<1>6. \A k : Sum(k, T) = k[c] + Sum(k, R)
  BY <1>5, SumChosen
<1>7. c \in S /\ R \in SUBSET T /\ R # T /\ IsFiniteSet(R)
  BY <1>4, <1>5, FS_Subset
<1> HIDE DEF c, R
<1>8. Sum(f, R) <= Sum(g, R)
  BY <1>3, <1>4, <1>7 DEF Bad
<1>9. Sum(f, R) \in Int /\ Sum(g, R) \in Int
  BY <1>4, <1>7, SumInt
<1> QED
  BY <1>4, <1>6, <1>7, <1>8, <1>9

\* When one term changes, the sum changes by as much.
LEMMA SumChangedAt ==
  ASSUME NEW S, IsFiniteSet(S), NEW z \in S, NEW f, NEW g,
         \A x \in S : f[x] \in Int /\ g[x] \in Int,
         \A x \in S \ {z} : f[x] = g[x]
  PROVE  Sum(g, S) = Sum(f, S) + g[z] - f[z]
<1> DEFINE R == S \ {z}
<1>1. IsFiniteSet(R)
  BY FS_Subset
<1>2. Sum(f, S) = f[z] + Sum(f, R) /\ Sum(g, S) = g[z] + Sum(g, R)
  BY SumRemove
<1>3. Sum(f, R) = Sum(g, R)
  BY <1>1, SumSame
<1>4. Sum(f, R) \in Int
  BY <1>1, SumInt
<1> QED
  BY <1>2, <1>3, <1>4

\* Zeros add up to 0.
LEMMA SumZero ==
  ASSUME NEW S, IsFiniteSet(S), NEW f, \A x \in S : f[x] = 0
  PROVE  Sum(f, S) = 0
<1>1. Sum(f, S) \in Int /\ Sum(f, S) = Sum(f, S) + Sum(f, S)
  BY SumInt, SumPlus
<1>2. \A n \in Int : n = n + n => n = 0
  OBVIOUS
<1> QED
  BY <1>1, <1>2

\* Terms that are not negative have a sum that is not.
LEMMA SumNonNegative ==
  ASSUME NEW S, IsFiniteSet(S), NEW f, \A x \in S : f[x] \in Nat
  PROVE  Sum(f, S) \in Nat
<1> DEFINE z == [x \in S |-> 0]
<1>1. \A x \in S : z[x] \in Int /\ f[x] \in Int /\ z[x] <= f[x] /\ z[x] = 0
  OBVIOUS
<1> HIDE DEF z
<1>2. Sum(f, S) \in Int /\ Sum(z, S) <= Sum(f, S)
  BY <1>1, SumInt, SumMonotone
<1>3. Sum(z, S) = 0
  BY <1>1, SumZero
<1> QED
  BY <1>2, <1>3

\* A sum of ones counts.
LEMMA SumOnes ==
  ASSUME NEW S, IsFiniteSet(S), NEW f, \A x \in S : f[x] = 1
  PROVE  Sum(f, S) = Cardinality(S)
<1> DEFINE Bad == {T \in SUBSET S : Sum(f, T) # Cardinality(T)}
<1>1. Bad \in SUBSET (SUBSET S)
  OBVIOUS
<1>2. SUFFICES ASSUME Bad # {} PROVE FALSE
  OBVIOUS
<1> HIDE DEF Bad
<1>3. PICK T \in Bad : \A U \in SUBSET T : U # T => U \notin Bad
  BY <1>1, <1>2, SmallestSubset
<1>4. T \in SUBSET S /\ Sum(f, T) # Cardinality(T)
  BY <1>3 DEF Bad
<1>5. IsFiniteSet(T)
  BY <1>4, FS_Subset
<1>6. CASE T = {}
  BY <1>4, <1>6, SumEmpty, FS_EmptySet
<1>7. CASE T # {}
  <2>1. PICK x \in T : Sum(f, T) = f[x] + Sum(f, T \ {x})
    BY <1>5, <1>7, SumUnfolds
  <2>2. Sum(f, T \ {x}) = Cardinality(T \ {x})
    BY <1>3, <1>4, <2>1 DEF Bad
  <2>3. Cardinality(T \ {x}) = Cardinality(T) - 1 /\ Cardinality(T) \in Nat
    BY <1>5, <2>1, FS_RemoveElement, FS_CardinalityType
  <2> QED
    BY <1>4, <2>1, <2>2, <2>3
<1> QED
  BY <1>6, <1>7

\* How many members of S are of class t.
OfClass(S, f, t) == {x \in S : f[x] = t}

\* Summing class by class: each class counts as often as it has members.
LEMMA SumByClass ==
  ASSUME NEW S, IsFiniteSet(S), NEW T, IsFiniteSet(T), NEW f, \A x \in S : f[x] \in T,
         NEW v, \A t \in T : v[t] \in Int
  PROVE  Sum([t \in T |-> v[t] * Cardinality(OfClass(S, f, t))], T) = Sum([x \in S |-> v[f[x]]], S)
<1> DEFINE w == [x \in S |-> v[f[x]]]
           c(U) == [t \in T |-> v[t] * Cardinality(OfClass(U, f, t))]
           Bad == {U \in SUBSET S : Sum(c(U), T) # Sum(w, U)}
<1>1. Bad \in SUBSET (SUBSET S)
  OBVIOUS
<1>2. SUFFICES ASSUME Bad # {} PROVE FALSE
  OBVIOUS
<1> HIDE DEF Bad
<1>3. PICK U \in Bad : \A V \in SUBSET U : V # U => V \notin Bad
  BY <1>1, <1>2, SmallestSubset
<1>4. U \in SUBSET S /\ Sum(c(U), T) # Sum(w, U)
  BY <1>3 DEF Bad
<1>5. \A V \in SUBSET S : IsFiniteSet(V)
  BY FS_Subset
<1>6. ASSUME NEW V \in SUBSET S, NEW t \in T
      PROVE  IsFiniteSet(OfClass(V, f, t)) /\ Cardinality(OfClass(V, f, t)) \in Nat
  <2>1. OfClass(V, f, t) \in SUBSET S
    BY DEF OfClass
  <2> QED
    BY <1>5, <2>1, FS_CardinalityType
<1>7. \A V \in SUBSET S : \A t \in T : c(V)[t] \in Int /\ c(V)[t] = v[t] * Cardinality(OfClass(V, f, t))
  BY <1>6
<1> HIDE DEF c
<1>8. CASE U = {}
  <2>1. \A t \in T : OfClass({}, f, t) = {}
    BY DEF OfClass
  <2>2. \A t \in T : c({})[t] = 0
    <3>1. \A t \in T : c({})[t] = v[t] * Cardinality({})
      BY <1>7, <2>1
    <3>2. \A a \in Int : a * 0 = 0
      OBVIOUS
    <3> QED
      BY <3>1, <3>2, FS_EmptySet
  <2>3. Sum(c({}), T) = 0
    BY <2>2, SumZero
  <2> QED
    BY <1>4, <1>8, <2>3, SumEmpty
<1>9. CASE U # {}
  <2>1. PICK x \in U : Sum(w, U) = w[x] + Sum(w, U \ {x})
    BY <1>4, <1>5, <1>9, SumUnfolds
  <2> DEFINE V == U \ {x}
  <2>2. V \in SUBSET S /\ Sum(c(V), T) = Sum(w, V) /\ f[x] \in T /\ x \in S
    BY <1>3, <1>4, <2>1 DEF Bad
  <2>3. \A t \in T \ {f[x]} : OfClass(V, f, t) = OfClass(U, f, t)
    BY DEF OfClass
  <2>4. Cardinality(OfClass(U, f, f[x])) = Cardinality(OfClass(V, f, f[x])) + 1
    <3>1. OfClass(V, f, f[x]) = OfClass(U, f, f[x]) \ {x} /\ x \in OfClass(U, f, f[x])
      BY <2>1 DEF OfClass
    <3>2. IsFiniteSet(OfClass(U, f, f[x])) /\ Cardinality(OfClass(U, f, f[x])) \in Nat
      BY <1>4, <1>6, <2>2
    <3>3. Cardinality(OfClass(U, f, f[x]) \ {x}) = Cardinality(OfClass(U, f, f[x])) - 1
      BY <3>1, <3>2, FS_RemoveElement
    <3> HIDE DEF V
    <3> QED
      BY <3>1, <3>2, <3>3
  <2>5. Sum(c(U), T) = Sum(c(V), T) + c(U)[f[x]] - c(V)[f[x]]
    <3>1. \A t \in T : c(V)[t] \in Int /\ c(U)[t] \in Int
      BY <1>4, <1>7, <2>2
    <3>2. \A t \in T \ {f[x]} : c(V)[t] = c(U)[t]
      BY <1>4, <1>7, <2>2, <2>3
    <3> HIDE DEF V
    <3> QED
      BY <2>2, <3>1, <3>2, SumChangedAt
  <2>6. c(U)[f[x]] = c(V)[f[x]] + v[f[x]]
    <3>1. /\ c(U)[f[x]] = v[f[x]] * Cardinality(OfClass(U, f, f[x]))
          /\ c(V)[f[x]] = v[f[x]] * Cardinality(OfClass(V, f, f[x]))
      BY <1>4, <1>7, <2>2
    <3>2. v[f[x]] \in Int /\ Cardinality(OfClass(V, f, f[x])) \in Nat
      BY <1>6, <2>2
    <3>3. \A a \in Int, n \in Nat : a * (n + 1) = a * n + a
      OBVIOUS
    <3> HIDE DEF V
    <3> QED
      BY <2>4, <3>1, <3>2, <3>3
  <2>7. w[x] = v[f[x]] /\ w[x] \in Int
    BY <2>2
  <2>8. Sum(c(V), T) \in Int /\ c(U)[f[x]] \in Int /\ c(V)[f[x]] \in Int
    <3>1. \A t \in T : c(V)[t] \in Int
      BY <1>7, <2>2
    <3>2. Sum(c(V), T) \in Int
      BY <3>1, SumInt
    <3> QED
      BY <1>4, <1>7, <2>2, <3>2
  <2> HIDE DEF w
  <2> QED
    BY <1>4, <2>1, <2>2, <2>5, <2>6, <2>7, <2>8
<1> QED
  BY <1>8, <1>9

-----------------------------------------------------------------------------
(* A finite set has a largest element. *)

LEMMA MaxExists ==
  ASSUME NEW S, IsFiniteSet(S), S # {}, NEW f, \A x \in S : f[x] \in Nat
  PROVE  \E x \in S : \A y \in S : f[y] <= f[x]
<1> DEFINE Bad == {U \in SUBSET S : U # {} /\ ~ \E x \in U : \A y \in U : f[y] <= f[x]}
<1> SUFFICES ASSUME Bad # {} PROVE FALSE
  OBVIOUS
<1>1. PICK T \in Bad : \A U \in SUBSET T : U # T => U \notin Bad
  <2>1. Bad \in SUBSET (SUBSET S)
    OBVIOUS
  <2> HIDE DEF Bad
  <2> QED
    BY <2>1, SmallestSubset
<1>2. T \in SUBSET S /\ T # {} /\ ~ \E x \in T : \A y \in T : f[y] <= f[x]
  OBVIOUS
<1>3. PICK x \in T : TRUE
  BY <1>2
<1>4. T \ {x} \notin Bad
  <2>1. T \ {x} \in SUBSET T /\ T \ {x} # T
    BY <1>3
  <2> HIDE DEF Bad
  <2> QED
    BY <1>1, <2>1
<1>5. CASE T \ {x} = {}
  <2>1. \A y \in T : y = x
    BY <1>5
  <2>2. f[x] \in Nat
    BY <1>2
  <2> QED
    BY <1>2, <1>3, <2>1, <2>2
<1>6. CASE T \ {x} # {}
  <2>1. PICK m \in T \ {x} : \A y \in T \ {x} : f[y] <= f[m]
    BY <1>2, <1>4, <1>6
  <2>2. f[x] \in Nat /\ f[m] \in Nat /\ \A y \in T : f[y] \in Nat
    BY <1>2, <2>1
  <2>3. CASE f[x] <= f[m]
    <3>1. \A y \in T : f[y] <= f[m]
      BY <2>1, <2>3
    <3> QED
      BY <1>2, <2>1, <3>1
  <2>4. CASE ~(f[x] <= f[m])
    <3>1. ASSUME NEW y \in T PROVE f[y] <= f[x]
      BY <2>1, <2>2, <2>4
    <3> QED
      BY <1>2, <1>3, <3>1
  <2> QED
    BY <2>3, <2>4
<1> QED
  BY <1>5, <1>6
=============================================================================
