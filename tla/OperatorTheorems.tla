--------------------------- MODULE OperatorTheorems ---------------------------
(***************************************************************************)
(* What the folds, sums and lists of the rules return, for every finite    *)
(* set and every sequence.  The induction is stated over a set of the      *)
(* values for which a claim holds, so that every fact is about elements    *)
(* of sets and none about an operator given as a parameter.                *)
(***************************************************************************)
EXTENDS Lists, FiniteSetsExt, FiniteSetTheorems, TLAPS

\* Induction over the finite sets, for a set of sets instead of a predicate.
LEMMA FiniteSetInduction ==
  ASSUME NEW S, IsFiniteSet(S), NEW Q \in SUBSET (SUBSET S),
         \A T \in SUBSET S : (\A x \in T : T \ {x} \in Q) => T \in Q
  PROVE  S \in Q
<1> SUFFICES ASSUME S \notin Q PROVE FALSE
  OBVIOUS
<1> DEFINE Bad == (SUBSET S) \ Q
           Below == StrictSubsetOrdering(S)
<1>1. IsWellFoundedOn(Below, SUBSET S)
  <2>1. FiniteSubsetsOf(S) = SUBSET S
    BY FS_FiniteSubsetsOfFinite
  <2>2. IsWellFoundedOn(StrictSubsetOrdering(S), FiniteSubsetsOf(S))
    BY FS_StrictSubsetOrderingWellFounded
  <2> QED
    BY <2>1, <2>2
<1>2. Bad \subseteq SUBSET S /\ Bad # {}
  OBVIOUS
<1>3. PICK T \in Bad : \A U \in Bad : ~(<<U, T>> \in Below)
  <2> HIDE DEF Bad, Below
  <2> QED
    BY <1>1, <1>2, WFMin
<1>4. \A x \in T : T \ {x} \in Q
  <2> SUFFICES ASSUME NEW x \in T, T \ {x} \notin Q PROVE FALSE
    OBVIOUS
  <2>1. T \ {x} \in Bad /\ <<T \ {x}, T>> \in Below
    BY <1>3 DEF StrictSubsetOrdering
  <2> QED
    BY <1>3, <2>1
<1> QED
  BY <1>3, <1>4

\* Induction up to a number, for a set of numbers instead of a predicate.
LEMMA NatSetInduction ==
  ASSUME NEW n \in Nat, NEW Q \in SUBSET Nat, 0 \in Q,
         \A k \in 0..(n-1) : k \in Q => k + 1 \in Q
  PROVE  n \in Q
<1> DEFINE S == 1..n
           G == {T \in SUBSET S : Cardinality(T) \in Q}
<1>1. IsFiniteSet(S) /\ Cardinality(S) = n
  BY FS_Interval
<1>2. \A T \in SUBSET S : (\A x \in T : T \ {x} \in G) => T \in G
  <2> SUFFICES ASSUME NEW T \in SUBSET S, \A x \in T : T \ {x} \in G
               PROVE  Cardinality(T) \in Q
    OBVIOUS
  <2>1. IsFiniteSet(T) /\ Cardinality(T) <= n /\ Cardinality(T) \in Nat
    <3> HIDE DEF S
    <3>1. IsFiniteSet(T) /\ Cardinality(T) <= n
      BY <1>1, FS_Subset
    <3> QED
      BY <3>1, FS_CardinalityType
  <2>2. CASE T = {}
    BY <2>2, FS_EmptySet
  <2>3. CASE T # {}
    <3>1. PICK x \in T : TRUE
      BY <2>3
    <3>2. Cardinality(T \ {x}) = Cardinality(T) - 1 /\ Cardinality(T \ {x}) \in Q
      BY <2>1, <3>1, FS_RemoveElement
    <3>3. Cardinality(T) - 1 \in 0..(n-1)
      BY <2>1, <3>2
    <3> QED
      BY <2>1, <3>2, <3>3
  <2> QED
    BY <2>2, <2>3
<1>3. S \in G
  <2> HIDE DEF G, S
  <2>1. G \in SUBSET (SUBSET S)
    BY DEF G
  <2> QED
    BY <1>1, <1>2, <2>1, FiniteSetInduction
<1> QED
  BY <1>1, <1>3
-----------------------------------------------------------------------------
\* One step of the library's fold: what h makes of s.
SumStep(g, h, s) ==
  IF s = {} THEN 0 ELSE g[CHOOSE x \in s : TRUE] + h[s \ {CHOOSE x \in s : TRUE}]

IsSum(h, g, D) == h = [s \in D |-> SumStep(g, h, s)]
SumsUpTo(h, g, S) == IsSum(h, g, SUBSET S)

\* A sum over a function, as the choice of its unfolded function.
LEMMA SumIsFold ==
  ASSUME NEW g, NEW S
  PROVE  SumFunctionOnSet(g, S) = (CHOOSE h : IsSum(h, g, SUBSET S))[S]
BY DEF SumFunctionOnSet, FoldFunctionOnSet, MapThenFoldSet, IsSum, SumStep

\* That function exists for every finite set.
LEMMA SumFoldExists ==
  ASSUME NEW g, NEW S, IsFiniteSet(S)
  PROVE  \E h : IsSum(h, g, SUBSET S)
<1> DEFINE D(n) == {s \in SUBSET S : Cardinality(s) <= n}
           Q == {n \in Nat : \E h : IsSum(h, g, D(n))}
           N == Cardinality(S)
<1>0. N \in Nat /\ \A s \in SUBSET S : IsFiniteSet(s) /\ Cardinality(s) \in Nat /\ Cardinality(s) <= N
  BY FS_Subset, FS_CardinalityType
<1>1. 0 \in Q
  <2>1. D(0) = {{}}
    BY <1>0, FS_EmptySet
  <2>2. IsSum([s \in D(0) |-> 0], g, D(0))
    BY <2>1 DEF IsSum, SumStep
  <2> QED
    BY <2>2
<1>2. ASSUME NEW k \in 0..(N-1), k \in Q PROVE k + 1 \in Q
  <2>1. PICK h : IsSum(h, g, D(k))
    BY <1>2
  <2> DEFINE e == [s \in D(k+1) |-> SumStep(g, h, s)]
  <2>2. \A s \in D(k+1) : s # {} => s \ {CHOOSE x \in s : TRUE} \in D(k)
    <3> SUFFICES ASSUME NEW s \in D(k+1), s # {} PROVE s \ {CHOOSE x \in s : TRUE} \in D(k)
      OBVIOUS
    <3>1. (CHOOSE x \in s : TRUE) \in s
      OBVIOUS
    <3>2. Cardinality(s \ {CHOOSE x \in s : TRUE}) = Cardinality(s) - 1
      BY <1>0, <3>1, FS_RemoveElement
    <3> QED
      BY <1>0, <3>2
  <2>3. \A s \in D(k) : s \in D(k+1) /\ e[s] = h[s]
    BY <1>0, <2>1 DEF IsSum
  <2>4. \A s \in D(k+1) : SumStep(g, e, s) = SumStep(g, h, s)
    <3> HIDE DEF D, e
    <3> QED
      BY <2>2, <2>3 DEF SumStep
  <2>5. IsSum(e, g, D(k+1))
    BY <2>4 DEF IsSum
  <2>6. k + 1 \in Nat
    BY <1>0
  <2> HIDE DEF e, D
  <2> QED
    BY <2>5, <2>6
<1>3. N \in Q
  <2> HIDE DEF Q, N
  <2>1. Q \in SUBSET Nat
    BY DEF Q
  <2> QED
    BY <1>0, <1>1, <1>2, <2>1, NatSetInduction
<1>4. D(N) = SUBSET S
  BY <1>0
<1> QED
  BY <1>3, <1>4

\* It does not depend on how large the set is that it is defined over.
LEMMA SumFoldUnique ==
  ASSUME NEW g, NEW S, IsFiniteSet(S), NEW T \in SUBSET S,
         NEW h, SumsUpTo(h, g, S), NEW k, SumsUpTo(k, g, T)
  PROVE  h[T] = k[T]
<1> DEFINE Q == {U \in SUBSET T : h[U] = k[U]}
<1>1. IsFiniteSet(T)
  BY FS_Subset
<1>2. ASSUME NEW U \in SUBSET T, \A x \in U : U \ {x} \in Q PROVE U \in Q
  <2>1. h[U] = SumStep(g, h, U) /\ k[U] = SumStep(g, k, U)
    BY DEF SumsUpTo, IsSum
  <2>2. U # {} => h[U \ {CHOOSE x \in U : TRUE}] = k[U \ {CHOOSE x \in U : TRUE}]
    BY <1>2
  <2> QED
    BY <2>1, <2>2 DEF SumStep
<1>3. T \in Q
  <2> HIDE DEF Q
  <2>1. Q \in SUBSET (SUBSET T)
    BY DEF Q
  <2> QED
    BY <1>1, <1>2, <2>1, FiniteSetInduction
<1> QED
  BY <1>3

\* A sum takes one element out and goes on with the rest.
LEMMA SumUnfolds ==
  ASSUME NEW g, NEW S, IsFiniteSet(S)
  PROVE  /\ SumFunctionOnSet(g, {}) = 0
         /\ S # {} => LET x == CHOOSE x \in S : TRUE
                      IN  SumFunctionOnSet(g, S) = g[x] + SumFunctionOnSet(g, S \ {x})
<1> DEFINE Fold(T) == CHOOSE h : SumsUpTo(h, g, T)
<1>1. \A T \in SUBSET S : IsFiniteSet(T) /\ SumsUpTo(Fold(T), g, T)
  BY FS_Subset, SumFoldExists DEF SumsUpTo
<1>2. \A T \in SUBSET S : SumFunctionOnSet(g, T) = Fold(T)[T]
  BY SumIsFold DEF SumsUpTo
<1> HIDE DEF Fold
<1>3. ASSUME NEW T \in SUBSET S PROVE SumFunctionOnSet(g, T) = Fold(S)[T]
  <2>1. SumsUpTo(Fold(S), g, S) /\ SumsUpTo(Fold(T), g, T)
    BY <1>1
  <2>2. PICK h : h = Fold(S) /\ SumsUpTo(h, g, S)
    BY <2>1
  <2>3. PICK k : k = Fold(T) /\ SumsUpTo(k, g, T)
    BY <2>1
  <2>4. h[T] = k[T]
    <3>1. SumsUpTo(h, g, S)
      BY <2>2
    <3>2. SumsUpTo(k, g, T)
      BY <2>3
    <3> QED
      BY <3>1, <3>2, SumFoldUnique, ZenonT(30)
  <2> QED
    BY <1>2, <2>2, <2>3, <2>4
<1>4. \A T \in SUBSET S : Fold(S)[T] = SumStep(g, Fold(S), T)
  BY <1>1 DEF SumsUpTo, IsSum
<1>5. SumFunctionOnSet(g, {}) = 0
  BY <1>3, <1>4 DEF SumStep
<1>6. ASSUME S # {}
      PROVE  SumFunctionOnSet(g, S) = g[CHOOSE x \in S : TRUE]
                                      + SumFunctionOnSet(g, S \ {CHOOSE x \in S : TRUE})
  BY <1>3, <1>4, <1>6 DEF SumStep
<1> QED
  BY <1>5, <1>6

\* The empty sum is zero.
LEMMA SumOfEmpty ==
  ASSUME NEW g
  PROVE  SumFunctionOnSet(g, {}) = 0
BY SumUnfolds, FS_EmptySet

\* A sum of integers is an integer, and any element can be taken out of it.
LEMMA SumType ==
  ASSUME NEW S, IsFiniteSet(S), NEW g, \A x \in S : g[x] \in Int
  PROVE  SumFunctionOnSet(g, S) \in Int
<1> DEFINE Q == {T \in SUBSET S : SumFunctionOnSet(g, T) \in Int}
<1>1. ASSUME NEW T \in SUBSET S, \A x \in T : T \ {x} \in Q PROVE T \in Q
  <2>1. IsFiniteSet(T)
    BY FS_Subset
  <2>2. CASE T = {}
    BY <2>2, SumOfEmpty
  <2>3. CASE T # {}
    <3>1. PICK x \in T : SumFunctionOnSet(g, T) = g[x] + SumFunctionOnSet(g, T \ {x})
      BY <2>1, <2>3, SumUnfolds
    <3> QED
      BY <1>1, <3>1
  <2> QED
    BY <2>2, <2>3
<1>2. S \in Q
  <2> HIDE DEF Q
  <2>1. Q \in SUBSET (SUBSET S)
    BY DEF Q
  <2> QED
    BY <1>1, <2>1, FiniteSetInduction
<1> QED
  BY <1>2

\* A sum is any element and the sum of the rest.
LEMMA SumTakesOut ==
  ASSUME NEW S, IsFiniteSet(S), NEW g, \A x \in S : g[x] \in Int, NEW y \in S
  PROVE  SumFunctionOnSet(g, S) = g[y] + SumFunctionOnSet(g, S \ {y})
<1> DEFINE Q == {T \in SUBSET S :
                  \A z \in T : SumFunctionOnSet(g, T) = g[z] + SumFunctionOnSet(g, T \ {z})}
<1>0. \A T \in SUBSET S : IsFiniteSet(T) /\ SumFunctionOnSet(g, T) \in Int
  BY FS_Subset, SumType
<1>1. ASSUME NEW T \in SUBSET S, \A x \in T : T \ {x} \in Q PROVE T \in Q
  <2> SUFFICES ASSUME NEW z \in T
               PROVE  SumFunctionOnSet(g, T) = g[z] + SumFunctionOnSet(g, T \ {z})
    OBVIOUS
  <2>1. PICK x \in T : SumFunctionOnSet(g, T) = g[x] + SumFunctionOnSet(g, T \ {x})
    BY <1>0, SumUnfolds
  <2>2. CASE x = z
    BY <2>1, <2>2
  <2>3. CASE x # z
    <3>1. SumFunctionOnSet(g, T \ {x}) = g[z] + SumFunctionOnSet(g, (T \ {x}) \ {z})
      BY <1>1, <2>3
    <3>2. SumFunctionOnSet(g, T \ {z}) = g[x] + SumFunctionOnSet(g, (T \ {z}) \ {x})
      BY <1>1, <2>3
    <3>3. (T \ {x}) \ {z} = (T \ {z}) \ {x}
      OBVIOUS
    <3>4. /\ SumFunctionOnSet(g, (T \ {x}) \ {z}) \in Int
          /\ g[x] \in Int /\ g[z] \in Int
      BY <1>0
    <3> DEFINE rest == SumFunctionOnSet(g, (T \ {x}) \ {z})
               lessX == SumFunctionOnSet(g, T \ {x})
               lessZ == SumFunctionOnSet(g, T \ {z})
               whole == SumFunctionOnSet(g, T)
    <3>5. lessX = g[z] + rest /\ lessZ = g[x] + rest /\ whole = g[x] + lessX /\ rest \in Int
      BY <2>1, <3>1, <3>2, <3>3, <3>4
    <3> HIDE DEF rest, lessX, lessZ, whole
    <3>6. whole = g[z] + lessZ
      BY <3>4, <3>5
    <3> QED
      BY <3>6 DEF lessZ, whole
  <2> QED
    BY <2>2, <2>3
<1>2. S \in Q
  <2> HIDE DEF Q
  <2>1. Q \in SUBSET (SUBSET S)
    BY DEF Q
  <2> QED
    BY <1>1, <2>1, FiniteSetInduction
<1> QED
  BY <1>2

\* Sums of the same values are the same.
LEMMA SumCongruence ==
  ASSUME NEW S, IsFiniteSet(S), NEW f, NEW g, \A x \in S : f[x] = g[x]
  PROVE  SumFunctionOnSet(f, S) = SumFunctionOnSet(g, S)
<1> DEFINE Q == {T \in SUBSET S : SumFunctionOnSet(f, T) = SumFunctionOnSet(g, T)}
<1>1. ASSUME NEW T \in SUBSET S, \A x \in T : T \ {x} \in Q PROVE T \in Q
  <2>1. IsFiniteSet(T)
    BY FS_Subset
  <2>2. CASE T = {}
    BY <2>2, SumOfEmpty
  <2>3. CASE T # {}
    <3> DEFINE x == CHOOSE x \in T : TRUE
    <3>1. x \in T
      BY <2>3
    <3>2. /\ SumFunctionOnSet(f, T) = f[x] + SumFunctionOnSet(f, T \ {x})
          /\ SumFunctionOnSet(g, T) = g[x] + SumFunctionOnSet(g, T \ {x})
      BY <2>1, <2>3, SumUnfolds
    <3> QED
      BY <1>1, <3>1, <3>2
  <2> QED
    BY <2>2, <2>3
<1>2. S \in Q
  <2> HIDE DEF Q
  <2>1. Q \in SUBSET (SUBSET S)
    BY DEF Q
  <2> QED
    BY <1>1, <2>1, FiniteSetInduction
<1> QED
  BY <1>2

\* The sum of f + g is the sum of f and that of g.
LEMMA SumAdds ==
  ASSUME NEW S, IsFiniteSet(S), NEW f, NEW g, NEW h,
         \A x \in S : f[x] \in Int /\ g[x] \in Int /\ h[x] = f[x] + g[x]
  PROVE  SumFunctionOnSet(h, S) = SumFunctionOnSet(f, S) + SumFunctionOnSet(g, S)
<1> DEFINE Q == {T \in SUBSET S : SumFunctionOnSet(h, T) =
                                    SumFunctionOnSet(f, T) + SumFunctionOnSet(g, T)}
<1>1. ASSUME NEW T \in SUBSET S, \A x \in T : T \ {x} \in Q PROVE T \in Q
  <2>1. IsFiniteSet(T)
    BY FS_Subset
  <2>2. CASE T = {}
    BY <2>2, SumOfEmpty
  <2>3. CASE T # {}
    <3>1. PICK x \in T : TRUE
      BY <2>3
    <3> DEFINE hs == SumFunctionOnSet(h, T \ {x})
               fs == SumFunctionOnSet(f, T \ {x})
               gs == SumFunctionOnSet(g, T \ {x})
    <3>2. IsFiniteSet(T \ {x}) /\ T \ {x} \in SUBSET S
      BY <2>1, FS_RemoveElement
    <3>3. \A y \in T : f[y] \in Int /\ g[y] \in Int /\ h[y] \in Int /\ h[y] = f[y] + g[y]
      OBVIOUS
    <3>4. SumFunctionOnSet(h, T) = h[x] + hs
      BY <2>1, <3>3, SumTakesOut
    <3>5. SumFunctionOnSet(f, T) = f[x] + fs
      BY <2>1, <3>3, SumTakesOut
    <3>6. SumFunctionOnSet(g, T) = g[x] + gs
      BY <2>1, <3>3, SumTakesOut
    <3>7. hs = fs + gs
      BY <1>1
    <3>8. fs \in Int /\ gs \in Int
      BY <3>2, <3>3, SumType
    <3> HIDE DEF hs, fs, gs
    <3> QED
      BY <3>3, <3>4, <3>5, <3>6, <3>7, <3>8
  <2> QED
    BY <2>2, <2>3
<1>2. S \in Q
  <2> HIDE DEF Q
  <2>1. Q \in SUBSET (SUBSET S)
    BY DEF Q
  <2> QED
    BY <1>1, <2>1, FiniteSetInduction
<1> QED
  BY <1>2

\* Two pairs of functions that add up to the same have sums that do.
LEMMA SumsAlike ==
  ASSUME NEW S, IsFiniteSet(S), NEW a, NEW b, NEW c, NEW d,
         \A x \in S : /\ a[x] \in Int /\ b[x] \in Int /\ c[x] \in Int /\ d[x] \in Int
                     /\ a[x] + b[x] = c[x] + d[x]
  PROVE  SumFunctionOnSet(a, S) + SumFunctionOnSet(b, S) =
           SumFunctionOnSet(c, S) + SumFunctionOnSet(d, S)
<1> DEFINE h == [x \in S |-> a[x] + b[x]]
<1>1. \A x \in S : /\ a[x] \in Int /\ b[x] \in Int /\ h[x] = a[x] + b[x]
                  /\ c[x] \in Int /\ d[x] \in Int /\ h[x] = c[x] + d[x]
  OBVIOUS
<1> HIDE DEF h
<1>2. SumFunctionOnSet(h, S) = SumFunctionOnSet(a, S) + SumFunctionOnSet(b, S)
  BY <1>1, SumAdds
<1>3. SumFunctionOnSet(h, S) = SumFunctionOnSet(c, S) + SumFunctionOnSet(d, S)
  BY <1>1, SumAdds
<1> QED
  BY <1>2, <1>3

\* A sum of numbers none of which is negative is not negative.
LEMMA SumOfNat ==
  ASSUME NEW S, IsFiniteSet(S), NEW g, \A x \in S : g[x] \in Nat
  PROVE  SumFunctionOnSet(g, S) \in Nat
<1> DEFINE Q == {T \in SUBSET S : SumFunctionOnSet(g, T) \in Nat}
<1>1. ASSUME NEW T \in SUBSET S, \A x \in T : T \ {x} \in Q PROVE T \in Q
  <2>1. IsFiniteSet(T)
    BY FS_Subset
  <2>2. CASE T = {}
    BY <2>2, SumOfEmpty
  <2>3. CASE T # {}
    <3>1. PICK x \in T : SumFunctionOnSet(g, T) = g[x] + SumFunctionOnSet(g, T \ {x})
      BY <2>1, <2>3, SumUnfolds
    <3> QED
      BY <1>1, <3>1
  <2> QED
    BY <2>2, <2>3
<1>2. S \in Q
  <2> HIDE DEF Q
  <2>1. Q \in SUBSET (SUBSET S)
    BY DEF Q
  <2> QED
    BY <1>1, <2>1, FiniteSetInduction
<1> QED
  BY <1>2

\* Smaller values have the smaller sum.
LEMMA SumIsMonotone ==
  ASSUME NEW S, IsFiniteSet(S), NEW f, NEW g,
         \A x \in S : f[x] \in Int /\ g[x] \in Int /\ f[x] <= g[x]
  PROVE  SumFunctionOnSet(f, S) <= SumFunctionOnSet(g, S)
<1> DEFINE d == [x \in S |-> g[x] - f[x]]
<1>1. \A x \in S : d[x] \in Nat /\ g[x] = f[x] + d[x]
  OBVIOUS
<1> HIDE DEF d
<1>2. \A x \in S : f[x] \in Int /\ d[x] \in Int /\ g[x] = f[x] + d[x]
  BY <1>1
<1>3. SumFunctionOnSet(g, S) = SumFunctionOnSet(f, S) + SumFunctionOnSet(d, S)
  BY <1>2, SumAdds
<1>4. SumFunctionOnSet(d, S) \in Nat /\ SumFunctionOnSet(f, S) \in Int
  BY <1>1, SumOfNat, SumType
<1> QED
  BY <1>3, <1>4

\* The mirror image of the values has the mirror image of the sum.
LEMMA SumNegates ==
  ASSUME NEW S, IsFiniteSet(S), NEW f, NEW g, \A x \in S : f[x] \in Int /\ g[x] = - f[x]
  PROVE  SumFunctionOnSet(g, S) = - SumFunctionOnSet(f, S)
<1> DEFINE z == [x \in S |-> 0]
<1>1. \A x \in S : z[x] \in Int /\ z[x] \in Nat /\ z[x] = f[x] + g[x] /\ g[x] \in Int
                 /\ z[x] = z[x] + z[x]
  OBVIOUS
<1> HIDE DEF z
<1>2. SumFunctionOnSet(z, S) = SumFunctionOnSet(f, S) + SumFunctionOnSet(g, S)
  BY <1>1, SumAdds
<1>3. SumFunctionOnSet(z, S) = SumFunctionOnSet(z, S) + SumFunctionOnSet(z, S)
  BY <1>1, SumAdds
<1>4. /\ SumFunctionOnSet(z, S) \in Int /\ SumFunctionOnSet(f, S) \in Int
      /\ SumFunctionOnSet(g, S) \in Int
  BY <1>1, SumType
<1> DEFINE a == SumFunctionOnSet(f, S)
           b == SumFunctionOnSet(g, S)
           c == SumFunctionOnSet(z, S)
<1>5. c = a + b /\ c = c + c /\ a \in Int /\ b \in Int /\ c \in Int
  BY <1>2, <1>3, <1>4
<1> HIDE DEF a, b, c
<1>6. b = - a
  BY <1>5
<1> QED
  BY <1>6 DEF a, b

DifferAt(f, g, y, S) == \A x \in S : f[x] \in Int /\ g[x] \in Int /\ (x # y => f[x] = g[x])

\* Where one value differs, the sums differ by as much.
LEMMA SumOfReplaced ==
  ASSUME NEW S, IsFiniteSet(S), NEW f, NEW g, NEW y \in S, DifferAt(f, g, y, S)
  PROVE  SumFunctionOnSet(g, S) = SumFunctionOnSet(f, S) + (g[y] - f[y])
<1> USE DEF DifferAt
<1> DEFINE fs == SumFunctionOnSet(f, S \ {y})
           gs == SumFunctionOnSet(g, S \ {y})
<1>1. IsFiniteSet(S \ {y}) /\ \A x \in S \ {y} : f[x] \in Int /\ f[x] = g[x]
  BY FS_RemoveElement
<1>2. fs = gs
  BY <1>1, SumCongruence
<1>3. fs \in Int
  BY <1>1, SumType
<1>4. SumFunctionOnSet(f, S) = f[y] + fs
  BY SumTakesOut
<1>5. SumFunctionOnSet(g, S) = g[y] + gs
  BY SumTakesOut
<1> HIDE DEF fs, gs
<1> QED
  BY <1>2, <1>3, <1>4, <1>5

\* Part of a sum of numbers none of which is negative is at most the whole.
LEMMA SumOfPart ==
  ASSUME NEW S, IsFiniteSet(S), NEW g, \A x \in S : g[x] \in Nat, NEW T \in SUBSET S
  PROVE  SumFunctionOnSet(g, T) <= SumFunctionOnSet(g, S)
<1> DEFINE R == {U \in SUBSET (S \ T) : SumFunctionOnSet(g, T) <= SumFunctionOnSet(g, T \cup U)}
<1>0. \A U \in SUBSET S : IsFiniteSet(U) /\ SumFunctionOnSet(g, U) \in Nat
  BY FS_Subset, SumOfNat
<1>1. ASSUME NEW U \in SUBSET (S \ T), \A x \in U : U \ {x} \in R PROVE U \in R
  <2>1. CASE U = {}
    <3>1. T \cup U = T
      BY <2>1
    <3> QED
      BY <1>0, <3>1
  <2>2. CASE U # {}
    <3>1. PICK x \in U : TRUE
      BY <2>2
    <3>2. T \cup U \in SUBSET S /\ (T \cup U) \ {x} = T \cup (U \ {x})
          /\ T \cup (U \ {x}) \in SUBSET S /\ x \in T \cup U
      BY <3>1
    <3>3. \A y \in T \cup U : g[y] \in Int /\ g[y] \in Nat
      BY <3>2
    <3>4. SumFunctionOnSet(g, T \cup U) = g[x] + SumFunctionOnSet(g, (T \cup U) \ {x})
      BY <1>0, <3>2, <3>3, SumTakesOut
    <3>5. SumFunctionOnSet(g, T) <= SumFunctionOnSet(g, T \cup (U \ {x}))
      BY <1>1, <3>1
    <3>6. SumFunctionOnSet(g, T \cup (U \ {x})) \in Nat /\ SumFunctionOnSet(g, T) \in Nat
          /\ g[x] \in Nat
      BY <1>0, <3>2, <3>3
    <3> QED
      BY <3>2, <3>4, <3>5, <3>6
  <2> QED
    BY <2>1, <2>2
<1>2. S \ T \in R
  <2> HIDE DEF R
  <2>1. R \in SUBSET (SUBSET (S \ T)) /\ IsFiniteSet(S \ T)
    BY <1>0 DEF R
  <2> QED
    BY <1>1, <2>1, FiniteSetInduction
<1>3. T \cup (S \ T) = S
  OBVIOUS
<1> QED
  BY <1>2, <1>3
-----------------------------------------------------------------------------
(***************************************************************************)
(* Elements of finite sets of numbers.                                     *)
(***************************************************************************)
\* The image of a finite set is finite and no larger, and as large if no two
\* elements have one image.
LEMMA ImageSize ==
  ASSUME NEW S, IsFiniteSet(S), NEW f
  PROVE  LET T == {f[x] : x \in S}
         IN  /\ IsFiniteSet(T) /\ Cardinality(T) <= Cardinality(S)
             /\ (\A x, z \in S : f[x] = f[z] => x = z) => Cardinality(T) = Cardinality(S)
<1> DEFINE T == {f[x] : x \in S}
           m == [x \in S |-> f[x]]
<1>1. m \in Surjection(S, T)
  BY DEF Surjection
<1>2. (\A x, z \in S : f[x] = f[z] => x = z) => m \in Injection(S, T)
  BY <1>1 DEF Surjection, Injection, IsInjective
<1>3. /\ IsFiniteSet(T) /\ Cardinality(T) <= Cardinality(S)
      /\ Cardinality(T) = Cardinality(S) <=> m \in Injection(S, T)
  <2> HIDE DEF m, T
  <2> QED
    BY <1>1, FS_Surjection
<1> QED
  BY <1>2, <1>3

\* A value nobody undercuts.
LEMMA LeastValue ==
  ASSUME NEW S, IsFiniteSet(S), S # {}, NEW f, \A x \in S : f[x] \in Int
  PROVE  \E x \in S : \A y \in S : f[x] <= f[y]
<1> DEFINE Q == {T \in SUBSET S : T # {} => \E x \in T : \A y \in T : f[x] <= f[y]}
<1>1. ASSUME NEW T \in SUBSET S, \A x \in T : T \ {x} \in Q PROVE T \in Q
  <2> SUFFICES ASSUME T # {} PROVE \E x \in T : \A y \in T : f[x] <= f[y]
    OBVIOUS
  <2>1. PICK z \in T : TRUE
    OBVIOUS
  <2>2. CASE T \ {z} = {}
    <3>1. \A y \in T : y = z
      BY <2>2
    <3> QED
      BY <2>1, <3>1
  <2>3. CASE T \ {z} # {}
    <3>1. PICK x \in T \ {z} : \A y \in T \ {z} : f[x] <= f[y]
      BY <1>1, <2>1, <2>3
    <3>2. f[x] \in Int /\ f[z] \in Int /\ \A y \in T : f[y] \in Int
      OBVIOUS
    <3>3. CASE f[x] <= f[z]
      BY <3>1, <3>3
    <3>4. CASE f[z] <= f[x]
      <4>1. \A y \in T : f[z] <= f[y]
        BY <3>1, <3>2, <3>4
      <4> QED
        BY <2>1, <4>1
    <3> QED
      BY <3>2, <3>3, <3>4
  <2> QED
    BY <2>2, <2>3
<1>2. S \in Q
  <2> HIDE DEF Q
  <2>1. Q \in SUBSET (SUBSET S)
    BY DEF Q
  <2> QED
    BY <1>1, <2>1, FiniteSetInduction
<1> QED
  BY <1>2

\* The minimum of a finite set is its least element.
LEMMA MinIsLeast ==
  ASSUME NEW S \in SUBSET Int, IsFiniteSet(S), S # {}
  PROVE  Min(S) \in S /\ \A y \in S : Min(S) <= y
<1> DEFINE f == [x \in S |-> x]
<1>1. \A x \in S : f[x] \in Int /\ f[x] = x
  OBVIOUS
<1> HIDE DEF f
<1>2. \E x \in S : \A y \in S : f[x] <= f[y]
  BY <1>1, LeastValue
<1>3. \E x \in S : \A y \in S : x <= y
  BY <1>1, <1>2
<1> QED
  BY <1>3 DEF Min

\* The maximum of a finite set is its greatest element.
LEMMA MaxIsGreatest ==
  ASSUME NEW S \in SUBSET Int, IsFiniteSet(S), S # {}
  PROVE  Max(S) \in S /\ \A y \in S : Max(S) >= y
<1> DEFINE f == [x \in S |-> - x]
<1>1. \A x \in S : f[x] \in Int /\ f[x] = - x
  OBVIOUS
<1> HIDE DEF f
<1>2. PICK x \in S : \A y \in S : f[x] <= f[y]
  BY <1>1, LeastValue
<1>3. \A y \in S : x >= y
  BY <1>1, <1>2
<1> QED
  BY <1>3 DEF Max

\* The n greatest of the elements, when there are that many.
Greatest(S, n) == {x \in S : Cardinality({y \in S : y > x}) < n}

\* The least and the greatest of two numbers.
LEMMA OfTwo ==
  ASSUME NEW a \in Int, NEW b \in Int
  PROVE  /\ Min({a, b}) = IF a < b THEN a ELSE b
         /\ Max({a, b}) = IF a < b THEN b ELSE a
<1>1. PICK S \in SUBSET Int : S = {a, b}
  OBVIOUS
<1>2. IsFiniteSet(S) /\ S # {}
  <2>1. S = (({} \cup {a}) \cup {b})
    BY <1>1
  <2> QED
    BY <2>1, FS_EmptySet, FS_AddElement
<1>3. /\ Min(S) \in S /\ \A y \in S : Min(S) <= y
      /\ Max(S) \in S /\ \A y \in S : Max(S) >= y
  BY <1>2, MinIsLeast, MaxIsGreatest
<1>4. /\ (Min(S) = a \/ Min(S) = b) /\ Min(S) <= a /\ Min(S) <= b
      /\ (Max(S) = a \/ Max(S) = b) /\ Max(S) >= a /\ Max(S) >= b
  BY <1>1, <1>3
<1>5. Min(S) = (IF a < b THEN a ELSE b) /\ Max(S) = (IF a < b THEN b ELSE a)
  BY <1>4
<1> QED
  BY <1>1, <1>5

\* The n greatest are n of them, if there are that many.
LEMMA GreatestAreSoMany ==
  ASSUME NEW S \in SUBSET Int, IsFiniteSet(S), NEW n \in Nat, n <= Cardinality(S)
  PROVE  Cardinality(Greatest(S, n)) = n
<1> DEFINE N == Cardinality(S)
           rank == [x \in S |-> Cardinality({y \in S : y > x})]
           R == {rank[x] : x \in S}
<1>0. N \in Nat /\ n <= N
  BY FS_CardinalityType
<1>1. ASSUME NEW x \in S
      PROVE  IsFiniteSet({y \in S : y > x}) /\ rank[x] \in 0..(N - 1)
  <2>1. {y \in S : y > x} \subseteq S \ {x}
    OBVIOUS
  <2>2. IsFiniteSet(S \ {x}) /\ Cardinality(S \ {x}) = N - 1
    BY FS_RemoveElement
  <2>3. /\ IsFiniteSet({y \in S : y > x})
        /\ Cardinality({y \in S : y > x}) <= Cardinality(S \ {x})
    BY <2>1, <2>2, FS_Subset
  <2>4. Cardinality({y \in S : y > x}) \in Nat
    BY <2>3, FS_CardinalityType
  <2> QED
    BY <1>0, <2>2, <2>3, <2>4
<1>2. ASSUME NEW x \in S, NEW z \in S, x < z PROVE rank[z] < rank[x]
  <2>1. {y \in S : y > z} \subseteq {y \in S : y > x} \ {z}
    <3> SUFFICES ASSUME NEW y \in S, y > z PROVE y > x /\ y # z
      OBVIOUS
    <3>1. x \in Int /\ y \in Int /\ z \in Int
      OBVIOUS
    <3> QED
      BY <1>2, <3>1
  <2>2. /\ IsFiniteSet({y \in S : y > x} \ {z})
        /\ Cardinality({y \in S : y > x} \ {z}) = rank[x] - 1
    BY <1>1, <1>2, FS_RemoveElement
  <2>3. Cardinality({y \in S : y > z}) <= Cardinality({y \in S : y > x} \ {z})
    BY <2>1, <2>2, FS_Subset
  <2> QED
    BY <1>1, <2>2, <2>3
<1>3. \A x, z \in S : rank[x] = rank[z] => x = z
  BY <1>1, <1>2
<1>5. IsFiniteSet(R) /\ Cardinality(R) = N
  <2> HIDE DEF rank
  <2> QED
    BY <1>3, ImageSize
<1>6. R = 0..(N - 1)
  <2>1. R \subseteq 0..(N - 1)
    BY <1>1
  <2> HIDE DEF R, N
  <2>2. IsFiniteSet(0..(N - 1)) /\ Cardinality(0..(N - 1)) = N
    BY <1>0, FS_Interval
  <2> QED
    BY <1>5, <2>1, <2>2, FS_Subset
<1> DEFINE L == Greatest(S, n)
<1>7. L = {x \in S : rank[x] \in 0..(n - 1)}
  <2>1. \A x \in S : rank[x] = Cardinality({y \in S : y > x}) /\ rank[x] \in 0..(N - 1)
    BY <1>1
  <2> HIDE DEF rank, N
  <2>2. \A x \in S : Cardinality({y \in S : y > x}) < n <=> rank[x] \in 0..(n - 1)
    BY <1>0, <2>1
  <2> QED
    BY <2>2 DEF Greatest
<1>8. {rank[x] : x \in L} = 0..(n - 1)
  <2>1. \A m \in 0..(n - 1) : m \in R
    <3> HIDE DEF R, N
    <3> QED
      BY <1>0, <1>6
  <2>2. \A m \in 0..(n - 1) : \E x \in S : m = rank[x]
    BY <2>1
  <2> HIDE DEF R, rank, L
  <2> QED
    BY <1>7, <2>2
<1>9. IsFiniteSet(L)
  BY FS_Subset DEF Greatest
<1>10. Cardinality({rank[x] : x \in L}) = Cardinality(L)
  <2>1. \A x, z \in L : rank[x] = rank[z] => x = z
    BY <1>3 DEF Greatest
  <2> HIDE DEF rank, L
  <2> QED
    BY <1>9, <2>1, ImageSize
<1>11. Cardinality(0..(n - 1)) = n
  BY FS_Interval
<1> QED
  BY <1>8, <1>10, <1>11

\* They are all there is from the least of them on.
LEMMA GreatestAreUpward ==
  ASSUME NEW S \in SUBSET Int, IsFiniteSet(S), NEW n \in Nat, NEW x \in Greatest(S, n),
         NEW y \in S, x <= y
  PROVE  y \in Greatest(S, n)
<1>1. {z \in S : z > y} \in SUBSET {z \in S : z > x} /\ x \in S
  <2>1. x \in S /\ x \in Int /\ y \in Int
    BY DEF Greatest
  <2>2. ASSUME NEW z \in S, z > y PROVE z > x
    <3>1. z \in Int
      OBVIOUS
    <3> QED
      BY <2>1, <2>2, <3>1
  <2> QED
    BY <2>1, <2>2
<1>2. IsFiniteSet({z \in S : z > x})
  BY FS_Subset
<1>3. Cardinality({z \in S : z > y}) <= Cardinality({z \in S : z > x})
  BY <1>1, <1>2, FS_Subset
<1>4. Cardinality({z \in S : z > x}) < n
  BY DEF Greatest
<1>5. Cardinality({z \in S : z > x}) \in Nat /\ Cardinality({z \in S : z > y}) \in Nat
  BY <1>1, <1>2, FS_Subset, FS_CardinalityType
<1>6. Cardinality({z \in S : z > y}) < n
  BY <1>3, <1>4, <1>5
<1> QED
  BY <1>6 DEF Greatest

-----------------------------------------------------------------------------
\* Folds over lists.

\* Steps that make one of V of a place of a list and one of V.
Steps(n, V) == [(1..n) \X V -> V]

IsRecursion(f, V, b, n, G) ==
  f \in [0..n -> V] /\ f[0] = b /\ \A i \in 1..n : f[i] = G[<<i, f[i - 1]>>]

\* What a step given as a function makes of the places of a list, one by one.
LEMMA PrefixRecursion ==
  ASSUME NEW V, NEW b \in V, NEW n \in Nat, NEW G \in Steps(n, V)
  PROVE  \E f : IsRecursion(f, V, b, n, G)
<1> USE DEF Steps, IsRecursion
<1> DEFINE Goes(f, m) == f \in [0..m -> V] /\ f[0] = b /\ \A i \in 1..m : f[i] = G[<<i, f[i-1]>>]
           Q == {m \in 0..n : \E f : Goes(f, m)}
<1>1. 0 \in Q
  <2> DEFINE e == [i \in 0..0 |-> b]
  <2>1. Goes(e, 0)
    OBVIOUS
  <2> HIDE DEF e, Goes
  <2> QED
    BY <2>1
<1>2. ASSUME NEW k \in 0..(n-1), k \in Q PROVE k + 1 \in Q
  <2>1. PICK f : Goes(f, k)
    BY <1>2
  <2> DEFINE next == G[<<k + 1, f[k]>>]
             e == [i \in 0..(k + 1) |-> IF i = k + 1 THEN next ELSE f[i]]
  <2>2. f[k] \in V /\ k + 1 \in 1..n
    BY <2>1
  <2>3. next \in V
    BY <2>2
  <2>4. e \in [0..(k + 1) -> V] /\ e[0] = b /\ e[k + 1] = next /\ \A i \in 0..k : e[i] = f[i]
    <3> HIDE DEF next
    <3> QED
      BY <2>1, <2>3
  <2>5. \A i \in 1..(k + 1) : e[i] = G[<<i, e[i-1]>>]
    <3> SUFFICES ASSUME NEW i \in 1..(k + 1) PROVE e[i] = G[<<i, e[i-1]>>]
      OBVIOUS
    <3> HIDE DEF e
    <3>1. CASE i = k + 1
      BY <2>4, <3>1
    <3>2. CASE i # k + 1
      <4>1. i \in 1..k /\ i - 1 \in 0..k /\ i \in 0..k
        BY <3>2
      <4> QED
        BY <2>1, <2>4, <4>1
    <3> QED
      BY <3>1, <3>2
  <2> HIDE DEF e
  <2> QED
    BY <2>2, <2>4, <2>5
<1>3. n \in Q
  <2> HIDE DEF Q
  <2>1. Q \in SUBSET Nat
    BY DEF Q
  <2> QED
    BY <1>1, <1>2, <2>1, NatSetInduction
<1> QED
  BY <1>3

\* The step of a fold from the left, taken at the greatest place of a set of them.
LeftStep(G, b, h, s) == IF s = {} THEN b ELSE G[<<Max(s), h[s \ {Max(s)}]>>]

IsLeftFold(h, G, b, n) == \A s \in SUBSET (1..n) : h[s] = LeftStep(G, b, h, s)

\* There is such a fold on every set of places.
LEMMA LeftFoldExists ==
  ASSUME NEW V, NEW b \in V, NEW n \in Nat, NEW G \in Steps(n, V)
  PROVE  \E h \in [SUBSET (1..n) -> V] : IsLeftFold(h, G, b, n)
<1> USE DEF Steps, IsLeftFold
<1> DEFINE S == 1..n
           D(m) == {s \in SUBSET S : Cardinality(s) <= m}
           Goes(h, m) == h \in [D(m) -> V] /\ \A s \in D(m) : h[s] = LeftStep(G, b, h, s)
           Q == {m \in Nat : \E h : Goes(h, m)}
<1>0. \A s \in SUBSET S : /\ IsFiniteSet(s) /\ Cardinality(s) \in Nat /\ Cardinality(s) <= n
                          /\ s # {} => /\ Max(s) \in s
                                       /\ Cardinality(s \ {Max(s)}) = Cardinality(s) - 1
  <2> SUFFICES ASSUME NEW s \in SUBSET S
               PROVE  /\ IsFiniteSet(s) /\ Cardinality(s) \in Nat /\ Cardinality(s) <= n
                      /\ s # {} => /\ Max(s) \in s
                                   /\ Cardinality(s \ {Max(s)}) = Cardinality(s) - 1
    OBVIOUS
  <2>1. IsFiniteSet(S) /\ Cardinality(S) = n /\ S \in SUBSET Int
    BY FS_Interval
  <2> HIDE DEF S
  <2>2. IsFiniteSet(s) /\ Cardinality(s) \in Nat /\ Cardinality(s) <= n
    BY <2>1, FS_Subset, FS_CardinalityType
  <2>3. ASSUME s # {} PROVE Max(s) \in s /\ Cardinality(s \ {Max(s)}) = Cardinality(s) - 1
    <3>1. s \in SUBSET Int
      BY <2>1
    <3>2. Max(s) \in s
      BY <2>2, <2>3, <3>1, MaxIsGreatest
    <3> QED
      BY <2>2, <3>2, FS_RemoveElement
  <2> QED
    BY <2>2, <2>3
<1>a. \A s \in SUBSET S : IsFiniteSet(s) /\ Cardinality(s) \in Nat /\ Cardinality(s) <= n
  BY <1>0
<1>b. \A s \in SUBSET S : s # {} =>
        Max(s) \in S /\ s \ {Max(s)} \in SUBSET S /\ Cardinality(s \ {Max(s)}) = Cardinality(s) - 1
  BY <1>0
<1>1. 0 \in Q
  <2>1. D(0) = {{}}
    BY <1>a, FS_EmptySet
  <2>2. Goes([s \in D(0) |-> b], 0)
    BY <2>1 DEF LeftStep
  <2> QED
    BY <2>2
<1>2. ASSUME NEW k \in 0..(n-1), k \in Q PROVE k + 1 \in Q
  <2>1. PICK h : Goes(h, k)
    BY <1>2
  <2> DEFINE e == [s \in D(k+1) |-> LeftStep(G, b, h, s)]
  <2>2. \A s \in D(k+1) : s # {} => /\ s \ {Max(s)} \in D(k) /\ Max(s) \in S
    <3> SUFFICES ASSUME NEW s \in D(k+1), s # {} PROVE s \ {Max(s)} \in D(k) /\ Max(s) \in S
      OBVIOUS
    <3>1. s \in SUBSET S /\ Cardinality(s) <= k + 1 /\ Cardinality(s) \in Nat
      BY <1>a
    <3> QED
      BY <1>b, <3>1
  <2>3. ASSUME NEW s \in D(k+1) PROVE LeftStep(G, b, h, s) \in V
    <3>1. CASE s = {}
      BY <3>1 DEF LeftStep
    <3>2. CASE s # {}
      <4>1. Max(s) \in S /\ h[s \ {Max(s)}] \in V
        BY <2>1, <2>2, <3>2
      <4> QED
        BY <3>2, <4>1 DEF LeftStep
    <3> QED
      BY <3>1, <3>2
  <2>4. \A s \in D(k) : s \in D(k+1) /\ e[s] = h[s]
    BY <1>a, <2>1
  <2>5. \A s \in D(k+1) : LeftStep(G, b, e, s) = LeftStep(G, b, h, s)
    <3> HIDE DEF D, e
    <3> QED
      BY <2>2, <2>4 DEF LeftStep
  <2>6. Goes(e, k+1)
    BY <2>3, <2>5
  <2>7. k + 1 \in Nat
    OBVIOUS
  <2> HIDE DEF e, Goes
  <2> QED
    BY <2>6, <2>7
<1>3. n \in Q
  <2> HIDE DEF Q
  <2>1. Q \in SUBSET Nat
    BY DEF Q
  <2> QED
    BY <1>1, <1>2, <2>1, NatSetInduction
<1>4. D(n) = SUBSET S
  BY <1>a
<1> QED
  BY <1>3, <1>4

\* The places up to one of them, and the greatest of these.
LEMMA PlacesUpTo ==
  ASSUME NEW n \in Nat, NEW i \in 1..n
  PROVE  /\ 1..i # {} /\ 1..i \in SUBSET (1..n)
         /\ Max(1..i) = i /\ (1..i) \ {i} = 1..(i - 1)
<1> DEFINE s == 1..i
<1>1. s # {} /\ s \in SUBSET (1..n) /\ s \in SUBSET Int /\ s \ {i} = 1..(i - 1) /\ i \in s
      /\ \A k \in s : k <= i
  OBVIOUS
<1>2. IsFiniteSet(s)
  BY FS_Interval
<1> HIDE DEF s
<1>3. Max(s) \in s /\ \A k \in s : k <= Max(s)
  BY <1>1, <1>2, MaxIsGreatest
<1>4. Max(s) = i
  BY <1>1, <1>3
<1> QED
  BY <1>1, <1>4 DEF s

\* A fold that takes the step wherever what it has is of its type has that type.
LEMMA FoldByPlaces ==
  ASSUME NEW V, NEW b \in V, NEW n \in Nat, NEW G \in Steps(n, V), NEW h,
         h[{}] = b, \A i \in 1..n : h[1..(i - 1)] \in V => h[1..i] = G[<<i, h[1..(i - 1)]>>]
  PROVE  \E f : IsRecursion(f, V, b, n, G) /\ f[n] = h[1..n]
<1> USE DEF Steps
<1> DEFINE Q == {m \in 0..n : h[1..m] \in V}
           f == [i \in 0..n |-> h[1..i]]
<1>1. 1..0 = {} /\ 0 \in Q
  OBVIOUS
<1>2. ASSUME NEW k \in 0..(n-1), k \in Q PROVE k + 1 \in Q
  <2>1. k + 1 \in 1..n /\ (k + 1) - 1 = k /\ h[1..k] \in V
    BY <1>2
  <2>2. h[1..(k + 1)] = G[<<k + 1, h[1..k]>>]
    BY <2>1
  <2> QED
    BY <2>1, <2>2
<1>3. ASSUME NEW m \in 0..n PROVE h[1..m] \in V
  <2> HIDE DEF Q
  <2>1. Q \in SUBSET Nat /\ m \in Nat /\ \A k \in 0..(m - 1) : k \in 0..(n - 1)
    BY DEF Q
  <2>2. m \in Q
    BY <1>1, <1>2, <2>1, NatSetInduction
  <2> QED
    BY <2>2 DEF Q
<1>4. f \in [0..n -> V] /\ f[0] = b /\ f[n] = h[1..n]
  BY <1>1, <1>3
<1>5. ASSUME NEW i \in 1..n PROVE f[i] = G[<<i, f[i - 1]>>]
  <2>1. i - 1 \in 0..n /\ i \in 0..n
    OBVIOUS
  <2> QED
    BY <1>3, <2>1
<1> HIDE DEF f
<1> QED
  BY <1>4, <1>5 DEF IsRecursion

-----------------------------------------------------------------------------
\* Only, unfolded, and the step it takes at each place of the list.
OnlyStep(list, set, h, s) ==
  IF s = {} THEN << >>
  ELSE IF list[Max(s)] \in set THEN Append(h[s \ {Max(s)}], list[Max(s)]) ELSE h[s \ {Max(s)}]

IsOnly(h, list, set) == h = [s \in SUBSET DOMAIN list |-> OnlyStep(list, set, h, s)]

\* Only as the choice of its unfolded function.
LEMMA OnlyIsFold ==
  ASSUME NEW list, NEW set
  PROVE  Only(list, set) = (CHOOSE h : IsOnly(h, list, set))[DOMAIN list]
BY DEF Only, FoldLeft, MapThenFoldSet, IsOnly, OnlyStep

\* What has been kept of a list up to each place.
Keeps(f, n, X, list, set) ==
  /\ f \in [0..n -> Seq(X)]
  /\ f[0] = << >> /\ f[n] = Only(list, set)
  /\ \A i \in 1..n : f[i] = IF list[i] \in set THEN Append(f[i - 1], list[i]) ELSE f[i - 1]

\* Only goes through the list and appends what is in the set.
LEMMA OnlyIsBuilt ==
  ASSUME NEW X, NEW list \in Seq(X), NEW set, NEW n \in Nat, n = Len(list)
  PROVE  \E f : Keeps(f, n, X, list, set)
<1>0. n = Len(list)
  OBVIOUS
<1> DEFINE V == Seq(X)
           none == << >>
           G == [p \in (1..n) \X V |-> IF list[p[1]] \in set THEN Append(p[2], list[p[1]]) ELSE p[2]]
<1>1. n \in Nat /\ DOMAIN list = 1..n /\ none \in V /\ \A i \in 1..n : list[i] \in X
  BY <1>0
<1>2. /\ G \in Steps(n, V)
      /\ \A i \in 1..n, q \in V :
           G[<<i, q>>] = IF list[i] \in set THEN Append(q, list[i]) ELSE q
  <2>1. \A i \in 1..n, q \in V : Append(q, list[i]) \in V
    BY <1>1
  <2> HIDE DEF V
  <2> QED
    BY <2>1 DEF Steps
<1> HIDE DEF G, V, none
<1>3. PICK e \in [SUBSET (1..n) -> V] : IsLeftFold(e, G, none, n)
  <2>1. G \in Steps(n, V) /\ n \in Nat /\ none \in V
    BY <1>1, <1>2
  <2> QED
    BY <2>1, LeftFoldExists
<1>4. \A h \in [SUBSET (1..n) -> V] : \A s \in SUBSET (1..n) :
        LeftStep(G, none, h, s) = OnlyStep(list, set, h, s)
  <2> SUFFICES ASSUME NEW h \in [SUBSET (1..n) -> V], NEW s \in SUBSET (1..n)
               PROVE  LeftStep(G, none, h, s) = OnlyStep(list, set, h, s)
    OBVIOUS
  <2>1. CASE s = {}
    BY <2>1 DEF LeftStep, OnlyStep, none
  <2>2. CASE s # {}
    <3>1. Max(s) \in 1..n
      <4>1. IsFiniteSet(1..n) /\ 1..n \in SUBSET Int
        BY <1>1, FS_Interval
      <4>2. IsFiniteSet(s) /\ s \in SUBSET Int
        BY <4>1, FS_Subset
      <4> QED
        BY <2>2, <4>2, MaxIsGreatest
    <3>2. h[s \ {Max(s)}] \in V
      OBVIOUS
    <3> QED
      BY <1>2, <2>2, <3>1, <3>2 DEF LeftStep, OnlyStep
  <2> QED
    BY <2>1, <2>2
<1>5. IsOnly(e, list, set)
  BY <1>1, <1>3, <1>4 DEF IsOnly, IsLeftFold
<1>6. PICK h : IsOnly(h, list, set) /\ h[1..n] = Only(list, set)
  BY <1>1, <1>5, OnlyIsFold
<1>7. ASSUME NEW i \in 1..n, h[1..(i - 1)] \in V
      PROVE  h[1..i] = G[<<i, h[1..(i - 1)]>>]
  <2>1. 1..i # {} /\ 1..i \in SUBSET (1..n) /\ Max(1..i) = i /\ (1..i) \ {i} = 1..(i - 1)
    BY <1>1, PlacesUpTo
  <2>2. h[1..i] = OnlyStep(list, set, h, 1..i)
    BY <1>1, <1>6, <2>1 DEF IsOnly
  <2> DEFINE before == h[1..(i - 1)]
  <2>3. h[1..i] = IF list[i] \in set THEN Append(before, list[i]) ELSE before
    BY <2>1, <2>2 DEF OnlyStep
  <2>4. before \in V
    BY <1>7
  <2> HIDE DEF before
  <2>5. G[<<i, before>>] = IF list[i] \in set THEN Append(before, list[i]) ELSE before
    BY <1>2, <2>4
  <2> QED
    BY <2>3, <2>5 DEF before
<1>8. h[{}] = none
  BY <1>1, <1>6 DEF IsOnly, OnlyStep, none
<1>9. PICK f : IsRecursion(f, V, none, n, G) /\ f[n] = h[1..n]
  <2>1. n \in Nat /\ none \in V /\ G \in Steps(n, V)
    BY <1>1, <1>2
  <2>2. \A i \in 1..n : h[1..(i - 1)] \in V => h[1..i] = G[<<i, h[1..(i - 1)]>>]
    BY <1>7
  <2> QED
    BY <1>8, <2>1, <2>2, FoldByPlaces
<1>10. \A i \in 1..n : f[i] = IF list[i] \in set THEN Append(f[i - 1], list[i]) ELSE f[i - 1]
  <2> SUFFICES ASSUME NEW i \in 1..n
               PROVE  f[i] = IF list[i] \in set THEN Append(f[i - 1], list[i]) ELSE f[i - 1]
    OBVIOUS
  <2>1. i - 1 \in 0..n
    BY <1>1
  <2>2. f[i - 1] \in V /\ f[i] = G[<<i, f[i - 1]>>]
    BY <1>9, <2>1 DEF IsRecursion
  <2> QED
    BY <1>2, <2>2
<1> QED
  BY <1>0, <1>6, <1>9, <1>10 DEF V, none, Keeps, IsRecursion

\* Appending adds one member.
LEMMA AppendedToSet ==
  ASSUME NEW X, NEW q \in Seq(X), NEW x \in X
  PROVE  \A y : y \in ToSet(Append(q, x)) <=> y \in ToSet(q) \/ y = x
<1>1. /\ Len(Append(q, x)) = Len(q) + 1 /\ Len(q) \in Nat
      /\ DOMAIN Append(q, x) = 1..(Len(q) + 1) /\ DOMAIN q = 1..Len(q)
      /\ \A i \in 1..Len(q) : Append(q, x)[i] = q[i]
      /\ Append(q, x)[Len(q) + 1] = x
  OBVIOUS
<1> QED
  BY <1>1 DEF ToSet

\* Only keeps the members that are in the set, and no others.
LEMMA OnlyKeeps ==
  ASSUME NEW X, NEW list \in Seq(X), NEW set
  PROVE  /\ Only(list, set) \in Seq(X)
         /\ \A x : x \in ToSet(Only(list, set)) <=> x \in ToSet(list) /\ x \in set
<1>1. PICK n \in Nat : n = Len(list)
  OBVIOUS
<1>2. PICK f : Keeps(f, n, X, list, set)
  BY <1>1, OnlyIsBuilt
<1> USE DEF Keeps
<1> DEFINE upto(m) == {list[k] : k \in 1..m}
           Q == {m \in 0..n : \A x : x \in ToSet(f[m]) <=> x \in upto(m) /\ x \in set}
<1>3. 0 \in Q
  BY <1>2 DEF ToSet
<1>4. ASSUME NEW k \in 0..(n-1), k \in Q PROVE k + 1 \in Q
  <2>1. k + 1 \in 1..n /\ k + 1 \in 0..n /\ (k + 1) - 1 = k /\ f[k] \in Seq(X)
    BY <1>2
  <2>2. \A x : x \in upto(k + 1) <=> x \in upto(k) \/ x = list[k + 1]
    <3>1. \A i : i \in 1..(k + 1) <=> i \in 1..k \/ i = k + 1
      OBVIOUS
    <3> QED
      BY <3>1
  <2>3. \A x : x \in ToSet(f[k]) <=> x \in upto(k) /\ x \in set
    BY <1>4
  <2> HIDE DEF upto
  <2>4. CASE list[k + 1] \in set
    <3>1. f[k + 1] = Append(f[k], list[k + 1])
      BY <1>2, <2>1, <2>4
    <3>2. list[k + 1] \in X
      BY <1>1, <2>1
    <3>3. \A x : x \in ToSet(f[k + 1]) <=> x \in ToSet(f[k]) \/ x = list[k + 1]
      BY <2>1, <3>1, <3>2, AppendedToSet
    <3> QED
      BY <2>1, <2>2, <2>3, <2>4, <3>3
  <2>5. CASE list[k + 1] \notin set
    <3>1. f[k + 1] = f[k]
      BY <1>2, <2>1, <2>5
    <3> QED
      BY <2>1, <2>2, <2>3, <2>5, <3>1
  <2> QED
    BY <2>4, <2>5
<1>5. n \in Q
  <2> HIDE DEF Q
  <2>1. Q \in SUBSET Nat
    BY DEF Q
  <2> QED
    BY <1>3, <1>4, <2>1, NatSetInduction
<1>6. upto(n) = ToSet(list)
  BY <1>1 DEF ToSet
<1>7. Only(list, set) \in Seq(X)
  BY <1>2
<1> QED
  BY <1>2, <1>5, <1>6, <1>7

\* A member that is in one of two sets is kept by one of them.
LEMMA OnlySplits ==
  ASSUME NEW X, NEW list \in Seq(X), NEW S, NEW T, \A x \in ToSet(list) : x \in S <=> x \notin T
  PROVE  Len(Only(list, S)) + Len(Only(list, T)) = Len(list)
<1>1. PICK n \in Nat : n = Len(list)
  OBVIOUS
<1>2. PICK f : Keeps(f, n, X, list, S)
  BY <1>1, OnlyIsBuilt
<1>3. PICK g : Keeps(g, n, X, list, T)
  BY <1>1, OnlyIsBuilt
<1> USE DEF Keeps
<1> DEFINE Q == {m \in 0..n : Len(f[m]) + Len(g[m]) = m}
<1>4. 0 \in Q
  BY <1>2, <1>3
<1>5. ASSUME NEW k \in 0..(n-1), k \in Q PROVE k + 1 \in Q
  <2>1. k + 1 \in 1..n /\ k + 1 \in 0..n /\ (k + 1) - 1 = k /\ f[k] \in Seq(X) /\ g[k] \in Seq(X)
    BY <1>2, <1>3
  <2>2. list[k + 1] \in S <=> list[k + 1] \notin T
    BY <1>1, <2>1 DEF ToSet
  <2> HIDE DEF Keeps
  <2>a. \A q \in Seq(X), x \in X : Len(Append(q, x)) = Len(q) + 1
    OBVIOUS
  <2>b. list[k + 1] \in X
    BY <1>1, <2>1
  <2>3. Len(f[k + 1]) = Len(f[k]) + (IF list[k + 1] \in S THEN 1 ELSE 0)
    <3>1. f[k + 1] = IF list[k + 1] \in S THEN Append(f[k], list[k + 1]) ELSE f[k]
      BY <1>2, <2>1 DEF Keeps
    <3>2. Len(f[k]) \in Nat
      BY <2>1
    <3> QED
      <4>1. CASE list[k + 1] \in S
        <5>1. Len(f[k + 1]) = Len(f[k]) + 1
          BY <2>1, <2>a, <2>b, <3>1, <4>1
        <5> QED
          BY <4>1, <5>1
      <4>2. CASE list[k + 1] \notin S
        <5>1. Len(f[k + 1]) = Len(f[k]) + 0
          BY <3>1, <3>2, <4>2
        <5> QED
          BY <4>2, <5>1
      <4> QED
        BY <4>1, <4>2
  <2>4. Len(g[k + 1]) = Len(g[k]) + (IF list[k + 1] \in T THEN 1 ELSE 0)
    <3>1. g[k + 1] = IF list[k + 1] \in T THEN Append(g[k], list[k + 1]) ELSE g[k]
      BY <1>3, <2>1 DEF Keeps
    <3>2. Len(g[k]) \in Nat
      BY <2>1
    <3> QED
      <4>1. CASE list[k + 1] \in T
        <5>1. Len(g[k + 1]) = Len(g[k]) + 1
          BY <2>1, <2>a, <2>b, <3>1, <4>1
        <5> QED
          BY <4>1, <5>1
      <4>2. CASE list[k + 1] \notin T
        <5>1. Len(g[k + 1]) = Len(g[k]) + 0
          BY <3>1, <3>2, <4>2
        <5> QED
          BY <4>2, <5>1
      <4> QED
        BY <4>1, <4>2
  <2>5. Len(f[k]) + Len(g[k]) = k /\ Len(f[k]) \in Nat /\ Len(g[k]) \in Nat
    <3>1. Len(f[k]) + Len(g[k]) = k
      BY <1>5
    <3>2. \A q \in Seq(X) : Len(q) \in Nat
      OBVIOUS
    <3> QED
      BY <2>1, <3>1, <3>2
  <2>6. Len(f[k + 1]) + Len(g[k + 1]) = k + 1
    <3>1. PICK a \in Nat, b \in Nat : a = Len(f[k]) /\ b = Len(g[k]) /\ a + b = k
      BY <2>5
    <3>a. a + b = k
      BY <3>1, Zenon
    <3>2. CASE list[k + 1] \in S
      <4>1. Len(f[k + 1]) = a + 1 /\ Len(g[k + 1]) = b + 0
        BY <2>2, <2>3, <2>4, <3>1, <3>2
      <4>2. (a + 1) + (b + 0) = k + 1
        BY <3>a
      <4> QED
        BY <4>1, <4>2, Zenon
    <3>3. CASE list[k + 1] \notin S
      <4>1. Len(f[k + 1]) = a + 0 /\ Len(g[k + 1]) = b + 1
        BY <2>2, <2>3, <2>4, <3>1, <3>3
      <4>2. (a + 0) + (b + 1) = k + 1
        BY <3>a
      <4> QED
        BY <4>1, <4>2, Zenon
    <3> QED
      BY <3>2, <3>3
  <2> QED
    BY <2>1, <2>6
<1>6. n \in Q
  <2> HIDE DEF Q
  <2>1. Q \in SUBSET Nat
    <3>1. Q \in SUBSET (0..n)
      BY Zenon DEF Q
    <3> QED
      BY <3>1
  <2> QED
    BY <1>4, <1>5, <2>1, NatSetInduction
<1> QED
  BY <1>1, <1>2, <1>3, <1>6

Distinct(list) == \A i, j \in DOMAIN list : list[i] = list[j] => i = j

\* What is kept of a list without duplicates has none.
LEMMA OnlyStaysDistinct ==
  ASSUME NEW X, NEW list \in Seq(X), NEW set, Distinct(list)
  PROVE  Distinct(Only(list, set))
<1>1. PICK n \in Nat : n = Len(list)
  OBVIOUS
<1>2. PICK f : Keeps(f, n, X, list, set)
  BY <1>1, OnlyIsBuilt
<1> USE DEF Keeps
<1> DEFINE upto(m) == {list[k] : k \in 1..m}
           Q == {m \in 0..n : Distinct(f[m]) /\ ToSet(f[m]) \subseteq upto(m)}
<1>3. 0 \in Q
  BY <1>2 DEF ToSet, Distinct
<1>4. ASSUME NEW k \in 0..(n-1), k \in Q PROVE k + 1 \in Q
  <2>1. k + 1 \in 1..n /\ k + 1 \in 0..n /\ (k + 1) - 1 = k /\ f[k] \in Seq(X)
    BY <1>2
  <2>2. upto(k) \subseteq upto(k + 1) /\ list[k + 1] \in upto(k + 1)
    OBVIOUS
  <2>3. list[k + 1] \notin upto(k)
    BY <1>1, <2>1 DEF Distinct
  <2>4. Distinct(f[k]) /\ ToSet(f[k]) \subseteq upto(k)
    BY <1>4
  <2> HIDE DEF upto
  <2>5. CASE list[k + 1] \in set
    <3>1. f[k + 1] = Append(f[k], list[k + 1])
      BY <1>2, <2>1, <2>5
    <3>2. list[k + 1] \in X
      BY <1>1, <2>1
    <3>3. \A x : x \in ToSet(f[k + 1]) <=> x \in ToSet(f[k]) \/ x = list[k + 1]
      BY <2>1, <3>1, <3>2, AppendedToSet
    <3>4. ToSet(f[k + 1]) \subseteq upto(k + 1)
      BY <2>2, <2>4, <3>3
    <3>5. list[k + 1] \notin ToSet(f[k])
      BY <2>3, <2>4
    <3>6. Distinct(Append(f[k], list[k + 1]))
      BY <2>1, <2>4, <3>2, <3>5 DEF Distinct, ToSet
    <3> QED
      BY <2>1, <3>1, <3>4, <3>6
  <2>6. CASE list[k + 1] \notin set
    <3>1. f[k + 1] = f[k]
      BY <1>2, <2>1, <2>6
    <3> QED
      BY <2>1, <2>2, <2>4, <3>1
  <2> QED
    BY <2>5, <2>6
<1>5. n \in Q
  <2> HIDE DEF Q
  <2>1. Q \in SUBSET Nat
    BY DEF Q
  <2> QED
    BY <1>3, <1>4, <2>1, NatSetInduction
<1> QED
  BY <1>2, <1>5

Ascending(list) == \A i, j \in DOMAIN list : i < j => list[i] < list[j]

\* What is kept of an ascending list ascends.
LEMMA OnlyStaysAscending ==
  ASSUME NEW list \in Seq(Int), NEW set, Ascending(list)
  PROVE  Ascending(Only(list, set))
<1>1. PICK n \in Nat : n = Len(list)
  OBVIOUS
<1>2. PICK f : Keeps(f, n, Int, list, set)
  BY <1>1, OnlyIsBuilt
<1> USE DEF Keeps
<1> DEFINE upto(m) == {list[k] : k \in 1..m}
           Q == {m \in 0..n : Ascending(f[m]) /\ ToSet(f[m]) \subseteq upto(m)}
<1>3. 0 \in Q
  BY <1>2 DEF ToSet, Ascending
<1>4. ASSUME NEW k \in 0..(n-1), k \in Q PROVE k + 1 \in Q
  <2>1. k + 1 \in 1..n /\ k + 1 \in 0..n /\ (k + 1) - 1 = k /\ f[k] \in Seq(Int)
    BY <1>2
  <2>2. upto(k) \subseteq upto(k + 1) /\ list[k + 1] \in upto(k + 1)
    OBVIOUS
  <2>3. \A x \in upto(k) : x < list[k + 1]
    BY <1>1, <2>1 DEF Ascending
  <2>4. Ascending(f[k]) /\ ToSet(f[k]) \subseteq upto(k)
    BY <1>4
  <2> HIDE DEF upto
  <2>5. CASE list[k + 1] \in set
    <3>1. f[k + 1] = Append(f[k], list[k + 1])
      BY <1>2, <2>1, <2>5
    <3>2. list[k + 1] \in Int
      BY <1>1, <2>1
    <3>3. \A x : x \in ToSet(f[k + 1]) <=> x \in ToSet(f[k]) \/ x = list[k + 1]
      BY <2>1, <3>1, <3>2, AppendedToSet
    <3>4. ToSet(f[k + 1]) \subseteq upto(k + 1)
      BY <2>2, <2>4, <3>3
    <3>5. \A i \in DOMAIN f[k] : f[k][i] < list[k + 1]
      BY <2>3, <2>4 DEF ToSet
    <3>6. Ascending(Append(f[k], list[k + 1]))
      <4>1. PICK q \in Seq(Int), x \in Int : q = f[k] /\ x = list[k + 1]
        BY <2>1, <3>2
      <4>2. /\ DOMAIN Append(q, x) = 1..(Len(q) + 1) /\ DOMAIN q = 1..Len(q) /\ Len(q) \in Nat
            /\ \A i \in 1..Len(q) : Append(q, x)[i] = q[i]
            /\ Append(q, x)[Len(q) + 1] = x
        OBVIOUS
      <4>3. /\ \A i, j \in 1..Len(q) : i < j => q[i] < q[j]
            /\ \A i \in 1..Len(q) : q[i] < x
        BY <2>4, <3>5, <4>1, <4>2 DEF Ascending
      <4>4. ASSUME NEW i \in 1..(Len(q) + 1), NEW j \in 1..(Len(q) + 1), i < j
            PROVE  Append(q, x)[i] < Append(q, x)[j]
        <5>1. i \in 1..Len(q)
          BY <4>2, <4>4
        <5>2. CASE j \in 1..Len(q)
          BY <4>2, <4>3, <4>4, <5>1, <5>2
        <5>3. CASE j = Len(q) + 1
          BY <4>2, <4>3, <5>1, <5>3
        <5> QED
          BY <4>2, <4>4, <5>2, <5>3
      <4> QED
        BY <4>1, <4>2, <4>4 DEF Ascending
    <3> QED
      BY <2>1, <3>1, <3>4, <3>6
  <2>6. CASE list[k + 1] \notin set
    <3>1. f[k + 1] = f[k]
      BY <1>2, <2>1, <2>6
    <3> QED
      BY <2>1, <2>2, <2>4, <3>1
  <2> QED
    BY <2>5, <2>6
<1>5. n \in Q
  <2> HIDE DEF Q
  <2>1. Q \in SUBSET Nat
    BY DEF Q
  <2> QED
    BY <1>3, <1>4, <2>1, NatSetInduction
<1> QED
  BY <1>2, <1>5

\* A list without duplicates is as long as it has members.
LEMMA DistinctLength ==
  ASSUME NEW X, NEW list \in Seq(X), Distinct(list)
  PROVE  IsFiniteSet(ToSet(list)) /\ Cardinality(ToSet(list)) = Len(list)
<1>1. PICK n \in Nat : n = Len(list) /\ DOMAIN list = 1..n
  OBVIOUS
<1>2. list \in Bijection(1..n, ToSet(list))
  BY <1>1 DEF Bijection, Injection, Surjection, IsInjective, ToSet, Distinct
<1>3. IsFiniteSet(1..n) /\ Cardinality(1..n) = n
  BY FS_Interval
<1>4. ExistsBijection(1..n, ToSet(list))
  BY <1>2 DEF ExistsBijection
<1> QED
  BY <1>1, <1>3, <1>4, FS_Bijection

-----------------------------------------------------------------------------
\* FlattenSeq, unfolded.
IsFlatten(f, seqs) ==
  f = [i \in 1..Len(seqs) |-> IF i = 1 THEN seqs[i] ELSE f[i - 1] \o seqs[i]]

\* FlattenSeq as the choice of its unfolded function.
LEMMA FlattenIsRecursive ==
  ASSUME NEW seqs
  PROVE  FlattenSeq(seqs) = IF Len(seqs) = 0 THEN seqs ELSE (CHOOSE f : IsFlatten(f, seqs))[Len(seqs)]
BY DEF FlattenSeq, IsFlatten

\* That function exists for every list of lists.
LEMMA FlattenExists ==
  ASSUME NEW X, NEW seqs \in Seq(Seq(X))
  PROVE  \E f : IsFlatten(f, seqs)
<1>1. PICK n \in Nat : n = Len(seqs) /\ DOMAIN seqs = 1..n
  OBVIOUS
<1> DEFINE V == Seq(X)
           none == << >>
           G == [p \in (1..n) \X V |-> p[2] \o seqs[p[1]]]
<1>2. none \in V /\ \A q \in V : none \o q = q
  OBVIOUS
<1>3. \A i \in 1..n : seqs[i] \in V
  BY <1>1
<1>4. \A q, r \in V : q \o r \in V
  OBVIOUS
<1> HIDE DEF V, none
<1>5. G \in Steps(n, V) /\ \A i \in 1..n, q \in V : G[<<i, q>>] = q \o seqs[i]
  BY <1>3, <1>4 DEF Steps
<1> HIDE DEF G
<1>6. PICK p : IsRecursion(p, V, none, n, G)
  BY <1>2, <1>5, PrefixRecursion
<1>7. \A i \in 1..n : p[i - 1] \in V /\ p[i] = p[i - 1] \o seqs[i]
  <2> SUFFICES ASSUME NEW i \in 1..n PROVE p[i - 1] \in V /\ p[i] = p[i - 1] \o seqs[i]
    OBVIOUS
  <2>1. i - 1 \in 0..n
    OBVIOUS
  <2>2. p[i - 1] \in V /\ p[i] = G[<<i, p[i - 1]>>]
    BY <1>6, <2>1 DEF IsRecursion
  <2> QED
    BY <1>5, <2>2
<1> DEFINE f == [i \in 1..n |-> p[i]]
<1>8. \A i \in 1..n : p[i] = IF i = 1 THEN seqs[i] ELSE f[i - 1] \o seqs[i]
  <2> SUFFICES ASSUME NEW i \in 1..n PROVE p[i] = IF i = 1 THEN seqs[i] ELSE f[i - 1] \o seqs[i]
    OBVIOUS
  <2>1. CASE i = 1
    <3>1. p[0] = none
      BY <1>6 DEF IsRecursion
    <3>2. p[i] = none \o seqs[i]
      <4>1. p[i] = p[i - 1] \o seqs[i]
        BY <1>7, Zenon
      <4>2. i - 1 = 0
        BY <2>1
      <4> QED
        BY <3>1, <4>1, <4>2, Zenon
    <3> QED
      BY <1>2, <1>3, <2>1, <3>2
  <2>2. CASE i # 1
    <3>1. i - 1 \in 1..n
      BY <2>2
    <3> QED
      BY <1>7, <2>2, <3>1
  <2> QED
    BY <2>1, <2>2
<1>9. IsFlatten(f, seqs)
  BY <1>1, <1>8 DEF IsFlatten
<1> HIDE DEF f
<1> QED
  BY <1>9

\* A joined list has the members of both.
LEMMA JoinedToSet ==
  ASSUME NEW X, NEW q \in Seq(X), NEW r \in Seq(X)
  PROVE  \A x : x \in ToSet(q \o r) <=> x \in ToSet(q) \/ x \in ToSet(r)
<1>1. PICK m \in Nat, n \in Nat : m = Len(q) /\ n = Len(r)
  OBVIOUS
<1>2. /\ DOMAIN q = 1..m /\ DOMAIN r = 1..n /\ DOMAIN (q \o r) = 1..(m + n)
      /\ \A i \in 1..(m + n) : (q \o r)[i] = IF i <= m THEN q[i] ELSE r[i - m]
  BY <1>1
<1>3. ASSUME NEW x \in ToSet(q \o r) PROVE x \in ToSet(q) \/ x \in ToSet(r)
  <2>1. PICK i \in 1..(m + n) : x = (q \o r)[i]
    BY <1>2 DEF ToSet
  <2>2. CASE i <= m
    <3>1. i \in 1..m /\ x = q[i]
      BY <1>2, <2>1, <2>2
    <3> QED
      BY <1>2, <3>1 DEF ToSet
  <2>3. CASE i > m
    <3>1. i - m \in 1..n /\ x = r[i - m]
      BY <1>2, <2>1, <2>3
    <3> QED
      BY <1>2, <3>1 DEF ToSet
  <2> QED
    BY <2>2, <2>3
<1>4. ASSUME NEW x \in ToSet(q) PROVE x \in ToSet(q \o r)
  <2>1. PICK i \in 1..m : x = q[i]
    BY <1>2, <1>4 DEF ToSet
  <2>2. i \in 1..(m + n) /\ (q \o r)[i] = x
    BY <1>2, <2>1
  <2> QED
    BY <1>2, <2>2 DEF ToSet
<1>5. ASSUME NEW x \in ToSet(r) PROVE x \in ToSet(q \o r)
  <2>1. PICK i \in 1..n : x = r[i]
    BY <1>2, <1>5 DEF ToSet
  <2>2. i + m \in 1..(m + n) /\ (i + m) - m = i /\ ~ (i + m <= m)
    BY <2>1
  <2>3. (q \o r)[i + m] = x
    BY <1>2, <2>1, <2>2
  <2> QED
    BY <1>2, <2>2, <2>3 DEF ToSet
<1> QED
  BY <1>3, <1>4, <1>5

\* Flattening keeps every member of every list, and no others.
LEMMA FlattenKeeps ==
  ASSUME NEW X, NEW seqs \in Seq(Seq(X))
  PROVE  /\ FlattenSeq(seqs) \in Seq(X)
         /\ \A x : x \in ToSet(FlattenSeq(seqs)) <=> \E i \in DOMAIN seqs : x \in ToSet(seqs[i])
<1>1. PICK n \in Nat : n = Len(seqs) /\ DOMAIN seqs = 1..n
  OBVIOUS
<1>2. CASE n = 0
  <2>1. FlattenSeq(seqs) = << >> /\ DOMAIN seqs = {}
    <3>1. FlattenSeq(seqs) = seqs
      BY <1>1, <1>2, FlattenIsRecursive
    <3> QED
      BY <1>1, <1>2, <3>1
  <2> QED
    BY <2>1 DEF ToSet
<1>3. CASE n # 0
  <2>1. PICK f : IsFlatten(f, seqs) /\ FlattenSeq(seqs) = f[n]
    BY <1>1, <1>3, FlattenExists, FlattenIsRecursive
  <2>a. \A i \in 1..n : f[i] = IF i = 1 THEN seqs[i] ELSE f[i - 1] \o seqs[i]
    <3> DEFINE step == [i \in 1..Len(seqs) |-> IF i = 1 THEN seqs[i] ELSE f[i - 1] \o seqs[i]]
    <3>1. f = step /\ 1..Len(seqs) = 1..n
      BY <1>1, <2>1 DEF IsFlatten
    <3>2. \A i \in 1..n : step[i] = IF i = 1 THEN seqs[i] ELSE f[i - 1] \o seqs[i]
      BY <3>1
    <3> QED
      BY <3>1, <3>2
  <2>2. \A i \in 1..n : seqs[i] \in Seq(X) /\ f[i] = IF i = 1 THEN seqs[i] ELSE f[i - 1] \o seqs[i]
    BY <1>1, <2>a
  <2> DEFINE Good(m) == /\ f[m] \in Seq(X)
                        /\ \A x : x \in ToSet(f[m]) <=> \E i \in 1..m : x \in ToSet(seqs[i])
             Q == {m \in 0..(n - 1) : Good(m + 1)}
  <2>3. 0 \in Q
    <3>1. 1 \in 1..n /\ f[1] = seqs[1] /\ seqs[1] \in Seq(X)
      BY <1>3, <2>2
    <3>2. \A i : i \in 1..1 <=> i = 1
      OBVIOUS
    <3>3. Good(1)
      BY <3>1, <3>2
    <3>4. 0 + 1 = 1 /\ 0 \in 0..(n - 1)
      BY <1>3
    <3> HIDE DEF Good
    <3> QED
      BY <3>3, <3>4
  <2>4. ASSUME NEW k \in 0..((n - 1) - 1), k \in Q PROVE k + 1 \in Q
    <3>1. PICK m \in 1..n : m = k + 1 /\ m + 1 \in 1..n /\ m + 1 # 1 /\ (m + 1) - 1 = m
                            /\ m \in 0..(n - 1)
      OBVIOUS
    <3>2. Good(m)
      <4> HIDE DEF Good
      <4> QED
        BY <2>4, <3>1
    <3>3. f[m + 1] = f[m] \o seqs[m + 1] /\ seqs[m + 1] \in Seq(X)
      BY <2>2, <3>1
    <3>4. f[m + 1] \in Seq(X)
      BY <3>2, <3>3
    <3>5. \A x : x \in ToSet(f[m + 1]) <=> x \in ToSet(f[m]) \/ x \in ToSet(seqs[m + 1])
      BY <3>2, <3>3, JoinedToSet
    <3>6. \A i : i \in 1..(m + 1) <=> i \in 1..m \/ i = m + 1
      BY <3>1
    <3>7. Good(m + 1)
      BY <3>2, <3>4, <3>5, <3>6
    <3> HIDE DEF Good
    <3> QED
      BY <3>1, <3>7
  <2>5. n - 1 \in Q
    <3>1. PICK l \in Nat : l = n - 1
      BY <1>3
    <3> HIDE DEF Q
    <3>2. Q \in SUBSET Nat
      <4>1. Q \in SUBSET (0..(n - 1))
        BY Zenon DEF Q
      <4> QED
        BY <4>1
    <3> QED
      BY <2>3, <2>4, <3>1, <3>2, NatSetInduction
  <2>6. Good(n)
    <3> HIDE DEF Good
    <3>1. Good((n - 1) + 1) /\ (n - 1) + 1 = n
      BY <2>5
    <3> QED
      BY <3>1
  <2> QED
    BY <1>1, <2>1, <2>6
<1> QED
  BY <1>2, <1>3

=============================================================================
