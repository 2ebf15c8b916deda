---------------------------- MODULE SumTheorems -----------------------------
(***************************************************************************)
(* Finite sets have first members in any strict order. Sums over finite    *)
(* sets, SumFunctionOnSet of the community modules, do not depend on the   *)
(* order of summing, so that a sum can be taken apart at any member,       *)
(* compared and split.                                                     *)
(***************************************************************************)
EXTENDS Integers, Functions, FiniteSetTheorems, TLAPS

\* A part of a finite set that no other part of a family is within.
LEMMA SmallestPart ==
    ASSUME NEW Whole, NEW Family \in SUBSET FiniteSubsetsOf(Whole), Family # {}
    PROVE  \E X \in Family : \A Y \in Family : Y \subseteq X => Y = X
<1>1. PICK X \in Family : \A Y \in Family : ~ (<<Y, X>> \in StrictSubsetOrdering(Whole))
  BY WFMin, FS_StrictSubsetOrderingWellFounded
<1> QED BY <1>1 DEF StrictSubsetOrdering, FiniteSubsetsOf

\* Parts of a finite set: if one of them is bad, then one with no bad part.
LEMMA SmallestBad ==
    ASSUME NEW S, IsFiniteSet(S), NEW Bad \in SUBSET SUBSET S, Bad # {}
    PROVE  \E X \in Bad : \A Y \in SUBSET X : Y # X => Y \notin Bad
<1>1. Bad \in SUBSET FiniteSubsetsOf(S)
  BY FS_FiniteSubsetsOfFinite
<1> QED BY <1>1, SmallestPart

\* A finite set has a first member in any strict order: take one with the
\* fewest members up to it.
LEMMA FirstExists ==
    ASSUME NEW S, IsFiniteSet(S), S # {}, NEW R,
           \A a \in S : <<a, a>> \notin R,
           \A a, b, c \in S : <<a, b>> \in R /\ <<b, c>> \in R => <<a, c>> \in R
    PROVE  \E m \in S : \A q \in S : <<q, m>> \notin R
<1> DEFINE Upto(n) == {q \in S : q = n \/ <<q, n>> \in R}
           Family == {Upto(n) : n \in S}
<1>1. Family \subseteq FiniteSubsetsOf(S) /\ Family # {}
  <2>1. \A n \in S : Upto(n) \in SUBSET S
    OBVIOUS
  <2>2. \A T \in SUBSET S : IsFiniteSet(T)
    BY FS_Subset
  <2>3. \A X \in Family : X \in FiniteSubsetsOf(S)
    <3> TAKE X \in Family
    <3>1. X \in SUBSET S
      BY <2>1
    <3> QED BY <3>1, <2>2 DEF FiniteSubsetsOf
  <2>4. PICK n \in S : TRUE
    OBVIOUS
  <2>5. Upto(n) \in Family
    OBVIOUS
  <2> HIDE DEF Family
  <2> QED BY <2>3, <2>5
<1>2. PICK X \in Family : \A Y \in Family : Y \subseteq X => Y = X
  <2> HIDE DEF Family
  <2> QED BY <1>1, SmallestPart
<1>3. PICK m \in S : X = Upto(m)
  OBVIOUS
<1>4. ASSUME NEW q \in S, <<q, m>> \in R  PROVE FALSE
  <2>1. ASSUME NEW r \in Upto(q)  PROVE r \in Upto(m)
    <3>1. r \in S /\ (r = q \/ <<r, q>> \in R)
      OBVIOUS
    <3>2. <<r, m>> \in R
      BY <3>1, <1>4
    <3> QED BY <3>1, <3>2
  <2>2. Upto(q) \in Family
    OBVIOUS
  <2>3. m \in Upto(m)
    OBVIOUS
  <2>4. Upto(q) = Upto(m)
    <3> HIDE DEF Upto, Family
    <3> QED BY <2>1, <2>2, <1>2, <1>3
  <2>5. m \in Upto(q)
    <3> HIDE DEF Upto
    <3> QED BY <2>3, <2>4
  <2>6. m = q \/ <<m, q>> \in R
    BY <2>5
  <2> QED BY <2>6, <1>4
<1> QED BY <1>4

-----------------------------------------------------------------------------
\* The recursion behind a sum has exactly one solution.

Pick(s) == CHOOSE x \in s : TRUE

Sums(f, S, g) ==
    g = [s \in SUBSET S |-> IF s = {} THEN 0 ELSE f[Pick(s)] + g[s \ {Pick(s)}]]

SumsOf(f, S) == CHOOSE g : Sums(f, S, g)

LEMMA PickIn == ASSUME NEW s, s # {}  PROVE Pick(s) \in s
BY DEF Pick

\* The operator of the community modules is that recursion.
LEMMA SumIsSums ==
    ASSUME NEW f, NEW S
    PROVE  SumFunctionOnSet(f, S) = SumsOf(f, S)[S]
BY DEF SumFunctionOnSet, FoldFunctionOnSet, MapThenFoldSet, SumsOf, Sums, Pick

LEMMA SumsAgree ==
    ASSUME NEW f, NEW S, NEW T, NEW g, NEW h, Sums(f, S, g), Sums(f, T, h),
           NEW s, s \subseteq S, s \subseteq T, IsFiniteSet(s)
    PROVE  g[s] = h[s]
<1> DEFINE Bad == {t \in SUBSET s : g[t] # h[t]}
<1>1. ASSUME Bad # {}  PROVE FALSE
  <2>1. PICK X \in Bad : \A Y \in SUBSET X : Y # X => Y \notin Bad
    <3> HIDE DEF Bad
    <3>1. Bad \in SUBSET SUBSET s
      BY DEF Bad
    <3> QED BY <1>1, <3>1, SmallestBad
  <2>2. X \in SUBSET S /\ X \in SUBSET T /\ g[X] # h[X]
    OBVIOUS
  <2>3. X # {}
    BY <2>2 DEF Sums
  <2>4. X \ {Pick(X)} \in SUBSET X /\ X \ {Pick(X)} # X
    BY <2>3, PickIn
  <2>5. X \ {Pick(X)} \in SUBSET s /\ X \ {Pick(X)} \notin Bad
    BY <2>1, <2>4
  <2>6. g[X \ {Pick(X)}] = h[X \ {Pick(X)}]
    BY <2>5
  <2>7. g[X] = f[Pick(X)] + g[X \ {Pick(X)}]
    BY <2>2, <2>3 DEF Sums
  <2>8. h[X] = f[Pick(X)] + h[X \ {Pick(X)}]
    BY <2>2, <2>3 DEF Sums
  <2> QED BY <2>2, <2>6, <2>7, <2>8
<1>2. s \in SUBSET s
  OBVIOUS
<1> QED BY <1>1, <1>2

LEMMA SumsExist ==
    ASSUME NEW f, NEW S, IsFiniteSet(S)
    PROVE  Sums(f, S, SumsOf(f, S))
<1> DEFINE Bad == {t \in SUBSET S : ~ Sums(f, t, SumsOf(f, t))}
<1>1. ASSUME Bad # {}  PROVE FALSE
  <2>1. PICK T \in Bad : \A Y \in SUBSET T : Y # T => Y \notin Bad
    <3> HIDE DEF Bad
    <3>1. Bad \in SUBSET SUBSET S
      BY DEF Bad
    <3> QED BY <1>1, <3>1, SmallestBad
  <2> DEFINE Val(t) == SumsOf(f, t)[t]
             h == [s \in SUBSET T |->
                      IF s = {} THEN 0 ELSE f[Pick(s)] + Val(s \ {Pick(s)})]
  <2>2. \A t \in SUBSET T : t # T => Sums(f, t, SumsOf(f, t))
    BY <2>1
  <2>3. \A t \in SUBSET T : IsFiniteSet(t)
    BY FS_Subset
  <2>4. ASSUME NEW t \in SUBSET T, t # T  PROVE h[t] = Val(t)
    <3>1. Sums(f, t, SumsOf(f, t))
      BY <2>2, <2>4
    <3>2. CASE t = {}
      <4>1. Val(t) = 0
        BY <3>1, <3>2 DEF Sums
      <4>2. h[t] = 0
        BY <3>2
      <4> QED BY <4>1, <4>2
    <3>3. CASE t # {}
      <4> DEFINE u == t \ {Pick(t)}
      <4>1. u \in SUBSET t /\ u # t /\ u \in SUBSET T /\ u # T
        BY <3>3, PickIn
      <4>2. Sums(f, u, SumsOf(f, u)) /\ IsFiniteSet(u)
        BY <4>1, <2>2, <2>3
      <4>3. SumsOf(f, t)[u] = SumsOf(f, u)[u]
        <5> HIDE DEF u
        <5> QED BY <3>1, <4>1, <4>2, SumsAgree
      <4>4. Val(t) = f[Pick(t)] + SumsOf(f, t)[u]
        BY <3>1, <3>3 DEF Sums
      <4>5. h[t] = f[Pick(t)] + Val(u)
        BY <3>3
      <4> QED BY <4>3, <4>4, <4>5
    <3> QED BY <3>2, <3>3
  <2>5. Sums(f, T, h)
    <3>1. ASSUME NEW s \in SUBSET T, s # {}  PROVE h[s \ {Pick(s)}] = Val(s \ {Pick(s)})
      <4>1. s \ {Pick(s)} \in SUBSET T /\ s \ {Pick(s)} # T
        BY <3>1, PickIn
      <4> HIDE DEF h, Val
      <4> QED BY <4>1, <2>4
    <3>2. h = [s \in SUBSET T |-> IF s = {} THEN 0 ELSE f[Pick(s)] + h[s \ {Pick(s)}]]
      BY <3>1
    <3> HIDE DEF h
    <3> QED BY <3>2 DEF Sums
  <2>6. Sums(f, T, SumsOf(f, T))
    <3> HIDE DEF h
    <3> QED BY <2>5 DEF SumsOf
  <2> QED BY <2>6
<1>2. S \in SUBSET S
  OBVIOUS
<1> QED BY <1>1, <1>2

-----------------------------------------------------------------------------
\* Sums, taken apart.

LEMMA SumEmpty ==
    ASSUME NEW f  PROVE SumFunctionOnSet(f, {}) = 0
<1>1. Sums(f, {}, SumsOf(f, {}))
  BY SumsExist, FS_EmptySet
<1> QED BY <1>1, SumIsSums DEF Sums

LEMMA SumStep ==
    ASSUME NEW f, NEW S, IsFiniteSet(S), S # {}
    PROVE  SumFunctionOnSet(f, S) =
              f[Pick(S)] + SumFunctionOnSet(f, S \ {Pick(S)})
<1> DEFINE T == S \ {Pick(S)}
<1>1. T \subseteq S /\ IsFiniteSet(T)
  BY FS_Subset
<1>2. Sums(f, S, SumsOf(f, S)) /\ Sums(f, T, SumsOf(f, T))
  BY <1>1, SumsExist
<1>3. SumsOf(f, S)[T] = SumsOf(f, T)[T]
  <2> HIDE DEF T
  <2> QED BY <1>1, <1>2, SumsAgree
<1>4. SumsOf(f, S)[S] = f[Pick(S)] + SumsOf(f, S)[T]
  BY <1>2 DEF Sums
<1> QED BY <1>3, <1>4, SumIsSums

LEMMA SumType ==
    ASSUME NEW S, IsFiniteSet(S), NEW f, \A x \in S : f[x] \in Int
    PROVE  SumFunctionOnSet(f, S) \in Int
<1> DEFINE Bad == {T \in SUBSET S : SumFunctionOnSet(f, T) \notin Int}
<1>1. ASSUME Bad # {}  PROVE FALSE
  <2>1. PICK X \in Bad : \A Y \in SUBSET X : Y # X => Y \notin Bad
    <3> HIDE DEF Bad
    <3>1. Bad \in SUBSET SUBSET S
      BY DEF Bad
    <3> QED BY <1>1, <3>1, SmallestBad
  <2>0. X \in SUBSET S /\ SumFunctionOnSet(f, X) \notin Int
    OBVIOUS
  <2>2. X # {} /\ X \in SUBSET S /\ IsFiniteSet(X) /\ SumFunctionOnSet(f, X) \notin Int
    <3>1. 0 \in Int
      OBVIOUS
    <3> QED BY <2>0, <3>1, SumEmpty, FS_Subset
  <2>3. Pick(X) \in X /\ X \ {Pick(X)} \in SUBSET X /\ X \ {Pick(X)} # X
    BY <2>2, PickIn
  <2>4. SumFunctionOnSet(f, X \ {Pick(X)}) \in Int
    BY <2>1, <2>2, <2>3
  <2>5. f[Pick(X)] \in Int
    BY <2>2, <2>3
  <2>6. SumFunctionOnSet(f, X) = f[Pick(X)] + SumFunctionOnSet(f, X \ {Pick(X)})
    BY <2>2, SumStep
  <2> QED BY <2>2, <2>4, <2>5, <2>6
<1> QED BY <1>1

\* The order of summing does not matter.
LEMMA SumAt ==
    ASSUME NEW S, IsFiniteSet(S), NEW f, \A y \in S : f[y] \in Int, NEW x \in S
    PROVE  SumFunctionOnSet(f, S) = f[x] + SumFunctionOnSet(f, S \ {x})
<1> DEFINE Sum(T) == SumFunctionOnSet(f, T)
           Bad == {T \in SUBSET S :
                      \E y \in T : Sum(T) # f[y] + Sum(T \ {y})}
<1> HIDE DEF Sum
<1>1. ASSUME Bad # {}  PROVE FALSE
  <2>1. PICK T \in Bad : \A Y \in SUBSET T : Y # T => Y \notin Bad
    <3> HIDE DEF Bad
    <3>1. Bad \in SUBSET SUBSET S
      BY DEF Bad
    <3> QED BY <1>1, <3>1, SmallestBad
  <2>2. PICK y \in T : Sum(T) # f[y] + Sum(T \ {y})
    OBVIOUS
  <2> DEFINE c == Pick(T)
  <2>3. T \in SUBSET S /\ T # {} /\ IsFiniteSet(T) /\ c \in T
    BY <2>2, PickIn, FS_Subset
  <2> HIDE DEF c
  <2>4. \A R \in SUBSET T : Sum(R) \in Int
    BY <2>3, FS_Subset, SumType DEF Sum
  <2>5. Sum(T) = f[c] + Sum(T \ {c})
    BY <2>3, SumStep DEF Sum, c
  <2>6. y # c
    BY <2>2, <2>5
  <2>7. T \ {c} \notin Bad /\ T \ {y} \notin Bad
    BY <2>1, <2>3
  <2>8. Sum(T \ {c}) = f[y] + Sum((T \ {c}) \ {y})
    BY <2>3, <2>6, <2>7
  <2>9. Sum(T \ {y}) = f[c] + Sum((T \ {y}) \ {c})
    BY <2>3, <2>6, <2>7
  <2>10. (T \ {c}) \ {y} = (T \ {y}) \ {c}
    OBVIOUS
  <2>11. f[c] \in Int /\ f[y] \in Int /\ Sum((T \ {y}) \ {c}) \in Int
    BY <2>3, <2>4
  <2>12. Sum(T) = f[c] + (f[y] + Sum((T \ {y}) \ {c}))
    BY <2>5, <2>8, <2>10
  <2>13. f[y] + Sum(T \ {y}) = f[y] + (f[c] + Sum((T \ {y}) \ {c}))
    BY <2>9
  <2>14. f[c] + (f[y] + Sum((T \ {y}) \ {c})) = f[y] + (f[c] + Sum((T \ {y}) \ {c}))
    BY <2>11
  <2> QED BY <2>2, <2>12, <2>13, <2>14
<1> QED BY <1>1 DEF Sum

-----------------------------------------------------------------------------
\* Sums of functions, compared.

\* A sum over less, of what is less, and nothing negative left out, is less.
LEMMA SumMonotone ==
    ASSUME NEW S, IsFiniteSet(S), NEW R \in SUBSET S, NEW f, NEW g,
           \A x \in S : f[x] \in Int /\ g[x] \in Int,
           \A x \in R : f[x] <= g[x],
           \A x \in S \ R : 0 <= g[x]
    PROVE  SumFunctionOnSet(f, R) <= SumFunctionOnSet(g, S)
<1> DEFINE F(T) == SumFunctionOnSet(f, T)
           G(T) == SumFunctionOnSet(g, T)
           Bad == {T \in SUBSET S : ~ (F(T \cap R) <= G(T))}
<1> HIDE DEF F, G
<1>0. \A T \in SUBSET S : IsFiniteSet(T) /\ F(T) \in Int /\ G(T) \in Int
  BY FS_Subset, SumType DEF F, G
<1>1. ASSUME Bad # {}  PROVE FALSE
  <2>1. PICK T \in Bad : \A Y \in SUBSET T : Y # T => Y \notin Bad
    <3> HIDE DEF Bad
    <3>1. Bad \in SUBSET SUBSET S
      BY DEF Bad
    <3> QED BY <1>1, <3>1, SmallestBad
  <2>2. T # {}
    <3>1. F({}) = 0 /\ G({}) = 0
      BY SumEmpty DEF F, G
    <3>2. {} \cap R = {}
      OBVIOUS
    <3> QED BY <3>1, <3>2
  <2>3. PICK x \in T : TRUE
    BY <2>2
  <2>4. F((T \ {x}) \cap R) <= G(T \ {x})
    BY <2>1, <2>3
  <2>5. G(T) = g[x] + G(T \ {x})
    BY <1>0, SumAt DEF G
  <2>6. g[x] \in Int /\ f[x] \in Int /\ G(T \ {x}) \in Int /\ F((T \ {x}) \cap R) \in Int
    <3>1. T \ {x} \in SUBSET S /\ (T \ {x}) \cap R \in SUBSET S
      OBVIOUS
    <3> QED BY <3>1, <1>0
  <2>7. CASE x \in R
    <3>1. F(T \cap R) = f[x] + F((T \cap R) \ {x})
      <4>1. T \cap R \in SUBSET S /\ x \in T \cap R
        BY <2>7
      <4> QED BY <4>1, <1>0, SumAt DEF F
    <3>2. (T \cap R) \ {x} = (T \ {x}) \cap R
      OBVIOUS
    <3>3. f[x] <= g[x]
      BY <2>7
    <3>4. f[x] + F((T \ {x}) \cap R) <= g[x] + G(T \ {x})
      BY <2>4, <2>6, <3>3
    <3> QED BY <2>5, <3>1, <3>2, <3>4
  <2>8. CASE x \notin R
    <3>1. T \cap R = (T \ {x}) \cap R
      BY <2>8
    <3>2. 0 <= g[x]
      BY <2>8
    <3>3. F((T \ {x}) \cap R) <= g[x] + G(T \ {x})
      BY <2>4, <2>6, <3>2
    <3> QED BY <2>5, <3>1, <3>3
  <2> QED BY <2>7, <2>8
<1>2. S \cap R = R /\ S \in SUBSET S
  OBVIOUS
<1>3. F(S \cap R) <= G(S)
  BY <1>1, <1>2
<1> QED BY <1>2, <1>3 DEF F, G

LEMMA SumSame ==
    ASSUME NEW S, IsFiniteSet(S), NEW f, NEW g,
           \A x \in S : f[x] \in Int /\ f[x] = g[x]
    PROVE  SumFunctionOnSet(f, S) = SumFunctionOnSet(g, S)
<1>1. SumFunctionOnSet(f, S) <= SumFunctionOnSet(g, S)
  BY SumMonotone
<1>2. SumFunctionOnSet(g, S) <= SumFunctionOnSet(f, S)
  BY SumMonotone
<1>3. SumFunctionOnSet(f, S) \in Int /\ SumFunctionOnSet(g, S) \in Int
  BY SumType
<1> QED BY <1>1, <1>2, <1>3

LEMMA SumNat ==
    ASSUME NEW S, IsFiniteSet(S), NEW f, \A x \in S : f[x] \in Nat
    PROVE  SumFunctionOnSet(f, S) \in Nat
<1>1. SumFunctionOnSet(f, {}) <= SumFunctionOnSet(f, S)
  BY SumMonotone
<1>2. SumFunctionOnSet(f, S) \in Int
  BY SumType
<1> QED BY <1>1, <1>2, SumEmpty

\* None of the terms is more than the sum.
LEMMA SumCovers ==
    ASSUME NEW S, IsFiniteSet(S), NEW f, \A x \in S : f[x] \in Nat
    PROVE  /\ SumFunctionOnSet(f, S) \in Nat
           /\ \A x \in S : f[x] <= SumFunctionOnSet(f, S)
<1>1. ASSUME NEW x \in S PROVE f[x] <= SumFunctionOnSet(f, S)
  <2>1. SumFunctionOnSet(f, S) = f[x] + SumFunctionOnSet(f, S \ {x})
    BY SumAt
  <2>2. SumFunctionOnSet(f, S \ {x}) \in Nat
    BY FS_Subset, SumNat
  <2> QED BY <2>1, <2>2
<1> QED BY <1>1, SumNat

\* A function that changes at one place changes the sum by as much.
LEMMA SumChange ==
    ASSUME NEW S, IsFiniteSet(S), NEW f, NEW g, NEW x \in S,
           \A y \in S : f[y] \in Int /\ g[y] \in Int,
           \A y \in S \ {x} : f[y] = g[y]
    PROVE  SumFunctionOnSet(g, S) = SumFunctionOnSet(f, S) + g[x] - f[x]
<1>1. SumFunctionOnSet(f, S) = f[x] + SumFunctionOnSet(f, S \ {x})
  BY SumAt
<1>2. SumFunctionOnSet(g, S) = g[x] + SumFunctionOnSet(g, S \ {x})
  BY SumAt
<1>3. IsFiniteSet(S \ {x})
  BY FS_Subset
<1>4. SumFunctionOnSet(f, S \ {x}) = SumFunctionOnSet(g, S \ {x})
  BY <1>3, SumSame
<1>5. SumFunctionOnSet(f, S \ {x}) \in Int
  BY <1>3, SumType
<1> QED BY <1>1, <1>2, <1>4, <1>5

\* A member more.
\* A bound on every member bounds the sum, both scaled.
LEMMA SumScaled ==
    ASSUME NEW S, IsFiniteSet(S), NEW f, NEW g, NEW a \in Int, NEW b \in Int,
           \A x \in S : f[x] \in Int /\ g[x] \in Int /\ a * f[x] <= b * g[x]
    PROVE  a * SumFunctionOnSet(f, S) <= b * SumFunctionOnSet(g, S)
<1> DEFINE F(T) == SumFunctionOnSet(f, T)
           G(T) == SumFunctionOnSet(g, T)
           Bad == {T \in SUBSET S : ~ (a * F(T) <= b * G(T))}
<1> HIDE DEF F, G
<1>0. \A T \in SUBSET S : IsFiniteSet(T) /\ F(T) \in Int /\ G(T) \in Int
  BY FS_Subset, SumType DEF F, G
<1>1. ASSUME Bad # {}  PROVE FALSE
  <2>1. PICK T \in Bad : \A Y \in SUBSET T : Y # T => Y \notin Bad
    <3> HIDE DEF Bad
    <3>1. Bad \in SUBSET SUBSET S
      BY DEF Bad
    <3> QED BY <1>1, <3>1, SmallestBad
  <2>2. T # {}
    <3>1. F({}) = 0 /\ G({}) = 0
      BY SumEmpty DEF F, G
    <3>2. a * 0 <= b * 0
      OBVIOUS
    <3> QED BY <3>1, <3>2
  <2>3. PICK x \in T : TRUE
    BY <2>2
  <2>4. a * F(T \ {x}) <= b * G(T \ {x})
    BY <2>1, <2>3
  <2>5. G(T) = g[x] + G(T \ {x})
    BY <1>0, SumAt DEF G
  <2>6. F(T) = f[x] + F(T \ {x})
    BY <1>0, SumAt DEF F
  <2>7. g[x] \in Int /\ f[x] \in Int /\ G(T \ {x}) \in Int /\ F(T \ {x}) \in Int
    BY <1>0
  <2>8. a * F(T) = a * f[x] + a * F(T \ {x})
    BY <2>6, <2>7
  <2>9. b * G(T) = b * g[x] + b * G(T \ {x})
    BY <2>5, <2>7
  <2>10. a * f[x] <= b * g[x]
    BY <2>3
  <2>11. a * f[x] + a * F(T \ {x}) <= b * g[x] + b * G(T \ {x})
    BY <2>4, <2>7, <2>10
  <2>12. a * F(T) <= b * G(T)
    BY <2>8, <2>9, <2>11
  <2> QED BY <2>12
<1>2. S \in SUBSET S
  OBVIOUS
<1>3. a * F(S) <= b * G(S)
  BY <1>1, <1>2
<1> QED BY <1>3 DEF F, G

LEMMA SumZero ==
    ASSUME NEW S, IsFiniteSet(S), NEW f, \A x \in S : f[x] = 0
    PROVE  SumFunctionOnSet(f, S) = 0
<1>1. SumFunctionOnSet(f, S) \in Nat
  BY SumNat
<1>2. 1 * SumFunctionOnSet(f, S) <= 0 * SumFunctionOnSet(f, S)
  <2>1. \A x \in S : f[x] \in Int /\ 1 * f[x] <= 0 * f[x]
    OBVIOUS
  <2> QED BY <2>1, SumScaled
<1> QED BY <1>1, <1>2
=============================================================================
