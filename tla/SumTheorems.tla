----------------------------- MODULE SumTheorems -----------------------------
(***************************************************************************)
(* What the sums of the models are: the value of a fold over a finite set  *)
(* does not depend on the order in which the fold takes the elements.      *)
(***************************************************************************)
EXTENDS Integers, FiniteSetsExt, FiniteSetTheorems, WellFoundedInduction, TLAPS

SumOver(F, S) == MapThenSumSet(LAMBDA x : F[x], S)

\* The element a fold takes first, and the function it builds over the subsets of S.
Taken(s) == CHOOSE x \in s : TRUE
Folding(F, S, g) ==
  g = [s \in SUBSET S |-> IF s = {} THEN 0 ELSE F[Taken(s)] + g[s \ {Taken(s)}]]
FoldingOf(F, S) == CHOOSE g : Folding(F, S, g)

-----------------------------------------------------------------------------
\* Among any subsets of a finite set there is a smallest one: induction over finite sets.
LEMMA SmallestSet ==
  ASSUME NEW S, IsFiniteSet(S), NEW T, T \subseteq SUBSET S, T # {}
  PROVE \E x \in T : \A y \in T : ~(y \subseteq x /\ y # x)
<1>1. IsWellFoundedOn(StrictSubsetOrdering(S), SUBSET S)
  BY FS_StrictSubsetOrderingWellFounded, FS_FiniteSubsetsOfFinite
<1>2. PICK x \in T : \A y \in T : ~(<<y, x>> \in StrictSubsetOrdering(S))
  BY <1>1, WFMin
<1> QED
  BY <1>2 DEF StrictSubsetOrdering

LEMMA TakenIn == ASSUME NEW s, s # {} PROVE Taken(s) \in s
BY DEF Taken

\* Two foldings agree wherever both are defined.
LEMMA FoldingUnique ==
  ASSUME NEW S, IsFiniteSet(S), NEW F, NEW G, NEW g, NEW h, NEW R, R \subseteq S,
         Folding(F, S, g), Folding(G, R, h), \A x \in R : F[x] = G[x]
  PROVE \A s \in SUBSET R : g[s] = h[s]
<1> DEFINE T == {s \in SUBSET R : g[s] # h[s]}
<1> SUFFICES ASSUME T # {} PROVE FALSE
  OBVIOUS
<1>1. PICK s \in T : \A y \in T : ~(y \subseteq s /\ y # s)
  <2>1. T \subseteq SUBSET S
    OBVIOUS
  <2> HIDE DEF T
  <2> QED
    BY <2>1, SmallestSet
<1>2. s \in SUBSET R /\ s \in SUBSET S /\ g[s] # h[s]
  BY <1>1
<1>3. s # {}
  BY <1>2 DEF Folding
<1>4. Taken(s) \in s
  BY <1>3, TakenIn
<1>5. g[s \ {Taken(s)}] = h[s \ {Taken(s)}]
  BY <1>1, <1>4
<1>6. g[s] = F[Taken(s)] + g[s \ {Taken(s)}] /\ h[s] = G[Taken(s)] + h[s \ {Taken(s)}]
  BY <1>2, <1>3 DEF Folding
<1> QED
  BY <1>2, <1>4, <1>5, <1>6

\* A set whose proper subsets have foldings has one.
LEMMA FoldingExtends ==
  ASSUME NEW s, IsFiniteSet(s), NEW F, \A r \in SUBSET s : r # s => \E g : Folding(F, r, g)
  PROVE \E g : Folding(F, s, g)
<1> DEFINE g == [r \in SUBSET s |->
                   IF r = {} THEN 0
                   ELSE F[Taken(r)] + FoldingOf(F, r \ {Taken(r)})[r \ {Taken(r)}]]
<1>1. ASSUME NEW r \in SUBSET s, r # s PROVE Folding(F, r, FoldingOf(F, r))
  BY <1>1 DEF FoldingOf
<1>2. ASSUME NEW r \in SUBSET s, r # s PROVE g[r] = FoldingOf(F, r)[r]
  <2> DEFINE rest == r \ {Taken(r)}
  <2>1. Folding(F, r, FoldingOf(F, r))
    BY <1>1, <1>2
  <2>2. CASE r = {}
    BY <2>1, <2>2 DEF Folding
  <2>3. CASE r # {}
    <3>1. Taken(r) \in r
      BY <2>3, TakenIn
    <3>2. rest \in SUBSET s /\ rest # s /\ rest \subseteq r /\ rest \in SUBSET rest
      BY <3>1
    <3>3. Folding(F, rest, FoldingOf(F, rest)) /\ IsFiniteSet(r)
      BY <1>1, <3>2, FS_Subset
    <3>4. FoldingOf(F, r)[rest] = FoldingOf(F, rest)[rest]
      <4> HIDE DEF rest
      <4> QED
        BY <2>1, <3>2, <3>3, FoldingUnique
    <3> QED
      BY <2>1, <2>3, <3>4 DEF Folding
  <2> QED
    BY <2>2, <2>3
<1>3. ASSUME NEW r \in SUBSET s, r # {} PROVE g[r] = F[Taken(r)] + g[r \ {Taken(r)}]
  <2>1. Taken(r) \in r
    BY <1>3, TakenIn
  <2>2. g[r \ {Taken(r)}] = FoldingOf(F, r \ {Taken(r)})[r \ {Taken(r)}]
    BY <1>2, <2>1
  <2> QED
    BY <1>3, <2>2
<1>4. Folding(F, s, g)
  <2>1. \A r \in SUBSET s : g[r] = IF r = {} THEN 0 ELSE F[Taken(r)] + g[r \ {Taken(r)}]
    BY <1>3
  <2>2. g = [r \in SUBSET s |-> g[r]]
    OBVIOUS
  <2> HIDE DEF g
  <2> QED
    BY <2>1, <2>2 DEF Folding
<1> QED
  BY <1>4

\* A finite set has a folding.
LEMMA FoldingExists ==
  ASSUME NEW S, IsFiniteSet(S), NEW F
  PROVE \E g : Folding(F, S, g)
<1> DEFINE T == {s \in SUBSET S : ~\E g : Folding(F, s, g)}
<1> SUFFICES ASSUME T # {} PROVE FALSE
  OBVIOUS
<1>1. PICK s \in T : \A y \in T : ~(y \subseteq s /\ y # s)
  <2>1. T \subseteq SUBSET S
    OBVIOUS
  <2> HIDE DEF T
  <2> QED
    BY <2>1, SmallestSet
<1>2. \A r \in SUBSET s : r # s => \E g : Folding(F, r, g)
  BY <1>1
<1>3. IsFiniteSet(s)
  BY FS_Subset
<1> QED
  BY <1>1, <1>2, <1>3, FoldingExtends

-----------------------------------------------------------------------------
\* The sum is what any folding gives.
LEMMA SumOfFolding ==
  ASSUME NEW S, IsFiniteSet(S), NEW F, NEW g, Folding(F, S, g)
  PROVE SumOver(F, S) = g[S]
<1>1. SumOver(F, S) = FoldingOf(F, S)[S]
  BY DEF SumOver, MapThenSumSet, MapThenFoldSet, Folding, FoldingOf, Taken
<1>2. Folding(F, S, FoldingOf(F, S))
  BY DEF FoldingOf
<1> QED
  BY <1>1, <1>2, FoldingUnique

\* A sum depends on the values of the elements only.
LEMMA SumAgrees ==
  ASSUME NEW S, IsFiniteSet(S), NEW F, NEW G, \A x \in S : F[x] = G[x]
  PROVE SumOver(F, S) = SumOver(G, S)
<1>1. PICK g : Folding(F, S, g)
  BY FoldingExists
<1>2. PICK h : Folding(G, S, h)
  BY FoldingExists
<1>3. g[S] = h[S]
  BY <1>1, <1>2, FoldingUnique
<1> QED
  BY <1>1, <1>2, <1>3, SumOfFolding

LEMMA SumOfNone == ASSUME NEW F PROVE SumOver(F, {}) = 0
<1>1. IsFiniteSet({})
  BY FS_EmptySet
<1>2. PICK g : Folding(F, {}, g)
  BY <1>1, FoldingExists
<1> QED
  BY <1>1, <1>2, SumOfFolding, ZenonT(40) DEF Folding

\* Any element may be taken first.
LEMMA FoldingTakesAny ==
  ASSUME NEW S, IsFiniteSet(S), NEW F, \A x \in S : F[x] \in Int, NEW g, Folding(F, S, g)
  PROVE \A s \in SUBSET S : g[s] \in Int /\ \A x \in s : g[s] = F[x] + g[s \ {x}]
<1> DEFINE Right(s) == g[s] \in Int /\ \A x \in s : g[s] = F[x] + g[s \ {x}]
           T == {s \in SUBSET S : ~Right(s)}
<1> SUFFICES ASSUME T # {} PROVE FALSE
  OBVIOUS
<1>1. PICK s \in T : \A y \in T : ~(y \subseteq s /\ y # s)
  <2>1. T \subseteq SUBSET S
    OBVIOUS
  <2> HIDE DEF T
  <2> QED
    BY <2>1, SmallestSet
<1>2. \A r \in SUBSET s : r # s => Right(r)
  BY <1>1
<1>3. g[{}] = 0 /\ s \in SUBSET S
  BY DEF Folding
<1>4. s # {}
  <2>1. Right({})
    BY <1>3
  <2> HIDE DEF Right
  <2> QED
    BY <1>1, <2>1
<1> DEFINE c == Taken(s)
<1>5. c \in s /\ F[c] \in Int
  BY <1>4, TakenIn
<1>6. g[s] = F[c] + g[s \ {c}]
  BY <1>3, <1>4 DEF Folding
<1>7. g[s \ {c}] \in Int
  BY <1>2, <1>5
<1> HIDE DEF c
<1>8. ASSUME NEW x \in s, x # c PROVE g[s] = F[x] + g[s \ {x}]
  <2>1. /\ g[s \ {c}] = F[x] + g[(s \ {c}) \ {x}]
        /\ g[s \ {x}] = F[c] + g[(s \ {x}) \ {c}]
    <3>1. Right(s \ {c}) /\ Right(s \ {x})
      BY <1>2, <1>5
    <3> QED
      BY <1>5, <1>8, <3>1
  <2>2. (s \ {c}) \ {x} = (s \ {x}) \ {c}
    OBVIOUS
  <2>3. g[(s \ {c}) \ {x}] \in Int
    <3>1. Right((s \ {c}) \ {x})
      BY <1>2, <1>5
    <3> QED
      BY <3>1
  <2>4. F[x] \in Int
    BY <1>3
  <2> HIDE DEF Right, T
  <2>5. PICK both \in Int : g[s \ {c}] = F[x] + both /\ g[s \ {x}] = F[c] + both
    BY <2>1, <2>2, <2>3
  <2>6. F[c] \in Int /\ g[s] = F[c] + (F[x] + both)
    BY <1>5, <1>6, <2>5
  <2> QED
    BY <2>4, <2>5, <2>6
<1>9. Right(s)
  <2>1. g[s] \in Int
    <3> HIDE DEF Right, T
    <3> QED
      BY <1>5, <1>6, <1>7
  <2>2. \A x \in s : g[s] = F[x] + g[s \ {x}]
    <3> HIDE DEF Right, T
    <3> QED
      BY <1>6, <1>8
  <2> QED
    BY <2>1, <2>2
<1> QED
  BY <1>1, <1>9

\* Each element adds its value.
LEMMA SumTakesAny ==
  ASSUME NEW S, IsFiniteSet(S), NEW F, \A x \in S : F[x] \in Int
  PROVE SumOver(F, S) \in Int /\ \A x \in S : SumOver(F, S) = F[x] + SumOver(F, S \ {x})
<1>1. PICK g : Folding(F, S, g)
  BY FoldingExists
<1>2. SumOver(F, S) = g[S] /\ g[S] \in Int
  BY <1>1, SumOfFolding, FoldingTakesAny
<1>3. ASSUME NEW x \in S PROVE SumOver(F, S) = F[x] + SumOver(F, S \ {x})
  <2> DEFINE R == S \ {x}
  <2>1. IsFiniteSet(R) /\ R \subseteq S /\ R \in SUBSET R
    BY FS_Subset
  <2> HIDE DEF R
  <2>2. PICK h : Folding(F, R, h)
    BY <2>1, FoldingExists
  <2>3. SumOver(F, R) = h[R]
    BY <2>1, <2>2, SumOfFolding
  <2>4. g[R] = h[R]
    BY <1>1, <2>1, <2>2, FoldingUnique
  <2>5. g[S] = F[x] + g[R]
    BY <1>1, FoldingTakesAny DEF R
  <2> QED
    BY <1>2, <2>3, <2>4, <2>5 DEF R
<1> QED
  BY <1>2, <1>3

LEMMA SumAdds ==
  ASSUME NEW S, IsFiniteSet(S), NEW F, NEW e, e \notin S, \A x \in S \cup {e} : F[x] \in Int
  PROVE SumOver(F, S \cup {e}) = SumOver(F, S) + F[e] /\ SumOver(F, S) \in Int
<1> DEFINE R == S \cup {e}
<1>1. IsFiniteSet(R) /\ e \in R /\ R \ {e} = S /\ \A x \in R : F[x] \in Int
  BY FS_AddElement
<1>2. SumOver(F, S) \in Int
  BY SumTakesAny
<1>3. SumOver(F, R) = F[e] + SumOver(F, R \ {e})
  <2> HIDE DEF R
  <2> QED
    BY <1>1, SumTakesAny
<1>4. SumOver(F, R) = F[e] + SumOver(F, S) /\ F[e] \in Int
  BY <1>1, <1>3
<1> HIDE DEF R
<1>5. SumOver(F, R) = SumOver(F, S) + F[e]
  BY <1>2, <1>4
<1> QED
  BY <1>2, <1>5 DEF R

\* Changing one value changes the sum by as much.
LEMMA SumChanges ==
  ASSUME NEW S, IsFiniteSet(S), NEW F, NEW G, NEW e \in S,
         \A x \in S : F[x] \in Int /\ G[x] \in Int, \A x \in S : x # e => F[x] = G[x]
  PROVE SumOver(G, S) = SumOver(F, S) - F[e] + G[e] /\ SumOver(F, S) \in Int
<1> DEFINE R == S \ {e}
<1>1. IsFiniteSet(R)
  BY FS_Subset
<1>2. SumOver(F, S) = F[e] + SumOver(F, R) /\ SumOver(F, S) \in Int
  BY SumTakesAny
<1>3. SumOver(G, S) = G[e] + SumOver(G, R)
  BY SumTakesAny
<1>4. SumOver(F, R) = SumOver(G, R)
  BY <1>1, SumAgrees
<1>5. SumOver(F, R) \in Int
  BY <1>1, SumTakesAny
<1> HIDE DEF R
<1> QED
  BY <1>2, <1>3, <1>4, <1>5

\* A sum is at most the sum of values that are nowhere smaller, over no fewer elements.
LEMMA SumMonotone ==
  ASSUME NEW S, IsFiniteSet(S), NEW R \in SUBSET S, NEW F, NEW G,
         \A x \in S : F[x] \in Int /\ G[x] \in Nat, \A x \in R : F[x] <= G[x]
  PROVE SumOver(F, R) <= SumOver(G, S) /\ SumOver(F, R) \in Int /\ SumOver(G, S) \in Nat
<1> DEFINE Right(s) == /\ SumOver(G, s) \in Nat /\ SumOver(F, s \cap R) \in Int
                       /\ SumOver(F, s \cap R) <= SumOver(G, s)
           T == {s \in SUBSET S : ~Right(s)}
<1>1. Right(S) /\ S \cap R = R
  <2> SUFFICES ASSUME T # {} PROVE FALSE
    OBVIOUS
  <2>1. PICK s \in T : \A y \in T : ~(y \subseteq s /\ y # s)
    <3>1. T \subseteq SUBSET S
      OBVIOUS
    <3> HIDE DEF T
    <3> QED
      BY <3>1, SmallestSet
  <2>2. CASE s = {}
    <3>1. s \cap R = {} /\ SumOver(F, {}) = 0 /\ SumOver(G, {}) = 0
      BY <2>2, SumOfNone
    <3> QED
      BY <2>1, <2>2, <3>1
  <2>3. ASSUME NEW c \in s PROVE FALSE
    <3> DEFINE r == s \ {c}
    <3>1. Right(r)
      BY <2>1
    <3>2. IsFiniteSet(s) /\ IsFiniteSet(s \cap R)
      BY FS_Subset
    <3>3. SumOver(G, s) = G[c] + SumOver(G, r)
      BY <3>2, SumTakesAny
    <3>4. SumOver(G, s) \in Nat
      BY <3>1, <3>3
    <3>5. CASE c \in R
      <4>1. (s \cap R) \ {c} = r \cap R
        OBVIOUS
      <4>2. c \in s \cap R /\ \A x \in s \cap R : F[x] \in Int
        BY <3>5
      <4>3. SumOver(F, s \cap R) = F[c] + SumOver(F, (s \cap R) \ {c})
        BY <3>2, <4>2, SumTakesAny
      <4>4. F[c] <= G[c] /\ F[c] \in Int /\ G[c] \in Nat
        BY <3>5
      <4>5. /\ SumOver(F, r \cap R) \in Int /\ SumOver(F, r \cap R) <= SumOver(G, r)
            /\ SumOver(G, r) \in Nat /\ SumOver(F, s \cap R) = F[c] + SumOver(F, r \cap R)
        BY <3>1, <4>1, <4>3
      <4>6. SumOver(F, s \cap R) \in Int /\ SumOver(F, s \cap R) <= SumOver(G, s)
        <5> HIDE DEF r, T, Right
        <5> QED
          BY <3>3, <4>4, <4>5
      <4> QED
        BY <2>1, <3>4, <4>6
    <3>6. CASE c \notin R
      <4>1. s \cap R = r \cap R
        BY <3>6
      <4>2. G[c] \in Nat
        OBVIOUS
      <4>3. /\ SumOver(F, r \cap R) \in Int /\ SumOver(F, r \cap R) <= SumOver(G, r)
            /\ SumOver(G, r) \in Nat /\ SumOver(F, s \cap R) = SumOver(F, r \cap R)
        BY <3>1, <4>1
      <4>4. SumOver(F, s \cap R) \in Int /\ SumOver(F, s \cap R) <= SumOver(G, s)
        <5> HIDE DEF r, T, Right
        <5> QED
          BY <3>3, <4>2, <4>3
      <4> QED
        BY <2>1, <3>4, <4>4
    <3> QED
      BY <3>5, <3>6
  <2> QED
    BY <2>2, <2>3
<1> QED
  BY <1>1

\* A sum of zeros.
LEMMA SumOfZeros ==
  ASSUME NEW S, IsFiniteSet(S), NEW F, \A x \in S : F[x] = 0
  PROVE SumOver(F, S) = 0
<1> DEFINE g == [s \in SUBSET S |-> 0]
<1>1. ASSUME NEW s \in SUBSET S, s # {} PROVE F[Taken(s)] + g[s \ {Taken(s)}] = 0
  <2>1. Taken(s) \in S /\ s \ {Taken(s)} \in SUBSET S
    BY <1>1, TakenIn
  <2> QED
    BY <2>1
<1>2. Folding(F, S, g)
  BY <1>1 DEF Folding
<1> QED
  BY <1>2, SumOfFolding

\* A sum over one element.
LEMMA SumOfOne ==
  ASSUME NEW x, NEW F, F[x] \in Int
  PROVE SumOver(F, {x}) = F[x]
<1>1. IsFiniteSet({x}) /\ {x} \ {x} = {}
  BY FS_Singleton
<1>2. SumOver(F, {x}) = F[x] + SumOver(F, {})
  <2>1. \A y \in {x} : SumOver(F, {x}) = F[y] + SumOver(F, {x} \ {y})
    BY <1>1, SumTakesAny
  <2> QED
    BY <1>1, <2>1
<1> QED
  BY <1>2, SumOfNone

\* A finite set of numbers has a greatest one.
LEMMA GreatestOf ==
  ASSUME NEW S, IsFiniteSet(S), \A x \in S : x \in Nat, S # {}
  PROVE \E x \in S : \A y \in S : y <= x
<1> DEFINE Topped(s) == \E x \in s : \A y \in s : y <= x
           T == {s \in SUBSET S : s # {} /\ ~Topped(s)}
<1>1. T = {}
  <2> SUFFICES ASSUME T # {} PROVE FALSE
    OBVIOUS
  <2>1. PICK s \in T : \A y \in T : ~(y \subseteq s /\ y # s)
    <3>1. T \subseteq SUBSET S
      OBVIOUS
    <3> HIDE DEF T
    <3> QED
      BY <3>1, SmallestSet
  <2>2. PICK x \in s : TRUE
    BY <2>1
  <2>3. CASE s \ {x} = {}
    <3>1. \A y \in s : y <= x
      BY <2>1, <2>2, <2>3
    <3> QED
      BY <2>1, <2>2, <3>1
  <2>4. CASE s \ {x} # {}
    <3>1. s \ {x} \notin T
      BY <2>1, <2>2
    <3>2. PICK z \in s \ {x} : \A y \in s \ {x} : y <= z
      BY <2>1, <2>4, <3>1
    <3>3. x \in Nat /\ z \in Nat /\ \A y \in s : y \in Nat
      BY <2>1, <2>2, <3>2
    <3>4. CASE x <= z
      <4>1. \A y \in s : y <= z
        BY <3>2, <3>4
      <4> QED
        BY <2>1, <3>2, <4>1
    <3>5. CASE ~(x <= z)
      <4>1. \A y \in s : y <= x
        BY <3>2, <3>3, <3>5
      <4> QED
        BY <2>1, <2>2, <4>1
    <3> QED
      BY <3>4, <3>5
  <2> QED
    BY <2>3, <2>4
<1>2. Topped(S)
  BY <1>1
<1> QED
  BY <1>2

\* A sum is linear in the values it sums.
LEMMA SumIsLinear ==
  ASSUME NEW S, IsFiniteSet(S), NEW F, NEW G, NEW H, NEW a \in Int, NEW b \in Int,
         \A x \in S : F[x] \in Int /\ G[x] \in Int /\ H[x] = a * F[x] + b * G[x]
  PROVE SumOver(H, S) = a * SumOver(F, S) + b * SumOver(G, S)
<1>1. PICK f : Folding(F, S, f)
  BY FoldingExists
<1>2. PICK g : Folding(G, S, g)
  BY FoldingExists
<1>3. \A s \in SUBSET S : f[s] \in Int /\ g[s] \in Int
  <2>1. \A x \in S : F[x] \in Int /\ G[x] \in Int
    OBVIOUS
  <2>2. \A s \in SUBSET S : f[s] \in Int
    BY <1>1, <2>1, FoldingTakesAny
  <2>3. \A s \in SUBSET S : g[s] \in Int
    BY <1>2, <2>1, FoldingTakesAny
  <2> QED
    BY <2>2, <2>3
<1> DEFINE h == [s \in SUBSET S |-> a * f[s] + b * g[s]]
<1>4. ASSUME NEW s \in SUBSET S PROVE h[s] = IF s = {} THEN 0 ELSE H[Taken(s)] + h[s \ {Taken(s)}]
  <2>1. CASE s = {}
    <3>1. f[s] = 0 /\ g[s] = 0
      BY <1>1, <1>2, <2>1 DEF Folding
    <3> QED
      BY <2>1, <3>1
  <2>2. CASE s # {}
    <3> DEFINE c == Taken(s)
               r == s \ {c}
    <3>1. c \in S /\ r \in SUBSET S
      BY <2>2, TakenIn
    <3>2. f[s] = F[c] + f[r] /\ g[s] = G[c] + g[r]
      BY <1>1, <1>2, <2>2 DEF Folding
    <3>3. h[s] = a * f[s] + b * g[s] /\ h[r] = a * f[r] + b * g[r]
      BY <3>1
    <3>4. F[c] \in Int /\ G[c] \in Int /\ H[c] = a * F[c] + b * G[c]
      BY <3>1
    <3>5. f[r] \in Int /\ g[r] \in Int
      BY <1>3, <3>1
    <3> HIDE DEF h, c, r
    <3>6. a * f[s] = a * F[c] + a * f[r] /\ b * g[s] = b * G[c] + b * g[r]
      BY <3>2, <3>4, <3>5
    <3>7. /\ a * F[c] \in Int /\ a * f[r] \in Int
          /\ b * G[c] \in Int /\ b * g[r] \in Int
      BY <3>4, <3>5
    <3>8. h[s] = H[c] + h[r]
      BY <3>3, <3>4, <3>6, <3>7
    <3> QED
      BY <2>2, <3>8 DEF c, r
  <2> QED
    BY <2>1, <2>2
<1>5. Folding(H, S, h)
  BY <1>4 DEF Folding
<1>6. SumOver(H, S) = h[S]
  <2> HIDE DEF h
  <2> QED
    BY <1>5, SumOfFolding
<1>7. SumOver(F, S) = f[S] /\ SumOver(G, S) = g[S]
  BY <1>1, <1>2, SumOfFolding
<1> QED
  BY <1>6, <1>7

\* A sum of one value for each element.
LEMMA SumOfConstant ==
  ASSUME NEW S, IsFiniteSet(S), NEW F, NEW a \in Int, \A x \in S : F[x] = a
  PROVE SumOver(F, S) = a * Cardinality(S)
<1> DEFINE g == [s \in SUBSET S |-> a * Cardinality(s)]
<1>1. ASSUME NEW s \in SUBSET S, s # {} PROVE g[s] = F[Taken(s)] + g[s \ {Taken(s)}]
  <2> DEFINE c == Taken(s)
             r == s \ {c}
  <2>1. c \in s /\ F[c] = a /\ r \in SUBSET S
    BY <1>1, TakenIn
  <2>2. IsFiniteSet(s) /\ Cardinality(r) = Cardinality(s) - 1 /\ Cardinality(s) \in Nat
    BY <2>1, FS_Subset, FS_RemoveElement, FS_CardinalityType
  <2>3. g[s] = a * Cardinality(s) /\ g[r] = a * Cardinality(r)
    BY <2>1
  <2> HIDE DEF g, c, r
  <2>4. a * (Cardinality(s) - 1) = a * Cardinality(s) - a
    BY <2>2
  <2>5. a * Cardinality(s) \in Int
    BY <2>2
  <2>6. g[s] = F[c] + g[r]
    BY <2>1, <2>2, <2>3, <2>4, <2>5
  <2> QED
    BY <2>6 DEF c, r
<1>2. g[{}] = 0
  BY FS_EmptySet
<1>3. Folding(F, S, g)
  BY <1>1, <1>2 DEF Folding
<1>4. SumOver(F, S) = g[S]
  <2> HIDE DEF g
  <2> QED
    BY <1>3, SumOfFolding
<1> QED
  BY <1>4

\* Values within a bound add up to at most the bound for each element.
LEMMA SumWithin ==
  ASSUME NEW S, IsFiniteSet(S), NEW F, NEW a \in Nat,
         \A x \in S : F[x] \in Int /\ F[x] <= a /\ -a <= F[x]
  PROVE /\ SumOver(F, S) \in Int
        /\ SumOver(F, S) <= a * Cardinality(S) /\ -(a * Cardinality(S)) <= SumOver(F, S)
<1> DEFINE G == [x \in S |-> a]
           H == [x \in S |-> -F[x]]
<1>1. S \in SUBSET S /\ Cardinality(S) \in Nat
  BY FS_CardinalityType
<1>2. SumOver(G, S) = a * Cardinality(S)
  <2>1. \A x \in S : G[x] = a
    OBVIOUS
  <2> HIDE DEF G
  <2> QED
    BY <2>1, SumOfConstant
<1>3. /\ \A x \in S : F[x] \in Int /\ G[x] \in Nat /\ F[x] <= G[x]
      /\ \A x \in S : H[x] \in Int /\ G[x] \in Nat /\ H[x] <= G[x]
      /\ \A x \in S : H[x] = (-1) * F[x] + 0 * F[x]
  OBVIOUS
<1> HIDE DEF G, H
<1>4. SumOver(F, S) <= SumOver(G, S) /\ SumOver(F, S) \in Int
  BY <1>1, <1>3, SumMonotone
<1>5. SumOver(H, S) <= SumOver(G, S)
  BY <1>1, <1>3, SumMonotone
<1>6. SumOver(H, S) = (-1) * SumOver(F, S) + 0 * SumOver(F, S)
  <2>1. \A x \in S : F[x] \in Int /\ F[x] \in Int /\ H[x] = (-1) * F[x] + 0 * F[x]
    BY <1>3
  <2>2. -1 \in Int /\ 0 \in Int
    OBVIOUS
  <2> QED
    BY <2>1, <2>2, SumIsLinear
<1>7. a * Cardinality(S) \in Int
  BY <1>1
<1> QED
  BY <1>2, <1>4, <1>5, <1>6, <1>7

\* H is a times F and b times G.
Combines(S, F, G, H, a, b) ==
  /\ a \in Int /\ b \in Int
  /\ \A x \in S : F[x] \in Int /\ G[x] \in Int /\ H[x] = a * F[x] + b * G[x]

LEMMA SumOfCombination ==
  ASSUME NEW S, IsFiniteSet(S), NEW F, NEW G, NEW H, NEW a, NEW b, Combines(S, F, G, H, a, b)
  PROVE  SumOver(H, S) = a * SumOver(F, S) + b * SumOver(G, S)
BY SumIsLinear DEF Combines

\* Row and Column are the sums of the rows and of the columns of a table.
Table(R, I, M, Col, Row, Column) ==
  /\ \A r \in R, i \in I : M[r][i] \in Int /\ Col[i][r] = M[r][i]
  /\ \A r \in R : Row[r] = SumOver(M[r], I)
  /\ \A i \in I : Column[i] = SumOver(Col[i], R)

\* A table adds up to the same by rows and by columns.
LEMMA SumsSwap ==
  ASSUME NEW R, IsFiniteSet(R), NEW I, IsFiniteSet(I), NEW M, NEW Col, NEW Row, NEW Column,
         Table(R, I, M, Col, Row, Column)
  PROVE SumOver(Row, R) = SumOver(Column, I)
<1> USE DEF Table
<1> DEFINE Cols(s) == [i \in I |-> SumOver(Col[i], s)]
           g == [s \in SUBSET R |-> SumOver(Cols(s), I)]
<1>1. ASSUME NEW i \in I, NEW s \in SUBSET R
      PROVE  /\ SumOver(Col[i], s) \in Int
             /\ \A c \in s : SumOver(Col[i], s) = M[c][i] + SumOver(Col[i], s \ {c})
  <2>1. IsFiniteSet(s)
    BY FS_Subset
  <2>2. \A c \in s : Col[i][c] = M[c][i] /\ M[c][i] \in Int
    OBVIOUS
  <2> QED
    BY <2>1, <2>2, SumTakesAny
<1>2. g[{}] = 0
  <2>1. \A i \in I : Cols({})[i] = 0
    BY SumOfNone
  <2> HIDE DEF Cols
  <2> QED
    BY <2>1, SumOfZeros
<1>3. ASSUME NEW s \in SUBSET R, s # {} PROVE g[s] = Row[Taken(s)] + g[s \ {Taken(s)}]
  <2> DEFINE c == Taken(s)
             r == s \ {c}
  <2>1. c \in s /\ c \in R /\ r \in SUBSET R
    BY <1>3, TakenIn
  <2> HIDE DEF c
  <2>2. \A i \in I : /\ Cols(s)[i] = SumOver(Col[i], s)
                     /\ Cols(r)[i] = SumOver(Col[i], r)
    OBVIOUS
  <2>3. \A i \in I : /\ M[c][i] \in Int /\ SumOver(Col[i], r) \in Int
                     /\ SumOver(Col[i], s) = M[c][i] + SumOver(Col[i], r)
    BY <1>1, <2>1
  <2>4. \A i \in I : M[c][i] \in Int /\ Cols(r)[i] \in Int
                       /\ Cols(s)[i] = 1 * M[c][i] + 1 * Cols(r)[i]
    <3> HIDE DEF Cols, r
    <3> QED
      BY <2>2, <2>3
  <2>5. g[s] = SumOver(Cols(s), I) /\ g[r] = SumOver(Cols(r), I) /\ Row[c] = SumOver(M[c], I)
    BY <2>1
  <2> HIDE DEF Cols, g, r
  <2>6. SumOver(Cols(s), I) = 1 * SumOver(M[c], I) + 1 * SumOver(Cols(r), I)
    <3>1. 1 \in Int
      OBVIOUS
    <3> QED
      BY <2>4, <3>1, SumIsLinear
  <2>7. SumOver(M[c], I) \in Int /\ SumOver(Cols(r), I) \in Int
    BY <2>4, SumTakesAny
  <2>8. g[s] = Row[c] + g[r]
    BY <2>5, <2>6, <2>7
  <2> QED
    BY <2>8 DEF c, r
<1>4. Folding(Row, R, g)
  <2>1. g = [s \in SUBSET R |-> IF s = {} THEN 0 ELSE Row[Taken(s)] + g[s \ {Taken(s)}]]
    <3> HIDE DEF Cols
    <3> QED
      BY <1>2, <1>3
  <2> QED
    BY <2>1 DEF Folding
<1>5. SumOver(Row, R) = g[R]
  <2> HIDE DEF g
  <2> QED
    BY <1>4, SumOfFolding
<1>6. g[R] = SumOver(Cols(R), I)
  OBVIOUS
<1>7. SumOver(Cols(R), I) = SumOver(Column, I)
  <2>1. \A i \in I : Cols(R)[i] = Column[i]
    OBVIOUS
  <2> HIDE DEF Cols
  <2> QED
    BY <2>1, SumAgrees
<1> QED
  BY <1>5, <1>6, <1>7
=============================================================================
