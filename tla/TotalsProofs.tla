----------------------------- MODULE TotalsProofs -----------------------------
(***************************************************************************)
(* Sums over finite sets, for the modules whose books they keep.  Total is *)
(* a fold, that is a recursive function picked by CHOOSE: the function is  *)
(* shown to exist, its equation then holds, and the laws of sums follow by *)
(* induction over finite sets.  Induction is stated for sets of sets, not  *)
(* for predicates: what the well-founded minimum of a family gives.        *)
(***************************************************************************)
EXTENDS Totals, FiniteSetsExt, WellFoundedInduction, FiniteSetTheorems, TLAPS

-----------------------------------------------------------------------------
(* Induction *)

\* A family that holds every set whose smaller subsets it holds is the family of all subsets.
LEMMA StrongInduction ==
  ASSUME NEW D, IsFiniteSet(D), NEW P \in SUBSET (SUBSET D),
         \A T \in SUBSET D : (\A U \in SUBSET T : U # T => U \in P) => T \in P
  PROVE  P = SUBSET D
<1> DEFINE Bad == (SUBSET D) \ P
<1>1. IsWellFoundedOn(StrictSubsetOrdering(D), FiniteSubsetsOf(D)) /\ FiniteSubsetsOf(D) = SUBSET D
  BY FS_StrictSubsetOrderingWellFounded, FS_FiniteSubsetsOfFinite
<1>2. SUFFICES ASSUME Bad # {} PROVE FALSE
  OBVIOUS
<1>3. PICK T \in Bad : \A V \in Bad : ~ (<<V, T>> \in StrictSubsetOrdering(D))
  <2>1. Bad \subseteq FiniteSubsetsOf(D)
    BY <1>1
  <2> HIDE DEF Bad
  <2> QED
    BY <1>1, <1>2, <2>1, WFMin
<1>4. \A U \in SUBSET T : U # T => U \in P
  BY <1>3 DEF StrictSubsetOrdering
<1> QED
  BY <1>3, <1>4

\* So is a family that holds the empty set and, with a set, the set with one more element.
LEMMA FiniteInduction ==
  ASSUME NEW D, IsFiniteSet(D), NEW P \in SUBSET (SUBSET D), {} \in P,
         \A T \in P : \A x \in D \ T : T \cup {x} \in P
  PROVE  P = SUBSET D
<1> SUFFICES ASSUME NEW T \in SUBSET D, \A U \in SUBSET T : U # T => U \in P
             PROVE  T \in P
  BY StrongInduction
<1>1. SUFFICES ASSUME T # {} PROVE T \in P
  OBVIOUS
<1>2. PICK x \in T : TRUE
  BY <1>1
<1>3. T \ {x} \in P /\ x \in D \ (T \ {x}) /\ (T \ {x}) \cup {x} = T
  BY <1>2
<1> QED
  BY <1>3

-----------------------------------------------------------------------------
(* A fold over the subsets of D exists, whatever picks the next element *)

\* it folds the subsets of D: base for the empty set, else a step with the element c picks.
Folds(it, D, V, base, c, step) ==
  /\ it \in [SUBSET D -> V]
  /\ it[{}] = base
  /\ \A s \in SUBSET D : s # {} => it[s] = step[<<c[s], it[s \ {c[s]}]>>]

\* c picks an element of every nonempty subset of D.
Picks(c, D) == \A s \in SUBSET D : s # {} => c[s] \in s

LEMMA FoldExists ==
  ASSUME NEW D, IsFiniteSet(D), NEW V, NEW base \in V, NEW c, NEW step,
         Picks(c, D),
         \A x \in D, v \in V : step[<<x, v>>] \in V
  PROVE  \E it : Folds(it, D, V, base, c, step)
<1> DEFINE It(T) == CHOOSE it : Folds(it, T, V, base, c, step)
           F(it, T) == Folds(it, T, V, base, c, step)
           Same(S) == \A A \in SUBSET D, B \in SUBSET D : \A g, h :
                        S \subseteq A /\ S \subseteq B /\ F(g, A) /\ F(h, B) => g[S] = h[S]
           P == {T \in SUBSET D : \E it : Folds(it, T, V, base, c, step)}
\* Folds of two sets agree on what is in both.
<1>0. \A S \in SUBSET D : Same(S)
  <2> DEFINE Q == {S \in SUBSET D : Same(S)}
  <2>1. ASSUME NEW S \in SUBSET D, \A U \in SUBSET S : U # S => U \in Q
        PROVE  S \in Q
    <3>1. ASSUME NEW A \in SUBSET D, NEW B \in SUBSET D, S \subseteq A, S \subseteq B,
                 NEW g, NEW h, F(g, A), F(h, B)
          PROVE  g[S] = h[S]
      <4>1. CASE S = {}
        BY <3>1, <4>1 DEF Folds
      <4>2. CASE S # {}
        <5>1. c[S] \in S
          BY <4>2 DEF Picks
        <5>2. g[S] = step[<<c[S], g[S \ {c[S]}]>>] /\ h[S] = step[<<c[S], h[S \ {c[S]}]>>]
          BY <3>1, <4>2 DEF Folds
        <5>3. Same(S \ {c[S]})
          BY <2>1, <5>1
        <5> HIDE DEF F
        <5>4. g[S \ {c[S]}] = h[S \ {c[S]}]
          BY <3>1, <5>3
        <5> QED
          BY <5>2, <5>4
      <4> QED
        BY <4>1, <4>2
    <3> HIDE DEF F
    <3> QED
      BY <3>1
  <2> HIDE DEF Q
  <2>2. Q \in SUBSET (SUBSET D)
    BY DEF Q
  <2>3. Q = SUBSET D
    BY <2>1, <2>2, StrongInduction
  <2> QED
    BY <2>3 DEF Q
<1> HIDE DEF Same
<1>1. ASSUME NEW T \in SUBSET D, \A U \in SUBSET T : U # T => U \in P
      PROVE  T \in P
  <2> DEFINE below(s) == IF s = T THEN IF s = {} THEN base ELSE step[<<c[s], It(s \ {c[s]})[s \ {c[s]}]>>]
                         ELSE It(s)[s]
             g == [s \in SUBSET T |-> below(s)]
  <2>1. ASSUME NEW s \in SUBSET T, s # T PROVE Folds(It(s), s, V, base, c, step)
    BY <1>1, <2>1
  <2>2. ASSUME NEW s \in SUBSET T, s # {} PROVE s \ {c[s]} \in SUBSET T /\ s \ {c[s]} # T /\ s \ {c[s]} # s
                                                /\ c[s] \in D
    BY <2>2 DEF Picks
  <2> HIDE DEF It
  <2>3. \A s \in SUBSET T : s # T => It(s)[s] \in V
    BY <2>1 DEF Folds
  <2>4. ASSUME NEW s \in SUBSET T PROVE below(s) \in V
    <3>1. CASE s = T /\ s # {}
      BY <3>1, <2>2, <2>3
    <3>2. CASE s = T /\ s = {}
      BY <3>2
    <3>3. CASE s # T
      BY <3>3, <2>3
    <3> QED
      BY <3>1, <3>2, <3>3
  <2>5. g \in [SUBSET T -> V]
    BY <2>4
  <2>6. g[{}] = base
    <3>1. CASE T = {}
      BY <3>1
    <3>2. CASE T # {}
      <4>1. g[{}] = It({})[{}]
        BY <3>2
      <4>2. Folds(It({}), {}, V, base, c, step)
        BY <2>1, <3>2
      <4> QED
        BY <4>1, <4>2 DEF Folds
    <3> QED
      BY <3>1, <3>2
  <2>7. ASSUME NEW s \in SUBSET T, s # {} PROVE g[s] = step[<<c[s], g[s \ {c[s]}]>>]
    <3> DEFINE r == s \ {c[s]}
    <3>1. r \in SUBSET T /\ r # T /\ r # s /\ r \in SUBSET s
      BY <2>2, <2>7
    <3>2. g[r] = It(r)[r]
      BY <3>1
    <3>3. CASE s = T
      BY <3>2, <3>3, <2>7
    <3>4. CASE s # T
      <4>1. Folds(It(s), s, V, base, c, step) /\ Folds(It(r), r, V, base, c, step)
        BY <2>1, <3>1, <3>4
      <4>2. g[s] = It(s)[s]
        BY <3>4
      <4>3. It(s)[s] = step[<<c[s], It(s)[r]>>]
        BY <4>1, <2>7 DEF Folds
      <4>4. It(s)[r] = It(r)[r]
        <5>1. s \in SUBSET D /\ r \in SUBSET D /\ r \subseteq s /\ r \subseteq r
          BY <3>1
        <5>2. Same(r)
          BY <1>0, <5>1
        <5>3. F(It(s), s) /\ F(It(r), r)
          BY <4>1
        <5> HIDE DEF r, F
        <5> QED
          BY <5>1, <5>2, <5>3 DEF Same
      <4> QED
        BY <3>2, <4>2, <4>3, <4>4
    <3> QED
      BY <3>3, <3>4
  <2>8. Folds(g, T, V, base, c, step)
    <3> HIDE DEF g
    <3> QED
      BY <2>5, <2>6, <2>7 DEF Folds
  <2> QED
    BY <2>8
<1>2. P = SUBSET D
  <2> HIDE DEF P
  <2>1. P \in SUBSET (SUBSET D)
    BY DEF P
  <2> QED
    BY <1>1, <2>1, StrongInduction
<1> QED
  BY <1>2

-----------------------------------------------------------------------------
(* The sum over the subsets of D *)

Some(s) == CHOOSE x \in s : TRUE

\* The function that FoldFunction picks, for the values of f.
Sums(f, D) ==
  CHOOSE g : g = [s \in SUBSET D |-> IF s = {} THEN 0 ELSE f[Some(s)] + g[s \ {Some(s)}]]

LEMMA TotalIsSum ==
  ASSUME NEW f
  PROVE  Total(f) = Sums(f, DOMAIN f)[DOMAIN f]
<1>1. Total(f) = (LET iter == CHOOSE iter : iter = [s \in SUBSET (DOMAIN f) |->
                                IF s = {} THEN 0 ELSE f[CHOOSE x \in s : TRUE] + iter[s \ {CHOOSE x \in s : TRUE}]]
                  IN iter[DOMAIN f])
  BY Zenon DEF Total, FoldFunction, FoldFunctionOnSet, MapThenFoldSet
<1> QED
  BY <1>1, Zenon DEF Sums, Some

LEMMA SumsExist ==
  ASSUME NEW D, IsFiniteSet(D), NEW f \in [D -> Int]
  PROVE  /\ Sums(f, D) \in [SUBSET D -> Int]
         /\ Sums(f, D)[{}] = 0
         /\ \A s \in SUBSET D : s # {} =>
              /\ Some(s) \in s
              /\ Sums(f, D)[s] = f[Some(s)] + Sums(f, D)[s \ {Some(s)}]
<1> DEFINE c == [s \in SUBSET D |-> Some(s)]
           step == [p \in D \X Int |-> f[p[1]] + p[2]]
           Sum(g) == [s \in SUBSET D |-> IF s = {} THEN 0 ELSE f[Some(s)] + g[s \ {Some(s)}]]
<1>1. \A s \in SUBSET D : s # {} => Some(s) \in s
  BY DEF Some
<1>2. Picks(c, D)
  BY <1>1 DEF Picks
<1>3. \A x \in D, v \in Int : step[<<x, v>>] = f[x] + v
  OBVIOUS
<1>4. \A x \in D, v \in Int : step[<<x, v>>] \in Int
  <2>1. \A x \in D, v \in Int : f[x] + v \in Int
    OBVIOUS
  <2> HIDE DEF step
  <2> QED
    BY <1>3, <2>1
<1>5. PICK it : Folds(it, D, Int, 0, c, step)
  <2> HIDE DEF c, step
  <2> QED
    BY <1>2, <1>4, FoldExists
<1>6. it = Sum(it)
  <2>1. it \in [SUBSET D -> Int] /\ it[{}] = 0
    BY <1>5 DEF Folds
  <2>2. ASSUME NEW s \in SUBSET D, s # {} PROVE it[s] = f[Some(s)] + it[s \ {Some(s)}]
    <3>1. it[s] = step[<<c[s], it[s \ {c[s]}]>>] /\ c[s] = Some(s) /\ Some(s) \in D
      BY <1>1, <1>5, <2>2 DEF Folds
    <3>2. it[s \ {Some(s)}] \in Int
      BY <2>1
    <3> HIDE DEF step, c
    <3> QED
      BY <1>3, <3>1, <3>2
  <2> QED
    BY <2>1, <2>2
<1>7. Sums(f, D) = Sum(Sums(f, D))
  <2>1. Sums(f, D) = CHOOSE g : g = Sum(g)
    BY DEF Sums
  <2> HIDE DEF Sum
  <2> QED
    BY <1>6, <2>1
<1> DEFINE S == Sums(f, D)
<1>8. DOMAIN S = SUBSET D /\ S[{}] = 0
  BY <1>7
<1>9. \A s \in SUBSET D : s # {} => S[s] = f[Some(s)] + S[s \ {Some(s)}]
  BY <1>7
<1>10. \A s \in SUBSET D : S[s] \in Int
  <2> DEFINE P == {s \in SUBSET D : S[s] \in Int}
  <2>1. ASSUME NEW T \in SUBSET D, \A U \in SUBSET T : U # T => U \in P
        PROVE  T \in P
    <3>1. CASE T = {}
      BY <1>8, <3>1
    <3>2. CASE T # {}
      <4>1. Some(T) \in T /\ f[Some(T)] \in Int
        BY <1>1, <3>2
      <4>2. T \ {Some(T)} \in P
        BY <2>1, <4>1
      <4> QED
        BY <1>9, <3>2, <4>1, <4>2
    <3> QED
      BY <3>1, <3>2
  <2>2. P \in SUBSET (SUBSET D)
    OBVIOUS
  <2>3. P = SUBSET D
    <3> HIDE DEF P
    <3> QED
      BY <2>1, <2>2, StrongInduction
  <2> QED
    BY <2>3
<1>11. S = [s \in SUBSET D |-> S[s]]
  BY <1>7
<1> QED
  BY <1>1, <1>8, <1>9, <1>10, <1>11

\* Any element may be taken out first.
LEMMA SumsAny ==
  ASSUME NEW D, IsFiniteSet(D), NEW f \in [D -> Int]
  PROVE  \A T \in SUBSET D : \A x \in T : Sums(f, D)[T] = f[x] + Sums(f, D)[T \ {x}]
<1> DEFINE S == Sums(f, D)
           P == {s \in SUBSET D : \A y \in s : S[s] = f[y] + S[s \ {y}]}
<1>1. /\ S \in [SUBSET D -> Int]
      /\ \A s \in SUBSET D : s # {} => Some(s) \in s /\ S[s] = f[Some(s)] + S[s \ {Some(s)}]
  BY SumsExist
<1> HIDE DEF S
<1>2. ASSUME NEW s \in SUBSET D, \A U \in SUBSET s : U # s => U \in P
      PROVE  s \in P
  <2> SUFFICES ASSUME NEW y \in s PROVE S[s] = f[y] + S[s \ {y}]
    OBVIOUS
  <2> DEFINE z == Some(s)
  <2>1. z \in s /\ S[s] = f[z] + S[s \ {z}]
    BY <1>1
  <2> HIDE DEF z
  <2>2. SUFFICES ASSUME y # z PROVE S[s] = f[y] + S[s \ {y}]
    BY <2>1
  <2> DEFINE w == s \ {y, z}
  <2>3. S[s \ {z}] = f[y] + S[w]
    <3>1. s \ {z} \in P /\ y \in s \ {z} /\ (s \ {z}) \ {y} = w
      BY <1>2, <2>1, <2>2
    <3> QED
      BY <3>1
  <2>4. S[s \ {y}] = f[z] + S[w]
    <3>1. s \ {y} \in P /\ z \in s \ {y} /\ (s \ {y}) \ {z} = w
      BY <1>2, <2>1, <2>2
    <3> QED
      BY <3>1
  <2>5. f[y] \in Int /\ f[z] \in Int /\ S[w] \in Int
    BY <1>1, <2>1
  <2> HIDE DEF w, P
  <2> QED
    BY <2>1, <2>3, <2>4, <2>5
<1>3. P = SUBSET D
  <2>1. P \in SUBSET (SUBSET D)
    OBVIOUS
  <2> HIDE DEF P
  <2> QED
    BY <1>2, <2>1, StrongInduction
<1> QED
  BY <1>3 DEF S

\* The sum depends on the values summed only.
LEMMA SumsAgree ==
  ASSUME NEW D, IsFiniteSet(D), NEW f \in [D -> Int],
         NEW T \in SUBSET D, NEW g \in [T -> Int], \A x \in T : g[x] = f[x]
  PROVE  Sums(g, T)[T] = Sums(f, D)[T]
<1> DEFINE S == Sums(f, D)
           R == Sums(g, T)
           P == {s \in SUBSET T : R[s] = S[s]}
<1>1. IsFiniteSet(T)
  BY FS_Subset
<1>2. S[{}] = 0 /\ R[{}] = 0
  BY <1>1, SumsExist
<1>3. \A s \in SUBSET T : \A x \in s : S[s] = f[x] + S[s \ {x}] /\ R[s] = g[x] + R[s \ {x}]
  <2>1. \A s \in SUBSET D : \A x \in s : S[s] = f[x] + S[s \ {x}]
    BY SumsAny
  <2>2. \A s \in SUBSET T : \A x \in s : R[s] = g[x] + R[s \ {x}]
    BY <1>1, SumsAny
  <2>3. SUBSET T \subseteq SUBSET D
    OBVIOUS
  <2> HIDE DEF S, R
  <2> QED
    BY <2>1, <2>2, <2>3
<1> HIDE DEF S, R
<1>4. {} \in P
  BY <1>2
<1>5. ASSUME NEW s \in P, NEW x \in T \ s PROVE s \cup {x} \in P
  <2>1. (s \cup {x}) \ {x} = s /\ s \cup {x} \in SUBSET T
    OBVIOUS
  <2>2. S[s \cup {x}] = f[x] + S[s] /\ R[s \cup {x}] = g[x] + R[s]
    BY <1>3, <2>1, ZenonT(60)
  <2> QED
    BY <2>1, <2>2
<1>6. P = SUBSET T
  <2>1. P \in SUBSET (SUBSET T)
    OBVIOUS
  <2> HIDE DEF P
  <2> QED
    BY <1>1, <1>4, <1>5, <2>1, FiniteInduction
<1> QED
  BY <1>6 DEF S, R

-----------------------------------------------------------------------------
(* The laws of Total *)

\* The part of f that is about S.
On(f, S) == [x \in S |-> f[x]]

LEMMA TotalOn ==
  ASSUME NEW D, IsFiniteSet(D), NEW f \in [D -> Int], NEW T \in SUBSET D
  PROVE  Total(On(f, T)) = Sums(f, D)[T]
<1>1. On(f, T) \in [T -> Int] /\ DOMAIN On(f, T) = T /\ \A x \in T : On(f, T)[x] = f[x]
  BY DEF On
<1> QED
  BY <1>1, TotalIsSum, SumsAgree

LEMMA TotalLaws ==
  ASSUME NEW D, IsFiniteSet(D), NEW f \in [D -> Int]
  PROVE  /\ Total(f) \in Int
         /\ Total(f) = Total(On(f, D))
         /\ Total(On(f, {})) = 0
         /\ \A T \in SUBSET D : Total(On(f, T)) \in Int
         /\ \A T \in SUBSET D : \A x \in T : Total(On(f, T)) = f[x] + Total(On(f, T \ {x}))
         /\ \A T \in SUBSET D : \A x \in D \ T : Total(On(f, T \cup {x})) = f[x] + Total(On(f, T))
<1>1. \A T \in SUBSET D : Total(On(f, T)) = Sums(f, D)[T]
  BY TotalOn
<1>2. Total(f) = Sums(f, D)[D]
  BY TotalIsSum
<1>3. Sums(f, D) \in [SUBSET D -> Int] /\ Sums(f, D)[{}] = 0
  BY SumsExist
<1>4. \A T \in SUBSET D : \A x \in T : Sums(f, D)[T] = f[x] + Sums(f, D)[T \ {x}]
  BY SumsAny
<1>5. \A T \in SUBSET D : \A x \in T : Total(On(f, T)) = f[x] + Total(On(f, T \ {x}))
  BY <1>1, <1>4
<1>6. ASSUME NEW T \in SUBSET D, NEW x \in D \ T
      PROVE  Total(On(f, T \cup {x})) = f[x] + Total(On(f, T))
  <2>1. (T \cup {x}) \ {x} = T /\ T \cup {x} \in SUBSET D /\ x \in T \cup {x}
    OBVIOUS
  <2> QED
    BY <1>5, <2>1
<1> QED
  BY <1>1, <1>2, <1>3, <1>5, <1>6

LEMMA TotalTake ==
  ASSUME NEW D, IsFiniteSet(D), NEW f \in [D -> Int], NEW T \in SUBSET D, NEW x \in T
  PROVE  Total(On(f, T)) = f[x] + Total(On(f, T \ {x}))
<1>1. T \in SUBSET D /\ T \ {x} \in SUBSET D
  OBVIOUS
<1>2. \A U \in SUBSET D : Total(On(f, U)) = Sums(f, D)[U]
  BY TotalOn
<1>3. Sums(f, D)[T] = f[x] + Sums(f, D)[T \ {x}]
  BY SumsAny
<1> QED
  BY <1>1, <1>2, <1>3

LEMMA TotalPlus ==
  ASSUME NEW D, IsFiniteSet(D), NEW f \in [D -> Int], NEW g \in [D -> Int]
  PROVE  Total([x \in D |-> f[x] + g[x]]) = Total(f) + Total(g)
<1> DEFINE h == [x \in D |-> f[x] + g[x]]
           F(T) == Total(On(f, T))
           G(T) == Total(On(g, T))
           H(T) == Total(On(h, T))
           P == {T \in SUBSET D : H(T) = F(T) + G(T)}
<1>1. h \in [D -> Int] /\ \A x \in D : h[x] = f[x] + g[x] /\ h[x] \in Int /\ f[x] \in Int /\ g[x] \in Int
  OBVIOUS
<1> HIDE DEF h
<1>2. /\ Total(f) = F(D) /\ F({}) = 0 /\ \A T \in SUBSET D : F(T) \in Int
      /\ \A T \in SUBSET D : \A x \in D \ T : F(T \cup {x}) = f[x] + F(T)
  BY TotalLaws
<1>3. /\ Total(g) = G(D) /\ G({}) = 0 /\ \A T \in SUBSET D : G(T) \in Int
      /\ \A T \in SUBSET D : \A x \in D \ T : G(T \cup {x}) = g[x] + G(T)
  BY TotalLaws
<1>4. /\ Total(h) = H(D) /\ H({}) = 0 /\ \A T \in SUBSET D : H(T) \in Int
      /\ \A T \in SUBSET D : \A x \in D \ T : H(T \cup {x}) = h[x] + H(T)
  BY <1>1, TotalLaws
<1> HIDE DEF F, G, H
<1>5. {} \in P
  BY <1>2, <1>3, <1>4
<1>6. ASSUME NEW T \in P, NEW x \in D \ T PROVE T \cup {x} \in P
  <2>1. H(T) = F(T) + G(T) /\ T \in SUBSET D /\ T \cup {x} \in SUBSET D /\ x \in D
    OBVIOUS
  <2> HIDE DEF P
  <2>2. H(T \cup {x}) = F(T \cup {x}) + G(T \cup {x})
    BY <1>1, <1>2, <1>3, <1>4, <2>1
  <2> QED
    BY <2>1, <2>2 DEF P
<1>7. P = SUBSET D
  <2>1. P \in SUBSET (SUBSET D)
    OBVIOUS
  <2> HIDE DEF P
  <2> QED
    BY <1>5, <1>6, <2>1, FiniteInduction
<1> QED
  BY <1>2, <1>3, <1>4, <1>7 DEF h

LEMMA TotalConst ==
  ASSUME NEW D, IsFiniteSet(D), NEW n \in Int
  PROVE  Total([x \in D |-> n]) = n * Cardinality(D)
<1> DEFINE f == [x \in D |-> n]
           F(T) == Total(On(f, T))
           P == {T \in SUBSET D : F(T) = n * Cardinality(T)}
<1>1. f \in [D -> Int] /\ \A x \in D : f[x] = n
  OBVIOUS
<1> HIDE DEF f
<1>2. /\ Total(f) = F(D) /\ F({}) = 0
      /\ \A T \in SUBSET D : \A x \in D \ T : F(T \cup {x}) = f[x] + F(T)
  BY <1>1, TotalLaws
<1> HIDE DEF F
<1>3. Cardinality({}) = 0
  BY FS_EmptySet
<1>4. {} \in P
  BY <1>2, <1>3
<1>5. ASSUME NEW T \in P, NEW x \in D \ T PROVE T \cup {x} \in P
  <2>1. F(T \cup {x}) = n + n * Cardinality(T)
    BY <1>1, <1>2
  <2>2. IsFiniteSet(T) /\ Cardinality(T) \in Nat
    BY FS_Subset, FS_CardinalityType
  <2>3. Cardinality(T \cup {x}) = Cardinality(T) + 1
    BY <2>2, FS_AddElement
  <2>4. n * (Cardinality(T) + 1) = n + n * Cardinality(T)
    BY <2>2
  <2> QED
    BY <2>1, <2>3, <2>4
<1>6. P = SUBSET D
  <2>1. P \in SUBSET (SUBSET D)
    OBVIOUS
  <2> HIDE DEF P
  <2> QED
    BY <1>4, <1>5, <2>1, FiniteInduction
<1> QED
  BY <1>2, <1>6 DEF f

LEMMA TotalZero ==
  ASSUME NEW D, IsFiniteSet(D)
  PROVE  Total([x \in D |-> 0]) = 0
<1>1. PICK n \in Int : n = 0
  OBVIOUS
<1>2. Total([x \in D |-> n]) = n * Cardinality(D)
  BY TotalConst
<1>3. Cardinality(D) \in Nat
  BY FS_CardinalityType
<1> QED
  BY <1>1, <1>2, <1>3

\* What is at least 0 everywhere sums to at least 0, and to at least each of its values.
LEMMA TotalNat ==
  ASSUME NEW D, IsFiniteSet(D), NEW f \in [D -> Nat]
  PROVE  /\ Total(f) \in Nat
         /\ \A x \in D : f[x] <= Total(f)
<1> DEFINE F(T) == Total(On(f, T))
           P == {T \in SUBSET D : F(T) \in Nat /\ \A x \in T : f[x] <= F(T)}
<1>1. f \in [D -> Int] /\ \A x \in D : f[x] \in Nat
  OBVIOUS
<1>2. /\ Total(f) = F(D) /\ F({}) = 0
      /\ \A T \in SUBSET D : \A x \in D \ T : F(T \cup {x}) = f[x] + F(T)
  BY <1>1, TotalLaws
<1> HIDE DEF F
<1>3. {} \in P
  BY <1>2
<1>4. ASSUME NEW T \in P, NEW x \in D \ T PROVE T \cup {x} \in P
  <2>1. F(T \cup {x}) = f[x] + F(T) /\ F(T) \in Nat
    BY <1>2
  <2>2. \A y \in T : f[y] <= F(T)
    OBVIOUS
  <2> QED
    BY <1>1, <2>1, <2>2
<1>5. P = SUBSET D
  <2>1. P \in SUBSET (SUBSET D)
    OBVIOUS
  <2> HIDE DEF P
  <2> QED
    BY <1>3, <1>4, <2>1, FiniteInduction
<1> QED
  BY <1>2, <1>5

LEMMA TotalMinus ==
  ASSUME NEW D, IsFiniteSet(D), NEW f \in [D -> Int], NEW g \in [D -> Int]
  PROVE  Total([x \in D |-> f[x] - g[x]]) = Total(f) - Total(g)
<1> DEFINE h == [x \in D |-> f[x] - g[x]]
<1>1. h \in [D -> Int]
  OBVIOUS
<1>2. f = [x \in D |-> h[x] + g[x]]
  OBVIOUS
<1> HIDE DEF h
<1>3. Total(f) = Total(h) + Total(g)
  <2>1. Total([x \in D |-> h[x] + g[x]]) = Total(h) + Total(g)
    BY <1>1, TotalPlus
  <2> QED
    BY <1>2, <2>1
<1>4. Total(f) \in Int /\ Total(g) \in Int /\ Total(h) \in Int
  BY <1>1, TotalLaws
<1> QED
  BY <1>3, <1>4 DEF h

\* The same, for functions known value by value.
LEMMA TotalPointwise ==
  ASSUME NEW D, IsFiniteSet(D)
  PROVE  /\ \A f, g, h \in [D -> Int] : (\A x \in D : h[x] = f[x] + g[x]) => Total(h) = Total(f) + Total(g)
         /\ \A f, g, h \in [D -> Int] : (\A x \in D : h[x] = f[x] - g[x]) => Total(h) = Total(f) - Total(g)
<1>1. ASSUME NEW f \in [D -> Int], NEW g \in [D -> Int], NEW h \in [D -> Int], \A x \in D : h[x] = f[x] + g[x]
      PROVE  Total(h) = Total(f) + Total(g)
  <2>1. h = [x \in D |-> f[x] + g[x]]
    BY <1>1
  <2> QED
    BY <2>1, TotalPlus
<1>2. ASSUME NEW f \in [D -> Int], NEW g \in [D -> Int], NEW h \in [D -> Int], \A x \in D : h[x] = f[x] - g[x]
      PROVE  Total(h) = Total(f) - Total(g)
  <2>1. h = [x \in D |-> f[x] - g[x]]
    BY <1>2
  <2> QED
    BY <2>1, TotalMinus
<1> QED
  BY <1>1, <1>2

LEMMA TotalMonotone ==
  ASSUME NEW D, IsFiniteSet(D), NEW f \in [D -> Int], NEW g \in [D -> Int], \A x \in D : f[x] <= g[x]
  PROVE  Total(f) <= Total(g)
<1> DEFINE h == [x \in D |-> g[x] - f[x]]
<1>1. h \in [D -> Nat]
  OBVIOUS
<1>2. Total(h) = Total(g) - Total(f)
  BY TotalMinus
<1> HIDE DEF h
<1>3. Total(h) \in Nat
  BY <1>1, TotalNat
<1>4. Total(f) \in Int /\ Total(g) \in Int
  BY TotalLaws
<1> QED
  BY <1>2, <1>3, <1>4

LEMMA TotalExcept ==
  ASSUME NEW D, IsFiniteSet(D), NEW f \in [D -> Int], NEW d \in D, NEW v \in Int
  PROVE  Total([f EXCEPT ![d] = v]) = Total(f) - f[d] + v
<1> DEFINE g == [f EXCEPT ![d] = v]
<1>1. g \in [D -> Int] /\ g[d] = v /\ On(g, D \ {d}) = On(f, D \ {d})
  BY DEF On
<1> HIDE DEF g
<1>2. Total(f) = f[d] + Total(On(f, D \ {d})) /\ Total(On(f, D \ {d})) \in Int
  BY TotalLaws
<1>3. Total(g) = g[d] + Total(On(g, D \ {d}))
  BY <1>1, TotalLaws
<1>4. f[d] \in Int
  OBVIOUS
<1> QED
  BY <1>1, <1>2, <1>3, <1>4 DEF g

\* Two functions that differ at d.
LEMMA TotalChanged ==
  ASSUME NEW D, IsFiniteSet(D), NEW f \in [D -> Int], NEW g \in [D -> Int], NEW d \in D,
         \A x \in D \ {d} : g[x] = f[x]
  PROVE  Total(g) = Total(f) + g[d] - f[d]
<1>1. On(g, D \ {d}) = On(f, D \ {d})
  BY DEF On
<1>2. Total(f) = f[d] + Total(On(f, D \ {d})) /\ Total(On(f, D \ {d})) \in Int
  BY TotalLaws
<1>3. Total(g) = g[d] + Total(On(g, D \ {d}))
  BY TotalLaws
<1>4. f[d] \in Int /\ g[d] \in Int
  OBVIOUS
<1> QED
  BY <1>1, <1>2, <1>3, <1>4

\* Zeros outside T change nothing.
LEMMA TotalExtend ==
  ASSUME NEW D, IsFiniteSet(D), NEW T \in SUBSET D, NEW f \in [T -> Int]
  PROVE  Total(f) = Total([x \in D |-> IF x \in T THEN f[x] ELSE 0])
<1> DEFINE g == [x \in D |-> IF x \in T THEN f[x] ELSE 0]
           G(U) == Total(On(g, U))
           P == {U \in SUBSET (D \ T) : G(T \cup U) = Total(f)}
<1>1. g \in [D -> Int] /\ \A x \in D \ T : g[x] = 0
  OBVIOUS
<1>2. On(g, T) = f
  BY DEF On
<1> HIDE DEF g
<1>3. /\ Total(g) = G(D) /\ \A U \in SUBSET D : G(U) \in Int
      /\ \A U \in SUBSET D : \A x \in D \ U : G(U \cup {x}) = g[x] + G(U)
  BY <1>1, TotalLaws
<1>4. G(T) = Total(f)
  BY <1>2
<1> HIDE DEF G
<1>5. {} \in P
  <2>1. T \cup {} = T
    OBVIOUS
  <2> QED
    BY <1>4, <2>1
<1>6. ASSUME NEW U \in P, NEW x \in (D \ T) \ U PROVE U \cup {x} \in P
  <2>1. T \cup U \in SUBSET D /\ x \in D \ (T \cup U) /\ (T \cup U) \cup {x} = T \cup (U \cup {x})
    OBVIOUS
  <2>2. G((T \cup U) \cup {x}) = G(T \cup U)
    BY <1>1, <1>3, <2>1
  <2> QED
    BY <2>1, <2>2
<1>7. P = SUBSET (D \ T)
  <2>1. P \in SUBSET (SUBSET (D \ T)) /\ IsFiniteSet(D \ T)
    BY FS_Subset
  <2> HIDE DEF P
  <2> QED
    BY <1>5, <1>6, <2>1, FiniteInduction
<1>8. T \cup (D \ T) = D /\ D \ T \in P
  BY <1>7
<1> QED
  BY <1>3, <1>8 DEF g

\* One value and zeros.
LEMMA TotalOne ==
  ASSUME NEW D, IsFiniteSet(D), NEW d, NEW v \in Int
  PROVE  Total([x \in D |-> IF x = d THEN v ELSE 0]) = IF d \in D THEN v ELSE 0
<1> DEFINE zero == [x \in D |-> 0]
<1>1. CASE d \in D
  <2>1. [x \in D |-> IF x = d THEN v ELSE 0] = [zero EXCEPT ![d] = v]
    OBVIOUS
  <2>2. zero \in [D -> Int] /\ zero[d] = 0 /\ Total(zero) = 0
    BY <1>1, TotalZero
  <2> HIDE DEF zero
  <2>3. Total([zero EXCEPT ![d] = v]) = Total(zero) - zero[d] + v
    BY <1>1, <2>2, TotalExcept
  <2> QED
    BY <1>1, <2>1, <2>2, <2>3
<1>2. CASE d \notin D
  <2>1. [x \in D |-> IF x = d THEN v ELSE 0] = zero
    BY <1>2
  <2> QED
    BY <1>2, <2>1, TotalZero
<1> QED
  BY <1>1, <1>2

\* By rows or by columns.
LEMMA TotalSwap ==
  ASSUME NEW D, IsFiniteSet(D), NEW E, IsFiniteSet(E), NEW m \in [D -> [E -> Int]]
  PROVE  Total([x \in D |-> Total(m[x])]) = Total([y \in E |-> Total([x \in D |-> m[x][y]])])
<1> DEFINE rows == [x \in D |-> Total(m[x])]
           col(y) == [x \in D |-> m[x][y]]
           R(T) == Total(On(rows, T))
           part(T) == [y \in E |-> Total(On(col(y), T))]
           P == {T \in SUBSET D : R(T) = Total(part(T))}
<1>1. rows \in [D -> Int] /\ \A x \in D : rows[x] = Total(m[x])
  <2>1. \A x \in D : m[x] \in [E -> Int]
    OBVIOUS
  <2>2. \A x \in D : Total(m[x]) \in Int
    BY <2>1, TotalLaws
  <2> QED
    BY <2>2
<1>2. \A y \in E : col(y) \in [D -> Int] /\ \A x \in D : col(y)[x] = m[x][y]
  OBVIOUS
<1> HIDE DEF rows, col
<1>3. /\ Total(rows) = R(D) /\ R({}) = 0
      /\ \A T \in SUBSET D : \A x \in D \ T : R(T \cup {x}) = rows[x] + R(T)
  BY <1>1, TotalLaws
<1>4. ASSUME NEW y \in E
      PROVE  /\ Total(col(y)) = Total(On(col(y), D)) /\ Total(On(col(y), {})) = 0
             /\ \A T \in SUBSET D : Total(On(col(y), T)) \in Int
             /\ \A T \in SUBSET D : \A x \in D \ T :
                  Total(On(col(y), T \cup {x})) = col(y)[x] + Total(On(col(y), T))
  <2>1. col(y) \in [D -> Int]
    BY <1>2
  <2> QED
    BY <2>1, TotalLaws
<1> HIDE DEF R
<1>5. {} \in P
  <2>1. part({}) = [y \in E |-> 0]
    BY <1>4
  <2>2. Total(part({})) = 0
    BY <2>1, TotalZero
  <2> QED
    BY <1>3, <2>2
<1>6. ASSUME NEW T \in P, NEW x \in D \ T PROVE T \cup {x} \in P
  <2>1. m[x] \in [E -> Int] /\ part(T) \in [E -> Int]
    BY <1>4
  <2>2. part(T \cup {x}) = [y \in E |-> m[x][y] + part(T)[y]]
    BY <1>2, <1>4
  <2> HIDE DEF part
  <2>3. Total([y \in E |-> m[x][y] + part(T)[y]]) = Total(m[x]) + Total(part(T))
    BY <2>1, TotalPlus
  <2>4. R(T \cup {x}) = Total(m[x]) + R(T)
    BY <1>1, <1>3
  <2> QED
    BY <2>2, <2>3, <2>4
<1>7. P = SUBSET D
  <2>1. P \in SUBSET (SUBSET D)
    OBVIOUS
  <2> HIDE DEF P
  <2> QED
    BY <1>5, <1>6, <2>1, FiniteInduction
<1>8. part(D) = [y \in E |-> Total(col(y))]
  BY <1>4
<1>9. R(D) = Total(part(D))
  BY <1>7
<1> QED
  BY <1>3, <1>8, <1>9 DEF rows, col

\* The values of each owner, summed over some owners, are the values these owners have.
LEMMA TotalByOwner ==
  ASSUME NEW D, IsFiniteSet(D), NEW E, IsFiniteSet(E), NEW v \in [D -> Int], NEW owner
  PROVE  Total([e \in E |-> Total([x \in {y \in D : owner[y] = e} |-> v[x]])])
           = Total([x \in {y \in D : owner[y] \in E} |-> v[x]])
<1> DEFINE m == [e \in E |-> [x \in D |-> IF owner[x] = e THEN v[x] ELSE 0]]
           of(e) == {y \in D : owner[y] = e}
           owned == {y \in D : owner[y] \in E}
<1>1. m \in [E -> [D -> Int]] /\ \A e \in E : \A x \in D : m[e][x] = IF owner[x] = e THEN v[x] ELSE 0
  OBVIOUS
<1>2. ASSUME NEW e \in E PROVE Total([x \in of(e) |-> v[x]]) = Total(m[e])
  <2> DEFINE f == [x \in of(e) |-> v[x]]
  <2>1. f \in [of(e) -> Int] /\ of(e) \in SUBSET D
    OBVIOUS
  <2>2. m[e] = [x \in D |-> IF x \in of(e) THEN f[x] ELSE 0]
    OBVIOUS
  <2> HIDE DEF f, of, m
  <2> QED
    BY <2>1, <2>2, TotalExtend DEF f
<1>3. ASSUME NEW x \in D PROVE Total([e \in E |-> m[e][x]]) = IF x \in owned THEN v[x] ELSE 0
  <2>1. [e \in E |-> m[e][x]] = [e \in E |-> IF e = owner[x] THEN v[x] ELSE 0]
    OBVIOUS
  <2>2. Total([e \in E |-> IF e = owner[x] THEN v[x] ELSE 0]) = IF owner[x] \in E THEN v[x] ELSE 0
    <3>1. v[x] \in Int
      OBVIOUS
    <3> QED
      BY <3>1, TotalOne
  <2> QED
    BY <2>1, <2>2
<1>4. Total([x \in owned |-> v[x]]) = Total([x \in D |-> IF x \in owned THEN v[x] ELSE 0])
  <2> DEFINE f == [x \in owned |-> v[x]]
  <2>1. f \in [owned -> Int] /\ owned \in SUBSET D
    OBVIOUS
  <2>2. [x \in D |-> IF x \in owned THEN f[x] ELSE 0] = [x \in D |-> IF x \in owned THEN v[x] ELSE 0]
    OBVIOUS
  <2> HIDE DEF f, owned
  <2> QED
    BY <2>1, <2>2, TotalExtend DEF f
<1> HIDE DEF m
<1>5. Total([e \in E |-> Total(m[e])]) = Total([x \in D |-> Total([e \in E |-> m[e][x]])])
  BY <1>1, TotalSwap
<1>6. [e \in E |-> Total([x \in of(e) |-> v[x]])] = [e \in E |-> Total(m[e])]
  BY <1>2
<1>7. [x \in D |-> Total([e \in E |-> m[e][x]])] = [x \in D |-> IF x \in owned THEN v[x] ELSE 0]
  BY <1>3
<1> QED
  BY <1>4, <1>5, <1>6, <1>7

\* A set and the rest.
LEMMA TotalSplit ==
  ASSUME NEW D, IsFiniteSet(D), NEW f \in [D -> Int], NEW T \in SUBSET D
  PROVE  Total(f) = Total(On(f, T)) + Total(On(f, D \ T))
<1> DEFINE g == [x \in D |-> IF x \in T THEN f[x] ELSE 0]
           h == [x \in D |-> IF x \in D \ T THEN f[x] ELSE 0]
<1>1. g \in [D -> Int] /\ h \in [D -> Int] /\ f = [x \in D |-> g[x] + h[x]]
  OBVIOUS
<1>2. ASSUME NEW U \in SUBSET D
      PROVE  Total(On(f, U)) = Total([x \in D |-> IF x \in U THEN f[x] ELSE 0])
  <2>1. On(f, U) \in [U -> Int] /\ [x \in D |-> IF x \in U THEN f[x] ELSE 0]
                                   = [x \in D |-> IF x \in U THEN On(f, U)[x] ELSE 0]
    BY DEF On
  <2> QED
    BY <2>1, TotalExtend
<1>3. Total(On(f, T)) = Total(g) /\ Total(On(f, D \ T)) = Total(h)
  BY <1>2
<1> HIDE DEF g, h
<1>4. Total([x \in D |-> g[x] + h[x]]) = Total(g) + Total(h)
  BY <1>1, TotalPlus
<1> QED
  BY <1>1, <1>3, <1>4

-----------------------------------------------------------------------------
(* Minima and maxima *)

LEMMA MinOfTwo ==
  \A a, b \in Int :
     /\ Min({a, b}) \in Int /\ Min({a, b}) \in {a, b}
     /\ Min({a, b}) <= a /\ Min({a, b}) <= b
<1> SUFFICES ASSUME NEW a \in Int, NEW b \in Int
    PROVE  /\ Min({a, b}) \in Int /\ Min({a, b}) \in {a, b}
           /\ Min({a, b}) <= a /\ Min({a, b}) <= b
  OBVIOUS
<1>1. \E x \in {a, b} : \A y \in {a, b} : x <= y
  OBVIOUS
<1>2. Min({a, b}) \in {a, b} /\ \A y \in {a, b} : Min({a, b}) <= y
  BY <1>1 DEF Min
<1> QED
  BY <1>2

LEMMA MinOfThree ==
  \A a, b, c \in Int :
     /\ Min({a, b, c}) \in Int /\ Min({a, b, c}) \in {a, b, c}
     /\ Min({a, b, c}) <= a /\ Min({a, b, c}) <= b /\ Min({a, b, c}) <= c
<1> SUFFICES ASSUME NEW a \in Int, NEW b \in Int, NEW c \in Int
    PROVE  /\ Min({a, b, c}) \in Int /\ Min({a, b, c}) \in {a, b, c}
           /\ Min({a, b, c}) <= a /\ Min({a, b, c}) <= b /\ Min({a, b, c}) <= c
  OBVIOUS
<1>1. \E x \in {a, b, c} : \A y \in {a, b, c} : x <= y
  OBVIOUS
<1>2. Min({a, b, c}) \in {a, b, c} /\ \A y \in {a, b, c} : Min({a, b, c}) <= y
  BY <1>1 DEF Min
<1> QED
  BY <1>2

LEMMA MaxOfTwo ==
  \A a, b \in Int :
     /\ Max({a, b}) \in Int /\ Max({a, b}) \in {a, b}
     /\ Max({a, b}) >= a /\ Max({a, b}) >= b
<1> SUFFICES ASSUME NEW a \in Int, NEW b \in Int
    PROVE  /\ Max({a, b}) \in Int /\ Max({a, b}) \in {a, b}
           /\ Max({a, b}) >= a /\ Max({a, b}) >= b
  OBVIOUS
<1>1. \E x \in {a, b} : \A y \in {a, b} : x >= y
  OBVIOUS
<1>2. Max({a, b}) \in {a, b} /\ \A y \in {a, b} : Max({a, b}) >= y
  BY <1>1 DEF Max
<1> QED
  BY <1>2

LEMMA MaxWithZero ==
  \A n \in Nat : Max({0, n}) = n
<1> SUFFICES ASSUME NEW n \in Nat PROVE Max({0, n}) = n
  OBVIOUS
<1>1. n \in Int /\ 0 \in Int
  OBVIOUS
<1>2. Max({0, n}) \in {0, n} /\ Max({0, n}) >= 0 /\ Max({0, n}) >= n
  BY <1>1, MaxOfTwo
<1> QED
  BY <1>2

\* What is cut to what there is.
LEMMA MinOfNats ==
  \A a, b \in Nat : Min({a, b}) \in Nat /\ Min({a, b}) <= a /\ Min({a, b}) <= b
<1> SUFFICES ASSUME NEW a \in Nat, NEW b \in Nat
             PROVE  Min({a, b}) \in Nat /\ Min({a, b}) <= a /\ Min({a, b}) <= b
  OBVIOUS
<1>1. a \in Int /\ b \in Int
  OBVIOUS
<1>2. Min({a, b}) \in {a, b} /\ Min({a, b}) <= a /\ Min({a, b}) <= b
  BY <1>1, MinOfTwo
<1> QED
  BY <1>2

LEMMA MaxInSet ==
  ASSUME NEW D \in SUBSET Int, IsFiniteSet(D), D # {}
  PROVE  Max(D) \in D /\ \A y \in D : Max(D) >= y
<1> DEFINE P == {T \in SUBSET D : T # {} => \E x \in T : \A y \in T : x >= y}
<1>1. {} \in P
  OBVIOUS
<1>2. ASSUME NEW T \in P, NEW z \in D \ T PROVE T \cup {z} \in P
  <2>1. CASE T = {}
    BY <2>1
  <2>2. CASE T # {}
    <3>1. PICK x \in T : \A y \in T : x >= y
      BY <2>2
    <3>2. CASE x >= z
      BY <3>1, <3>2
    <3>3. CASE ~ (x >= z)
      <4>1. x \in Int /\ z \in Int /\ \A y \in T : y \in Int
        OBVIOUS
      <4>2. \A y \in T \cup {z} : z >= y
        BY <3>1, <3>3, <4>1
      <4> QED
        BY <4>2
    <3> QED
      BY <3>2, <3>3
  <2> QED
    BY <2>1, <2>2
<1>3. P = SUBSET D
  <2>1. P \in SUBSET (SUBSET D)
    OBVIOUS
  <2> HIDE DEF P
  <2> QED
    BY <1>1, <1>2, <2>1, FiniteInduction
<1>4. \E x \in D : \A y \in D : x >= y
  BY <1>3
<1> QED
  BY <1>4 DEF Max

-----------------------------------------------------------------------------
(* Induction along an interval *)

\* A set of numbers that holds 0, and each number after one that it holds, is all of them.
LEMMA UpTo ==
  ASSUME NEW n \in Nat, NEW P \in SUBSET (0 .. n), 0 \in P, \A k \in 1 .. n : k - 1 \in P => k \in P
  PROVE  P = 0 .. n
<1> DEFINE Bad == (0 .. n) \ P
           Back == {n - k : k \in Bad}
<1>1. SUFFICES ASSUME Bad # {} PROVE FALSE
  OBVIOUS
<1>2. Back \in SUBSET (0 .. n) /\ Back # {}
  BY <1>1
<1>3. IsFiniteSet(Back)
  <2>1. IsFiniteSet(0 .. n)
    BY FS_Interval
  <2> QED
    BY <1>2, <2>1, FS_Subset
<1>4. Back \in SUBSET Int
  BY <1>2
<1>5. PICK m \in Back : \A y \in Back : m >= y
  <2> HIDE DEF Back
  <2> QED
    BY <1>2, <1>3, <1>4, MaxInSet
<1>6. PICK k \in Bad : m = n - k
  BY <1>5
<1>7. k \in 1 .. n
  BY <1>6
<1>8. k - 1 \in Bad
  BY <1>6, <1>7
<1>9. n - (k - 1) \in Back /\ ~(m >= n - (k - 1))
  BY <1>6, <1>7, <1>8
<1> HIDE DEF Back
<1> QED
  BY <1>5, <1>9

-----------------------------------------------------------------------------
(* Order *)

\* A finite set of numbers can be put in order.
LEMMA InOrder ==
  ASSUME NEW D \in SUBSET Nat, IsFiniteSet(D)
  PROVE  \E s \in [1 .. Cardinality(D) -> D] :
            /\ \A i, j \in 1 .. Cardinality(D) : i < j => s[i] < s[j]
            /\ \A x \in D : \E i \in 1 .. Cardinality(D) : s[i] = x
<1> DEFINE Orderly(T) == \E s \in [1 .. Cardinality(T) -> T] :
                            /\ \A i, j \in 1 .. Cardinality(T) : i < j => s[i] < s[j]
                            /\ \A x \in T : \E i \in 1 .. Cardinality(T) : s[i] = x
           P == {T \in SUBSET D : Orderly(T)}
<1>1. ASSUME NEW T \in SUBSET D, \A U \in SUBSET T : U # T => U \in P
      PROVE  T \in P
  <2>1. CASE T = {}
    <3>1. Cardinality(T) = 0
      BY <2>1, FS_EmptySet
    <3>2. 1 .. Cardinality(T) = {}
      BY <3>1
    <3>3. [x \in {} |-> x] \in [1 .. Cardinality(T) -> T]
      BY <3>2
    <3> QED
      BY <2>1, <3>2, <3>3
  <2>2. CASE T # {}
    <3> DEFINE m == Max(T)
               U == T \ {m}
               n == Cardinality(U)
    <3>1. T \in SUBSET Int /\ IsFiniteSet(T)
      <4>1. IsFiniteSet(T)
        BY FS_Subset
      <4>2. T \in SUBSET Int
        OBVIOUS
      <4> QED
        BY <4>1, <4>2
    <3>2. m \in T /\ \A y \in T : m >= y
      BY <2>2, <3>1, MaxInSet
    <3> HIDE DEF m
    <3>3. n \in Nat /\ IsFiniteSet(U) /\ Cardinality(T) = n + 1
      <4>1. IsFiniteSet(U) /\ Cardinality(U) = Cardinality(T) - 1
        BY <3>1, <3>2, FS_RemoveElement
      <4>2. Cardinality(T) \in Nat /\ Cardinality(U) \in Nat
        BY <3>1, <4>1, FS_CardinalityType
      <4> QED
        BY <4>1, <4>2
    <3>4. Orderly(U)
      <4>1. U \in SUBSET T /\ U # T
        BY <3>2
      <4> QED
        BY <1>1, <4>1
    <3>5. PICK s \in [1 .. n -> U] : /\ \A i, j \in 1 .. n : i < j => s[i] < s[j]
                                     /\ \A x \in U : \E i \in 1 .. n : s[i] = x
      BY <3>4
    <3> DEFINE t == [i \in 1 .. n + 1 |-> IF i = n + 1 THEN m ELSE s[i]]
    <3>6. \A i \in 1 .. n + 1 : i = n + 1 \/ i \in 1 .. n
      BY <3>3
    <3>7. \A i \in 1 .. n : s[i] \in T /\ s[i] # m /\ s[i] \in Int /\ m \in Int /\ s[i] < m
      <4> SUFFICES ASSUME NEW i \in 1 .. n PROVE s[i] \in T /\ s[i] # m /\ s[i] \in Int /\ m \in Int /\ s[i] < m
        OBVIOUS
      <4>1. s[i] \in T /\ s[i] # m
        BY <3>5
      <4>2. s[i] \in Int /\ m \in Int
        BY <3>1, <3>2, <4>1
      <4> QED
        BY <3>2, <4>1, <4>2
    <3>8. t \in [1 .. n + 1 -> T]
      BY <3>2, <3>6, <3>7
    <3>9. \A i, j \in 1 .. n + 1 : i < j => t[i] < t[j]
      <4> SUFFICES ASSUME NEW i \in 1 .. n + 1, NEW j \in 1 .. n + 1, i < j PROVE t[i] < t[j]
        OBVIOUS
      <4>1. i \in 1 .. n
        BY <3>3
      <4>2. CASE j = n + 1
        <5>1. t[i] = s[i] /\ t[j] = m
          BY <3>3, <4>1, <4>2
        <5>2. s[i] < m
          BY <3>7, <4>1
        <5> QED
          BY <5>1, <5>2
      <4>3. CASE j # n + 1
        <5>1. j \in 1 .. n
          BY <3>6, <4>3
        <5>2. s[i] < s[j]
          BY <3>5, <4>1, <5>1
        <5> QED
          BY <3>3, <4>1, <5>1, <5>2
      <4> QED
        BY <4>2, <4>3
    <3>10. ASSUME NEW x \in T PROVE \E i \in 1 .. n + 1 : t[i] = x
      <4>1. CASE x = m
        <5>1. n + 1 \in 1 .. n + 1
          BY <3>3
        <5> QED
          BY <4>1, <5>1
      <4>2. CASE x # m
        <5>1. PICK i \in 1 .. n : s[i] = x
          BY <3>5, <4>2
        <5>2. i \in 1 .. n + 1 /\ i # n + 1
          BY <3>3
        <5> QED
          BY <5>1, <5>2
      <4> QED
        BY <4>1, <4>2
    <3> HIDE DEF t
    <3>11. Orderly(T)
      BY <3>3, <3>8, <3>9, <3>10
    <3> QED
      BY <3>11
  <2> QED
    BY <2>1, <2>2
<1>2. P \in SUBSET (SUBSET D)
  OBVIOUS
<1>3. P = SUBSET D
  <2> HIDE DEF P
  <2> QED
    BY <1>1, <1>2, StrongInduction
<1> QED
  BY <1>3

-----------------------------------------------------------------------------
(* Sums scaled and renamed *)

LEMMA TotalScale ==
  ASSUME NEW D, IsFiniteSet(D), NEW f \in [D -> Int], NEW n \in Int
  PROVE  Total([x \in D |-> f[x] * n]) = Total(f) * n
<1> DEFINE h == [x \in D |-> f[x] * n]
           F(T) == Total(On(f, T))
           H(T) == Total(On(h, T))
           P == {T \in SUBSET D : H(T) = F(T) * n}
<1>1. h \in [D -> Int] /\ \A x \in D : h[x] = f[x] * n /\ f[x] \in Int
  OBVIOUS
<1> HIDE DEF h
<1>2. /\ Total(f) = F(D) /\ F({}) = 0 /\ \A T \in SUBSET D : F(T) \in Int
      /\ \A T \in SUBSET D : \A x \in D \ T : F(T \cup {x}) = f[x] + F(T)
  BY TotalLaws
<1>3. /\ Total(h) = H(D) /\ H({}) = 0 /\ \A T \in SUBSET D : H(T) \in Int
      /\ \A T \in SUBSET D : \A x \in D \ T : H(T \cup {x}) = h[x] + H(T)
  <2>1. h \in [D -> Int]
    BY <1>1
  <2> QED
    BY <2>1, TotalLaws
<1> HIDE DEF F, H
<1>4. {} \in P
  BY <1>2, <1>3
<1>5. ASSUME NEW T \in P, NEW x \in D \ T PROVE T \cup {x} \in P
  <2>1. H(T) = F(T) * n /\ F(T) \in Int /\ T \cup {x} \in SUBSET D
    BY <1>2
  <2>2. H(T \cup {x}) = f[x] * n + F(T) * n /\ F(T \cup {x}) = f[x] + F(T) /\ f[x] \in Int
    BY <1>1, <1>2, <1>3, <2>1
  <2>3. \A a, b \in Int : a * n + b * n = (a + b) * n
    OBVIOUS
  <2>4. H(T \cup {x}) = F(T \cup {x}) * n
    BY <2>1, <2>2, <2>3
  <2> QED
    BY <2>1, <2>4
<1>6. P = SUBSET D
  <2>1. P \in SUBSET (SUBSET D)
    OBVIOUS
  <2> HIDE DEF P
  <2> QED
    BY <1>4, <1>5, <2>1, FiniteInduction
<1>7. D \in P
  BY <1>6
<1> QED
  BY <1>2, <1>3, <1>7 DEF h

\* A sum does not depend on what the places are called.
LEMMA TotalRenamed ==
  ASSUME NEW D, IsFiniteSet(D), NEW E, IsFiniteSet(E), NEW f \in [E -> Int], NEW a \in Bijection(D, E),
         NEW v \in [D -> Int], \A x \in D : v[x] = f[a[x]]
  PROVE  Total(v) = Total(f)
<1>0. /\ a \in [D -> E]
      /\ \A x, y \in D : a[x] = a[y] => x = y
      /\ \A e \in E : \E x \in D : a[x] = e
  BY DEF Bijection, Injection, IsInjective, Surjection
<1> DEFINE of(T) == {x \in D : a[x] \in T}
           F(T) == Total(On(f, T))
           V(T) == Total(On(v, of(T)))
           P == {T \in SUBSET E : V(T) = F(T)}
<1>2. /\ Total(f) = F(E) /\ F({}) = 0 /\ \A T \in SUBSET E : F(T) \in Int
      /\ \A T \in SUBSET E : \A x \in E \ T : F(T \cup {x}) = f[x] + F(T)
  BY TotalLaws
<1>3. /\ Total(v) = Total(On(v, D)) /\ Total(On(v, {})) = 0
      /\ \A T \in SUBSET D : \A x \in D \ T : Total(On(v, T \cup {x})) = v[x] + Total(On(v, T))
  BY TotalLaws
<1> HIDE DEF F
<1>4. {} \in P
  <2>1. of({}) = {}
    OBVIOUS
  <2> HIDE DEF of
  <2> QED
    BY <1>2, <1>3, <2>1
<1>5. ASSUME NEW T \in P, NEW e \in E \ T PROVE T \cup {e} \in P
  <2>1. PICK x \in D : a[x] = e
    BY <1>0
  <2>2. of(T \cup {e}) = of(T) \cup {x} /\ of(T) \in SUBSET D /\ x \in D \ of(T)
    BY <1>0, <2>1
  <2>3. V(T) = F(T) /\ T \cup {e} \in SUBSET E
    OBVIOUS
  <2>4. v[x] = f[e]
    BY <2>1
  <2> HIDE DEF of, P
  <2>5. V(T \cup {e}) = F(T \cup {e})
    <3>1. V(T \cup {e}) = v[x] + V(T)
      BY <1>3, <2>2
    <3>2. F(T \cup {e}) = f[e] + F(T)
      BY <1>2 DEF P
    <3> HIDE DEF V
    <3> QED
      BY <2>3, <2>4, <3>1, <3>2
  <2> QED
    BY <2>3, <2>5 DEF P
<1>6. P = SUBSET E
  <2>1. P \in SUBSET (SUBSET E)
    OBVIOUS
  <2> HIDE DEF P
  <2> QED
    BY <1>4, <1>5, <2>1, FiniteInduction
<1>7. of(E) = D /\ E \in P
  BY <1>0, <1>6
<1> QED
  BY <1>2, <1>3, <1>7
==============================================================================
