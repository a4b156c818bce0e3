------------------------------ MODULE LoansProofs ------------------------------
(***************************************************************************)
(* What TLAPS proves of Loans: no phase of the week makes or loses money   *)
(* (NoMoneyIsLost), the collection takes what is due then                  *)
(* (CollectionTakesWhatIsDue), the booked total and the borrowers' copies  *)
(* agree with the open claims (LedgerStaysInStep), and no loan is granted  *)
(* that the settled income does not serve (LoansAreServed).  A book is a   *)
(* sum over the claims, and every step is followed by what it does to such *)
(* sums: each invariant, MInv with Gone, MirrorInv and IndexInv, rests on  *)
(* the one before it.                                                      *)
(***************************************************************************)
EXTENDS Loans, TotalsProofs, SequenceTheorems

\* A claim has an installment, and one that missed too often has been written off.
Sound == {c \in Claim : c.pay > 0 /\ (c.missed < Misses \/ Remaining(c) = 0)}

\* The phases between the accrual of the household claims and their collection, in which what is
\* due is noted on them; it is noted on no claim of a firm.
Week  == {"lend", "trade", "homes", "care"}
Idle  == {c \in Sound : c.due = 0}
Noted == {c \in Sound : c.due = IF c.who \in Households THEN DueOf(c) ELSE 0}

ClaimsSound == ledger.claims \in (IF phase \in Week THEN Seq(Noted) ELSE Seq(Idle))

BookBalanced == ledger.booked = Total([i \in Open(ledger.claims) |-> Remaining(ledger.claims[i])])

-----------------------------------------------------------------------------
(* Constants and small facts *)

LEMMA Constants ==
  /\ IsFiniteSet(Borrowers) /\ IsFiniteSet(Households) /\ IsFiniteSet(Firms)
  /\ Households \subseteq Borrowers /\ Firms \subseteq Borrowers /\ Households \cap Firms = {}
  /\ Borrowers = Households \cup Firms
  /\ Principals \subseteq Nat \ {0} /\ Bearing \in Nat \ {0}
  /\ Installment \in [Principals -> Nat]
  /\ Cooldown \in Nat /\ Quote \in Nat /\ MaxDirect \in Nat /\ MaxIncome \in Nat
  /\ OpeningCash \in Nat /\ OpeningReserve \in Nat /\ OpeningRest \in Nat
  /\ Capacities \subseteq Nat /\ Misses \in Nat \ {0} /\ MaxClaims \in Nat \ {0}
<1>1. IsFiniteSet(Borrowers) /\ Households \subseteq Borrowers /\ Firms \subseteq Borrowers
  BY LoansAssumption DEF Borrowers
<1>2. IsFiniteSet(Households) /\ IsFiniteSet(Firms)
  BY <1>1, FS_Subset
<1>3. Borrowers = Households \cup Firms /\ Households \cap Firms = {}
  BY LoansAssumption DEF Borrowers
<1>4. /\ Principals \subseteq Nat \ {0} /\ Bearing \in Nat \ {0} /\ Installment \in [Principals -> Nat]
      /\ Capacities \subseteq Nat /\ Misses \in Nat \ {0} /\ MaxClaims \in Nat \ {0}
  BY LoansAssumption
<1>5. /\ Cooldown \in Nat /\ Quote \in Nat /\ MaxDirect \in Nat /\ MaxIncome \in Nat
      /\ OpeningCash \in Nat /\ OpeningReserve \in Nat /\ OpeningRest \in Nat
  BY LoansAssumption
<1> QED
  BY <1>1, <1>2, <1>3, <1>4, <1>5

LEMMA InterestIsNat == /\ \A n \in Nat : Interest(n) \in Nat
                       /\ Interest(0) = 0
<1>1. PICK d \in Nat \ {0} : d = Bearing
  BY Constants
<1>2. \A n \in Nat : n \div d \in Nat
  OBVIOUS
<1>3. 0 \div d = 0
  OBVIOUS
<1> QED
  BY <1>1, <1>2, <1>3 DEF Interest

LEMMA InstallmentPositive == \A p \in Principals : Installment[p] \in Nat /\ Installment[p] > 0
<1> SUFFICES ASSUME NEW p \in Principals PROVE Installment[p] \in Nat /\ Installment[p] > 0
  OBVIOUS
<1>1. p \in Nat /\ Installment[p] \in Nat /\ Installment[p] > Interest(p)
  BY Constants, LoansAssumption
<1>2. Interest(p) \in Nat
  BY <1>1, InterestIsNat
<1> QED
  BY <1>1, <1>2

\* The fields of a sound claim.
LEMMA SoundFields ==
  \A c \in Sound :
    /\ c \in Claim /\ c.who \in Borrowers /\ c.kind \in Kinds
    /\ c.principal \in Nat /\ c.interest \in Nat /\ Remaining(c) \in Nat
    /\ c.pay \in Nat /\ c.pay > 0 /\ c.missed \in 0 .. Misses /\ c.missed \in Nat /\ c.fresh \in BOOLEAN /\ c.due \in Nat
    /\ DueOf(c) \in Nat /\ DueOf(c) <= Remaining(c) /\ DueOf(c) <= c.pay
    /\ Min({c.pay, Remaining(c)}) \in Nat
    /\ Min({c.pay, Remaining(c)}) = 0 <=> Remaining(c) = 0
    /\ DueOf(c) = IF c.fresh THEN 0 ELSE Min({c.pay, Remaining(c)})
<1> SUFFICES ASSUME NEW c \in Sound
             PROVE  /\ c \in Claim /\ c.who \in Borrowers /\ c.kind \in Kinds
                    /\ c.principal \in Nat /\ c.interest \in Nat /\ Remaining(c) \in Nat
                    /\ c.pay \in Nat /\ c.pay > 0 /\ c.missed \in 0 .. Misses /\ c.missed \in Nat /\ c.fresh \in BOOLEAN /\ c.due \in Nat
                    /\ DueOf(c) \in Nat /\ DueOf(c) <= Remaining(c) /\ DueOf(c) <= c.pay
                    /\ Min({c.pay, Remaining(c)}) \in Nat
                    /\ Min({c.pay, Remaining(c)}) = 0 <=> Remaining(c) = 0
                    /\ DueOf(c) = IF c.fresh THEN 0 ELSE Min({c.pay, Remaining(c)})
  OBVIOUS
<1>1. c \in Claim /\ c.pay > 0
  BY DEF Sound
<1>2. /\ c.who \in Borrowers /\ c.kind \in Kinds /\ c.principal \in Nat /\ c.interest \in Nat
      /\ c.pay \in Nat /\ c.missed \in 0 .. Misses /\ c.fresh \in BOOLEAN /\ c.due \in Nat
  BY <1>1 DEF Claim
<1>3. Remaining(c) \in Nat
  BY <1>2 DEF Remaining
<1>4. c.missed \in Nat
  BY <1>2, Constants
<1>5. Min({c.pay, Remaining(c)}) \in {c.pay, Remaining(c)} /\ Min({c.pay, Remaining(c)}) <= c.pay
      /\ Min({c.pay, Remaining(c)}) <= Remaining(c)
  <2>1. c.pay \in Int /\ Remaining(c) \in Int
    BY <1>2, <1>3
  <2> QED
    BY <2>1, MinOfTwo
<1>6. /\ Min({c.pay, Remaining(c)}) \in Nat
      /\ Min({c.pay, Remaining(c)}) = 0 <=> Remaining(c) = 0
  BY <1>1, <1>2, <1>3, <1>5
<1>7. DueOf(c) = IF c.fresh THEN 0 ELSE Min({c.pay, Remaining(c)})
  BY DEF DueOf
<1>8. DueOf(c) \in Nat /\ DueOf(c) <= Remaining(c) /\ DueOf(c) <= c.pay
  BY <1>2, <1>3, <1>5, <1>6, <1>7
<1> QED
  BY <1>1, <1>2, <1>3, <1>4, <1>6, <1>7, <1>8

-----------------------------------------------------------------------------
(* Sums over the claims *)

\* The sum of a weight over a list of claims.
SumOf(claims, w) == Total([i \in 1 .. Len(claims) |-> w[claims[i]]])

\* What is open of a borrower's claims of some kinds, of all claims, what they take in a week, and
\* how many medical ones there are.
Debt(b, K) == [c \in Sound |-> IF c.who = b /\ c.kind \in K THEN Remaining(c) ELSE 0]
AllDebt    == [c \in Sound |-> Remaining(c)]
Service(b) == [c \in Sound |-> IF c.who = b THEN Min({c.pay, Remaining(c)}) ELSE 0]
Medical(h) == [c \in Sound |-> IF c.who = h /\ c.kind = "medical" /\ Remaining(c) > 0 THEN 1 ELSE 0]

LEMMA Places ==
  \A S : \A s \in Seq(S) : /\ Len(s) \in Nat /\ IsFiniteSet(1 .. Len(s))
                           /\ \A i \in 1 .. Len(s) : s[i] \in S
<1> SUFFICES ASSUME NEW S, NEW s \in Seq(S)
             PROVE  Len(s) \in Nat /\ IsFiniteSet(1 .. Len(s)) /\ \A i \in 1 .. Len(s) : s[i] \in S
  OBVIOUS
<1>1. Len(s) \in Nat /\ \A i \in 1 .. Len(s) : s[i] \in S
  OBVIOUS
<1>2. IsFiniteSet(1 .. Len(s))
  BY <1>1, FS_Interval
<1> QED
  BY <1>1, <1>2

LEMMA WeightsTyped ==
  /\ AllDebt \in [Sound -> Nat]
  /\ \A b, K : Debt(b, K) \in [Sound -> Nat]
  /\ \A b : Service(b) \in [Sound -> Nat]
  /\ \A h : Medical(h) \in [Sound -> Nat]
<1>1. \A c \in Sound : Remaining(c) \in Nat /\ Min({c.pay, Remaining(c)}) \in Nat
  BY SoundFields
<1>2. AllDebt \in [Sound -> Nat]
  BY <1>1 DEF AllDebt
<1>3. \A b, K : Debt(b, K) \in [Sound -> Nat]
  BY <1>1 DEF Debt
<1>4. \A b : Service(b) \in [Sound -> Nat]
  BY <1>1 DEF Service
<1>5. \A h : Medical(h) \in [Sound -> Nat]
  BY DEF Medical
<1> QED
  BY <1>2, <1>3, <1>4, <1>5

LEMMA TotalPadded ==
  ASSUME NEW D, IsFiniteSet(D), NEW T \in SUBSET D, NEW f \in [T -> Int], NEW h \in [D -> Int]
  PROVE  (\A x \in D : h[x] = IF x \in T THEN f[x] ELSE 0) => Total(f) = Total(h)
<1>1. Total(f) = Total([x \in D |-> IF x \in T THEN f[x] ELSE 0])
  BY TotalExtend
<1> SUFFICES ASSUME \A x \in D : h[x] = IF x \in T THEN f[x] ELSE 0
             PROVE  Total(f) = Total(h)
  OBVIOUS
<1>2. h = [x \in D |-> IF x \in T THEN f[x] ELSE 0]
  OBVIOUS
<1> QED
  BY <1>1, <1>2

\* A sum over some places is the sum of the weight that is zero elsewhere.
LEMMA SumOver ==
  ASSUME NEW S, NEW s \in Seq(S), NEW w \in [S -> Int], NEW T \in SUBSET (1 .. Len(s)), NEW v,
         \A i \in 1 .. Len(s) : w[s[i]] = IF i \in T THEN v[i] ELSE 0
  PROVE  Total([i \in T |-> v[i]]) = SumOf(s, w)
<1> DEFINE D == 1 .. Len(s)
           f == [i \in T |-> v[i]]
<1>1. IsFiniteSet(D) /\ \A i \in D : s[i] \in S /\ w[s[i]] \in Int
  BY Places
<1>2. f \in [T -> Int]
  BY <1>1
<1>3. Total(f) = Total([x \in D |-> IF x \in T THEN f[x] ELSE 0])
  <2>1. T \in SUBSET D /\ IsFiniteSet(D)
    BY <1>1
  <2> HIDE DEF f, D
  <2>2. \A g \in [T -> Int] : Total(g) = Total([x \in D |-> IF x \in T THEN g[x] ELSE 0])
    BY <2>1, TotalExtend
  <2> QED
    BY <1>2, <2>2
<1>4. [x \in D |-> IF x \in T THEN f[x] ELSE 0] = [x \in D |-> w[s[x]]]
  <2>1. \A x \in D : (IF x \in T THEN f[x] ELSE 0) = w[s[x]]
    OBVIOUS
  <2> HIDE DEF f, D
  <2> QED
    BY <2>1
<1> QED
  BY <1>3, <1>4 DEF SumOf

LEMMA SumTyped ==
  ASSUME NEW S, NEW s \in Seq(S), NEW w \in [S -> Nat]
  PROVE  /\ SumOf(s, w) \in Nat
         /\ \A i \in 1 .. Len(s) : w[s[i]] \in Nat /\ w[s[i]] <= SumOf(s, w)
<1> DEFINE D == 1 .. Len(s)
           f == [i \in D |-> w[s[i]]]
<1>1. IsFiniteSet(D) /\ f \in [D -> Nat] /\ \A i \in D : f[i] = w[s[i]]
  BY Places
<1> HIDE DEF f
<1>2. Total(f) \in Nat /\ \A x \in D : f[x] <= Total(f)
  <2> HIDE DEF D
  <2> QED
    BY <1>1, TotalNat
<1> QED
  BY <1>1, <1>2 DEF SumOf, f

\* A list with one more claim.
LEMMA SumAppend ==
  ASSUME NEW S, NEW s \in Seq(S), NEW w \in [S -> Int], NEW c \in S
  PROVE  SumOf(Append(s, c), w) = SumOf(s, w) + w[c]
<1> DEFINE t == Append(s, c)
           n == Len(s)
           E == 1 .. n + 1
           g == [i \in E |-> w[t[i]]]
<1>1. /\ n \in Nat /\ t \in Seq(S) /\ Len(t) = n + 1 /\ t[n + 1] = c
      /\ \A i \in 1 .. n : t[i] = s[i] /\ s[i] \in S
  OBVIOUS
<1>2. IsFiniteSet(E)
  BY <1>1, Places
<1>3. g \in [E -> Int] /\ \A i \in E : g[i] = w[t[i]]
  BY <1>1
<1>4. n + 1 \in E /\ E \ {n + 1} = 1 .. n /\ E \in SUBSET E
  BY <1>1
<1>5. On(g, E) = g
  BY <1>3 DEF On
<1>6. On(g, 1 .. n) = [i \in 1 .. n |-> w[s[i]]]
  <2>1. \A i \in 1 .. n : g[i] = w[s[i]]
    BY <1>1, <1>3, <1>4
  <2> QED
    BY <2>1 DEF On
<1>7. Total(On(g, E)) = g[n + 1] + Total(On(g, E \ {n + 1}))
  <2> HIDE DEF g, E
  <2> QED
    BY <1>2, <1>3, <1>4, TotalTake
<1>8. SumOf(s, w) \in Int
  <2> DEFINE f == [i \in 1 .. n |-> w[s[i]]]
  <2>1. IsFiniteSet(1 .. n) /\ f \in [1 .. n -> Int]
    BY <1>1, Places
  <2>2. Total(f) \in Int
    <3> HIDE DEF f
    <3> QED
      BY <2>1, TotalLaws
  <2> QED
    BY <2>2 DEF SumOf
<1>9. SumOf(t, w) = Total(g) /\ SumOf(s, w) = Total([i \in 1 .. n |-> w[s[i]]]) /\ g[n + 1] = w[c] /\ w[c] \in Int
  BY <1>1, <1>3, <1>4 DEF SumOf
<1> HIDE DEF g, t, E, n
<1>10. SumOf(t, w) = w[c] + SumOf(s, w)
  BY <1>4, <1>5, <1>6, <1>7, <1>9
<1> QED
  BY <1>8, <1>9, <1>10 DEF t

\* Lists of one length, place by place.
LEMMA SumMoved ==
  ASSUME NEW s \in Seq(Sound), NEW t \in Seq(Sound), Len(t) = Len(s), NEW w \in [Sound -> Int]
  PROVE  \A d \in [1 .. Len(s) -> Int] : (\A i \in 1 .. Len(s) : w[t[i]] = w[s[i]] + d[i]) => SumOf(t, w) = SumOf(s, w) + Total(d)
<1> SUFFICES ASSUME NEW d \in [1 .. Len(s) -> Int], \A i \in 1 .. Len(s) : w[t[i]] = w[s[i]] + d[i]
             PROVE  SumOf(t, w) = SumOf(s, w) + Total(d)
  OBVIOUS
<1> DEFINE D == 1 .. Len(s)
           f == [i \in D |-> w[s[i]]]
           h == [i \in D |-> w[t[i]]]
<1>1. IsFiniteSet(D) /\ f \in [D -> Int] /\ h \in [D -> Int] /\ d \in [D -> Int]
  BY Places
<1>2. \A i \in D : h[i] = f[i] + d[i]
  OBVIOUS
<1>3. Total(h) = Total(f) + Total(d)
  <2> HIDE DEF f, h, D
  <2>1. \A a, b, c \in [D -> Int] : (\A x \in D : c[x] = a[x] + b[x]) => Total(c) = Total(a) + Total(b)
    BY <1>1, TotalPointwise, ZenonT(60)
  <2> QED
    BY <1>1, <1>2, <2>1
<1> QED
  BY <1>3 DEF SumOf

LEMMA SumUnmoved ==
  ASSUME NEW s \in Seq(Sound), NEW t \in Seq(Sound), Len(t) = Len(s), NEW w \in [Sound -> Int]
  PROVE  (\A i \in 1 .. Len(s) : w[t[i]] = w[s[i]]) => SumOf(t, w) = SumOf(s, w)
<1> SUFFICES ASSUME \A i \in 1 .. Len(s) : w[t[i]] = w[s[i]]
             PROVE  SumOf(t, w) = SumOf(s, w)
  OBVIOUS
<1>1. [i \in 1 .. Len(t) |-> w[t[i]]] = [i \in 1 .. Len(s) |-> w[s[i]]]
  OBVIOUS
<1> QED
  BY <1>1 DEF SumOf

\* The books of Loans as such sums.
LEMMA BooksAreSums ==
  ASSUME NEW claims \in Seq(Sound)
  PROVE  /\ Total([i \in Open(claims) |-> Remaining(claims[i])]) = SumOf(claims, AllDebt)
         /\ \A b, K : Owed(claims, b, K) = SumOf(claims, Debt(b, K))
         /\ \A b : Total([i \in Of(claims, b, Kinds) |-> Min({claims[i].pay, Remaining(claims[i])})])
                     = SumOf(claims, Service(b))
         /\ \A h : Cardinality(Of(claims, h, {"medical"})) = SumOf(claims, Medical(h))
<1> DEFINE D == 1 .. Len(claims)
           rem == [i \in D |-> Remaining(claims[i])]
           due == [i \in D |-> Min({claims[i].pay, Remaining(claims[i])})]
           one == [i \in D |-> 1]
<1>1. /\ IsFiniteSet(D) /\ \A i \in D : /\ claims[i] \in Sound /\ claims[i].kind \in Kinds
                                        /\ Remaining(claims[i]) \in Nat
                                        /\ Min({claims[i].pay, Remaining(claims[i])}) \in Nat
                                        /\ Min({claims[i].pay, Remaining(claims[i])}) = 0 <=> Remaining(claims[i]) = 0
  BY Places, SoundFields
<1>2. Open(claims) \in SUBSET D /\ \A i \in D : i \in Open(claims) <=> Remaining(claims[i]) > 0
  BY DEF Open
<1>3. \A b, K : /\ Of(claims, b, K) \in SUBSET D
                /\ \A i \in D : i \in Of(claims, b, K) <=>
                     Remaining(claims[i]) > 0 /\ claims[i].who = b /\ claims[i].kind \in K
  BY <1>2 DEF Of
<1>10. \A n \in Nat : n > 0 \/ n = 0
  OBVIOUS
<1>11. \A i \in D : rem[i] = Remaining(claims[i]) /\ rem[i] \in Nat
  BY <1>1
<1>0. \A i \in D : rem[i] = Remaining(claims[i]) /\ (rem[i] > 0 \/ rem[i] = 0)
  <2> HIDE DEF rem
  <2> QED
    BY <1>10, <1>11
<1>8. \A i \in D : AllDebt[claims[i]] = rem[i]
  BY <1>1 DEF AllDebt
<1>9. \A b, K : \A i \in D : Debt(b, K)[claims[i]] = IF claims[i].who = b /\ claims[i].kind \in K THEN rem[i] ELSE 0
  BY <1>1 DEF Debt
<1> HIDE DEF D, rem
<1>4. Total([i \in Open(claims) |-> Remaining(claims[i])]) = SumOf(claims, AllDebt)
  <2>1. AllDebt \in [Sound -> Int] /\ Open(claims) \in SUBSET (1 .. Len(claims))
    BY <1>2, WeightsTyped DEF D
  <2>2. \A i \in 1 .. Len(claims) : AllDebt[claims[i]] = IF i \in Open(claims) THEN rem[i] ELSE 0
    BY <1>0, <1>2, <1>8 DEF D
  <2>3. [i \in Open(claims) |-> rem[i]] = [i \in Open(claims) |-> Remaining(claims[i])]
    BY <1>0, <1>2
  <2>4. Total([i \in Open(claims) |-> rem[i]]) = SumOf(claims, AllDebt)
    BY <2>1, <2>2, SumOver
  <2> QED
    BY <2>3, <2>4
<1>5. ASSUME NEW b, NEW K PROVE Owed(claims, b, K) = SumOf(claims, Debt(b, K))
  <2> DEFINE T == Of(claims, b, K)
  <2>1. Debt(b, K) \in [Sound -> Int] /\ T \in SUBSET (1 .. Len(claims))
    BY <1>3, WeightsTyped DEF D
  <2>2. \A i \in 1 .. Len(claims) : Debt(b, K)[claims[i]] = IF i \in T THEN rem[i] ELSE 0
    BY <1>0, <1>3, <1>9 DEF D
  <2>3. [i \in T |-> rem[i]] = [i \in T |-> Remaining(claims[i])]
    BY <1>0, <1>3
  <2>4. Owed(claims, b, K) = Total([i \in T |-> Remaining(claims[i])])
    BY DEF Owed
  <2> HIDE DEF T
  <2>5. Total([i \in T |-> rem[i]]) = SumOf(claims, Debt(b, K))
    BY <2>1, <2>2, SumOver
  <2> QED
    BY <2>3, <2>4, <2>5
<1>6. ASSUME NEW b PROVE Total([i \in Of(claims, b, Kinds) |-> Min({claims[i].pay, Remaining(claims[i])})])
                           = SumOf(claims, Service(b))
  <2> DEFINE T == Of(claims, b, Kinds)
  <2>1. Service(b) \in [Sound -> Int] /\ T \in SUBSET (1 .. Len(claims))
    BY <1>3, WeightsTyped DEF D
  <2>2. \A i \in 1 .. Len(claims) : Service(b)[claims[i]] = IF i \in T THEN due[i] ELSE 0
    BY <1>1, <1>3 DEF Service, D
  <2>3. [i \in T |-> due[i]] = [i \in T |-> Min({claims[i].pay, Remaining(claims[i])})]
    BY <1>3
  <2> HIDE DEF due, T
  <2>4. Total([i \in T |-> due[i]]) = SumOf(claims, Service(b))
    BY <2>1, <2>2, SumOver
  <2> QED
    BY <2>3, <2>4 DEF T
<1>7. ASSUME NEW h PROVE Cardinality(Of(claims, h, {"medical"})) = SumOf(claims, Medical(h))
  <2> DEFINE T == Of(claims, h, {"medical"})
  <2>1. Medical(h) \in [Sound -> Int] /\ T \in SUBSET (1 .. Len(claims)) /\ T \in SUBSET D
    BY <1>3, WeightsTyped DEF D
  <2>2. \A i \in 1 .. Len(claims) : Medical(h)[claims[i]] = IF i \in T THEN one[i] ELSE 0
    BY <1>1, <1>3 DEF Medical, D
  <2>3. [i \in T |-> one[i]] = [i \in T |-> 1]
    BY <1>3
  <2> HIDE DEF one, T
  <2>4. Total([i \in T |-> one[i]]) = SumOf(claims, Medical(h))
    BY <2>1, <2>2, SumOver
  <2>5. IsFiniteSet(T)
    BY <1>1, <2>1, FS_Subset
  <2>6. PICK n \in Int : n = 1
    OBVIOUS
  <2>7. Total([i \in T |-> n]) = n * Cardinality(T)
    BY <2>5, TotalConst
  <2>8. Cardinality(T) \in Nat
    BY <2>5, FS_CardinalityType
  <2> QED
    BY <2>3, <2>4, <2>6, <2>7, <2>8 DEF T
<1> QED
  BY <1>4, <1>5, <1>6, <1>7

\* No debt, no claim.
LEMMA NothingOwed ==
  ASSUME NEW claims \in Seq(Sound), NEW b, NEW K
  PROVE  /\ Owed(claims, b, K) \in Nat
         /\ Owed(claims, b, K) = 0 <=> Of(claims, b, K) = {}
<1> DEFINE T == Of(claims, b, K)
           f == [i \in T |-> Remaining(claims[i])]
<1>1. \A i \in 1 .. Len(claims) : claims[i] \in Sound /\ Remaining(claims[i]) \in Nat
  BY Places, SoundFields
<1>2. T \in SUBSET (1 .. Len(claims)) /\ \A i \in T : Remaining(claims[i]) > 0
  BY DEF Of, Open
<1>3. IsFiniteSet(T)
  <2>1. IsFiniteSet(1 .. Len(claims))
    BY Places
  <2> QED
    BY <1>2, <2>1, FS_Subset
<1>4. f \in [T -> Nat] /\ \A i \in T : f[i] > 0
  BY <1>1, <1>2
<1>5. Owed(claims, b, K) = Total(f)
  BY DEF Owed
<1> HIDE DEF f, T
<1>6. Total(f) \in Nat /\ \A i \in T : f[i] <= Total(f)
  BY <1>3, <1>4, TotalNat
<1>7. ASSUME T # {} PROVE Total(f) # 0
  <2>1. PICK i \in T : TRUE
    BY <1>7
  <2>2. f[i] \in Nat /\ f[i] > 0 /\ f[i] <= Total(f)
    BY <1>4, <1>6
  <2> QED
    BY <1>6, <2>2
<1>8. ASSUME T = {} PROVE Total(f) = 0
  <2>1. f = [i \in T |-> 0]
    BY <1>4, <1>8
  <2> QED
    BY <1>3, <2>1, TotalZero
<1> QED
  BY <1>5, <1>6, <1>7, <1>8 DEF T

-----------------------------------------------------------------------------
(* The claims that are kept *)

LEMMA KeptPlaces ==
  ASSUME NEW S, NEW s \in Seq(S), NEW P \in SUBSET (1 .. Len(s))
  PROVE  /\ IsFiniteSet(P) /\ Cardinality(P) \in Nat /\ Cardinality(P) <= Len(s)
         /\ \E at \in Bijection(1 .. Cardinality(P), P) : Kept(s, P) = [i \in 1 .. Cardinality(P) |-> s[at[i]]]
<1> DEFINE n == Cardinality(P)
           Sorted(a) == \A i, j \in DOMAIN a : i < j => a[i] < a[j]
           at == CHOOSE a \in SetToSeqs(P) : Sorted(a)
<1>1. IsFiniteSet(1 .. Len(s)) /\ Len(s) \in Nat /\ \A j \in 1 .. Len(s) : s[j] \in S
  BY Places
<1>2. IsFiniteSet(P) /\ n \in Nat /\ n <= Len(s)
  <2>1. IsFiniteSet(P) /\ Cardinality(P) <= Cardinality(1 .. Len(s))
    BY <1>1, FS_Subset
  <2>2. Cardinality(1 .. Len(s)) = Len(s)
    BY <1>1, FS_Interval
  <2>3. n \in Nat
    BY <2>1, FS_CardinalityType
  <2> QED
    BY <2>1, <2>2, <2>3
<1>3. at \in SetToSeqs(P)
  <2>1. P \in SUBSET Nat
    OBVIOUS
  <2>2. PICK a \in [1 .. n -> P] : \A i, j \in 1 .. n : i < j => a[i] < a[j]
    BY <1>2, <2>1, InOrder
  <2>3. \A i, j \in 1 .. n : i # j => a[i] # a[j]
    <3> SUFFICES ASSUME NEW i \in 1 .. n, NEW j \in 1 .. n, i # j PROVE a[i] # a[j]
      OBVIOUS
    <3>1. a[i] \in Nat /\ a[j] \in Nat
      BY <2>1, <2>2
    <3>2. i < j \/ j < i
      BY <1>2
    <3>3. a[i] < a[j] \/ a[j] < a[i]
      BY <2>2, <3>2
    <3> QED
      BY <3>1, <3>3
  <2>4. a \in SetToSeqs(P) /\ Sorted(a)
    BY <2>2, <2>3 DEF SetToSeqs
  <2> QED
    BY <2>4
<1> HIDE DEF at
<1>4. at \in [1 .. n -> P] /\ \A i, j \in 1 .. n : i # j => at[i] # at[j]
  BY <1>3 DEF SetToSeqs
<1>5. Len(at) = n
  BY <1>2, <1>4
<1>6. Kept(s, P) = [i \in 1 .. n |-> s[at[i]]]
  BY <1>5, Zenon DEF Kept, at
<1>7. at \in Bijection(1 .. n, P)
  <2>1. at \in Injection(1 .. n, P)
    BY <1>4 DEF Injection, IsInjective
  <2>2. Cardinality(1 .. n) = n
    BY <1>2, FS_Interval
  <2>3. at \in Surjection(1 .. n, P)
    BY <1>2, <2>1, <2>2, FS_Injection
  <2> QED
    BY <2>1, <2>3 DEF Bijection
<1> QED
  BY <1>2, <1>6, <1>7

LEMMA KeptLaw ==
  ASSUME NEW S, NEW s \in Seq(S), NEW P \in SUBSET (1 .. Len(s))
  PROVE  /\ Kept(s, P) \in Seq(S)
         /\ Len(Kept(s, P)) <= Len(s)
         /\ \A i \in 1 .. Len(Kept(s, P)) : \E j \in P : Kept(s, P)[i] = s[j]
<1> DEFINE n == Cardinality(P)
<1>1. PICK at \in Bijection(1 .. n, P) : Kept(s, P) = [i \in 1 .. n |-> s[at[i]]]
  BY KeptPlaces
<1>2. n \in Nat /\ n <= Len(s)
  BY KeptPlaces
<1>3. at \in [1 .. n -> P]
  BY DEF Bijection, Injection
<1>4. \A i \in 1 .. n : at[i] \in P /\ s[at[i]] \in S
  <2>1. \A j \in P : s[j] \in S
    OBVIOUS
  <2> QED
    BY <1>3, <2>1
<1> HIDE DEF n
<1>5. Kept(s, P) \in Seq(S) /\ Len(Kept(s, P)) = n /\ \A i \in 1 .. n : Kept(s, P)[i] = s[at[i]]
  BY <1>1, <1>2, <1>4
<1> QED
  BY <1>2, <1>4, <1>5

LEMMA KeptSum ==
  ASSUME NEW S, NEW s \in Seq(S), NEW P \in SUBSET (1 .. Len(s)), NEW w \in [S -> Int], NEW g \in [P -> Int],
         \A j \in P : g[j] = w[s[j]]
  PROVE  SumOf(Kept(s, P), w) = Total(g)
<1>1. PICK n : n = Cardinality(P)
  OBVIOUS
<1>2. PICK at \in Bijection(1 .. n, P) : Kept(s, P) = [i \in 1 .. n |-> s[at[i]]]
  BY <1>1, KeptPlaces
<1>3. n \in Nat /\ n <= Len(s) /\ IsFiniteSet(P)
  BY <1>1, KeptPlaces
<1>4. IsFiniteSet(1 .. n)
  BY <1>3, FS_Interval
<1>5. at \in [1 .. n -> P]
  BY DEF Bijection, Injection
<1> DEFINE k == Kept(s, P)
           v == [i \in 1 .. n |-> w[s[at[i]]]]
<1>6. v \in [1 .. n -> Int] /\ \A i \in 1 .. n : v[i] = g[at[i]]
  BY <1>5
<1>7. Len(k) = n /\ [i \in 1 .. Len(k) |-> w[k[i]]] = v
  BY <1>2, <1>3
<1> HIDE DEF v, k
<1>8. Total(v) = Total(g)
  <2>1. PICK D : D = 1 .. n
    OBVIOUS
  <2>2. IsFiniteSet(D)
    BY <1>4, <2>1
  <2>3. at \in Bijection(D, P)
    BY <2>1
  <2>4. v \in [D -> Int]
    BY <1>6, <2>1
  <2>5. \A i \in D : v[i] = g[at[i]]
    BY <1>6, <2>1
  <2>6. IsFiniteSet(P)
    BY <1>3
  <2> QED
    BY <2>2, <2>3, <2>4, <2>5, <2>6, TotalRenamed, SMTT(40)
<1> QED
  BY <1>7, <1>8 DEF SumOf, k

\* The sum over the kept claims is the sum of what weighs nothing elsewhere.
LEMMA SumKept ==
  ASSUME NEW S, NEW s \in Seq(S), NEW P \in SUBSET (1 .. Len(s)), NEW w \in [S -> Int], NEW v \in [S -> Int]
  PROVE  (\A i \in 1 .. Len(s) : v[s[i]] = IF i \in P THEN w[s[i]] ELSE 0)
           => SumOf(Kept(s, P), w) = SumOf(s, v)
<1> DEFINE f == [i \in 1 .. Len(s) |-> w[s[i]]]
           g == [i \in P |-> f[i]]
<1>1. \A i \in 1 .. Len(s) : f[i] = w[s[i]]
  OBVIOUS
<1>2. g \in [P -> Int]
  BY Places
<1>3. \A j \in P : g[j] = w[s[j]]
  OBVIOUS
<1> HIDE DEF f
<1>4. SumOf(Kept(s, P), w) = Total(g)
  <2> HIDE DEF g
  <2> QED
    BY <1>2, <1>3, KeptSum, ZenonT(60)
<1> SUFFICES ASSUME \A i \in 1 .. Len(s) : v[s[i]] = IF i \in P THEN w[s[i]] ELSE 0
             PROVE  SumOf(Kept(s, P), w) = SumOf(s, v)
  OBVIOUS
<1>5. \A i \in 1 .. Len(s) : v[s[i]] = IF i \in P THEN f[i] ELSE 0
  BY <1>1
<1>6. Total(g) = SumOf(s, v)
  BY <1>5, SumOver
<1> QED
  BY <1>4, <1>6

-----------------------------------------------------------------------------
(* The allocation of a payment to what is due *)

\* The rounded-down part of what is due.
LEMMA FloorShare ==
  ASSUME NEW t \in Nat \ {0}, NEW a \in Nat, NEW d \in Nat, a <= t
  PROVE  /\ (a * d) \div t \in Nat /\ (a * d) \div t <= d
         /\ ((a * d) \div t) * t <= a * d
<1>1. PICK x \in Nat : x = a * d
  OBVIOUS
<1>2. PICK q \in Nat : q = x \div t
  OBVIOUS
<1>3. t * q <= x
  BY <1>2
<1>4. q * t <= x
  <2>1. q * t = t * q
    OBVIOUS
  <2> QED
    BY <1>3, <2>1
<1>5. q <= d
  <2>1. x <= t * d
    <3>1. \A m, n, k \in Nat : m <= n => m * k <= n * k
      OBVIOUS
    <3> QED
      BY <1>1, <3>1
  <2>2. t * q <= t * d
    <3>1. t * q \in Nat /\ t * d \in Nat
      OBVIOUS
    <3> QED
      BY <1>3, <2>1, <3>1
  <2>3. \A m, n \in Nat : t * m <= t * n => m <= n
    OBVIOUS
  <2> QED
    BY <2>2, <2>3
<1> QED
  BY <1>1, <1>2, <1>4, <1>5

\* The lesser of two numbers, and a number or 0.
LEMMA LesserOfTwo == \A a, b \in Int : Min({a, b}) = IF a <= b THEN a ELSE b
<1> SUFFICES ASSUME NEW a \in Int, NEW b \in Int PROVE Min({a, b}) = IF a <= b THEN a ELSE b
  OBVIOUS
<1>1. Min({a, b}) \in {a, b} /\ Min({a, b}) <= a /\ Min({a, b}) <= b
  BY MinOfTwo
<1> QED
  BY <1>1

LEMMA OrZero == \A c \in Int : Max({0, c}) = IF c <= 0 THEN 0 ELSE c
<1> SUFFICES ASSUME NEW c \in Int PROVE Max({0, c}) = IF c <= 0 THEN 0 ELSE c
  OBVIOUS
<1>1. 0 \in Int /\ c \in Int
  OBVIOUS
<1>2. Max({0, c}) \in {0, c} /\ Max({0, c}) >= 0 /\ Max({0, c}) >= c
  BY <1>1, MaxOfTwo
<1> QED
  BY <1>2

LEMMA TotalOneLess ==
  ASSUME NEW D, IsFiniteSet(D), NEW f \in [D -> Int]
  PROVE  /\ Total(f) = Total(On(f, D)) /\ Total(On(f, {})) = 0
         /\ \A T \in SUBSET D : Total(On(f, T)) \in Int
         /\ \A T \in SUBSET D : \A x \in T : Total(On(f, T)) = f[x] + Total(On(f, T \ {x}))
<1>1. /\ Total(f) = Total(On(f, D)) /\ Total(On(f, {})) = 0
      /\ \A T \in SUBSET D : Total(On(f, T)) \in Int
  BY TotalLaws
<1>2. ASSUME NEW T \in SUBSET D, NEW x \in T PROVE Total(On(f, T)) = f[x] + Total(On(f, T \ {x}))
  BY TotalTake
<1> QED
  BY <1>1, <1>2

\* What each place takes when they are filled in their order.
FillUp(D, spare, R) == [i \in D |-> Max({0, Min({spare[i], R - Total(On(spare, {k \in D : k < i}))})})]

\* Filling the places in their order takes all that there is, or all that has room.
LEMMA Filled ==
  ASSUME NEW D, IsFiniteSet(D), NEW spare \in [D -> Nat], NEW R, FillUp(D, spare, R) \in [D -> Int]
  PROVE  D \in SUBSET Nat /\ R \in Nat => Total(FillUp(D, spare, R)) = Min({R, Total(spare)})
<1>13. PICK fill \in [D -> Int] : fill = FillUp(D, spare, R)
  OBVIOUS
<1> DEFINE Down(U) == \A x \in U : \A y \in D : y < x => y \in U
           S(U) == Total(On(spare, U))
           F(U) == Total(On(fill, U))
           P == {U \in SUBSET D : Down(U) => F(U) = Min({R, S(U)})}
<1>1. spare \in [D -> Int]
  OBVIOUS
<1>2. /\ Total(spare) = S(D) /\ S({}) = 0
      /\ \A T \in SUBSET D : S(T) \in Int
      /\ \A T \in SUBSET D : \A x \in T : S(T) = spare[x] + S(T \ {x})
  BY <1>1, TotalOneLess
<1>3. /\ Total(fill) = F(D) /\ F({}) = 0
      /\ \A T \in SUBSET D : F(T) \in Int
      /\ \A T \in SUBSET D : \A x \in T : F(T) = fill[x] + F(T \ {x})
  BY TotalOneLess
<1>5. \A a, b \in Int : Min({a, b}) = IF a <= b THEN a ELSE b
  BY LesserOfTwo
<1>11. \A c \in Int : Max({0, c}) = IF c <= 0 THEN 0 ELSE c
  BY OrZero
<1>6. \A U \in SUBSET D : S(U) \in Nat
  <2> SUFFICES ASSUME NEW U \in SUBSET D PROVE S(U) \in Nat
    OBVIOUS
  <2>1. On(spare, U) \in [U -> Nat]
    BY DEF On
  <2>2. IsFiniteSet(U)
    BY FS_Subset
  <2> QED
    BY <2>1, <2>2, TotalNat
<1> SUFFICES ASSUME D \in SUBSET Nat, R \in Nat
             PROVE  Total(fill) = Min({R, Total(spare)})
  BY <1>13
<1>4. \A i \in D : fill[i] = Max({0, Min({spare[i], R - S({k \in D : k < i})})})
  BY <1>13 DEF FillUp
<1> HIDE DEF S, F
<1>7. ASSUME NEW U \in SUBSET D, \A V \in SUBSET U : V # U => V \in P
      PROVE  U \in P
  <2>1. CASE U = {}
    <3>1. F({}) = Min({R, S({})})
      <4>1. Min({R, 0}) = IF R <= 0 THEN R ELSE 0
        <5>1. R \in Int /\ 0 \in Int
          OBVIOUS
        <5> QED
          BY <1>5, <5>1
      <4> QED
        BY <1>2, <1>3, <4>1
    <3> QED
      BY <2>1, <3>1
  <2>2. CASE U # {} /\ Down(U)
    <3>1. U \in SUBSET Int /\ IsFiniteSet(U)
      <4>1. IsFiniteSet(U)
        BY FS_Subset
      <4>2. U \in SUBSET Int
        OBVIOUS
      <4> QED
        BY <4>1, <4>2
    <3>2. Max(U) \in U /\ \A y \in U : Max(U) >= y
      BY <2>2, <3>1, MaxInSet
    <3>3. PICK m \in U : \A y \in U : m >= y
      BY <3>2
    <3>4. m \in Nat /\ \A y \in D : y \in Nat
      OBVIOUS
    <3>5. {k \in D : k < m} = U \ {m}
      <4>1. \A k \in D : k < m => k \in U \ {m}
        BY <2>2, <3>4
      <4>2. \A k \in U \ {m} : k \in D /\ k < m
        BY <3>3, <3>4
      <4> QED
        BY <4>1, <4>2
    <3>6. Down(U \ {m})
      <4> SUFFICES ASSUME NEW x \in U \ {m}, NEW y \in D, y < x PROVE y \in U \ {m}
        OBVIOUS
      <4>1. y \in U
        BY <2>2
      <4>2. y # m
        BY <3>3, <3>4
      <4> QED
        BY <4>1, <4>2
    <3>7. F(U \ {m}) = Min({R, S(U \ {m})})
      BY <1>7, <3>6
    <3>8. fill[m] = Max({0, Min({spare[m], R - S(U \ {m})})})
      BY <1>4, <3>5
    <3>9. F(U) = fill[m] + F(U \ {m}) /\ S(U) = spare[m] + S(U \ {m})
      BY <1>2, <1>3
    <3>10. S(U) \in Nat /\ S(U \ {m}) \in Nat /\ spare[m] \in Nat
      BY <1>6
    <3> DEFINE s == S(U \ {m})
    <3> HIDE DEF P, Down, s
    <3>16. s \in Nat /\ s \in Int /\ R \in Int /\ spare[m] \in Int /\ R - s \in Int /\ S(U) \in Int
      BY <3>10 DEF s
    <3>17. F(U \ {m}) = Min({R, s})
      BY <3>7 DEF s
    <3>18. Min({R, s}) = IF R <= s THEN R ELSE s
      BY <1>5, <3>16
    <3>11. F(U \ {m}) = (IF R <= s THEN R ELSE s) /\ s \in Nat
      BY <3>16, <3>17, <3>18
    <3>12. Min({spare[m], R - s}) = IF spare[m] <= R - s THEN spare[m] ELSE R - s
      BY <1>5, <3>16
    <3>13. fill[m] = IF spare[m] <= R - s THEN spare[m] ELSE IF R - s <= 0 THEN 0 ELSE R - s
      <4>1. Min({spare[m], R - s}) \in Int
        BY <3>12, <3>16
      <4>2. fill[m] = IF Min({spare[m], R - s}) <= 0 THEN 0 ELSE Min({spare[m], R - s})
        BY <1>11, <3>8, <4>1 DEF s
      <4> QED
        BY <3>10, <3>11, <3>12, <4>2
    <3>14. F(U) = IF R <= S(U) THEN R ELSE S(U)
      BY <3>9, <3>10, <3>11, <3>13 DEF s
    <3>15. F(U) = Min({R, S(U)})
      <4>1. Min({R, S(U)}) = IF R <= S(U) THEN R ELSE S(U)
        BY <1>5, <3>16
      <4> QED
        BY <3>14, <4>1
    <3> QED
      BY <3>15 DEF P
  <2>3. CASE ~ Down(U)
    BY <2>3
  <2> QED
    BY <2>1, <2>2, <2>3
<1>8. P = SUBSET D
  <2>1. P \in SUBSET (SUBSET D)
    OBVIOUS
  <2> HIDE DEF P
  <2> QED
    BY <1>7, <2>1, StrongInduction
<1>9. Down(D) /\ D \in P
  BY <1>8
<1>10. F(D) = Min({R, S(D)})
  BY <1>9
<1> QED
  BY <1>2, <1>3, <1>10

\* What the division gives adds up to no more than there is to give.
LEMMA FloorsWithin ==
  ASSUME NEW D, IsFiniteSet(D), NEW due \in [D -> Nat], NEW base \in [D -> Nat], NEW budget \in Nat, NEW t \in Nat \ {0},
         t = Total(due), \A i \in D : base[i] * t <= budget * due[i]
  PROVE  Total(base) <= budget
<1> DEFINE f == [i \in D |-> base[i] * t]
           g == [i \in D |-> due[i] * budget]
<1>1. \A i \in D : base[i] \in Int /\ due[i] \in Int /\ base[i] * t \in Int /\ due[i] * budget \in Int
  OBVIOUS
<1>2. f \in [D -> Int] /\ g \in [D -> Int] /\ \A i \in D : f[i] <= g[i]
  <2>1. f \in [D -> Int] /\ g \in [D -> Int]
    BY <1>1
  <2>2. ASSUME NEW i \in D PROVE f[i] <= g[i]
    <3>1. PICK x \in Nat : x = due[i]
      OBVIOUS
    <3>2. budget * x = x * budget
      OBVIOUS
    <3> QED
      BY <3>1, <3>2
  <2> QED
    BY <2>1, <2>2
<1>3. Total(f) = Total(base) * t
  <2>1. base \in [D -> Int] /\ t \in Int
    OBVIOUS
  <2> QED
    BY <2>1, TotalScale
<1>4. Total(g) = Total(due) * budget
  <2>1. due \in [D -> Int] /\ budget \in Int
    OBVIOUS
  <2> QED
    BY <2>1, TotalScale
<1>5. Total(f) <= Total(g)
  <2> HIDE DEF f, g
  <2> QED
    BY <1>2, TotalMonotone
<1>6. Total(base) \in Nat
  BY TotalNat
<1> HIDE DEF f, g
<1>7. Total(base) * t <= t * budget
  BY <1>3, <1>4, <1>5
<1>8. \A m, n \in Nat : m * t <= t * n => m <= n
  OBVIOUS
<1> QED
  BY <1>6, <1>7, <1>8

LEMMA AllocationLaw ==
  ASSUME NEW D, IsFiniteSet(D), NEW due \in [D -> Nat], NEW cash \in Nat
  PROVE  D \in SUBSET Nat =>
           /\ Allocation(due, cash) \in [D -> Nat]
           /\ \A i \in D : Allocation(due, cash)[i] <= due[i]
           /\ Total(Allocation(due, cash)) = Min({cash, Total(due)})
<1> DEFINE budget == Min({cash, Total(due)})
           base == [i \in D |-> IF budget = 0 THEN 0 ELSE (budget * due[i]) \div Total(due)]
           spare == [i \in D |-> due[i] - base[i]]
           R == budget - Total(base)
           fill == FillUp(D, spare, R)
<1>1. Total(due) \in Nat
  BY TotalNat
<1>2. budget \in Nat /\ budget <= Total(due) /\ budget <= cash
  BY <1>1, MinOfNats
<1>3. /\ base \in [D -> Nat]
      /\ \A i \in D : base[i] <= due[i]
      /\ Total(base) \in Nat /\ Total(base) <= budget
  <2>1. CASE budget = 0
    <3>1. base = [i \in D |-> 0]
      BY <2>1
    <3>2. Total(base) = 0
      BY <3>1, TotalZero
    <3> HIDE DEF base
    <3>3. base \in [D -> Nat] /\ \A i \in D : base[i] = 0
      BY <3>1
    <3>4. \A i \in D : due[i] >= 0
      OBVIOUS
    <3> QED
      BY <1>2, <3>2, <3>3, <3>4
  <2>2. CASE budget # 0
    <3> HIDE DEF budget
    <3>1. PICK t \in Nat \ {0} : t = Total(due)
      BY <1>1, <1>2, <2>2
    <3>2. \A i \in D : /\ (budget * due[i]) \div t \in Nat /\ (budget * due[i]) \div t <= due[i]
                       /\ ((budget * due[i]) \div t) * t <= budget * due[i]
      <4>1. budget <= t /\ \A i \in D : due[i] \in Nat
        BY <1>2, <3>1
      <4> QED
        BY <1>2, <4>1, FloorShare
    <3>3. \A i \in D : base[i] = (budget * due[i]) \div t
      BY <2>2, <3>1
    <3>4. base \in [D -> Nat] /\ \A i \in D : base[i] <= due[i] /\ base[i] * t <= budget * due[i]
      BY <2>2, <3>1, <3>2, <3>3
    <3> HIDE DEF base
    <3>5. Total(base) <= budget
      BY <1>2, <3>1, <3>4, FloorsWithin
    <3>6. Total(base) \in Nat
      BY <3>4, TotalNat
    <3> QED
      BY <3>4, <3>5, <3>6
  <2> QED
    BY <2>1, <2>2
<1> HIDE DEF budget, base
<1>4. spare \in [D -> Nat] /\ \A i \in D : spare[i] = due[i] - base[i] /\ due[i] = base[i] + spare[i]
  BY <1>3
<1>5. R \in Nat
  BY <1>2, <1>3
<1> HIDE DEF R
<1>6. ASSUME NEW i \in D
      PROVE  LET r == R - Total(On(spare, {k \in D : k < i}))
             IN /\ r \in Int /\ Min({spare[i], r}) \in Int /\ Min({spare[i], r}) <= spare[i]
                /\ Max({0, Min({spare[i], r})}) \in Nat
                /\ Max({0, Min({spare[i], r})}) <= spare[i]
  <2> HIDE DEF spare
  <2>1. Total(On(spare, {k \in D : k < i})) \in Int
    <3>1. spare \in [D -> Int] /\ {k \in D : k < i} \in SUBSET D
      BY <1>4
    <3> QED
      BY <3>1, TotalOneLess
  <2>2. PICK r \in Int : r = R - Total(On(spare, {k \in D : k < i}))
    BY <1>5, <2>1
  <2>3. spare[i] \in Int /\ spare[i] \in Nat
    BY <1>4
  <2>4. Min({spare[i], r}) \in Int /\ Min({spare[i], r}) <= spare[i]
    BY <2>3, MinOfTwo
  <2>5. Max({0, Min({spare[i], r})}) = IF Min({spare[i], r}) <= 0 THEN 0 ELSE Min({spare[i], r})
    BY <2>4, OrZero
  <2>6. Max({0, Min({spare[i], r})}) \in Nat /\ Max({0, Min({spare[i], r})}) <= spare[i]
    BY <2>3, <2>4, <2>5
  <2> QED
    BY <2>2, <2>4, <2>6
<1>7. fill \in [D -> Nat] /\ \A i \in D : fill[i] <= spare[i]
  BY <1>6 DEF FillUp
<1>8. \A i \in D : fill[i] = Max({0, Min({spare[i], R - Total(On(spare, {k \in D : k < i}))})})
  BY DEF FillUp
<1>9. Allocation(due, cash) = [i \in D |-> base[i] + fill[i]]
  <2>1. \A i \in D : [j \in {k \in D : k < i} |-> spare[j]] = On(spare, {k \in D : k < i})
    BY DEF On
  <2>2. \A i \in D : [j \in {k \in D : k < i} |-> due[j] - base[j]] = On(spare, {k \in D : k < i})
    BY DEF On
  <2>3. DOMAIN due = D
    OBVIOUS
  <2>4. Allocation(due, cash) = [i \in D |-> base[i] + Max({0, Min({due[i] - base[i],
                                   budget - Total(base) - Total([j \in {k \in D : k < i} |-> due[j] - base[j]])})})]
    BY <2>3 DEF Allocation, base, budget
  <2> HIDE DEF fill, spare
  <2>5. ASSUME NEW i \in D
        PROVE  base[i] + Max({0, Min({due[i] - base[i],
                 budget - Total(base) - Total([j \in {k \in D : k < i} |-> due[j] - base[j]])})}) = base[i] + fill[i]
    BY <1>4, <1>8, <2>2 DEF R
  <2> QED
    BY <2>4, <2>5
<1> HIDE DEF fill, spare
<1>10. Total(Allocation(due, cash)) = Total(base) + Total(fill)
  <2>1. base \in [D -> Int] /\ fill \in [D -> Int]
    BY <1>3, <1>7
  <2> QED
    BY <1>9, <2>1, TotalPlus
<1>11. Total(due) = Total(base) + Total(spare)
  <2>1. base \in [D -> Int] /\ spare \in [D -> Int] /\ due \in [D -> Int] /\ \A i \in D : due[i] = base[i] + spare[i]
    BY <1>3, <1>4
  <2> QED
    BY <2>1, TotalPointwise
<1>12. Allocation(due, cash) \in [D -> Nat] /\ \A i \in D : Allocation(due, cash)[i] <= due[i]
  <2>1. ASSUME NEW i \in D PROVE base[i] + fill[i] \in Nat /\ base[i] + fill[i] <= due[i]
    <3>1. base[i] \in Nat /\ fill[i] \in Nat /\ spare[i] \in Nat /\ due[i] \in Nat
      BY <1>3, <1>4, <1>7
    <3> QED
      BY <3>1, <1>4, <1>7
  <2> QED
    BY <1>9, <2>1
<1>13. ASSUME D \in SUBSET Nat PROVE Total(fill) = Min({R, Total(spare)})
  <2>1. FillUp(D, spare, R) \in [D -> Int]
    BY <1>7 DEF fill
  <2>2. spare \in [D -> Nat]
    BY <1>4
  <2> QED
    BY <1>5, <1>13, <2>1, <2>2, Filled DEF fill
<1>14. Total(spare) \in Nat
  BY <1>4, TotalNat
<1>15. ASSUME D \in SUBSET Nat PROVE Total(Allocation(due, cash)) = budget
  <2>1. R <= Total(spare)
    BY <1>1, <1>2, <1>3, <1>11, <1>14 DEF R
  <2>2. Min({R, Total(spare)}) = R
    <3>1. R \in Int /\ Total(spare) \in Int
      BY <1>5, <1>14
    <3> QED
      BY <2>1, <3>1, LesserOfTwo
  <2> QED
    BY <1>2, <1>3, <1>10, <1>13, <1>15, <2>2 DEF R
<1> QED
  BY <1>12, <1>15 DEF budget

-----------------------------------------------------------------------------
(* The collection *)

\* The parts of Collection by name.
DueAt(l, due, b)       == {i \in DOMAIN due : l.claims[i].who = b /\ due[i] > 0}
Debtors(l, who, due)   == {b \in who : DueAt(l, due, b) # {}}
Payment(l, due, b)     == Allocation([i \in DueAt(l, due, b) |-> due[i]], purse[b])
PaidOn(l, who, due)    == [i \in DOMAIN due |-> IF due[i] > 0 /\ l.claims[i].who \in Debtors(l, who, due)
                                                 THEN Payment(l, due, l.claims[i].who)[i] ELSE 0]
SettledAll(l, who, due) == [i \in DOMAIN due |-> Settled(l.claims[i], due[i], PaidOn(l, who, due)[i])]
TakenOf(l, who, due)   == [b \in Borrowers |-> IF b \in Debtors(l, who, due) THEN Total(Payment(l, due, b)) ELSE 0]
LostIn(l, who, due)    ==
  Total([i \in {j \in DOMAIN due : Defaults(l.claims[j], due[j], PaidOn(l, who, due)[j])} |->
           Remaining(l.claims[i]) - PaidOn(l, who, due)[i]])

\* What is collected are dues of claims that there are, of borrowers that are asked.
Collectible(l, who, due) ==
  /\ l.claims \in Seq(Sound) /\ who \in SUBSET Borrowers
  /\ due \in [1 .. Len(l.claims) -> Nat]
  /\ \A i \in 1 .. Len(l.claims) : due[i] <= Remaining(l.claims[i]) /\ (due[i] > 0 => l.claims[i].who \in who)
  /\ purse \in [Borrowers -> Nat]

LEMMA CollectionLedger ==
  ASSUME NEW l, NEW who, NEW due
  PROVE  Collection(l, who, due).ledger =
              [l EXCEPT !.claims = SettledAll(l, who, due),
                        !.booked = @ - Total(TakenOf(l, who, due)) - LostIn(l, who, due),
                        !.reserve = @ + Total(TakenOf(l, who, due)),
                        !.mirror = Synced(@, SettledAll(l, who, due), Debtors(l, who, due))]
<1>1. PaidOn(l, who, due) = [i \in DOMAIN due |-> IF due[i] > 0 /\ l.claims[i].who \in Debtors(l, who, due)
         THEN [b \in Debtors(l, who, due) |-> Allocation([j \in DueAt(l, due, b) |-> due[j]], purse[b])][l.claims[i].who][i]
         ELSE 0]
  BY DEF PaidOn, Payment
<1>2. TakenOf(l, who, due) = [b \in Borrowers |-> IF b \in Debtors(l, who, due)
         THEN Total([c \in Debtors(l, who, due) |-> Allocation([j \in DueAt(l, due, c) |-> due[j]], purse[c])][b]) ELSE 0]
  BY DEF TakenOf, Payment
<1> QED
  BY <1>1, <1>2 DEF Collection, SettledAll, LostIn, Debtors, DueAt

LEMMA CollectionTakes ==
  ASSUME NEW l, NEW who, NEW due
  PROVE  Collection(l, who, due).taken = TakenOf(l, who, due)
<1>1. TakenOf(l, who, due) = [b \in Borrowers |-> IF b \in Debtors(l, who, due)
         THEN Total([c \in Debtors(l, who, due) |-> Allocation([j \in DueAt(l, due, c) |-> due[j]], purse[c])][b]) ELSE 0]
  BY DEF TakenOf, Payment
<1> QED
  BY <1>1 DEF Collection, Debtors, DueAt

LEMMA CollectionBars ==
  ASSUME NEW l, NEW who, NEW due
  PROVE  Collection(l, who, due).defaulted \subseteq who
  BY DEF Collection

\* A claim that is settled.
LEMMA SettledLaw ==
  ASSUME NEW c \in Sound, NEW due \in Nat, NEW paid \in Nat, paid <= due, due <= Remaining(c)
  PROVE  /\ Settled(c, due, paid) \in Idle
         /\ Settled(c, due, paid).who = c.who /\ Settled(c, due, paid).kind = c.kind
         /\ Settled(c, due, paid).pay = c.pay /\ Settled(c, due, paid).fresh = c.fresh
         /\ Remaining(Settled(c, due, paid)) = IF Defaults(c, due, paid) THEN 0 ELSE Remaining(c) - paid
         /\ Defaults(c, due, paid) => Settled(c, due, paid).missed = Misses
         /\ due = 0 => ~ Defaults(c, due, paid)
<1>1. /\ c \in Claim /\ c.who \in Borrowers /\ c.kind \in Kinds /\ c.principal \in Nat /\ c.interest \in Nat
      /\ c.pay \in Nat /\ c.pay > 0 /\ c.missed \in 0 .. Misses /\ c.missed \in Nat /\ c.fresh \in BOOLEAN /\ c.due \in Nat
  BY SoundFields
<1>2. c.missed < Misses \/ Remaining(c) = 0
  BY DEF Sound
<1>3. Misses \in Nat \ {0}
  BY Constants
<1>4. Remaining(c) = c.principal + c.interest
  BY DEF Remaining
<1>5. DOMAIN c = {"who", "kind", "principal", "interest", "pay", "missed", "fresh", "due"}
  BY <1>1 DEF Claim
<1>6. PICK x \in Nat : x = Min({paid, c.interest}) /\ x <= paid /\ x <= c.interest /\ x \in {paid, c.interest}
  <2>1. paid \in Int /\ c.interest \in Int
    BY <1>1
  <2>2. Min({paid, c.interest}) \in {paid, c.interest} /\ Min({paid, c.interest}) <= paid /\ Min({paid, c.interest}) <= c.interest
    BY <2>1, MinOfTwo
  <2>3. Min({paid, c.interest}) \in Nat
    BY <1>1, <2>2
  <2> QED
    BY <2>2, <2>3
<1>7. CASE Defaults(c, due, paid)
  <2>1. c.missed + 1 = Misses /\ paid < due /\ due # 0
    BY <1>1, <1>2, <1>3, <1>7 DEF Defaults
  <2> DEFINE d == [c EXCEPT !.principal = 0, !.interest = 0, !.missed = c.missed + 1, !.due = 0]
  <2>2. Settled(c, due, paid) = d
    BY <1>7 DEF Settled
  <2>3. /\ d.who = c.who /\ d.kind = c.kind /\ d.pay = c.pay /\ d.fresh = c.fresh
        /\ d.principal = 0 /\ d.interest = 0 /\ d.missed = Misses /\ d.due = 0
    BY <1>5, <2>1
  <2>6. c.missed + 1 \in 0 .. Misses
    BY <1>3, <2>1
  <2>4. d \in Claim
    BY <1>1, <2>6 DEF Claim
  <2> HIDE DEF d
  <2>5. Remaining(d) = 0
    BY <2>3 DEF Remaining
  <2> QED
    BY <1>1, <1>7, <2>1, <2>2, <2>3, <2>4, <2>5 DEF Idle, Sound
<1>8. CASE ~ Defaults(c, due, paid)
  <2> DEFINE m == IF paid < due THEN c.missed + 1 ELSE IF due > 0 THEN 0 ELSE c.missed
             d == [c EXCEPT !.interest = c.interest - x, !.principal = c.principal - (paid - x), !.due = 0, !.missed = m]
  <2>1. Settled(c, due, paid) = d
    BY <1>6, <1>8 DEF Settled
  <2>2. /\ d.who = c.who /\ d.kind = c.kind /\ d.pay = c.pay /\ d.fresh = c.fresh
        /\ d.principal = c.principal - (paid - x) /\ d.interest = c.interest - x /\ d.missed = m /\ d.due = 0
    BY <1>5
  <2>3. c.interest - x \in Nat /\ c.principal - (paid - x) \in Nat
    BY <1>1, <1>4, <1>6
  <2>4. m \in 0 .. Misses /\ (m < Misses \/ Remaining(c) - paid = 0)
    <3>1. CASE paid < due
      <4>1. c.missed + 1 < Misses
        BY <1>1, <1>3, <1>8, <3>1 DEF Defaults
      <4> QED
        BY <1>1, <1>3, <3>1, <4>1
    <3>2. CASE ~ (paid < due) /\ due > 0
      BY <1>3, <3>2
    <3>3. CASE ~ (paid < due) /\ ~ (due > 0)
      BY <1>1, <1>2, <1>3, <1>4, <3>3
    <3> QED
      BY <3>1, <3>2, <3>3
  <2> HIDE DEF m
  <2>5. d \in Claim
    BY <1>1, <2>3, <2>4 DEF Claim
  <2> HIDE DEF d
  <2>6. Remaining(d) = Remaining(c) - paid
    BY <1>1, <1>4, <1>6, <2>2 DEF Remaining
  <2> QED
    BY <1>1, <1>8, <2>1, <2>2, <2>4, <2>5, <2>6 DEF Idle, Sound
<1> QED
  BY <1>7, <1>8

\* What each borrower pays.
LEMMA PaymentLaw ==
  ASSUME NEW l, NEW who, NEW due, Collectible(l, who, due), NEW b \in Borrowers
  PROVE  /\ DueAt(l, due, b) \in SUBSET (1 .. Len(l.claims))
         /\ Payment(l, due, b) \in [DueAt(l, due, b) -> Nat]
         /\ \A i \in DueAt(l, due, b) : Payment(l, due, b)[i] <= due[i]
         /\ Total(Payment(l, due, b)) \in Nat
         /\ Total(Payment(l, due, b)) = Min({purse[b], Total([i \in DueAt(l, due, b) |-> due[i]])})
<1> DEFINE T == DueAt(l, due, b)
           f == [i \in T |-> due[i]]
<1>1. T \in SUBSET (1 .. Len(l.claims)) /\ f \in [T -> Nat] /\ \A i \in T : f[i] = due[i]
  BY DEF DueAt, Collectible
<1>2. IsFiniteSet(T) /\ T \in SUBSET Nat
  <2>1. IsFiniteSet(1 .. Len(l.claims)) /\ 1 .. Len(l.claims) \in SUBSET Nat
    BY Places DEF Collectible
  <2> QED
    BY <1>1, <2>1, FS_Subset
<1>3. purse[b] \in Nat
  BY DEF Collectible
<1>4. Payment(l, due, b) = Allocation(f, purse[b])
  BY DEF Payment
<1> HIDE DEF f, T
<1>5. /\ Allocation(f, purse[b]) \in [T -> Nat]
      /\ \A i \in T : Allocation(f, purse[b])[i] <= f[i]
      /\ Total(Allocation(f, purse[b])) = Min({purse[b], Total(f)})
  BY <1>1, <1>2, <1>3, AllocationLaw
<1>6. Total(Allocation(f, purse[b])) \in Nat
  BY <1>2, <1>5, TotalNat
<1> QED
  BY <1>1, <1>4, <1>5, <1>6 DEF T, f

\* The dues of a borrower, with the claims that are due nothing.
LEMMA DuesOf ==
  ASSUME NEW l, NEW who, NEW due, Collectible(l, who, due), NEW b \in Borrowers
  PROVE  Total([i \in DueAt(l, due, b) |-> due[i]])
           = Total([i \in {j \in 1 .. Len(l.claims) : l.claims[j].who = b} |-> due[i]])
<1> DEFINE T == DueAt(l, due, b)
           D == {j \in 1 .. Len(l.claims) : l.claims[j].who = b}
           f == [i \in T |-> due[i]]
<1>1. \A i \in 1 .. Len(l.claims) : due[i] \in Nat /\ (due[i] > 0 \/ due[i] = 0)
  <2>1. \A i \in 1 .. Len(l.claims) : due[i] \in Nat
    BY DEF Collectible
  <2>2. \A n \in Nat : n > 0 \/ n = 0
    OBVIOUS
  <2> QED
    BY <2>1, <2>2
<1>2. T \in SUBSET D /\ f \in [T -> Int] /\ DOMAIN due = 1 .. Len(l.claims)
  BY <1>1 DEF DueAt, Collectible
<1>3. IsFiniteSet(D)
  <2>1. IsFiniteSet(1 .. Len(l.claims)) /\ D \in SUBSET (1 .. Len(l.claims))
    BY Places DEF Collectible
  <2> QED
    BY <2>1, FS_Subset
<1>4. [x \in D |-> IF x \in T THEN f[x] ELSE 0] = [i \in D |-> due[i]]
  <2>1. ASSUME NEW i \in D PROVE (IF i \in T THEN f[i] ELSE 0) = due[i]
    BY <1>1, <1>2 DEF DueAt
  <2> HIDE DEF D, f, T
  <2> QED
    BY <2>1
<1>5. Total(f) = Total([x \in D |-> IF x \in T THEN f[x] ELSE 0])
  <2> HIDE DEF D, f, T
  <2> QED
    BY <1>2, <1>3, TotalExtend
<1> QED
  BY <1>4, <1>5

LEMMA PaidLaw ==
  ASSUME NEW l, NEW who, NEW due, Collectible(l, who, due)
  PROVE  /\ TakenOf(l, who, due) \in [Borrowers -> Nat]
         /\ \A b \in Borrowers : TakenOf(l, who, due)[b] <= purse[b]
         /\ \A b \in Borrowers \ who : TakenOf(l, who, due)[b] = 0
         /\ \A b \in who : TakenOf(l, who, due)[b]
              = Min({purse[b], Total([i \in {j \in 1 .. Len(l.claims) : l.claims[j].who = b} |-> due[i]])})
         /\ PaidOn(l, who, due) \in [1 .. Len(l.claims) -> Nat]
         /\ \A i \in 1 .. Len(l.claims) : PaidOn(l, who, due)[i] <= due[i]
         /\ Total(TakenOf(l, who, due)) = Total(PaidOn(l, who, due))
<1> DEFINE D == 1 .. Len(l.claims)
           B == Debtors(l, who, due)
           at(b) == DueAt(l, due, b)
           pay(b) == Payment(l, due, b)
           taken == TakenOf(l, who, due)
           paid == PaidOn(l, who, due)
           of(b) == {j \in D : l.claims[j].who = b}
<1>1. /\ \A b \in Borrowers : /\ at(b) \in SUBSET D /\ pay(b) \in [at(b) -> Nat]
                              /\ Total(pay(b)) \in Nat
      /\ \A b \in Borrowers : Total(pay(b)) = Min({purse[b], Total([i \in at(b) |-> due[i]])})
      /\ \A b \in Borrowers : \A i \in at(b) : pay(b)[i] <= due[i]
  <2>1. ASSUME NEW b \in Borrowers
        PROVE  /\ at(b) \in SUBSET D /\ pay(b) \in [at(b) -> Nat]
               /\ \A i \in at(b) : pay(b)[i] <= due[i]
               /\ Total(pay(b)) \in Nat
               /\ Total(pay(b)) = Min({purse[b], Total([i \in at(b) |-> due[i]])})
    BY PaymentLaw
  <2> HIDE DEF at, pay, D
  <2> QED
    BY <2>1
<1>2. /\ who \in SUBSET Borrowers /\ B \in SUBSET who /\ B \in SUBSET Borrowers /\ DOMAIN due = D
      /\ purse \in [Borrowers -> Nat]
      /\ \A i \in D : l.claims[i].who \in Borrowers /\ due[i] \in Nat
      /\ \A i \in D : due[i] > 0 => l.claims[i].who \in who
  <2>1. \A i \in D : l.claims[i] \in Sound
    BY Places DEF Collectible
  <2>2. \A i \in D : l.claims[i].who \in Borrowers
    BY <2>1, SoundFields
  <2> QED
    BY <2>2 DEF Debtors, Collectible
<1>3. \A b \in B, i \in D : i \in at(b) <=> l.claims[i].who = b /\ due[i] > 0
  BY <1>2 DEF DueAt
<1>4. taken = [b \in Borrowers |-> IF b \in B THEN Total(pay(b)) ELSE 0]
  BY DEF TakenOf
<1>5. paid = [i \in D |-> IF due[i] > 0 /\ l.claims[i].who \in B THEN pay(l.claims[i].who)[i] ELSE 0]
  BY <1>2 DEF PaidOn
<1>13. \A b \in who \ B : at(b) = {}
  BY DEF Debtors
<1> HIDE DEF taken, paid, at, pay, B
<1>6. taken \in [Borrowers -> Nat]
  BY <1>1, <1>4
<1>7. ASSUME NEW i \in D PROVE paid[i] \in Nat /\ paid[i] <= due[i]
  <2>1. CASE due[i] > 0 /\ l.claims[i].who \in B
    <3>1. i \in at(l.claims[i].who) /\ l.claims[i].who \in Borrowers /\ paid[i] = pay(l.claims[i].who)[i]
      BY <1>2, <1>3, <1>5, <2>1
    <3>2. pay(l.claims[i].who) \in [at(l.claims[i].who) -> Nat]
      BY <1>1, <3>1
    <3> QED
      BY <1>1, <3>1, <3>2
  <2>2. CASE ~ (due[i] > 0 /\ l.claims[i].who \in B)
    <3>1. paid[i] = 0 /\ due[i] \in Nat
      BY <1>2, <1>5, <2>2
    <3> QED
      BY <3>1
  <2> QED
    BY <2>1, <2>2
<1>8. paid \in [D -> Nat]
  <2> HIDE DEF D
  <2>1. paid = [i \in D |-> paid[i]]
    BY <1>5
  <2> QED
    BY <1>7, <2>1
<1>9. ASSUME NEW b \in Borrowers PROVE taken[b] <= purse[b]
  <2>1. CASE b \in B
    <3>1. taken[b] = Min({purse[b], Total([i \in at(b) |-> due[i]])})
      BY <1>1, <1>4, <2>1
    <3>2. purse[b] \in Nat /\ [i \in at(b) |-> due[i]] \in [at(b) -> Nat] /\ IsFiniteSet(at(b))
      <4>1. IsFiniteSet(D) /\ at(b) \in SUBSET D
        BY <1>1, Places DEF Collectible
      <4>2. IsFiniteSet(at(b))
        BY <4>1, FS_Subset
      <4> QED
        BY <1>2, <4>1, <4>2
    <3>3. Total([i \in at(b) |-> due[i]]) \in Nat
      BY <3>2, TotalNat
    <3> QED
      BY <3>1, <3>2, <3>3, MinOfNats
  <2>2. CASE b \notin B
    BY <1>2, <1>4, <2>2
  <2> QED
    BY <2>1, <2>2
<1>10. ASSUME NEW b \in who
       PROVE  taken[b] = Min({purse[b], Total([i \in of(b) |-> due[i]])})
  <2>0. b \in Borrowers
    BY <1>2
  <2>1. Total([i \in at(b) |-> due[i]]) = Total([i \in of(b) |-> due[i]])
    BY <2>0, DuesOf DEF at
  <2>2. CASE b \in B
    BY <1>1, <1>4, <2>0, <2>1, <2>2
  <2>3. CASE b \notin B
    <3>1. at(b) = {}
      BY <1>13, <2>3
    <3>2. Total([i \in at(b) |-> due[i]]) = 0
      <4>1. IsFiniteSet({})
        BY FS_EmptySet
      <4>2. [i \in at(b) |-> due[i]] = [i \in {} |-> 0]
        BY <3>1
      <4> QED
        BY <4>1, <4>2, TotalZero
    <3>3. purse[b] \in Nat /\ taken[b] = 0
      BY <1>2, <1>4, <2>0, <2>3
    <3>4. Min({purse[b], 0}) = 0
      <4>1. purse[b] \in Int /\ 0 \in Int /\ 0 <= purse[b]
        BY <3>3
      <4> QED
        BY <4>1, LesserOfTwo
    <3> QED
      BY <2>1, <3>2, <3>3, <3>4
  <2> QED
    BY <2>2, <2>3
<1>11. ASSUME NEW b \in Borrowers PROVE taken[b] = Total([i \in of(b) |-> paid[i]])
  <2> DEFINE f == [i \in of(b) |-> paid[i]]
  <2>1. IsFiniteSet(of(b)) /\ of(b) \in SUBSET D
    <3>1. IsFiniteSet(D) /\ of(b) \in SUBSET D
      BY Places DEF Collectible
    <3> QED
      BY <3>1, FS_Subset
  <2>2. CASE b \in B
    <3>1. pay(b) \in [at(b) -> Int] /\ at(b) \in SUBSET of(b)
      BY <1>1, <1>3, <2>2
    <3>2. \A i \in of(b) : paid[i] = IF i \in at(b) THEN pay(b)[i] ELSE 0
      BY <1>3, <1>5, <2>2
    <3> HIDE DEF of
    <3>3. Total(pay(b)) = Total([x \in of(b) |-> IF x \in at(b) THEN pay(b)[x] ELSE 0])
      BY <2>1, <3>1, TotalExtend
    <3>4. [x \in of(b) |-> IF x \in at(b) THEN pay(b)[x] ELSE 0] = f
      BY <3>2
    <3> QED
      BY <1>4, <2>2, <3>3, <3>4
  <2>3. CASE b \notin B
    <3>1. \A i \in of(b) : paid[i] = 0
      BY <1>5, <2>3
    <3> HIDE DEF of
    <3>2. f = [i \in of(b) |-> 0]
      BY <3>1
    <3>3. Total(f) = 0
      BY <2>1, <3>2, TotalZero
    <3> QED
      BY <1>4, <2>3, <3>3
  <2> QED
    BY <2>2, <2>3
<1>12. Total(taken) = Total(paid)
  <2> DEFINE owner == [j \in D |-> l.claims[j].who]
             Of2(b) == {y \in D : owner[y] = b}
  <2>1. IsFiniteSet(D) /\ IsFiniteSet(Borrowers) /\ paid \in [D -> Int]
    BY <1>8, Constants, Places DEF Collectible
  <2>2. \A b : Of2(b) = of(b)
    OBVIOUS
  <2>3. \A y \in D : owner[y] \in Borrowers
    BY <1>2
  <2> HIDE DEF owner, of, D
  <2>4. Total([e \in Borrowers |-> Total([x \in {y \in D : owner[y] = e} |-> paid[x]])])
           = Total([x \in {y \in D : owner[y] \in Borrowers} |-> paid[x]])
    BY <2>1, TotalByOwner
  <2>5. {y \in D : owner[y] \in Borrowers} = D
    BY <2>3
  <2>6. paid = [x \in D |-> paid[x]]
    BY <1>8
  <2>7. taken = [e \in Borrowers |-> taken[e]]
    BY <1>6
  <2>8. \A e \in Borrowers : taken[e] = Total([x \in {y \in D : owner[y] = e} |-> paid[x]])
    BY <1>11, <2>2
  <2>9. taken = [e \in Borrowers |-> Total([x \in {y \in D : owner[y] = e} |-> paid[x]])]
    BY <2>7, <2>8
  <2> QED
    BY <2>4, <2>5, <2>6, <2>9
<1>14. \A b \in Borrowers \ who : taken[b] = 0
  BY <1>2, <1>4
<1> QED
  BY <1>6, <1>7, <1>8, <1>9, <1>10, <1>12, <1>14 DEF taken, paid

\* The claims after the collection, and that the books say of them what was taken and lost.
LEMMA CollectedClaims ==
  ASSUME NEW l, NEW who, NEW due, Collectible(l, who, due)
  PROVE  /\ SettledAll(l, who, due) \in Seq(Idle)
         /\ Len(SettledAll(l, who, due)) = Len(l.claims)
         /\ \A i \in 1 .. Len(l.claims) :
              /\ SettledAll(l, who, due)[i] \in Idle
              /\ SettledAll(l, who, due)[i].who = l.claims[i].who
              /\ SettledAll(l, who, due)[i].kind = l.claims[i].kind
              /\ SettledAll(l, who, due)[i].pay = l.claims[i].pay
              /\ SettledAll(l, who, due)[i].fresh = l.claims[i].fresh
         /\ \A i \in 1 .. Len(l.claims) :
              Remaining(SettledAll(l, who, due)[i]) = IF Defaults(l.claims[i], due[i], PaidOn(l, who, due)[i]) THEN 0
                                                      ELSE Remaining(l.claims[i]) - PaidOn(l, who, due)[i]
         /\ \A i \in 1 .. Len(l.claims) : Remaining(SettledAll(l, who, due)[i]) <= Remaining(l.claims[i])
         /\ \A i \in 1 .. Len(l.claims) :
              due[i] = 0 => Remaining(SettledAll(l, who, due)[i]) = Remaining(l.claims[i])
         /\ \A i \in 1 .. Len(l.claims) : Defaults(l.claims[i], due[i], PaidOn(l, who, due)[i])
                                            => SettledAll(l, who, due)[i].missed = Misses
<1> DEFINE D == 1 .. Len(l.claims)
           paid == PaidOn(l, who, due)
           after == SettledAll(l, who, due)
<1>1. /\ l.claims \in Seq(Sound) /\ Len(l.claims) \in Nat /\ DOMAIN due = D
      /\ \A i \in D : l.claims[i] \in Sound /\ due[i] \in Nat /\ due[i] <= Remaining(l.claims[i])
  BY Places DEF Collectible
<1>2. \A i \in D : paid[i] \in Nat /\ paid[i] <= due[i]
  BY PaidLaw
<1>3. after = [i \in D |-> Settled(l.claims[i], due[i], paid[i])]
  BY <1>1 DEF SettledAll
<1> HIDE DEF after, paid
<1>4. ASSUME NEW i \in D
      PROVE  LET d == after[i] c == l.claims[i] IN
             /\ d \in Idle
             /\ d.who = c.who /\ d.kind = c.kind /\ d.pay = c.pay /\ d.fresh = c.fresh
             /\ Remaining(d) = IF Defaults(c, due[i], paid[i]) THEN 0 ELSE Remaining(c) - paid[i]
             /\ Defaults(c, due[i], paid[i]) => d.missed = Misses
             /\ due[i] = 0 => ~ Defaults(c, due[i], paid[i])
  <2>1. after[i] = Settled(l.claims[i], due[i], paid[i])
    BY <1>3
  <2>2. l.claims[i] \in Sound /\ due[i] \in Nat /\ paid[i] \in Nat /\ paid[i] <= due[i] /\ due[i] <= Remaining(l.claims[i])
    BY <1>1, <1>2
  <2> QED
    BY <2>1, <2>2, SettledLaw
<1>5. ASSUME NEW i \in D
      PROVE  Remaining(after[i]) <= Remaining(l.claims[i]) /\ (due[i] = 0 => Remaining(after[i]) = Remaining(l.claims[i]))
  <2>1. l.claims[i] \in Sound /\ due[i] \in Nat /\ paid[i] \in Nat /\ paid[i] <= due[i]
    BY <1>1, <1>2
  <2>2. Remaining(l.claims[i]) \in Nat
    BY <2>1, SoundFields
  <2>3. /\ Remaining(after[i]) = IF Defaults(l.claims[i], due[i], paid[i]) THEN 0 ELSE Remaining(l.claims[i]) - paid[i]
        /\ due[i] = 0 => ~ Defaults(l.claims[i], due[i], paid[i])
    BY <1>4
  <2> QED
    BY <2>1, <2>2, <2>3
<1>6. Len(after) = Len(l.claims) /\ after \in Seq(Idle)
  <2>1. \A i \in D : after[i] \in Idle
    BY <1>4
  <2>2. Len(after) = Len(l.claims)
    BY <1>1, <1>3
  <2>3. after \in [D -> Idle]
    BY <1>3, <2>1
  <2> QED
    BY <1>1, <2>2, <2>3
<1> QED
  BY <1>4, <1>5, <1>6 DEF after, paid

LEMMA CollectedBooks ==
  ASSUME NEW l, NEW who, NEW due, Collectible(l, who, due)
  PROVE  /\ LostIn(l, who, due) \in Nat
         /\ Total(TakenOf(l, who, due)) \in Nat
         /\ SumOf(l.claims, AllDebt)
              = SumOf(SettledAll(l, who, due), AllDebt) + Total(TakenOf(l, who, due)) + LostIn(l, who, due)
<1> DEFINE D == 1 .. Len(l.claims)
           paid == PaidOn(l, who, due)
           after == SettledAll(l, who, due)
           T == {j \in D : Defaults(l.claims[j], due[j], paid[j])}
           f == [i \in T |-> Remaining(l.claims[i]) - paid[i]]
           lost == [i \in D |-> IF i \in T THEN f[i] ELSE 0]
           d == [i \in D |-> paid[i] + lost[i]]
<1>1. /\ l.claims \in Seq(Sound) /\ IsFiniteSet(D) /\ DOMAIN due = D
      /\ \A i \in D : l.claims[i] \in Sound /\ due[i] \in Nat /\ due[i] <= Remaining(l.claims[i])
  BY Places DEF Collectible
<1>2. paid \in [D -> Nat] /\ \A i \in D : paid[i] <= due[i]
  BY PaidLaw
<1>3. \A i \in D : Remaining(l.claims[i]) \in Nat
  BY <1>1, SoundFields
<1>4. LostIn(l, who, due) = Total(f)
  BY <1>1 DEF LostIn
<1>5. /\ after \in Seq(Sound) /\ Len(after) = Len(l.claims)
      /\ \A i \in D : after[i] \in Sound
      /\ \A i \in D : Remaining(after[i]) = IF Defaults(l.claims[i], due[i], paid[i]) THEN 0
                                            ELSE Remaining(l.claims[i]) - paid[i]
  <2>1. /\ after \in Seq(Idle) /\ Len(after) = Len(l.claims)
        /\ \A i \in D : Remaining(after[i]) = IF Defaults(l.claims[i], due[i], paid[i]) THEN 0
                                              ELSE Remaining(l.claims[i]) - paid[i]
    BY CollectedClaims
  <2>2. \A i \in D : after[i] \in Idle
    BY CollectedClaims
  <2>3. Idle \in SUBSET Sound
    BY DEF Idle
  <2> HIDE DEF after, paid
  <2>4. after \in Seq(Sound)
    BY <2>1, <2>3
  <2> QED
    BY <2>1, <2>2, <2>3, <2>4
<1> HIDE DEF after, paid
<1>6. f \in [T -> Nat] /\ T \in SUBSET D /\ IsFiniteSet(T)
  <2>1. ASSUME NEW i \in T PROVE Remaining(l.claims[i]) - paid[i] \in Nat
    <3>1. Remaining(l.claims[i]) \in Nat /\ paid[i] \in Nat /\ due[i] \in Nat /\ paid[i] <= due[i] /\ due[i] <= Remaining(l.claims[i])
      BY <1>1, <1>2, <1>3
    <3> QED
      BY <3>1
  <2>2. IsFiniteSet(T)
    BY <1>1, FS_Subset
  <2> QED
    BY <2>1, <2>2
<1>7. Total(f) \in Nat
  <2> HIDE DEF f, T
  <2> QED
    BY <1>6, TotalNat
<1>8. lost \in [D -> Int] /\ \A i \in D : lost[i] = IF i \in T THEN Remaining(l.claims[i]) - paid[i] ELSE 0
  <2>1. \A i \in D : i \in T => f[i] = Remaining(l.claims[i]) - paid[i] /\ f[i] \in Nat
    BY <1>6
  <2> HIDE DEF f, T, D
  <2> QED
    BY <2>1
<1>9. Total(f) = Total(lost)
  <2> HIDE DEF f, T, D
  <2>2. T \in SUBSET D /\ f \in [T -> Int]
    BY <1>6
  <2>3. IsFiniteSet(D)
    BY <1>1
  <2>1. Total(f) = Total([x \in D |-> IF x \in T THEN f[x] ELSE 0])
    BY <2>2, <2>3, TotalExtend
  <2> QED
    BY <1>1, <1>6, <2>1 DEF lost
<1> HIDE DEF lost
<1>10. d \in [D -> Int] /\ \A i \in D : d[i] = paid[i] + lost[i]
  BY <1>2, <1>8
<1>11. Total(d) = Total(paid) + Total(lost)
  <2>1. paid \in [D -> Int]
    BY <1>2
  <2> HIDE DEF d, D
  <2>2. \A a, b, c \in [D -> Int] : (\A x \in D : c[x] = a[x] + b[x]) => Total(c) = Total(a) + Total(b)
    <3>1. IsFiniteSet(D)
      BY <1>1
    <3> QED
      BY <3>1, TotalPointwise
  <2> QED
    BY <1>8, <1>10, <2>1, <2>2
<1>12. \A i \in D : AllDebt[l.claims[i]] = AllDebt[after[i]] + d[i]
  <2> SUFFICES ASSUME NEW i \in D PROVE AllDebt[l.claims[i]] = AllDebt[after[i]] + d[i]
    OBVIOUS
  <2>1. AllDebt[l.claims[i]] = Remaining(l.claims[i]) /\ AllDebt[after[i]] = Remaining(after[i])
    BY <1>1, <1>5 DEF AllDebt
  <2>2. Remaining(l.claims[i]) \in Nat /\ paid[i] \in Nat
    BY <1>2, <1>3
  <2>3. d[i] = paid[i] + lost[i]
    BY <1>10
  <2>4. Remaining(after[i]) = IF i \in T THEN 0 ELSE Remaining(l.claims[i]) - paid[i]
    BY <1>5
  <2>5. lost[i] = IF i \in T THEN Remaining(l.claims[i]) - paid[i] ELSE 0
    BY <1>8
  <2> HIDE DEF d, T
  <2> QED
    BY <2>1, <2>2, <2>3, <2>4, <2>5
<1>13. SumOf(l.claims, AllDebt) = SumOf(after, AllDebt) + Total(d)
  <2>1. AllDebt \in [Sound -> Int]
    BY WeightsTyped
  <2>2. d \in [1 .. Len(after) -> Int] /\ \A i \in 1 .. Len(after) : AllDebt[l.claims[i]] = AllDebt[after[i]] + d[i]
    BY <1>5, <1>10, <1>12
  <2>3. Len(l.claims) = Len(after) /\ after \in Seq(Sound) /\ l.claims \in Seq(Sound)
    BY <1>1, <1>5
  <2> HIDE DEF d, D
  <2>4. \A e \in [1 .. Len(after) -> Int] :
          (\A i \in 1 .. Len(after) : AllDebt[l.claims[i]] = AllDebt[after[i]] + e[i])
             => SumOf(l.claims, AllDebt) = SumOf(after, AllDebt) + Total(e)
    BY <2>1, <2>3, SumMoved
  <2> QED
    BY <2>2, <2>4
<1>14. Total(TakenOf(l, who, due)) = Total(paid)
  BY PaidLaw DEF paid
<1>15. Total(paid) \in Nat
  <2> HIDE DEF D
  <2> QED
    BY <1>1, <1>2, TotalNat
<1>16. SumOf(after, AllDebt) \in Nat
  BY <1>5, WeightsTyped, SumTyped
<1> QED
  BY <1>4, <1>7, <1>9, <1>11, <1>13, <1>14, <1>15, <1>16 DEF after

-----------------------------------------------------------------------------
(* The ledger as a value *)

IndexType == [dues : [Borrowers -> Nat], delinquent : SUBSET Borrowers]

LedgerOK(l) ==
  /\ DOMAIN l = {"claims", "booked", "reserve", "index", "mirror"}
  /\ l.claims \in Seq(Sound) /\ l.booked \in Nat /\ l.reserve \in Nat
  /\ l.index # NoIndex => l.index \in IndexType
  /\ l.mirror \in [Borrowers \X Kinds -> Nat]
  /\ l.booked = SumOf(l.claims, AllDebt)

OthersOK ==
  /\ phase \in {"open", "lend", "trade", "homes", "care", "late", "exits", "entry"}
  /\ Baseline \subseteq live /\ live \subseteq Firms
  /\ purse \in [Borrowers -> Nat] /\ rest \in Nat
  /\ mortgage \in [Firms -> [owed : Nat, pay : Nat, missed : BOOLEAN]]
  /\ direct \in [Firms -> [owed : Nat, pay : Nat]]
  /\ capacity \in [Borrowers -> Nat] /\ cooldown \in [Borrowers -> 0 .. Cooldown]

AllMoney == OpeningCash * Cardinality(Borrowers) + OpeningReserve + OpeningRest
Conserved == Total(purse) + ledger.reserve + rest = AllMoney

\* What each step of the week keeps of the money and the book.
MInv == OthersOK /\ LedgerOK(ledger) /\ Conserved /\ ClaimsSound

LEMMA SoundLists == Seq(Noted) \subseteq Seq(Sound) /\ Seq(Idle) \subseteq Seq(Sound) /\ Seq(Sound) \subseteq Seq(Claim)
<1>1. Noted \subseteq Sound /\ Idle \subseteq Sound /\ Sound \subseteq Claim
  BY DEF Noted, Idle, Sound
<1> QED
  BY <1>1

LEMMA MoneyInv ==
  MInv => TypeOK /\ MoneyConserved /\ ClaimsSound /\ BookBalanced
<1> SUFFICES ASSUME MInv PROVE TypeOK /\ MoneyConserved /\ ClaimsSound /\ BookBalanced
  OBVIOUS
<1>1. LedgerOK(ledger) /\ OthersOK /\ Conserved /\ ClaimsSound
  BY DEF MInv
<1>2. ledger.claims \in Seq(Claim) /\ ledger.claims \in Seq(Sound)
  BY <1>1, SoundLists DEF LedgerOK
<1>3. TypeOK
  BY <1>1, <1>2 DEF TypeOK, LedgerOK, OthersOK, IndexType
<1>4. MoneyConserved
  BY <1>1, <1>3 DEF MoneyConserved, Conserved, AllMoney
<1>5. BookBalanced
  BY <1>1, <1>2, BooksAreSums DEF BookBalanced, LedgerOK
<1> QED
  BY <1>1, <1>3, <1>4, <1>5

LEMMA MortgageFields ==
  ASSUME OthersOK
  PROVE  \A f \in Firms : /\ mortgage[f].owed \in Nat /\ mortgage[f].pay \in Nat /\ mortgage[f].missed \in BOOLEAN
                          /\ direct[f].owed \in Nat /\ direct[f].pay \in Nat
  BY DEF OthersOK

\* The week's index.
LEMMA DuesTyped ==
  ASSUME OthersOK, NEW claims \in Seq(Sound)
  PROVE  /\ Dues(claims) \in [Borrowers -> Nat]
         /\ \A b \in Borrowers : Dues(claims)[b] >= SumOf(claims, Service(b)) /\ SumOf(claims, Service(b)) \in Nat
<1> DEFINE own(b) == IF b \in live THEN Min({direct[b].pay, direct[b].owed})
                          + (IF mortgage[b].owed > 0 THEN mortgage[b].pay ELSE 0) ELSE 0
<1>1. ASSUME NEW b \in Borrowers PROVE own(b) \in Nat
  <2>1. CASE b \in live
    <3>1. b \in Firms
      BY <2>1 DEF OthersOK
    <3>2. mortgage[b].owed \in Nat /\ mortgage[b].pay \in Nat /\ direct[b].owed \in Nat /\ direct[b].pay \in Nat
      BY <3>1, MortgageFields
    <3>3. Min({direct[b].pay, direct[b].owed}) \in Nat
      BY <3>2, MinOfNats
    <3> QED
      BY <2>1, <3>2, <3>3
  <2>2. CASE b \notin live
    BY <2>2
  <2> QED
    BY <2>1, <2>2
<1>2. \A b \in Borrowers : SumOf(claims, Service(b)) \in Nat
  BY WeightsTyped, SumTyped
<1>3. Dues(claims) = [b \in Borrowers |-> SumOf(claims, Service(b)) + own(b)]
  <2>1. ASSUME NEW b \in Borrowers
        PROVE Total([i \in Of(claims, b, Kinds) |-> Min({claims[i].pay, Remaining(claims[i])})]) = SumOf(claims, Service(b))
    BY BooksAreSums
  <2> QED
    BY <2>1 DEF Dues
<1> HIDE DEF own
<1> QED
  BY <1>1, <1>2, <1>3

LEMMA IndexTyped ==
  ASSUME OthersOK, NEW l, LedgerOK(l)
  PROVE  Index(l) \in IndexType
<1>1. CASE l.index # NoIndex
  BY <1>1 DEF Index, LedgerOK
<1>2. CASE l.index = NoIndex
  <2>1. Dues(l.claims) \in [Borrowers -> Nat]
    BY DuesTyped DEF LedgerOK
  <2>2. Delinquent(l.claims) \in SUBSET Borrowers
    BY DEF Delinquent
  <2> QED
    BY <1>2, <2>1, <2>2 DEF Index, IndexType
<1> QED
  BY <1>1, <1>2

LEMMA IndexedLaw ==
  ASSUME OthersOK, NEW l, LedgerOK(l)
  PROVE  /\ LedgerOK(Indexed(l))
         /\ Indexed(l).claims = l.claims /\ Indexed(l).booked = l.booked /\ Indexed(l).reserve = l.reserve
         /\ Indexed(l).mirror = l.mirror /\ Indexed(l).index = Index(l)
<1>1. Index(l) \in IndexType
  BY IndexTyped
<1>2. /\ Indexed(l).claims = l.claims /\ Indexed(l).booked = l.booked /\ Indexed(l).reserve = l.reserve
      /\ Indexed(l).mirror = l.mirror /\ Indexed(l).index = Index(l) /\ DOMAIN Indexed(l) = DOMAIN l
  BY DEF Indexed, LedgerOK
<1> QED
  BY <1>1, <1>2 DEF LedgerOK

LEMMA FreshLaw ==
  ASSUME NEW b \in Borrowers, NEW kind \in Kinds, NEW p \in Principals
  PROVE  /\ Fresh(b, kind, p) \in Sound /\ Fresh(b, kind, p) \in Noted /\ Fresh(b, kind, p) \in Idle
         /\ Remaining(Fresh(b, kind, p)) = p /\ p \in Nat /\ p > 0
         /\ Fresh(b, kind, p).who = b /\ Fresh(b, kind, p).kind = kind
         /\ Fresh(b, kind, p).pay = Installment[p] /\ Installment[p] \in Nat
         /\ Fresh(b, kind, p).due = 0 /\ Fresh(b, kind, p).fresh
<1> DEFINE c == Fresh(b, kind, p)
<1>1. p \in Nat /\ p > 0 /\ Installment[p] \in Nat /\ Installment[p] > 0 /\ Misses \in Nat \ {0}
  BY InstallmentPositive, Constants
<1>2. /\ c.who = b /\ c.kind = kind /\ c.pay = Installment[p] /\ c.due = 0 /\ c.fresh = TRUE
      /\ c.principal = p /\ c.interest = 0 /\ c.missed = 0
  BY DEF Fresh
<1>3. Remaining(c) = p
  BY <1>1, <1>2 DEF Remaining
<1>4. c \in Claim
  <2>1. 0 \in 0 .. Misses /\ 0 \in Nat /\ TRUE \in BOOLEAN
    BY <1>1
  <2> QED
    BY <1>1, <2>1 DEF Claim, Fresh
<1>5. DueOf(c) = 0
  BY <1>2 DEF DueOf
<1> HIDE DEF c
<1>6. c \in Sound
  BY <1>1, <1>2, <1>4 DEF Sound
<1>7. c \in Noted /\ c \in Idle
  BY <1>2, <1>5, <1>6 DEF Noted, Idle
<1> QED
  BY <1>1, <1>2, <1>3, <1>6, <1>7 DEF c

LEMMA GrantedLaw ==
  ASSUME OthersOK, NEW l, LedgerOK(l), NEW b \in Borrowers, NEW kind \in Kinds, NEW p \in Principals, p <= l.reserve
  PROVE  /\ LedgerOK(Granted(l, b, kind, p))
         /\ Granted(l, b, kind, p).claims = Append(l.claims, Fresh(b, kind, p))
         /\ Granted(l, b, kind, p).reserve = l.reserve - p
<1>2. /\ Fresh(b, kind, p) \in Sound /\ Remaining(Fresh(b, kind, p)) = p /\ p \in Nat /\ Installment[p] \in Nat
  <2>1. Fresh(b, kind, p) \in Sound /\ Remaining(Fresh(b, kind, p)) = p
    BY FreshLaw
  <2>2. p \in Nat /\ Installment[p] \in Nat
    BY InstallmentPositive, Constants
  <2> QED
    BY <2>1, <2>2
<1> DEFINE g == Granted(l, b, kind, p)
<1>1. /\ g.claims = Append(l.claims, Fresh(b, kind, p)) /\ g.reserve = l.reserve - p /\ g.booked = l.booked + p
      /\ g.index = [Index(l) EXCEPT !.dues[b] = @ + Installment[p]]
      /\ g.mirror = [l.mirror EXCEPT ![<<b, kind>>] = @ + p]
      /\ DOMAIN g = {"claims", "booked", "reserve", "index", "mirror"}
  BY DEF Granted
<1>3. Index(l) \in IndexType
  BY IndexTyped
<1>4. g.index \in IndexType
  <2>1. PICK x \in IndexType : x = Index(l)
    BY <1>3
  <2>2. x.dues \in [Borrowers -> Nat] /\ x.delinquent \in SUBSET Borrowers
    BY DEF IndexType
  <2>3. x.dues[b] + Installment[p] \in Nat
    BY <1>2, <2>2
  <2>4. [x.dues EXCEPT ![b] = @ + Installment[p]] \in [Borrowers -> Nat]
    BY <2>2, <2>3
  <2>5. g.index = [x EXCEPT !.dues = [x.dues EXCEPT ![b] = @ + Installment[p]]]
    BY <1>1, <2>1
  <2> QED
    BY <2>4, <2>5 DEF IndexType
<1>5. g.mirror \in [Borrowers \X Kinds -> Nat]
  BY <1>1, <1>2 DEF LedgerOK
<1>6. g.claims \in Seq(Sound) /\ g.booked \in Nat /\ g.reserve \in Nat
  BY <1>1, <1>2 DEF LedgerOK
<1>7. g.booked = SumOf(g.claims, AllDebt)
  <2>1. SumOf(Append(l.claims, Fresh(b, kind, p)), AllDebt) = SumOf(l.claims, AllDebt) + AllDebt[Fresh(b, kind, p)]
    <3>1. AllDebt \in [Sound -> Int] /\ l.claims \in Seq(Sound)
      BY WeightsTyped DEF LedgerOK
    <3> QED
      BY <1>2, <3>1, SumAppend
  <2>2. AllDebt[Fresh(b, kind, p)] = p
    BY <1>2 DEF AllDebt
  <2>3. l.booked = SumOf(l.claims, AllDebt)
    BY DEF LedgerOK
  <2> QED
    BY <1>1, <2>1, <2>2, <2>3
<1> HIDE DEF g
<1>8. LedgerOK(g)
  BY <1>1, <1>4, <1>5, <1>6, <1>7 DEF LedgerOK
<1> QED
  BY <1>1, <1>8 DEF g

LEMMA SyncedLaw ==
  ASSUME OthersOK, NEW mirror \in [Borrowers \X Kinds -> Nat], NEW claims \in Seq(Sound), NEW who
  PROVE  /\ Synced(mirror, claims, who) \in [Borrowers \X Kinds -> Nat]
         /\ \A b \in Borrowers, k \in Kinds :
              Synced(mirror, claims, who)[<<b, k>>] = IF b \in who THEN MirrorOf(claims, b, k) ELSE mirror[<<b, k>>]
<1>1. ASSUME NEW b \in Borrowers, NEW k \in Kinds PROVE MirrorOf(claims, b, k) \in Nat
  <2>1. Owed(claims, b, {k}) \in Nat
    BY NothingOwed
  <2>2. ASSUME b \in Firms PROVE mortgage[b].owed \in Nat
    BY <2>2, MortgageFields
  <2> QED
    BY <2>1, <2>2 DEF MirrorOf
<1>2. DOMAIN mirror = Borrowers \X Kinds
  OBVIOUS
<1>3. ASSUME NEW x \in Borrowers \X Kinds
      PROVE  (IF x[1] \in who THEN MirrorOf(claims, x[1], x[2]) ELSE mirror[x]) \in Nat
  <2>1. x[1] \in Borrowers /\ x[2] \in Kinds /\ mirror[x] \in Nat
    OBVIOUS
  <2> QED
    BY <1>1, <2>1
<1>4. Synced(mirror, claims, who)
        = [x \in Borrowers \X Kinds |-> IF x[1] \in who THEN MirrorOf(claims, x[1], x[2]) ELSE mirror[x]]
  BY <1>2 DEF Synced
<1>5. Synced(mirror, claims, who) \in [Borrowers \X Kinds -> Nat]
  BY <1>3, <1>4
<1>6. ASSUME NEW b \in Borrowers, NEW k \in Kinds
      PROVE  Synced(mirror, claims, who)[<<b, k>>] = IF b \in who THEN MirrorOf(claims, b, k) ELSE mirror[<<b, k>>]
  <2>1. PICK x \in Borrowers \X Kinds : x = <<b, k>>
    OBVIOUS
  <2>2. x[1] = b /\ x[2] = k
    BY <2>1
  <2> QED
    BY <1>4, <2>1, <2>2
<1> QED
  BY <1>5, <1>6

LEMMA RolledBackLaw ==
  ASSUME OthersOK, NEW l, LedgerOK(l), NEW h \in Borrowers, NEW p \in Principals, p <= l.reserve
  PROVE  /\ LedgerOK(RolledBack(Granted(l, h, "medical", p), h, p))
         /\ RolledBack(Granted(l, h, "medical", p), h, p).claims = l.claims
         /\ RolledBack(Granted(l, h, "medical", p), h, p).reserve = l.reserve
         /\ RolledBack(Granted(l, h, "medical", p), h, p).index = Index(l)
         /\ RolledBack(Granted(l, h, "medical", p), h, p).mirror
              = Synced([l.mirror EXCEPT ![<<h, "medical">>] = @ + p], l.claims, {h})
<1>0. "medical" \in Kinds
  BY DEF Kinds
<1>1. PICK g : g = Granted(l, h, "medical", p)
  OBVIOUS
<1>2. /\ LedgerOK(g)
      /\ g.claims = Append(l.claims, Fresh(h, "medical", p))
      /\ g.reserve = l.reserve - p
      /\ g.booked = l.booked + p
      /\ g.index = [Index(l) EXCEPT !.dues[h] = @ + Installment[p]]
      /\ g.mirror = [l.mirror EXCEPT ![<<h, "medical">>] = @ + p]
  <2>1. LedgerOK(g)
    BY <1>0, <1>1, GrantedLaw
  <2> QED
    BY <1>1, <2>1 DEF Granted
<1>3. p \in Nat /\ Installment[p] \in Nat
  BY InstallmentPositive, Constants
<1>4. SubSeq(g.claims, 1, Len(g.claims) - 1) = l.claims
  <2>1. l.claims \in Seq(Sound) /\ Fresh(h, "medical", p) \in Sound
    BY <1>0, FreshLaw DEF LedgerOK
  <2>2. PICK s \in Seq(Sound), c \in Sound : s = l.claims /\ c = Fresh(h, "medical", p)
    BY <2>1
  <2>3. Len(Append(s, c)) = Len(s) + 1 /\ Append(s, c) \in Seq(Sound) /\ Len(s) \in Nat
    OBVIOUS
  <2>4. SubSeq(Append(s, c), 1, Len(s)) = s
    OBVIOUS
  <2>5. Len(s) + 1 - 1 = Len(s)
    BY <2>3
  <2> QED
    BY <1>2, <2>2, <2>3, <2>4, <2>5
<1> DEFINE r == RolledBack(g, h, p)
<1>5. /\ r.claims = l.claims /\ r.booked = g.booked - p /\ r.reserve = g.reserve + p
      /\ r.index = [g.index EXCEPT !.dues[h] = @ - Installment[p]]
      /\ r.mirror = Synced(g.mirror, l.claims, {h})
      /\ DOMAIN r = {"claims", "booked", "reserve", "index", "mirror"}
  BY <1>4 DEF RolledBack
<1> HIDE DEF r
<1>6. r.booked = l.booked /\ r.reserve = l.reserve
  BY <1>2, <1>3, <1>5 DEF LedgerOK
<1>7. r.index = Index(l)
  <2>1. PICK x \in IndexType : x = Index(l)
    BY IndexTyped
  <2>2. x.dues \in [Borrowers -> Nat] /\ DOMAIN x = {"dues", "delinquent"}
    BY DEF IndexType
  <2>3. PICK n \in Nat : n = x.dues[h]
    BY <2>2
  <2>4. g.index = [x EXCEPT !.dues = [x.dues EXCEPT ![h] = n + Installment[p]]]
    BY <1>2, <2>1, <2>3
  <2>5. g.index.dues = [x.dues EXCEPT ![h] = n + Installment[p]] /\ g.index.delinquent = x.delinquent
        /\ DOMAIN g.index = {"dues", "delinquent"}
    BY <2>2, <2>4
  <2>6. g.index.dues[h] - Installment[p] = n
    BY <1>3, <2>2, <2>5
  <2>7. r.index = [g.index EXCEPT !.dues = [g.index.dues EXCEPT ![h] = n]]
    BY <1>5, <2>6
  <2>8. [g.index.dues EXCEPT ![h] = n] = x.dues
    BY <2>2, <2>3, <2>5
  <2>9. r.index = [g.index EXCEPT !.dues = x.dues]
    BY <2>7, <2>8
  <2>10. [g.index EXCEPT !.dues = x.dues] = x
    <3>1. g.index \in IndexType
      BY <2>2, <2>4, <1>3, <2>3 DEF IndexType
    <3>2. PICK y \in IndexType : y = g.index
      BY <3>1
    <3>3. [y EXCEPT !.dues = x.dues] = [dues |-> x.dues, delinquent |-> y.delinquent]
      BY DEF IndexType
    <3>4. x = [dues |-> x.dues, delinquent |-> x.delinquent]
      BY DEF IndexType
    <3> QED
      BY <2>5, <3>2, <3>3, <3>4
  <2> QED
    BY <2>1, <2>9, <2>10
<1>8. r.mirror \in [Borrowers \X Kinds -> Nat]
  <2>1. g.mirror \in [Borrowers \X Kinds -> Nat] /\ l.claims \in Seq(Sound)
    BY <1>2 DEF LedgerOK
  <2>2. Synced(g.mirror, l.claims, {h}) \in [Borrowers \X Kinds -> Nat]
    BY <2>1, SyncedLaw
  <2> QED
    BY <1>5, <2>2
<1>9. Index(l) \in IndexType
  BY IndexTyped
<1>10. LedgerOK(r)
  BY <1>5, <1>6, <1>7, <1>8, <1>9 DEF LedgerOK
<1> QED
  BY <1>1, <1>2, <1>5, <1>6, <1>7, <1>10 DEF r

-----------------------------------------------------------------------------
(* The money through the phases *)

LEMMA OnePurse ==
  ASSUME OthersOK, NEW b \in Borrowers, NEW v \in Nat
  PROVE  /\ [purse EXCEPT ![b] = v] \in [Borrowers -> Nat]
         /\ Total([purse EXCEPT ![b] = v]) = Total(purse) - purse[b] + v
         /\ Total(purse) \in Nat /\ purse[b] \in Nat
<1>1. purse \in [Borrowers -> Nat] /\ purse \in [Borrowers -> Int] /\ IsFiniteSet(Borrowers) /\ v \in Int
  BY Constants DEF OthersOK
<1>2. Total([purse EXCEPT ![b] = v]) = Total(purse) - purse[b] + v
  BY <1>1, TotalExcept
<1>3. Total(purse) \in Nat
  BY <1>1, TotalNat
<1> QED
  BY <1>1, <1>2, <1>3

\* A firm that is gone has left no money behind.
Gone == \A f \in Firms \ live : purse[f] = 0

\* The claims stay as they are, or one is granted, in the same part of the week.
LEMMA ClaimsStay ==
  ASSUME ClaimsSound, phase \in Week <=> phase' \in Week, ledger'.claims = ledger.claims
  PROVE  ClaimsSound'
<1>1. CASE phase \in Week
  BY <1>1 DEF ClaimsSound
<1>2. CASE phase \notin Week
  BY <1>2 DEF ClaimsSound
<1> QED
  BY <1>1, <1>2

LEMMA ClaimsGranted ==
  ASSUME ClaimsSound, phase \in Week <=> phase' \in Week, NEW b \in Borrowers, NEW kind \in Kinds, NEW p \in Principals,
         ledger'.claims = Append(ledger.claims, Fresh(b, kind, p))
  PROVE  ClaimsSound'
<1>1. Fresh(b, kind, p) \in Noted /\ Fresh(b, kind, p) \in Idle
  BY FreshLaw
<1>2. CASE phase \in Week
  <2>1. ledger.claims \in Seq(Noted)
    BY <1>2 DEF ClaimsSound
  <2>2. ledger'.claims \in Seq(Noted)
    BY <1>1, <2>1
  <2> QED
    BY <1>2, <2>2 DEF ClaimsSound
<1>3. CASE phase \notin Week
  <2>1. ledger.claims \in Seq(Idle)
    BY <1>3 DEF ClaimsSound
  <2>2. ledger'.claims \in Seq(Idle)
    BY <1>1, <2>1
  <2> QED
    BY <1>3, <2>2 DEF ClaimsSound
<1> QED
  BY <1>2, <1>3

\* What follows for the primed state.
LEMMA Balance ==
  ASSUME MInv, OthersOK', LedgerOK(ledger'), ClaimsSound',
         Total(purse') + ledger'.reserve + rest' = Total(purse) + ledger.reserve + rest
  PROVE  MInv'
<1>1. Conserved'
  BY DEF MInv, Conserved, AllMoney
<1>2. LedgerOK(ledger)'
  BY DEF LedgerOK, SumOf, AllDebt, IndexType
<1> QED
  BY <1>1, <1>2 DEF MInv

LEMMA MInvFacts ==
  ASSUME MInv
  PROVE  /\ OthersOK /\ LedgerOK(ledger) /\ ClaimsSound
         /\ ledger.claims \in Seq(Sound) /\ ledger.reserve \in Nat /\ ledger.booked \in Nat
         /\ rest \in Nat /\ Total(purse) \in Nat /\ purse \in [Borrowers -> Nat]
         /\ live \subseteq Firms /\ Firms \subseteq Borrowers /\ Households \subseteq Borrowers
<1>1. OthersOK /\ LedgerOK(ledger) /\ ClaimsSound
  BY DEF MInv
<1>2. purse \in [Borrowers -> Nat] /\ IsFiniteSet(Borrowers) /\ Firms \subseteq Borrowers /\ Households \subseteq Borrowers
  BY <1>1, Constants DEF OthersOK
<1>3. Total(purse) \in Nat
  BY <1>2, TotalNat
<1> QED
  BY <1>1, <1>2, <1>3 DEF LedgerOK, OthersOK

LEMMA MoneyRefuse == MInv /\ Refuse => MInv'
<1> SUFFICES ASSUME MInv, Refuse PROVE MInv'
  OBVIOUS
<1>1. OthersOK /\ LedgerOK(ledger) /\ ClaimsSound
  BY MInvFacts
<1>2. /\ phase' = phase /\ ledger' = Indexed(ledger)
      /\ UNCHANGED <<purse, rest, mortgage, direct, capacity, cooldown, live>>
  BY DEF Refuse, Lending
<1>3. LedgerOK(ledger') /\ ledger'.claims = ledger.claims /\ ledger'.reserve = ledger.reserve
  BY <1>1, <1>2, IndexedLaw
<1>4. OthersOK'
  BY <1>1, <1>2 DEF OthersOK
<1>5. ClaimsSound'
  BY <1>1, <1>2, <1>3, ClaimsStay
<1> QED
  BY <1>2, <1>3, <1>4, <1>5, Balance

LEMMA MoneyLendToFirm == MInv /\ LendToFirm => MInv'
<1> SUFFICES ASSUME MInv, LendToFirm PROVE MInv'
  OBVIOUS
<1>1. /\ OthersOK /\ LedgerOK(ledger) /\ ClaimsSound /\ ledger.reserve \in Nat /\ rest \in Nat
      /\ Total(purse) \in Nat /\ live \subseteq Firms /\ Firms \subseteq Borrowers
  BY MInvFacts
<1>2. phase' = phase /\ UNCHANGED <<mortgage, direct, capacity, cooldown, live>>
  BY DEF LendToFirm, Lending
<1>3. PICK f \in live, p \in Principals, spent \in BOOLEAN :
        /\ Fundable(p)
        /\ ledger' = Granted(ledger, f, "business", p)
        /\ purse' = IF spent THEN purse ELSE [purse EXCEPT ![f] = @ + p]
        /\ rest' = IF spent THEN rest + p ELSE rest
  BY DEF LendToFirm
<1>4. p \in Nat /\ p <= ledger.reserve /\ f \in Borrowers /\ "business" \in Kinds
  BY <1>1, <1>3, Constants DEF Fundable, Kinds
<1>5. /\ LedgerOK(ledger') /\ ledger'.claims = Append(ledger.claims, Fresh(f, "business", p))
      /\ ledger'.reserve = ledger.reserve - p
  <2>1. /\ LedgerOK(Granted(ledger, f, "business", p))
        /\ Granted(ledger, f, "business", p).claims = Append(ledger.claims, Fresh(f, "business", p))
        /\ Granted(ledger, f, "business", p).reserve = ledger.reserve - p
    <3>1. OthersOK /\ LedgerOK(ledger)
      BY <1>1
    <3>2. f \in Borrowers /\ "business" \in Kinds /\ p <= ledger.reserve
      BY <1>4
    <3> QED
      BY <3>1, <3>2, GrantedLaw
  <2> QED
    BY <1>3, <2>1
<1>6. purse[f] \in Nat /\ purse[f] + p \in Nat
  BY <1>1, <1>4 DEF OthersOK
<1>7. /\ [purse EXCEPT ![f] = purse[f] + p] \in [Borrowers -> Nat]
      /\ Total([purse EXCEPT ![f] = purse[f] + p]) = Total(purse) - purse[f] + (purse[f] + p)
  BY <1>1, <1>4, <1>6, OnePurse
<1>8. /\ purse' \in [Borrowers -> Nat] /\ rest' \in Nat
      /\ Total(purse') + ledger'.reserve + rest' = Total(purse) + ledger.reserve + rest
  <2>1. CASE spent
    BY <1>1, <1>3, <1>4, <1>5, <2>1, SMTT(40) DEF OthersOK
  <2>2. CASE ~ spent
    BY <1>1, <1>3, <1>4, <1>5, <1>6, <1>7, <2>2
  <2> QED
    BY <2>1, <2>2
<1>9. OthersOK'
  BY <1>1, <1>2, <1>8 DEF OthersOK
<1>10. ClaimsSound'
  BY <1>1, <1>2, <1>4, <1>5, ClaimsGranted
<1> QED
  BY <1>5, <1>8, <1>9, <1>10, Balance

LEMMA MoneyLendForConsumption == MInv /\ LendForConsumption => MInv'
<1> SUFFICES ASSUME MInv, LendForConsumption PROVE MInv'
  OBVIOUS
<1>1. /\ OthersOK /\ LedgerOK(ledger) /\ ClaimsSound /\ ledger.reserve \in Nat /\ rest \in Nat
      /\ Total(purse) \in Nat /\ Households \subseteq Borrowers
  BY MInvFacts
<1>2. phase' = phase /\ UNCHANGED <<rest, mortgage, direct, capacity, cooldown, live>>
  BY DEF LendForConsumption
<1>3. PICK h \in Households, p \in Principals :
        /\ Fundable(p)
        /\ ledger' = Granted(ledger, h, "consumption", p)
        /\ purse' = [purse EXCEPT ![h] = @ + p]
  BY DEF LendForConsumption
<1>4. p \in Nat /\ p <= ledger.reserve /\ h \in Borrowers /\ "consumption" \in Kinds
  BY <1>1, <1>3, Constants DEF Fundable, Kinds
<1>5. /\ LedgerOK(ledger') /\ ledger'.claims = Append(ledger.claims, Fresh(h, "consumption", p))
      /\ ledger'.reserve = ledger.reserve - p
  <2>1. /\ LedgerOK(Granted(ledger, h, "consumption", p))
        /\ Granted(ledger, h, "consumption", p).claims = Append(ledger.claims, Fresh(h, "consumption", p))
        /\ Granted(ledger, h, "consumption", p).reserve = ledger.reserve - p
    <3>1. OthersOK /\ LedgerOK(ledger)
      BY <1>1
    <3>2. h \in Borrowers /\ "consumption" \in Kinds /\ p <= ledger.reserve
      BY <1>4
    <3> QED
      BY <3>1, <3>2, GrantedLaw
  <2> QED
    BY <1>3, <2>1
<1>6. purse[h] \in Nat /\ purse[h] + p \in Nat
  BY <1>1, <1>4 DEF OthersOK
<1>7. /\ [purse EXCEPT ![h] = purse[h] + p] \in [Borrowers -> Nat]
      /\ Total([purse EXCEPT ![h] = purse[h] + p]) = Total(purse) - purse[h] + (purse[h] + p)
  BY <1>1, <1>4, <1>6, OnePurse
<1>8. /\ purse' \in [Borrowers -> Nat]
      /\ Total(purse') + ledger'.reserve + rest' = Total(purse) + ledger.reserve + rest
  BY <1>1, <1>2, <1>3, <1>4, <1>5, <1>6, <1>7
<1>9. OthersOK'
  BY <1>1, <1>2, <1>8 DEF OthersOK
<1>10. ClaimsSound'
  BY <1>1, <1>2, <1>4, <1>5, ClaimsGranted
<1> QED
  BY <1>5, <1>8, <1>9, <1>10, Balance

LEMMA MoneyLendDirectly == MInv /\ LendDirectly => MInv'
<1> SUFFICES ASSUME MInv, LendDirectly PROVE MInv'
  OBVIOUS
<1>1. /\ OthersOK /\ LedgerOK(ledger) /\ ClaimsSound /\ ledger.reserve \in Nat /\ rest \in Nat
      /\ Total(purse) \in Nat /\ live \subseteq Firms /\ Firms \subseteq Borrowers
  BY MInvFacts
<1>2. phase' = phase /\ UNCHANGED <<mortgage, capacity, cooldown, live>>
  BY DEF LendDirectly
<1>3. PICK f \in live, p \in Principals, spent \in BOOLEAN, asked \in BOOLEAN :
        /\ p <= rest
        /\ direct' = [direct EXCEPT ![f] = [owed |-> p + Interest(p), pay |-> @.pay + Installment[p]]]
        /\ purse' = IF spent THEN purse ELSE [purse EXCEPT ![f] = @ + p]
        /\ rest' = IF spent THEN rest ELSE rest - p
        /\ ledger' = IF asked THEN Indexed(ledger) ELSE ledger
  BY DEF LendDirectly
<1>4. p \in Nat /\ f \in Borrowers /\ f \in Firms /\ Interest(p) \in Nat /\ Installment[p] \in Nat
  BY <1>1, Constants, InterestIsNat, InstallmentPositive
<1>5. LedgerOK(ledger') /\ ledger'.claims = ledger.claims /\ ledger'.reserve = ledger.reserve
  BY <1>1, <1>3, IndexedLaw
<1>6. purse[f] \in Nat /\ purse[f] + p \in Nat
  BY <1>1, <1>4 DEF OthersOK
<1>7. /\ [purse EXCEPT ![f] = purse[f] + p] \in [Borrowers -> Nat]
      /\ Total([purse EXCEPT ![f] = purse[f] + p]) = Total(purse) - purse[f] + (purse[f] + p)
  BY <1>1, <1>4, <1>6, OnePurse
<1>8. /\ purse' \in [Borrowers -> Nat] /\ rest' \in Nat
      /\ Total(purse') + ledger'.reserve + rest' = Total(purse) + ledger.reserve + rest
  <2>1. CASE spent
    BY <1>1, <1>3, <1>4, <1>5, <2>1 DEF OthersOK
  <2>2. CASE ~ spent
    BY <1>1, <1>3, <1>4, <1>5, <1>6, <1>7, <2>2
  <2> QED
    BY <2>1, <2>2
<1>9. direct' \in [Firms -> [owed : Nat, pay : Nat]]
  <2>1. direct[f].pay \in Nat /\ direct \in [Firms -> [owed : Nat, pay : Nat]]
    BY <1>1, <1>4, MortgageFields DEF OthersOK
  <2>2. [owed |-> p + Interest(p), pay |-> direct[f].pay + Installment[p]] \in [owed : Nat, pay : Nat]
    BY <1>4, <2>1
  <2> QED
    BY <1>3, <2>1, <2>2
<1>10. OthersOK'
  BY <1>1, <1>2, <1>8, <1>9 DEF OthersOK
<1>11. ClaimsSound'
  BY <1>1, <1>2, <1>5, ClaimsStay
<1> QED
  BY <1>5, <1>8, <1>10, <1>11, Balance

LEMMA MoneyTrade == MInv /\ Trade => MInv'
<1> SUFFICES ASSUME MInv, Trade PROVE MInv'
  OBVIOUS
<1>1. /\ OthersOK /\ LedgerOK(ledger) /\ ClaimsSound /\ ledger.reserve \in Nat /\ rest \in Nat
      /\ Total(purse) \in Nat /\ live \subseteq Firms /\ Firms \subseteq Borrowers /\ Households \subseteq Borrowers
  BY MInvFacts
<1>2. phase \in Week /\ phase' = "trade" /\ UNCHANGED <<ledger, mortgage, direct, capacity, cooldown, live>>
  BY DEF Trade, Moves, Week
<1>3. PICK b \in Households \cup live, amount \in (-MaxIncome .. MaxIncome) \ {0} :
        /\ purse[b] + amount >= 0 /\ rest - amount >= 0
        /\ purse' = [purse EXCEPT ![b] = @ + amount] /\ rest' = rest - amount
  BY DEF Trade
<1>4. b \in Borrowers /\ amount \in Int
  <2>1. MaxIncome \in Nat
    BY Constants
  <2> QED
    BY <1>1, <2>1
<1>5. purse[b] \in Nat /\ purse[b] + amount \in Nat /\ rest - amount \in Nat
  BY <1>1, <1>3, <1>4 DEF OthersOK
<1>6. /\ [purse EXCEPT ![b] = purse[b] + amount] \in [Borrowers -> Nat]
      /\ Total([purse EXCEPT ![b] = purse[b] + amount]) = Total(purse) - purse[b] + (purse[b] + amount)
  BY <1>1, <1>4, <1>5, OnePurse
<1>7. /\ purse' \in [Borrowers -> Nat] /\ rest' \in Nat
      /\ Total(purse') + ledger'.reserve + rest' = Total(purse) + ledger.reserve + rest
  BY <1>1, <1>2, <1>3, <1>4, <1>5, <1>6
<1>8. OthersOK'
  BY <1>1, <1>2, <1>7 DEF OthersOK
<1>9. ClaimsSound'
  <2>1. phase \in Week <=> phase' \in Week
    BY <1>2 DEF Week
  <2> QED
    BY <1>1, <1>2, <2>1, ClaimsStay
<1> QED
  BY <1>1, <1>2, <1>7, <1>8, <1>9, Balance

LEMMA MoneyStartMortgage == MInv /\ StartMortgage => MInv'
<1> SUFFICES ASSUME MInv, StartMortgage PROVE MInv'
  OBVIOUS
<1>1. /\ OthersOK /\ LedgerOK(ledger) /\ ClaimsSound /\ ledger.reserve \in Nat /\ rest \in Nat
      /\ Total(purse) \in Nat /\ live \subseteq Firms /\ Firms \subseteq Borrowers
  BY MInvFacts
<1>2. phase' = phase /\ UNCHANGED <<purse, direct, capacity, cooldown, live>>
  BY DEF StartMortgage
<1>3. PICK f \in live \cap Housing, p \in Principals :
        /\ p <= ledger.reserve
        /\ mortgage' = [mortgage EXCEPT ![f] = [owed |-> p, pay |-> Installment[p], missed |-> FALSE]]
        /\ ledger' = [ledger EXCEPT !.reserve = @ - p, !.mirror[<<f, "business">>] = @ + p]
        /\ rest' = rest + p
  BY DEF StartMortgage
<1>4. p \in Nat /\ f \in Borrowers /\ f \in Firms /\ Installment[p] \in Nat
  BY <1>1, <1>3, Constants, InstallmentPositive
<1>5. /\ ledger'.claims = ledger.claims /\ ledger'.reserve = ledger.reserve - p /\ ledger'.booked = ledger.booked
      /\ ledger'.index = ledger.index /\ ledger'.mirror = [ledger.mirror EXCEPT ![<<f, "business">>] = @ + p]
      /\ DOMAIN ledger' = DOMAIN ledger
  BY <1>1, <1>3 DEF LedgerOK
<1>6. ledger'.mirror \in [Borrowers \X Kinds -> Nat]
  <2>1. <<f, "business">> \in Borrowers \X Kinds
    BY <1>4 DEF Kinds
  <2>2. ledger.mirror \in [Borrowers \X Kinds -> Nat]
    BY <1>1 DEF LedgerOK
  <2>3. ledger.mirror[<<f, "business">>] + p \in Nat
    BY <1>4, <2>1, <2>2
  <2> QED
    BY <1>5, <2>2, <2>3
<1>7. ledger'.reserve \in Nat /\ rest' \in Nat
  BY <1>1, <1>3, <1>4, <1>5
<1>8. LedgerOK(ledger')
  BY <1>1, <1>5, <1>6, <1>7 DEF LedgerOK
<1>9. mortgage' \in [Firms -> [owed : Nat, pay : Nat, missed : BOOLEAN]]
  <2>1. [owed |-> p, pay |-> Installment[p], missed |-> FALSE] \in [owed : Nat, pay : Nat, missed : BOOLEAN]
    BY <1>4
  <2> QED
    BY <1>1, <1>3, <2>1 DEF OthersOK
<1>10. OthersOK'
  BY <1>1, <1>2, <1>7, <1>9 DEF OthersOK
<1>11. ClaimsSound'
  BY <1>1, <1>2, <1>5, ClaimsStay
<1>12. Total(purse') + ledger'.reserve + rest' = Total(purse) + ledger.reserve + rest
  BY <1>1, <1>2, <1>3, <1>4, <1>5
<1> QED
  BY <1>8, <1>10, <1>11, <1>12, Balance

LEMMA MoneyVisit == MInv /\ Visit => MInv'
<1> SUFFICES ASSUME MInv, Visit PROVE MInv'
  OBVIOUS
<1>1. /\ OthersOK /\ LedgerOK(ledger) /\ ClaimsSound /\ ledger.reserve \in Nat /\ rest \in Nat
      /\ Total(purse) \in Nat /\ Households \subseteq Borrowers
  BY MInvFacts
<1>2. phase \in Week /\ phase' = "care" /\ UNCHANGED <<mortgage, direct, capacity, cooldown, live>>
  BY DEF Visit, Moves, Week
<1>3. phase \in Week <=> phase' \in Week
  BY <1>2 DEF Week
<1>4. PICK h \in Households :
        LET short == Quote - Min({Quote, purse[h]})
            granted == Granted(ledger, h, "medical", short)
        IN /\ short > 0
           /\ \/ /\ MayBorrowForCare(h, short)
                 /\ \/ ledger' = granted /\ purse' = [purse EXCEPT ![h] = 0] /\ rest' = rest + Quote
                    \/ ledger' = RolledBack(granted, h, short) /\ UNCHANGED <<purse, rest>>
              \/ ledger' = Indexed(ledger) /\ UNCHANGED <<purse, rest>>
  BY DEF Visit
<1>5. PICK short : short = Quote - Min({Quote, purse[h]})
  OBVIOUS
<1>6. h \in Borrowers /\ purse[h] \in Nat /\ Quote \in Nat /\ "medical" \in Kinds
  BY <1>1, Constants DEF OthersOK, Kinds
<1>7. short > 0 => short = Quote - purse[h]
  <2>1. Quote \in Int /\ purse[h] \in Int
    BY <1>6
  <2>2. Min({Quote, purse[h]}) = IF Quote <= purse[h] THEN Quote ELSE purse[h]
    BY <2>1, LesserOfTwo
  <2> QED
    BY <1>5, <1>6, <2>2
<1>8. CASE MayBorrowForCare(h, short) /\ short > 0
  <2>1. short \in Principals /\ short <= ledger.reserve
    BY <1>8 DEF MayBorrowForCare, Fundable
  <2>2. short \in Nat /\ short = Quote - purse[h]
    BY <1>7, <1>8, <2>1, Constants
  <2>3. CASE ledger' = Granted(ledger, h, "medical", short) /\ purse' = [purse EXCEPT ![h] = 0] /\ rest' = rest + Quote
    <3>1. /\ LedgerOK(Granted(ledger, h, "medical", short))
          /\ Granted(ledger, h, "medical", short).claims = Append(ledger.claims, Fresh(h, "medical", short))
          /\ Granted(ledger, h, "medical", short).reserve = ledger.reserve - short
      BY <1>1, <1>6, <2>1, GrantedLaw
    <3>2. /\ [purse EXCEPT ![h] = 0] \in [Borrowers -> Nat]
          /\ Total([purse EXCEPT ![h] = 0]) = Total(purse) - purse[h] + 0
      <4>1. 0 \in Nat
        OBVIOUS
      <4> QED
        BY <1>1, <1>6, <4>1, OnePurse
    <3>3. /\ purse' \in [Borrowers -> Nat] /\ rest' \in Nat /\ LedgerOK(ledger')
          /\ Total(purse') + ledger'.reserve + rest' = Total(purse) + ledger.reserve + rest
      <4>1. purse' \in [Borrowers -> Nat] /\ Total(purse') = Total(purse) - purse[h] + 0
        BY <2>3, <3>2
      <4>2. LedgerOK(ledger') /\ ledger'.reserve = ledger.reserve - short
        BY <2>3, <3>1
      <4>3. rest' = rest + Quote /\ rest' \in Nat
        BY <1>1, <1>6, <2>3
      <4>4. PICK t \in Nat, v \in Nat, r \in Nat, n \in Nat, q \in Nat, m \in Nat :
              /\ t = Total(purse) /\ v = purse[h] /\ r = ledger.reserve /\ n = short /\ q = Quote /\ m = rest
        BY <1>1, <1>6, <2>2
      <4>5. n = q - v
        BY <2>2, <4>4
      <4>6. (t - v + 0) + (r - n) + (m + q) = t + r + m
        BY <4>5
      <4> QED
        BY <4>1, <4>2, <4>3, <4>4, <4>6
    <3>4. OthersOK'
      BY <1>1, <1>2, <3>3 DEF OthersOK
    <3>5. ClaimsSound'
      <4>1. ledger'.claims = Append(ledger.claims, Fresh(h, "medical", short))
        BY <2>3, <3>1
      <4> QED
        BY <1>1, <1>3, <1>6, <2>1, <4>1, ClaimsGranted
    <3> QED
      BY <3>3, <3>4, <3>5, Balance
  <2>4. CASE ledger' = RolledBack(Granted(ledger, h, "medical", short), h, short) /\ UNCHANGED <<purse, rest>>
    <3>1. /\ LedgerOK(RolledBack(Granted(ledger, h, "medical", short), h, short))
          /\ RolledBack(Granted(ledger, h, "medical", short), h, short).claims = ledger.claims
          /\ RolledBack(Granted(ledger, h, "medical", short), h, short).reserve = ledger.reserve
      BY <1>1, <1>6, <2>1, RolledBackLaw
    <3>2. LedgerOK(ledger') /\ ledger'.claims = ledger.claims /\ ledger'.reserve = ledger.reserve
      BY <2>4, <3>1
    <3>3. OthersOK'
      BY <1>1, <1>2, <2>4 DEF OthersOK
    <3>4. ClaimsSound'
      BY <1>1, <1>3, <3>2, ClaimsStay
    <3> QED
      BY <2>4, <3>2, <3>3, <3>4, Balance
  <2>5. CASE ledger' = Indexed(ledger) /\ UNCHANGED <<purse, rest>>
    <3>1. LedgerOK(ledger') /\ ledger'.claims = ledger.claims /\ ledger'.reserve = ledger.reserve
      BY <1>1, <2>5, IndexedLaw
    <3>2. OthersOK'
      BY <1>1, <1>2, <2>5 DEF OthersOK
    <3>3. ClaimsSound'
      BY <1>1, <1>3, <3>1, ClaimsStay
    <3> QED
      BY <2>5, <3>1, <3>2, <3>3, Balance
  <2> QED
    BY <1>4, <1>5, <2>3, <2>4, <2>5
<1>9. CASE ledger' = Indexed(ledger) /\ UNCHANGED <<purse, rest>>
  <2>1. LedgerOK(ledger') /\ ledger'.claims = ledger.claims /\ ledger'.reserve = ledger.reserve
    BY <1>1, <1>9, IndexedLaw
  <2>2. OthersOK'
    BY <1>1, <1>2, <1>9 DEF OthersOK
  <2>3. ClaimsSound'
    BY <1>1, <1>3, <2>1, ClaimsStay
  <2> QED
    BY <1>9, <2>1, <2>2, <2>3, Balance
<1> QED
  BY <1>4, <1>5, <1>8, <1>9

LEMMA MoneyEntry == MInv /\ Gone /\ Entry => MInv'
<1> SUFFICES ASSUME MInv, Gone, Entry PROVE MInv'
  OBVIOUS
<1>1. /\ OthersOK /\ LedgerOK(ledger) /\ ClaimsSound /\ ledger.reserve \in Nat /\ rest \in Nat
      /\ Total(purse) \in Nat /\ purse \in [Borrowers -> Nat] /\ Households \subseteq Borrowers /\ Firms \subseteq Borrowers
  BY MInvFacts
<1>2. phase \notin Week /\ phase' = "open" /\ UNCHANGED <<mortgage, capacity>>
  BY DEF Entry, Moves, Week
<1>3. phase \in Week <=> phase' \in Week
  BY <1>2 DEF Week
<1>4. CASE UNCHANGED <<ledger, purse, rest, direct, cooldown, live>>
  <2>1. OthersOK'
    BY <1>1, <1>2, <1>4 DEF OthersOK
  <2>2. ClaimsSound'
    BY <1>1, <1>3, <1>4, ClaimsStay
  <2> QED
    BY <1>1, <1>4, <2>1, <2>2, Balance
<1>5. ASSUME NEW f \in Firms \ live, NEW p \in Principals, NEW startups \in BOOLEAN,
             live' = live \cup {f}, cooldown' = IF startups THEN [cooldown EXCEPT ![f] = 0] ELSE cooldown
      PROVE  /\ live' \subseteq Firms /\ Baseline \subseteq live' /\ cooldown' \in [Borrowers -> 0 .. Cooldown]
             /\ f \in Borrowers /\ p \in Nat /\ Interest(p) \in Nat /\ Installment[p] \in Nat
  <2>1. f \in Borrowers /\ p \in Nat /\ Interest(p) \in Nat /\ Installment[p] \in Nat
    BY <1>1, Constants, InterestIsNat, InstallmentPositive
  <2>2. live' \subseteq Firms /\ Baseline \subseteq live'
    BY <1>1, <1>5 DEF OthersOK
  <2>3. 0 \in 0 .. Cooldown
    BY Constants
  <2>4. cooldown \in [Borrowers -> 0 .. Cooldown]
    BY <1>1 DEF OthersOK
  <2>5. [cooldown EXCEPT ![f] = 0] \in [Borrowers -> 0 .. Cooldown]
    BY <2>3, <2>4
  <2> QED
    BY <1>5, <2>1, <2>2, <2>4, <2>5
<1>6. ASSUME NEW f \in Firms \ live, NEW p \in Principals, NEW startups \in BOOLEAN,
             live' = live \cup {f}, cooldown' = IF startups THEN [cooldown EXCEPT ![f] = 0] ELSE cooldown,
             Fundable(p), ledger' = Granted(ledger, f, "business", p),
             purse' = [purse EXCEPT ![f] = p], UNCHANGED <<rest, direct>>
      PROVE  MInv'
  <2>1. /\ live' \subseteq Firms /\ Baseline \subseteq live' /\ cooldown' \in [Borrowers -> 0 .. Cooldown]
        /\ f \in Borrowers /\ p \in Nat
    BY <1>5, <1>6
  <2>2. p <= ledger.reserve /\ "business" \in Kinds
    BY <1>6 DEF Fundable, Kinds
  <2>3. /\ LedgerOK(Granted(ledger, f, "business", p))
        /\ Granted(ledger, f, "business", p).claims = Append(ledger.claims, Fresh(f, "business", p))
        /\ Granted(ledger, f, "business", p).reserve = ledger.reserve - p
    BY <1>1, <2>1, <2>2, GrantedLaw
  <2>4. /\ [purse EXCEPT ![f] = p] \in [Borrowers -> Nat]
        /\ Total([purse EXCEPT ![f] = p]) = Total(purse) - purse[f] + p
        /\ purse[f] = 0
    BY <1>1, <2>1, OnePurse DEF Gone
  <2>5. /\ purse' \in [Borrowers -> Nat] /\ LedgerOK(ledger')
        /\ Total(purse') + ledger'.reserve + rest' = Total(purse) + ledger.reserve + rest
    BY <1>1, <1>6, <2>1, <2>3, <2>4
  <2>6. OthersOK'
    BY <1>1, <1>2, <1>6, <2>1, <2>5 DEF OthersOK
  <2>7. ClaimsSound'
    <3>1. ledger'.claims = Append(ledger.claims, Fresh(f, "business", p))
      BY <1>6, <2>3
    <3> QED
      BY <1>1, <1>3, <2>1, <2>2, <3>1, ClaimsGranted
  <2> QED
    BY <2>5, <2>6, <2>7, Balance
<1>7. ASSUME NEW f \in Firms \ live, NEW p \in Principals, NEW startups \in BOOLEAN,
             live' = live \cup {f}, cooldown' = IF startups THEN [cooldown EXCEPT ![f] = 0] ELSE cooldown,
             p <= rest, rest' = rest - p,
             direct' = [direct EXCEPT ![f] = [owed |-> p + Interest(p), pay |-> Installment[p]]],
             purse' = [purse EXCEPT ![f] = p], UNCHANGED ledger
      PROVE  MInv'
  <2>1. /\ live' \subseteq Firms /\ Baseline \subseteq live' /\ cooldown' \in [Borrowers -> 0 .. Cooldown]
        /\ f \in Borrowers /\ p \in Nat /\ Interest(p) \in Nat /\ Installment[p] \in Nat
    BY <1>5, <1>7
  <2>2. direct' \in [Firms -> [owed : Nat, pay : Nat]]
    <3>1. [owed |-> p + Interest(p), pay |-> Installment[p]] \in [owed : Nat, pay : Nat]
      BY <2>1
    <3>2. direct \in [Firms -> [owed : Nat, pay : Nat]]
      BY <1>1 DEF OthersOK
    <3> QED
      BY <1>7, <3>1, <3>2
  <2>3. /\ [purse EXCEPT ![f] = p] \in [Borrowers -> Nat]
        /\ Total([purse EXCEPT ![f] = p]) = Total(purse) - purse[f] + p
        /\ purse[f] = 0
    BY <1>1, <2>1, OnePurse DEF Gone
  <2>4. /\ purse' \in [Borrowers -> Nat] /\ rest' \in Nat
        /\ Total(purse') + ledger'.reserve + rest' = Total(purse) + ledger.reserve + rest
    BY <1>1, <1>7, <2>1, <2>3
  <2>5. OthersOK'
    BY <1>1, <1>2, <1>7, <2>1, <2>2, <2>4 DEF OthersOK
  <2>6. ClaimsSound'
    BY <1>1, <1>3, <1>7, ClaimsStay
  <2> QED
    BY <1>1, <1>7, <2>4, <2>5, <2>6, Balance
<1>8. ASSUME NEW f \in Firms \ live, NEW p \in Principals, NEW startups \in BOOLEAN, NEW h \in Households,
             live' = live \cup {f}, cooldown' = IF startups THEN [cooldown EXCEPT ![f] = 0] ELSE cooldown,
             purse[h] >= p, purse' = [purse EXCEPT ![f] = p, ![h] = @ - p], UNCHANGED <<ledger, rest, direct>>
      PROVE  MInv'
  <2>1. /\ live' \subseteq Firms /\ Baseline \subseteq live' /\ cooldown' \in [Borrowers -> 0 .. Cooldown]
        /\ f \in Borrowers /\ p \in Nat
    BY <1>5, <1>8
  <2>2. h \in Borrowers /\ f # h /\ purse[h] \in Nat /\ purse[f] = 0
    BY <1>1, Constants DEF Gone
  <2>3. PICK g : g = [purse EXCEPT ![f] = p]
    OBVIOUS
  <2>4. /\ g \in [Borrowers -> Nat] /\ Total(g) = Total(purse) - purse[f] + p
    BY <1>1, <2>1, <2>3, OnePurse
  <2>5. g[h] = purse[h] /\ purse[h] - p \in Nat
    BY <1>1, <1>8, <2>1, <2>2, <2>3
  <2>6. purse' = [g EXCEPT ![h] = purse[h] - p]
    BY <1>8, <2>3, <2>5
  <2>7. /\ purse' \in [Borrowers -> Nat]
        /\ Total(purse') = Total(g) - g[h] + (purse[h] - p)
    <3>1. IsFiniteSet(Borrowers) /\ g \in [Borrowers -> Int] /\ purse[h] - p \in Int
      BY <2>4, <2>5, Constants
    <3>2. Total([g EXCEPT ![h] = purse[h] - p]) = Total(g) - g[h] + (purse[h] - p)
      BY <2>2, <3>1, TotalExcept, ZenonT(60)
    <3> QED
      BY <2>4, <2>5, <2>6, <3>2
  <2>8. Total(purse') + ledger'.reserve + rest' = Total(purse) + ledger.reserve + rest
    BY <1>1, <1>8, <2>1, <2>2, <2>4, <2>5, <2>7
  <2>9. OthersOK'
    BY <1>1, <1>2, <1>8, <2>1, <2>7 DEF OthersOK
  <2>10. ClaimsSound'
    BY <1>1, <1>3, <1>8, ClaimsStay
  <2> QED
    BY <1>1, <1>8, <2>8, <2>9, <2>10, Balance
<1> HIDE DEF Gone
<1>9. CASE \E f \in Firms \ live, p \in Principals, startups \in BOOLEAN :
          /\ live' = live \cup {f}
          /\ cooldown' = IF startups THEN [cooldown EXCEPT ![f] = 0] ELSE cooldown
          /\ \/ /\ startups /\ Fundable(p)
                /\ ledger' = Granted(ledger, f, "business", p)
                /\ purse' = [purse EXCEPT ![f] = p] /\ UNCHANGED <<rest, direct>>
             \/ /\ ~startups /\ p <= rest /\ rest' = rest - p
                /\ direct' = [direct EXCEPT ![f] = [owed |-> p + Interest(p), pay |-> Installment[p]]]
                /\ purse' = [purse EXCEPT ![f] = p] /\ UNCHANGED ledger
             \/ /\ \E h \in Households : purse[h] >= p /\ purse' = [purse EXCEPT ![f] = p, ![h] = @ - p]
                /\ UNCHANGED <<ledger, rest, direct>>
  <2>1. PICK f \in Firms \ live, p \in Principals, startups \in BOOLEAN :
          /\ live' = live \cup {f}
          /\ cooldown' = IF startups THEN [cooldown EXCEPT ![f] = 0] ELSE cooldown
          /\ \/ /\ startups /\ Fundable(p)
                /\ ledger' = Granted(ledger, f, "business", p)
                /\ purse' = [purse EXCEPT ![f] = p] /\ UNCHANGED <<rest, direct>>
             \/ /\ ~startups /\ p <= rest /\ rest' = rest - p
                /\ direct' = [direct EXCEPT ![f] = [owed |-> p + Interest(p), pay |-> Installment[p]]]
                /\ purse' = [purse EXCEPT ![f] = p] /\ UNCHANGED ledger
             \/ /\ \E h \in Households : purse[h] >= p /\ purse' = [purse EXCEPT ![f] = p, ![h] = @ - p]
                /\ UNCHANGED <<ledger, rest, direct>>
    BY <1>9
  <2>2. CASE Fundable(p) /\ ledger' = Granted(ledger, f, "business", p)
             /\ purse' = [purse EXCEPT ![f] = p] /\ UNCHANGED <<rest, direct>>
    BY <1>6, <2>1, <2>2
  <2>3. CASE /\ p <= rest /\ rest' = rest - p
             /\ direct' = [direct EXCEPT ![f] = [owed |-> p + Interest(p), pay |-> Installment[p]]]
             /\ purse' = [purse EXCEPT ![f] = p] /\ UNCHANGED ledger
    BY <1>7, <2>1, <2>3
  <2>4. CASE /\ \E h \in Households : purse[h] >= p /\ purse' = [purse EXCEPT ![f] = p, ![h] = @ - p]
             /\ UNCHANGED <<ledger, rest, direct>>
    BY <1>8, <2>1, <2>4
  <2> QED
    BY <2>1, <2>2, <2>3, <2>4
<1>10. \/ UNCHANGED <<ledger, purse, rest, direct, cooldown, live>>
       \/ \E f \in Firms \ live, p \in Principals, startups \in BOOLEAN :
          /\ live' = live \cup {f}
          /\ cooldown' = IF startups THEN [cooldown EXCEPT ![f] = 0] ELSE cooldown
          /\ \/ /\ startups /\ Fundable(p)
                /\ ledger' = Granted(ledger, f, "business", p)
                /\ purse' = [purse EXCEPT ![f] = p] /\ UNCHANGED <<rest, direct>>
             \/ /\ ~startups /\ p <= rest /\ rest' = rest - p
                /\ direct' = [direct EXCEPT ![f] = [owed |-> p + Interest(p), pay |-> Installment[p]]]
                /\ purse' = [purse EXCEPT ![f] = p] /\ UNCHANGED ledger
             \/ /\ \E h \in Households : purse[h] >= p /\ purse' = [purse EXCEPT ![f] = p, ![h] = @ - p]
                /\ UNCHANGED <<ledger, rest, direct>>
  BY DEF Entry
<1> QED
  BY <1>4, <1>9, <1>10

\* The claims that accrue.
Grown(claims, who) == [i \in 1 .. Len(claims) |-> Accrued(claims[i], who)]

LEMMA AccruedOne ==
  ASSUME NEW c \in Sound, NEW who
  PROVE  /\ Accrued(c, who) \in Sound
         /\ Accrued(c, who).who = c.who /\ Accrued(c, who).kind = c.kind /\ Accrued(c, who).pay = c.pay
         /\ Accrued(c, who).fresh = c.fresh /\ Accrued(c, who).due = c.due /\ Accrued(c, who).missed = c.missed
         /\ Remaining(Accrued(c, who)) = Remaining(c)
              + IF Remaining(c) > 0 /\ c.who \in who /\ ~ c.fresh THEN Interest(c.principal) ELSE 0
         /\ Interest(c.principal) \in Nat
<1>1. /\ c \in Claim /\ c.who \in Borrowers /\ c.kind \in Kinds /\ c.principal \in Nat /\ c.interest \in Nat
      /\ c.pay \in Nat /\ c.pay > 0 /\ c.missed \in 0 .. Misses /\ c.missed \in Nat /\ c.fresh \in BOOLEAN /\ c.due \in Nat
      /\ Remaining(c) \in Nat
  BY SoundFields
<1>2. Interest(c.principal) \in Nat /\ (c.principal = 0 => Interest(c.principal) = 0)
  BY <1>1, InterestIsNat
<1>3. c.missed < Misses \/ Remaining(c) = 0
  BY DEF Sound
<1>4. Remaining(c) = c.principal + c.interest
  BY DEF Remaining
<1>5. CASE c.who \in who /\ ~ c.fresh
  <2> DEFINE d == [c EXCEPT !.interest = c.interest + Interest(c.principal)]
  <2>1. Accrued(c, who) = d
    BY <1>5 DEF Accrued
  <2>2. /\ d.who = c.who /\ d.kind = c.kind /\ d.pay = c.pay /\ d.fresh = c.fresh /\ d.due = c.due /\ d.missed = c.missed
        /\ d.principal = c.principal /\ d.interest = c.interest + Interest(c.principal)
    BY <1>1 DEF Claim
  <2>3. d \in Claim
    BY <1>1, <1>2 DEF Claim
  <2> HIDE DEF d
  <2>4. Remaining(d) = Remaining(c) + Interest(c.principal)
    BY <1>1, <1>2, <1>4, <2>2 DEF Remaining
  <2>5. Remaining(c) = 0 => Interest(c.principal) = 0
    BY <1>1, <1>2, <1>4
  <2>6. d \in Sound
    <3>1. d.missed < Misses \/ Remaining(d) = 0
      BY <1>3, <2>2, <2>4, <2>5
    <3> QED
      BY <1>1, <2>2, <2>3, <3>1 DEF Sound
  <2>7. Remaining(d) = Remaining(c) + IF Remaining(c) > 0 /\ c.who \in who /\ ~ c.fresh THEN Interest(c.principal) ELSE 0
    <3>1. CASE Remaining(c) > 0
      BY <1>5, <2>4, <3>1
    <3>2. CASE Remaining(c) = 0
      BY <2>4, <2>5, <3>2
    <3> QED
      BY <1>1, <3>1, <3>2
  <2> QED
    BY <1>2, <2>1, <2>2, <2>6, <2>7
<1>6. CASE ~ (c.who \in who /\ ~ c.fresh)
  <2>1. Accrued(c, who) = c
    BY <1>6 DEF Accrued
  <2>2. (IF Remaining(c) > 0 /\ c.who \in who /\ ~ c.fresh THEN Interest(c.principal) ELSE 0) = 0
    BY <1>6
  <2> QED
    BY <1>1, <1>2, <2>1, <2>2
<1> QED
  BY <1>5, <1>6

LEMMA AccruedLaw ==
  ASSUME NEW claims \in Seq(Sound), NEW who
  PROVE  /\ Grown(claims, who) \in Seq(Sound) /\ Len(Grown(claims, who)) = Len(claims)
         /\ Accrual(claims, who) \in Nat
         /\ SumOf(Grown(claims, who), AllDebt) = SumOf(claims, AllDebt) + Accrual(claims, who)
<1> DEFINE D == 1 .. Len(claims)
           T == {j \in Open(claims) : claims[j].who \in who /\ ~claims[j].fresh}
           f == [i \in T |-> Interest(claims[i].principal)]
           grown == Grown(claims, who)
           d == [x \in D |-> IF x \in T THEN f[x] ELSE 0]
<1>1. IsFiniteSet(D) /\ Len(claims) \in Nat /\ \A i \in D : claims[i] \in Sound
  BY Places
<1>2. ASSUME NEW i \in D
      PROVE  /\ Accrued(claims[i], who) \in Sound
             /\ Remaining(Accrued(claims[i], who)) = Remaining(claims[i])
                  + IF Remaining(claims[i]) > 0 /\ claims[i].who \in who /\ ~ claims[i].fresh
                    THEN Interest(claims[i].principal) ELSE 0
             /\ Interest(claims[i].principal) \in Nat
  <2>1. PICK c \in Sound : c = claims[i]
    BY <1>1
  <2>2. /\ Accrued(c, who) \in Sound
        /\ Remaining(Accrued(c, who)) = Remaining(c)
             + IF Remaining(c) > 0 /\ c.who \in who /\ ~ c.fresh THEN Interest(c.principal) ELSE 0
        /\ Interest(c.principal) \in Nat
    BY AccruedOne
  <2> QED
    BY <2>1, <2>2
<1>3. /\ T \in SUBSET D
      /\ \A i \in D : i \in T <=> Remaining(claims[i]) > 0 /\ claims[i].who \in who /\ ~ claims[i].fresh
  BY DEF Open
<1>4. grown = [i \in D |-> Accrued(claims[i], who)]
  BY DEF Grown
<1> HIDE DEF grown
<1>5. grown \in Seq(Sound) /\ Len(grown) = Len(claims) /\ \A i \in D : grown[i] = Accrued(claims[i], who) /\ grown[i] \in Sound
  <2>1. grown \in [D -> Sound]
    BY <1>2, <1>4
  <2>2. Len(grown) = Len(claims)
    BY <1>1, <1>4
  <2> QED
    BY <1>1, <1>4, <2>1, <2>2
<1>6. f \in [T -> Nat] /\ Accrual(claims, who) = Total(f) /\ IsFiniteSet(T)
  <2>1. IsFiniteSet(T)
    BY <1>1, <1>3, FS_Subset
  <2>2. f \in [T -> Nat]
    BY <1>2, <1>3
  <2> QED
    BY <2>1, <2>2 DEF Accrual
<1>7. \A i \in T : f[i] = Interest(claims[i].principal)
  OBVIOUS
<1>8. d \in [D -> Int] /\ \A i \in D : d[i] = IF i \in T THEN f[i] ELSE 0
  <2> HIDE DEF f, T, D
  <2> QED
    BY <1>6
<1>9. Total(f) \in Nat /\ Total(f) = Total(d)
  <2> HIDE DEF f, T, D
  <2>1. IsFiniteSet(D)
    BY <1>1
  <2>4. T \in SUBSET D /\ f \in [T -> Int]
    BY <1>3, <1>6
  <2> HIDE DEF d
  <2>5. T \in SUBSET D
    BY <2>4
  <2>6. f \in [T -> Int]
    BY <2>4
  <2>7. d \in [D -> Int]
    BY <1>8
  <2>8. \A x \in D : d[x] = IF x \in T THEN f[x] ELSE 0
    BY <1>8
  <2>2. Total(f) = Total(d)
    BY <2>1, <2>5, <2>6, <2>7, <2>8, TotalPadded, SMTT(90)
  <2>3. Total(f) \in Nat
    BY <1>6, TotalNat
  <2> QED
    BY <2>2, <2>3
<1>10. \A i \in D : AllDebt[grown[i]] = AllDebt[claims[i]] + d[i]
  <2> SUFFICES ASSUME NEW i \in D PROVE AllDebt[grown[i]] = AllDebt[claims[i]] + d[i]
    OBVIOUS
  <2>1. AllDebt[grown[i]] = Remaining(grown[i]) /\ AllDebt[claims[i]] = Remaining(claims[i])
    BY <1>1, <1>5 DEF AllDebt
  <2>2. Remaining(grown[i]) = Remaining(claims[i])
                  + IF Remaining(claims[i]) > 0 /\ claims[i].who \in who /\ ~ claims[i].fresh
                    THEN Interest(claims[i].principal) ELSE 0
    BY <1>2, <1>5
  <2>3. d[i] = IF Remaining(claims[i]) > 0 /\ claims[i].who \in who /\ ~ claims[i].fresh
                    THEN Interest(claims[i].principal) ELSE 0
    <3> HIDE DEF d, T, f
    <3> QED
      BY <1>3, <1>7, <1>8
  <2> HIDE DEF d
  <2> QED
    BY <2>1, <2>2, <2>3
<1>11. SumOf(grown, AllDebt) = SumOf(claims, AllDebt) + Total(d)
  <2>1. AllDebt \in [Sound -> Int]
    BY WeightsTyped
  <2>2. d \in [1 .. Len(claims) -> Int] /\ \A i \in 1 .. Len(claims) : AllDebt[grown[i]] = AllDebt[claims[i]] + d[i]
    BY <1>8, <1>10
  <2>3. grown \in Seq(Sound) /\ Len(grown) = Len(claims)
    BY <1>5
  <2> HIDE DEF d, D
  <2>4. \A e \in [1 .. Len(claims) -> Int] :
          (\A i \in 1 .. Len(claims) : AllDebt[grown[i]] = AllDebt[claims[i]] + e[i])
             => SumOf(grown, AllDebt) = SumOf(claims, AllDebt) + Total(e)
    BY <2>1, <2>3, SumMoved
  <2> QED
    BY <2>2, <2>4
<1> QED
  BY <1>5, <1>6, <1>9, <1>11 DEF grown

\* A new week: the claims are no longer fresh, those of the households accrue, and what falls due is noted.
Aged(claims) == [i \in 1 .. Len(claims) |-> [claims[i] EXCEPT !.fresh = FALSE]]
NotedAll(claims) == [i \in 1 .. Len(claims) |->
                       [claims[i] EXCEPT !.due = IF claims[i].who \in Households THEN DueOf(claims[i]) ELSE 0]]

LEMMA AgedLaw ==
  ASSUME NEW claims \in Seq(Sound)
  PROVE  /\ Aged(claims) \in Seq(Sound) /\ Len(Aged(claims)) = Len(claims)
         /\ SumOf(Aged(claims), AllDebt) = SumOf(claims, AllDebt)
<1> DEFINE D == 1 .. Len(claims)
           t == Aged(claims)
<1>1. Len(claims) \in Nat /\ \A i \in D : claims[i] \in Sound
  BY Places
<1>2. ASSUME NEW c \in Sound
      PROVE  /\ [c EXCEPT !.fresh = FALSE] \in Sound
             /\ Remaining([c EXCEPT !.fresh = FALSE]) = Remaining(c)
  <2> DEFINE d == [c EXCEPT !.fresh = FALSE]
  <2>1. c \in Claim /\ c.pay > 0 /\ (c.missed < Misses \/ Remaining(c) = 0)
    BY DEF Sound
  <2>2. d \in Claim /\ d.pay = c.pay /\ d.missed = c.missed /\ d.principal = c.principal /\ d.interest = c.interest
    BY <2>1 DEF Claim
  <2>3. Remaining(d) = Remaining(c)
    BY <2>2 DEF Remaining
  <2> HIDE DEF d
  <2>4. d \in Sound
    BY <2>1, <2>2, <2>3 DEF Sound
  <2> QED
    BY <2>3, <2>4 DEF d
<1>3. t = [i \in D |-> [claims[i] EXCEPT !.fresh = FALSE]]
  BY DEF Aged
<1> HIDE DEF t
<1>4. t \in Seq(Sound) /\ Len(t) = Len(claims)
  <2>1. t \in [D -> Sound]
    BY <1>1, <1>2, <1>3
  <2>2. Len(t) = Len(claims)
    BY <1>1, <1>3
  <2> QED
    BY <1>1, <2>1, <2>2
<1>5. \A i \in 1 .. Len(claims) : AllDebt[t[i]] = AllDebt[claims[i]]
  BY <1>1, <1>2, <1>3 DEF AllDebt
<1>6. SumOf(t, AllDebt) = SumOf(claims, AllDebt)
  <2>1. AllDebt \in [Sound -> Int]
    BY WeightsTyped
  <2> QED
    BY <1>4, <1>5, <2>1, SumUnmoved
<1> QED
  BY <1>4, <1>6 DEF t

LEMMA NotedLaw ==
  ASSUME NEW claims \in Seq(Sound)
  PROVE  /\ NotedAll(claims) \in Seq(Noted) /\ NotedAll(claims) \in Seq(Sound) /\ Len(NotedAll(claims)) = Len(claims)
         /\ SumOf(NotedAll(claims), AllDebt) = SumOf(claims, AllDebt)
<1> DEFINE D == 1 .. Len(claims)
           t == NotedAll(claims)
           note(c) == [c EXCEPT !.due = IF c.who \in Households THEN DueOf(c) ELSE 0]
<1>1. Len(claims) \in Nat /\ \A i \in D : claims[i] \in Sound
  BY Places
<1>2. ASSUME NEW c \in Sound
      PROVE  /\ note(c) \in Noted /\ note(c) \in Sound
             /\ Remaining(note(c)) = Remaining(c)
  <2> DEFINE d == note(c)
  <2>1. c \in Claim /\ c.pay > 0 /\ (c.missed < Misses \/ Remaining(c) = 0)
    BY DEF Sound
  <2>2. DueOf(c) \in Nat
    BY SoundFields
  <2>3. /\ d \in Claim /\ d.pay = c.pay /\ d.missed = c.missed /\ d.principal = c.principal /\ d.interest = c.interest
        /\ d.who = c.who /\ d.fresh = c.fresh /\ d.due = IF c.who \in Households THEN DueOf(c) ELSE 0
    BY <2>1, <2>2 DEF Claim
  <2> HIDE DEF d
  <2>4. Remaining(d) = Remaining(c)
    BY <2>3 DEF Remaining
  <2>5. d \in Sound
    BY <2>1, <2>3, <2>4 DEF Sound
  <2>6. DueOf(d) = DueOf(c)
    BY <2>3, <2>4 DEF DueOf
  <2>7. d \in Noted
    BY <2>3, <2>5, <2>6 DEF Noted
  <2> QED
    BY <2>4, <2>5, <2>7 DEF d
<1>3. t = [i \in D |-> note(claims[i])]
  BY DEF NotedAll
<1> HIDE DEF t, note
<1>4. t \in Seq(Noted) /\ t \in Seq(Sound) /\ Len(t) = Len(claims)
  <2>1. t \in [D -> Noted]
    BY <1>1, <1>2, <1>3
  <2>2. Len(t) = Len(claims)
    BY <1>1, <1>3
  <2>3. t \in Seq(Noted)
    BY <1>1, <2>1, <2>2
  <2> QED
    BY <2>2, <2>3, SoundLists
<1>5. \A i \in 1 .. Len(claims) : AllDebt[t[i]] = AllDebt[claims[i]]
  BY <1>1, <1>2, <1>3 DEF AllDebt
<1>6. SumOf(t, AllDebt) = SumOf(claims, AllDebt)
  <2>1. AllDebt \in [Sound -> Int]
    BY WeightsTyped
  <2> QED
    BY <1>4, <1>5, <2>1, SumUnmoved
<1> QED
  BY <1>4, <1>6 DEF t

LEMMA OpenWeekLedger ==
  OpenWeek => ledger' = [ledger EXCEPT !.claims = NotedAll(Grown(Aged(ledger.claims), Households)),
                                       !.booked = @ + Accrual(Aged(ledger.claims), Households),
                                       !.index = NoIndex]
<1> QED
  BY Zenon DEF OpenWeek, NotedAll, Grown, Aged

LEMMA MoneyOpenWeek == MInv /\ OpenWeek => MInv'
<1> SUFFICES ASSUME MInv, OpenWeek PROVE MInv'
  OBVIOUS
<1>1. /\ OthersOK /\ LedgerOK(ledger) /\ ledger.claims \in Seq(Sound) /\ ledger.booked \in Nat
  BY MInvFacts
<1>2. /\ phase' = "lend" /\ UNCHANGED <<purse, rest, direct, live>>
      /\ capacity' \in [Borrowers -> Capacities]
      /\ cooldown' = [b \in Borrowers |-> Max({0, cooldown[b] - 1})]
      /\ mortgage' = [f \in Firms |-> [mortgage[f] EXCEPT !.missed = FALSE]]
  BY DEF OpenWeek, Moves
<1>3. PICK a : a = Aged(ledger.claims)
  OBVIOUS
<1>4. a \in Seq(Sound) /\ SumOf(a, AllDebt) = SumOf(ledger.claims, AllDebt)
  BY <1>1, <1>3, AgedLaw
<1>5. PICK g : g = Grown(a, Households)
  OBVIOUS
<1>6. g \in Seq(Sound) /\ Accrual(a, Households) \in Nat /\ SumOf(g, AllDebt) = SumOf(a, AllDebt) + Accrual(a, Households)
  BY <1>4, <1>5, AccruedLaw
<1>7. NotedAll(g) \in Seq(Noted) /\ NotedAll(g) \in Seq(Sound) /\ SumOf(NotedAll(g), AllDebt) = SumOf(g, AllDebt)
  BY <1>6, NotedLaw
<1>8. /\ ledger'.claims = NotedAll(g) /\ ledger'.booked = ledger.booked + Accrual(a, Households)
      /\ ledger'.index = NoIndex /\ ledger'.reserve = ledger.reserve /\ ledger'.mirror = ledger.mirror
      /\ DOMAIN ledger' = DOMAIN ledger
  BY <1>1, <1>3, <1>5, OpenWeekLedger DEF LedgerOK
<1>9. LedgerOK(ledger')
  <2>1. ledger'.booked = SumOf(ledger'.claims, AllDebt) /\ ledger'.booked \in Nat
    BY <1>1, <1>4, <1>6, <1>7, <1>8 DEF LedgerOK
  <2> QED
    BY <1>1, <1>7, <1>8, <2>1 DEF LedgerOK
<1>10. ClaimsSound'
  <2>1. phase' \in Week
    BY <1>2 DEF Week
  <2> QED
    BY <1>7, <1>8, <2>1 DEF ClaimsSound
<1>11. OthersOK'
  <2>1. capacity' \in [Borrowers -> Nat]
    BY <1>2, Constants
  <2>2. mortgage' \in [Firms -> [owed : Nat, pay : Nat, missed : BOOLEAN]]
    BY <1>1, <1>2 DEF OthersOK
  <2>3. cooldown' \in [Borrowers -> 0 .. Cooldown]
    <3>1. ASSUME NEW b \in Borrowers PROVE Max({0, cooldown[b] - 1}) \in 0 .. Cooldown
      <4>1. cooldown[b] \in 0 .. Cooldown /\ Cooldown \in Nat
        BY <1>1, Constants DEF OthersOK
      <4>2. cooldown[b] - 1 \in Int
        BY <4>1
      <4>3. Max({0, cooldown[b] - 1}) = IF cooldown[b] - 1 <= 0 THEN 0 ELSE cooldown[b] - 1
        BY <4>2, OrZero
      <4> QED
        BY <4>1, <4>3
    <3> QED
      BY <1>2, <3>1
  <2> QED
    BY <1>1, <1>2, <2>1, <2>2, <2>3 DEF OthersOK
<1> QED
  BY <1>2, <1>8, <1>9, <1>10, <1>11, Balance

\* What is served of a mortgage pays its interest and some of what is owed.
LEMMA MortgageDues ==
  ASSUME OthersOK, NEW f \in Firms
  PROVE  /\ MortgageInterest(f) \in Nat /\ MortgageDue(f) \in Nat
         /\ MortgageInterest(f) <= MortgageDue(f)
         /\ mortgage[f].owed - (MortgageDue(f) - MortgageInterest(f)) \in Nat
<1>1. mortgage[f].owed \in Nat /\ mortgage[f].pay \in Nat
  BY MortgageFields
<1>2. Interest(mortgage[f].owed) \in Nat
  BY <1>1, InterestIsNat
<1>3. PICK x \in Int : x = MortgageInterest(f)
                        /\ x = IF Interest(mortgage[f].owed) <= mortgage[f].pay THEN Interest(mortgage[f].owed) ELSE mortgage[f].pay
  <2>1. Interest(mortgage[f].owed) \in Int /\ mortgage[f].pay \in Int
    BY <1>1, <1>2
  <2>2. Min({Interest(mortgage[f].owed), mortgage[f].pay})
          = IF Interest(mortgage[f].owed) <= mortgage[f].pay THEN Interest(mortgage[f].owed) ELSE mortgage[f].pay
    BY <2>1, LesserOfTwo
  <2> QED
    BY <2>1, <2>2 DEF MortgageInterest
<1>4. x \in Nat /\ x <= mortgage[f].pay
  BY <1>1, <1>2, <1>3
<1>5. MortgageDue(f) = IF mortgage[f].pay <= mortgage[f].owed + x THEN mortgage[f].pay ELSE mortgage[f].owed + x
  <2>1. mortgage[f].pay \in Int /\ mortgage[f].owed + x \in Int
    BY <1>1, <1>4
  <2>2. Min({mortgage[f].pay, mortgage[f].owed + x})
          = IF mortgage[f].pay <= mortgage[f].owed + x THEN mortgage[f].pay ELSE mortgage[f].owed + x
    BY <2>1, LesserOfTwo
  <2> QED
    BY <1>3, <2>2 DEF MortgageDue
<1> QED
  BY <1>1, <1>3, <1>4, <1>5

LEMMA MoneyServiceMortgages == MInv /\ ServiceMortgages => MInv'
<1> SUFFICES ASSUME MInv, ServiceMortgages PROVE MInv'
  OBVIOUS
<1>1. /\ OthersOK /\ LedgerOK(ledger) /\ ClaimsSound /\ ledger.reserve \in Nat /\ rest \in Nat
      /\ Total(purse) \in Nat /\ live \subseteq Firms /\ Firms \subseteq Borrowers
      /\ ledger.claims \in Seq(Sound) /\ purse \in [Borrowers -> Nat]
  BY MInvFacts
<1>2. phase \in Week /\ phase' = "homes" /\ UNCHANGED <<rest, direct, capacity, cooldown, live>>
  BY DEF ServiceMortgages, Moves, Week
<1> DEFINE debtors == {f \in live : mortgage[f].owed > 0}
           served  == {f \in debtors : purse[f] >= MortgageDue(f)}
           after   == [f \in Firms |-> IF f \in served
                        THEN mortgage[f].owed - (MortgageDue(f) - MortgageInterest(f)) ELSE mortgage[f].owed]
           dues    == [f \in served |-> MortgageDue(f)]
           paid    == [b \in Borrowers |-> IF b \in served THEN MortgageDue(b) ELSE 0]
<1>3. /\ mortgage' = [f \in Firms |-> IF after[f] = 0 THEN NoMortgage
                          ELSE [mortgage[f] EXCEPT !.owed = after[f], !.missed = f \in debtors \ served]]
      /\ purse' = [b \in Borrowers |-> IF b \in served THEN purse[b] - MortgageDue(b) ELSE purse[b]]
      /\ ledger' = [ledger EXCEPT
           !.reserve = @ + Total(dues),
           !.mirror = [x \in DOMAIN @ |-> IF x[1] \in debtors /\ x[2] = "business"
                         THEN after[x[1]] + Owed(ledger.claims, x[1], {"business"}) ELSE @[x]]]
  BY Zenon DEF ServiceMortgages
<1>4. \A f \in Firms : /\ MortgageDue(f) \in Nat
                       /\ mortgage[f].owed - (MortgageDue(f) - MortgageInterest(f)) \in Nat
                       /\ mortgage[f].owed \in Nat /\ mortgage[f].pay \in Nat
  BY <1>1, MortgageDues, MortgageFields
<1>5. served \in SUBSET Borrowers /\ debtors \in SUBSET Firms /\ IsFiniteSet(Borrowers)
  BY <1>1, Constants
<1>6. after \in [Firms -> Nat]
  BY <1>4
<1>7. dues \in [served -> Nat]
  BY <1>1, <1>4
<1>8. /\ paid \in [Borrowers -> Nat] /\ \A b \in Borrowers : paid[b] = IF b \in served THEN dues[b] ELSE 0
      /\ \A b \in Borrowers : paid[b] <= purse[b] /\ purse'[b] = purse[b] - paid[b]
  <2>1. ASSUME NEW b \in Borrowers
        PROVE  /\ paid[b] \in Nat /\ paid[b] = (IF b \in served THEN dues[b] ELSE 0)
               /\ paid[b] <= purse[b] /\ purse'[b] = purse[b] - paid[b]
    <3>1. purse[b] \in Nat
      BY <1>1
    <3>2. CASE b \in served
      <4>1. b \in Firms /\ MortgageDue(b) \in Nat /\ MortgageDue(b) <= purse[b]
        BY <1>1, <1>4, <3>1, <3>2
      <4> QED
        BY <1>3, <3>2, <4>1
    <3>3. CASE b \notin served
      <4>1. purse'[b] = purse[b] /\ paid[b] = 0
        BY <1>3, <3>3
      <4> HIDE DEF paid, served, dues
      <4> QED
        BY <3>1, <3>3, <4>1
    <3> QED
      BY <3>2, <3>3
  <2> HIDE DEF served, dues
  <2> QED
    BY <2>1
<1> HIDE DEF debtors, served, after, dues, paid
<1>9. Total(dues) = Total(paid)
  <2>1. dues \in [served -> Int]
    BY <1>7
  <2>2. paid \in [Borrowers -> Int]
    BY <1>8
  <2>3. served \in SUBSET Borrowers
    BY <1>5
  <2>4. \A x \in Borrowers : paid[x] = IF x \in served THEN dues[x] ELSE 0
    BY <1>8
  <2>5. IsFiniteSet(Borrowers)
    BY <1>5
  <2> QED
    BY <2>1, <2>2, <2>3, <2>4, <2>5, TotalPadded
<1>10. purse' \in [Borrowers -> Nat]
  <2>1. purse' = [b \in Borrowers |-> purse'[b]]
    BY <1>3
  <2>2. \A b \in Borrowers : purse'[b] \in Nat
    BY <1>1, <1>8
  <2> QED
    BY <2>1, <2>2
<1>11. Total(purse') = Total(purse) - Total(paid)
  <2>1. purse \in [Borrowers -> Int] /\ purse' \in [Borrowers -> Int] /\ paid \in [Borrowers -> Int]
    BY <1>1, <1>8, <1>10
  <2>2. \A x \in Borrowers : purse'[x] = purse[x] - paid[x]
    BY <1>8
  <2>3. \A f, g, h \in [Borrowers -> Int] : (\A x \in Borrowers : h[x] = f[x] - g[x]) => Total(h) = Total(f) - Total(g)
    BY <1>5, TotalPointwise
  <2> QED
    BY <2>1, <2>2, <2>3
<1>12. Total(paid) \in Nat
  BY <1>5, <1>8, TotalNat
<1>13. /\ ledger'.claims = ledger.claims /\ ledger'.booked = ledger.booked /\ ledger'.index = ledger.index
       /\ ledger'.reserve = ledger.reserve + Total(dues) /\ DOMAIN ledger' = DOMAIN ledger
       /\ ledger'.mirror = [x \in Borrowers \X Kinds |-> IF x[1] \in debtors /\ x[2] = "business"
                         THEN after[x[1]] + Owed(ledger.claims, x[1], {"business"}) ELSE ledger.mirror[x]]
  <2>1. DOMAIN ledger.mirror = Borrowers \X Kinds
    BY <1>1 DEF LedgerOK
  <2> QED
    BY <1>1, <1>3, <2>1 DEF LedgerOK
<1>14. ledger'.mirror \in [Borrowers \X Kinds -> Nat]
  <2>1. ASSUME NEW x \in Borrowers \X Kinds
        PROVE  (IF x[1] \in debtors /\ x[2] = "business"
                THEN after[x[1]] + Owed(ledger.claims, x[1], {"business"}) ELSE ledger.mirror[x]) \in Nat
    <3>1. ledger.mirror[x] \in Nat
      BY <1>1 DEF LedgerOK
    <3>2. ASSUME x[1] \in debtors PROVE after[x[1]] + Owed(ledger.claims, x[1], {"business"}) \in Nat
      <4>1. after[x[1]] \in Nat
        BY <1>5, <1>6, <3>2
      <4>2. Owed(ledger.claims, x[1], {"business"}) \in Nat
        BY <1>1, NothingOwed
      <4> QED
        BY <4>1, <4>2
    <3> QED
      BY <3>1, <3>2
  <2> QED
    BY <1>13, <2>1
<1>15. LedgerOK(ledger')
  <2>1. ledger'.reserve \in Nat
    BY <1>1, <1>9, <1>12, <1>13
  <2> QED
    BY <1>1, <1>13, <1>14, <2>1 DEF LedgerOK
<1>16. mortgage' \in [Firms -> [owed : Nat, pay : Nat, missed : BOOLEAN]]
  <2>1. ASSUME NEW f \in Firms
        PROVE (IF after[f] = 0 THEN NoMortgage
                          ELSE [mortgage[f] EXCEPT !.owed = after[f], !.missed = f \in debtors \ served])
                 \in [owed : Nat, pay : Nat, missed : BOOLEAN]
    <3>1. mortgage[f] \in [owed : Nat, pay : Nat, missed : BOOLEAN] /\ after[f] \in Nat
      BY <1>1, <1>6 DEF OthersOK
    <3>2. [mortgage[f] EXCEPT !.owed = after[f], !.missed = f \in debtors \ served] \in [owed : Nat, pay : Nat, missed : BOOLEAN]
      <4>1. ASSUME NEW m \in BOOLEAN
            PROVE  [mortgage[f] EXCEPT !.owed = after[f], !.missed = m] \in [owed : Nat, pay : Nat, missed : BOOLEAN]
        BY <3>1
      <4>2. CASE f \in debtors \ served
        <5>1. (f \in debtors \ served) = TRUE
          BY <4>2
        <5> QED
          BY <4>1, <5>1
      <4>3. CASE f \notin debtors \ served
        <5>1. (f \in debtors \ served) = FALSE
          BY <4>3
        <5> QED
          BY <4>1, <5>1
      <4> QED
        BY <4>2, <4>3
    <3>3. NoMortgage \in [owed : Nat, pay : Nat, missed : BOOLEAN]
      BY DEF NoMortgage
    <3> QED
      BY <3>2, <3>3
  <2> QED
    BY <1>3, <2>1
<1>17. OthersOK'
  BY <1>1, <1>2, <1>10, <1>16 DEF OthersOK
<1>18. ClaimsSound'
  <2>1. phase \in Week <=> phase' \in Week
    BY <1>2 DEF Week
  <2> QED
    BY <1>1, <1>13, <2>1, ClaimsStay
<1>19. Total(purse') + ledger'.reserve + rest' = Total(purse) + ledger.reserve + rest
  BY <1>1, <1>2, <1>9, <1>11, <1>12, <1>13
<1> QED
  BY <1>15, <1>17, <1>18, <1>19, Balance

\* The ledger after a collection, and the purses.
LEMMA CollectedLedger ==
  ASSUME OthersOK, NEW l, NEW who, NEW due, LedgerOK(l), Collectible(l, who, due)
  PROVE  /\ LedgerOK(Collection(l, who, due).ledger)
         /\ Collection(l, who, due).ledger.claims = SettledAll(l, who, due)
         /\ Collection(l, who, due).ledger.reserve = l.reserve + Total(TakenOf(l, who, due))
         /\ Collection(l, who, due).ledger.mirror = Synced(l.mirror, SettledAll(l, who, due), Debtors(l, who, due))
         /\ Collection(l, who, due).ledger.index = l.index
<1>1. PICK c, t, m, d : c = Collection(l, who, due).ledger /\ t = TakenOf(l, who, due)
                        /\ m = SettledAll(l, who, due) /\ d = Debtors(l, who, due)
  OBVIOUS
<1>2. PICK lost : lost = LostIn(l, who, due)
  OBVIOUS
<1>3. c = [l EXCEPT !.claims = m, !.booked = @ - Total(t) - lost, !.reserve = @ + Total(t), !.mirror = Synced(@, m, d)]
  <2>1. Collection(l, who, due).ledger =
              [l EXCEPT !.claims = SettledAll(l, who, due),
                        !.booked = @ - Total(TakenOf(l, who, due)) - LostIn(l, who, due),
                        !.reserve = @ + Total(TakenOf(l, who, due)),
                        !.mirror = Synced(@, SettledAll(l, who, due), Debtors(l, who, due))]
    BY CollectionLedger
  <2> QED
    BY <1>1, <1>2, <2>1
<1>4. /\ c.claims = m /\ c.booked = l.booked - Total(t) - lost /\ c.reserve = l.reserve + Total(t)
      /\ c.mirror = Synced(l.mirror, m, d) /\ c.index = l.index /\ DOMAIN c = DOMAIN l
  BY <1>3 DEF LedgerOK
<1>5. m \in Seq(Idle)
  BY <1>1, CollectedClaims
<1>6. m \in Seq(Sound)
  BY <1>5, SoundLists
<1>7. lost \in Nat /\ Total(t) \in Nat /\ SumOf(l.claims, AllDebt) = SumOf(m, AllDebt) + Total(t) + lost
  BY <1>1, <1>2, CollectedBooks
<1>8. SumOf(m, AllDebt) \in Nat
  BY <1>6, WeightsTyped, SumTyped
<1>9. c.mirror \in [Borrowers \X Kinds -> Nat]
  <2>1. l.mirror \in [Borrowers \X Kinds -> Nat]
    BY DEF LedgerOK
  <2>2. Synced(l.mirror, m, d) \in [Borrowers \X Kinds -> Nat]
    BY <1>6, <2>1, SyncedLaw
  <2> QED
    BY <1>4, <2>2
<1>10. c.booked = SumOf(m, AllDebt) /\ c.booked \in Nat /\ c.reserve \in Nat
  BY <1>4, <1>7, <1>8 DEF LedgerOK
<1>11. LedgerOK(c)
  BY <1>4, <1>6, <1>9, <1>10 DEF LedgerOK
<1> QED
  BY <1>1, <1>4, <1>11

LEMMA PursesAfter ==
  ASSUME OthersOK, NEW l, NEW who, NEW due, Collectible(l, who, due), NEW p,
         p = [b \in Borrowers |-> purse[b] - Collection(l, who, due).taken[b]]
  PROVE  p \in [Borrowers -> Nat] /\ Total(p) = Total(purse) - Total(TakenOf(l, who, due))
<1>1. PICK t : t = TakenOf(l, who, due)
  OBVIOUS
<1>2. t \in [Borrowers -> Nat] /\ \A b \in Borrowers : t[b] <= purse[b]
  BY <1>1, PaidLaw
<1>3. p = [b \in Borrowers |-> purse[b] - t[b]]
  <2>1. Collection(l, who, due).taken = TakenOf(l, who, due)
    BY CollectionTakes
  <2> QED
    BY <1>1, <2>1
<1>4. purse \in [Borrowers -> Nat] /\ IsFiniteSet(Borrowers)
  BY Constants DEF OthersOK
<1>5. p \in [Borrowers -> Nat] /\ \A b \in Borrowers : p[b] = purse[b] - t[b]
  BY <1>2, <1>3, <1>4
<1>6. Total(p) = Total(purse) - Total(t)
  <2>1. purse \in [Borrowers -> Int] /\ p \in [Borrowers -> Int] /\ t \in [Borrowers -> Int]
    BY <1>2, <1>4, <1>5
  <2>2. \A f, g, h \in [Borrowers -> Int] : (\A x \in Borrowers : h[x] = f[x] - g[x]) => Total(h) = Total(f) - Total(g)
    BY <1>4, TotalPointwise
  <2> QED
    BY <1>5, <2>1, <2>2
<1> QED
  BY <1>1, <1>5, <1>6

HouseDues(claims) == [i \in 1 .. Len(claims) |-> claims[i].due]

LEMMA HouseDuesLaw ==
  ASSUME OthersOK, LedgerOK(ledger), ledger.claims \in Seq(Noted)
  PROVE  Collectible(ledger, Households, HouseDues(ledger.claims))
<1>1. \A i \in 1 .. Len(ledger.claims) : ledger.claims[i] \in Noted
  BY Places
<1>2. ASSUME NEW c \in Noted
      PROVE  c.due \in Nat /\ c.due <= Remaining(c) /\ (c.due > 0 => c.who \in Households)
  <2>1. c \in Sound /\ c.due = IF c.who \in Households THEN DueOf(c) ELSE 0
    BY DEF Noted
  <2>2. DueOf(c) \in Nat /\ DueOf(c) <= Remaining(c) /\ Remaining(c) \in Nat
    BY <2>1, SoundFields
  <2> QED
    BY <2>1, <2>2
<1>3. Households \in SUBSET Borrowers
  BY Constants
<1> QED
  BY <1>1, <1>2, <1>3 DEF Collectible, HouseDues, LedgerOK, OthersOK

LEMMA BarredTyped ==
  ASSUME OthersOK, NEW S
  PROVE  Barred(S) \in [Borrowers -> 0 .. Cooldown]
<1>1. Cooldown \in 0 .. Cooldown
  BY Constants
<1> QED
  BY <1>1 DEF Barred, OthersOK

LEMMA MoneyCollectHouseholdDues == MInv /\ CollectHouseholdDues => MInv'
<1> SUFFICES ASSUME MInv, CollectHouseholdDues PROVE MInv'
  OBVIOUS
<1>1. /\ OthersOK /\ LedgerOK(ledger) /\ ClaimsSound /\ ledger.reserve \in Nat /\ rest \in Nat
      /\ Total(purse) \in Nat
  BY MInvFacts
<1>2. phase \in Week /\ phase' = "late" /\ UNCHANGED <<rest, mortgage, direct, capacity, live>>
  BY DEF CollectHouseholdDues, Moves, Week
<1>3. PICK due : due = HouseDues(ledger.claims)
  OBVIOUS
<1>4. /\ ledger' = Collection(ledger, Households, due).ledger
      /\ purse' = [b \in Borrowers |-> purse[b] - Collection(ledger, Households, due).taken[b]]
      /\ cooldown' = Barred(Collection(ledger, Households, due).defaulted)
  BY <1>3 DEF CollectHouseholdDues, HouseDues
<1>5. Collectible(ledger, Households, due)
  <2>1. ledger.claims \in Seq(Noted)
    BY <1>1, <1>2 DEF ClaimsSound
  <2> QED
    BY <1>1, <1>3, <2>1, HouseDuesLaw
<1>6. /\ LedgerOK(Collection(ledger, Households, due).ledger)
      /\ Collection(ledger, Households, due).ledger.claims = SettledAll(ledger, Households, due)
      /\ Collection(ledger, Households, due).ledger.reserve = ledger.reserve + Total(TakenOf(ledger, Households, due))
  BY <1>1, <1>5, CollectedLedger
<1>7. purse' \in [Borrowers -> Nat] /\ Total(purse') = Total(purse) - Total(TakenOf(ledger, Households, due))
  BY <1>1, <1>4, <1>5, PursesAfter
<1>8. Total(TakenOf(ledger, Households, due)) \in Nat
  BY <1>5, CollectedBooks
<1>9. LedgerOK(ledger') /\ Total(purse') + ledger'.reserve + rest' = Total(purse) + ledger.reserve + rest
  BY <1>1, <1>2, <1>4, <1>6, <1>7, <1>8
<1>10. ClaimsSound'
  <2>1. SettledAll(ledger, Households, due) \in Seq(Idle)
    BY <1>5, CollectedClaims
  <2>2. phase' \notin Week
    BY <1>2 DEF Week
  <2> QED
    BY <1>4, <1>6, <2>1, <2>2 DEF ClaimsSound
<1>11. OthersOK'
  <2>1. cooldown' \in [Borrowers -> 0 .. Cooldown]
    BY <1>1, <1>4, BarredTyped
  <2> QED
    BY <1>1, <1>2, <1>7, <2>1 DEF OthersOK
<1> QED
  BY <1>9, <1>10, <1>11, Balance

\* Dropping the settled claims changes no sum of what is open.
LEMMA KeptOpen ==
  ASSUME NEW claims \in Seq(Sound), NEW w \in [Sound -> Int]
  PROVE  (\A c \in Sound : Remaining(c) = 0 => w[c] = 0) => SumOf(Kept(claims, Open(claims)), w) = SumOf(claims, w)
<1>1. Open(claims) \in SUBSET (1 .. Len(claims))
  BY DEF Open
<1>2. (\A i \in 1 .. Len(claims) : w[claims[i]] = IF i \in Open(claims) THEN w[claims[i]] ELSE 0)
        => SumOf(Kept(claims, Open(claims)), w) = SumOf(claims, w)
  BY <1>1, SumKept
<1>3. \A i \in 1 .. Len(claims) : claims[i] \in Sound /\ Remaining(claims[i]) \in Nat
  BY Places, SoundFields
<1>4. \A n \in Nat : n > 0 \/ n = 0
  OBVIOUS
<1>5. \A i \in 1 .. Len(claims) : i \in Open(claims) \/ Remaining(claims[i]) = 0
  BY <1>3, <1>4 DEF Open
<1> QED
  BY <1>2, <1>3, <1>5

\* The ledger of which some claims are dropped.
LEMMA KeptLedger ==
  ASSUME NEW l, LedgerOK(l), l.claims \in Seq(Idle)
  PROVE  /\ LedgerOK([l EXCEPT !.claims = Kept(@, Open(@))])
         /\ [l EXCEPT !.claims = Kept(@, Open(@))].claims = Kept(l.claims, Open(l.claims))
         /\ [l EXCEPT !.claims = Kept(@, Open(@))].reserve = l.reserve
         /\ Kept(l.claims, Open(l.claims)) \in Seq(Idle)
<1>1. PICK k : k = [l EXCEPT !.claims = Kept(@, Open(@))]
  OBVIOUS
<1>2. /\ k.claims = Kept(l.claims, Open(l.claims)) /\ k.reserve = l.reserve /\ k.booked = l.booked
      /\ k.index = l.index /\ k.mirror = l.mirror /\ DOMAIN k = DOMAIN l
  BY <1>1 DEF LedgerOK
<1>3. Open(l.claims) \in SUBSET (1 .. Len(l.claims)) /\ l.claims \in Seq(Sound)
  BY DEF Open, LedgerOK
<1>4. Kept(l.claims, Open(l.claims)) \in Seq(Idle)
  BY <1>3, KeptLaw
<1>5. Kept(l.claims, Open(l.claims)) \in Seq(Sound)
  BY <1>4, SoundLists
<1>6. SumOf(Kept(l.claims, Open(l.claims)), AllDebt) = SumOf(l.claims, AllDebt)
  <2>1. AllDebt \in [Sound -> Int]
    BY WeightsTyped
  <2>2. \A c \in Sound : Remaining(c) = 0 => AllDebt[c] = 0
    BY DEF AllDebt
  <2> QED
    BY <1>3, <2>1, <2>2, KeptOpen
<1>7. LedgerOK(k)
  BY <1>2, <1>5, <1>6 DEF LedgerOK
<1> QED
  BY <1>1, <1>2, <1>4, <1>7

\* The firms' claims after they have accrued, and what falls due of them.
GrownLedger == [ledger EXCEPT !.claims = Grown(ledger.claims, Firms), !.booked = @ + Accrual(ledger.claims, Firms)]

LEMMA FirmDuesLaw ==
  ASSUME OthersOK, LedgerOK(ledger)
  PROVE  /\ LedgerOK(GrownLedger) /\ GrownLedger.claims = Grown(ledger.claims, Firms)
         /\ GrownLedger.reserve = ledger.reserve /\ GrownLedger.mirror = ledger.mirror /\ GrownLedger.index = ledger.index
         /\ Collectible(GrownLedger, Firms, FirmDue(GrownLedger.claims))
<1>1. PICK g : g = Grown(ledger.claims, Firms)
  OBVIOUS
<1>2. /\ g \in Seq(Sound) /\ Accrual(ledger.claims, Firms) \in Nat
      /\ SumOf(g, AllDebt) = SumOf(ledger.claims, AllDebt) + Accrual(ledger.claims, Firms)
  <2>1. ledger.claims \in Seq(Sound)
    BY DEF LedgerOK
  <2> QED
    BY <1>1, <2>1, AccruedLaw
<1>3. PICK l : l = GrownLedger
  OBVIOUS
<1>4. /\ l.claims = g /\ l.booked = ledger.booked + Accrual(ledger.claims, Firms) /\ l.reserve = ledger.reserve
      /\ l.index = ledger.index /\ l.mirror = ledger.mirror /\ DOMAIN l = DOMAIN ledger
  BY <1>1, <1>3 DEF LedgerOK, GrownLedger
<1>5. LedgerOK(l)
  <2>1. l.booked = SumOf(l.claims, AllDebt) /\ l.booked \in Nat
    BY <1>2, <1>4 DEF LedgerOK
  <2> QED
    BY <1>2, <1>4, <2>1 DEF LedgerOK
<1>6. \A i \in 1 .. Len(g) : g[i] \in Sound
  BY <1>2, Places
<1>7. ASSUME NEW c \in Sound
      PROVE  LET d == IF c.who \in Firms THEN DueOf(c) ELSE 0
             IN d \in Nat /\ d <= Remaining(c) /\ (d > 0 => c.who \in Firms)
  <2>1. DueOf(c) \in Nat /\ DueOf(c) <= Remaining(c) /\ Remaining(c) \in Nat
    BY SoundFields
  <2> QED
    BY <2>1
<1>8. FirmDue(g) = [i \in 1 .. Len(g) |-> IF g[i].who \in Firms THEN DueOf(g[i]) ELSE 0]
  BY DEF FirmDue
<1>9. Firms \in SUBSET Borrowers
  BY Constants
<1>10. Collectible(l, Firms, FirmDue(l.claims))
  BY <1>2, <1>4, <1>6, <1>7, <1>8, <1>9 DEF Collectible, OthersOK
<1> QED
  BY <1>1, <1>3, <1>4, <1>5, <1>10

LEMMA MoneyCollectFirmDues == MInv /\ CollectFirmDues => MInv'
<1> SUFFICES ASSUME MInv, CollectFirmDues PROVE MInv'
  OBVIOUS
<1>1. /\ OthersOK /\ LedgerOK(ledger) /\ ClaimsSound /\ ledger.reserve \in Nat /\ rest \in Nat
      /\ Total(purse) \in Nat /\ live \subseteq Firms /\ Firms \subseteq Borrowers
  BY MInvFacts
<1>2. phase \notin Week /\ phase' = "exits" /\ UNCHANGED <<mortgage, capacity, live>>
  BY DEF CollectFirmDues, Moves, Week
<1>3. PICK l : l = GrownLedger
  OBVIOUS
<1>4. PICK due : due = FirmDue(l.claims)
  OBVIOUS
<1>5. /\ LedgerOK(l) /\ l.claims = Grown(ledger.claims, Firms) /\ l.reserve = ledger.reserve
      /\ Collectible(l, Firms, due)
  BY <1>1, <1>3, <1>4, FirmDuesLaw
<1>6. PICK c : c = Collection(l, Firms, due)
  OBVIOUS
<1> DEFINE left == [b \in Borrowers |-> purse[b] - c.taken[b]]
           paid == [f \in Firms |-> IF f \in live THEN Min({left[f], direct[f].pay, direct[f].owed}) ELSE 0]
<1>7. /\ ledger' = [c.ledger EXCEPT !.claims = Kept(@, Open(@))]
      /\ purse' = [b \in Borrowers |-> left[b] - IF b \in Firms THEN paid[b] ELSE 0]
      /\ direct' = [f \in Firms |-> [direct[f] EXCEPT !.owed = @ - paid[f]]]
      /\ rest' = rest + Total(paid)
      /\ cooldown' = Barred(c.defaulted)
  <2>1. Grown(ledger.claims, Firms) = [i \in 1 .. Len(ledger.claims) |-> Accrued(ledger.claims[i], Firms)]
    BY DEF Grown
  <2>2. c = Collection([ledger EXCEPT !.claims = Grown(ledger.claims, Firms), !.booked = @ + Accrual(ledger.claims, Firms)],
                       Firms, FirmDue(Grown(ledger.claims, Firms)))
    BY <1>3, <1>4, <1>5, <1>6 DEF GrownLedger
  <2>3. \A b \in Borrowers : left[b] = purse[b] - c.taken[b]
    OBVIOUS
  <2>4. Firms \subseteq Borrowers
    BY <1>1
  <2>5. \A f \in Firms : paid[f] = IF f \in live THEN Min({purse[f] - c.taken[f], direct[f].pay, direct[f].owed}) ELSE 0
    BY <2>3, <2>4
  <2>6. paid = [f \in Firms |-> IF f \in live THEN Min({purse[f] - c.taken[f], direct[f].pay, direct[f].owed}) ELSE 0]
    BY <2>3, <2>4
  <2> HIDE DEF left, paid
  <2>7. /\ ledger' = [c.ledger EXCEPT !.claims = Kept(@, Open(@))]
        /\ purse' = [b \in Borrowers |-> purse[b] - c.taken[b]
                       - IF b \in Firms THEN (IF b \in live THEN Min({purse[b] - c.taken[b], direct[b].pay, direct[b].owed}) ELSE 0) ELSE 0]
        /\ direct' = [f \in Firms |-> [direct[f] EXCEPT !.owed = @ -
             (IF f \in live THEN Min({purse[f] - c.taken[f], direct[f].pay, direct[f].owed}) ELSE 0)]]
        /\ rest' = rest + Total([f \in Firms |-> IF f \in live THEN Min({purse[f] - c.taken[f], direct[f].pay, direct[f].owed}) ELSE 0])
        /\ cooldown' = Barred(c.defaulted)
    BY <2>1, <2>2 DEF CollectFirmDues
  <2>8. purse' = [b \in Borrowers |-> left[b] - IF b \in Firms THEN paid[b] ELSE 0]
    BY <2>3, <2>5, <2>7
  <2>9. direct' = [f \in Firms |-> [direct[f] EXCEPT !.owed = @ - paid[f]]]
    BY <2>5, <2>7
  <2> QED
    BY <2>6, <2>7, <2>8, <2>9
<1>8. left \in [Borrowers -> Nat] /\ Total(left) = Total(purse) - Total(TakenOf(l, Firms, due))
  BY <1>1, <1>5, <1>6, PursesAfter
<1>9. Total(TakenOf(l, Firms, due)) \in Nat
  BY <1>5, CollectedBooks
<1>10. /\ LedgerOK(c.ledger) /\ c.ledger.claims = SettledAll(l, Firms, due)
       /\ c.ledger.reserve = l.reserve + Total(TakenOf(l, Firms, due))
  BY <1>1, <1>5, <1>6, CollectedLedger
<1>11. c.ledger.claims \in Seq(Idle)
  BY <1>5, <1>10, CollectedClaims
<1>12. /\ LedgerOK(ledger') /\ ledger'.claims \in Seq(Idle)
       /\ ledger'.reserve = ledger.reserve + Total(TakenOf(l, Firms, due))
  BY <1>5, <1>7, <1>10, <1>11, KeptLedger
<1>13. ASSUME NEW f \in Firms
       PROVE  /\ paid[f] \in Nat /\ paid[f] <= left[f]
              /\ direct[f].owed \in Nat /\ direct[f].pay \in Nat /\ direct[f].owed - paid[f] \in Nat
  <2>1. direct[f].owed \in Nat /\ direct[f].pay \in Nat /\ left[f] \in Nat
    BY <1>1, <1>8, MortgageFields
  <2>2. left[f] \in Int /\ direct[f].pay \in Int /\ direct[f].owed \in Int
    BY <2>1
  <2>3. PICK m : m = Min({left[f], direct[f].pay, direct[f].owed})
    OBVIOUS
  <2>4. m \in {left[f], direct[f].pay, direct[f].owed} /\ m <= left[f] /\ m <= direct[f].owed
    BY <2>2, <2>3, MinOfThree
  <2>5. m \in Nat /\ direct[f].owed - m \in Nat
    BY <2>1, <2>4
  <2>6. paid[f] = IF f \in live THEN m ELSE 0
    BY <2>3
  <2> HIDE DEF paid, left
  <2> QED
    BY <2>1, <2>4, <2>5, <2>6
<1>14. paid \in [Firms -> Nat]
  BY <1>13
<1> HIDE DEF left, paid
<1> DEFINE all == [b \in Borrowers |-> IF b \in Firms THEN paid[b] ELSE 0]
<1>15. all \in [Borrowers -> Nat] /\ \A b \in Borrowers : all[b] = IF b \in Firms THEN paid[b] ELSE 0
  BY <1>14
<1>16. \A b \in Borrowers : purse'[b] = left[b] - all[b] /\ purse'[b] \in Nat
  <2> SUFFICES ASSUME NEW b \in Borrowers PROVE purse'[b] = left[b] - all[b] /\ purse'[b] \in Nat
    OBVIOUS
  <2>1. purse'[b] = left[b] - all[b] /\ left[b] \in Nat
    BY <1>7, <1>8
  <2>2. all[b] \in Nat /\ all[b] <= left[b]
    BY <1>13, <1>15, <2>1
  <2> QED
    BY <2>1, <2>2
<1> HIDE DEF all
<1>17. purse' \in [Borrowers -> Nat]
  <2>1. purse' = [b \in Borrowers |-> purse'[b]]
    BY <1>7
  <2> QED
    BY <1>16, <2>1
<1>18. IsFiniteSet(Borrowers) /\ IsFiniteSet(Firms)
  BY Constants
<1>19. Total(purse') = Total(left) - Total(all)
  <2>1. purse' \in [Borrowers -> Int] /\ left \in [Borrowers -> Int] /\ all \in [Borrowers -> Int]
    BY <1>8, <1>15, <1>17
  <2>2. \A f, g, h \in [Borrowers -> Int] : (\A x \in Borrowers : h[x] = f[x] - g[x]) => Total(h) = Total(f) - Total(g)
    BY <1>18, TotalPointwise
  <2> QED
    BY <1>16, <2>1, <2>2
<1>20. Total(paid) = Total(all) /\ Total(paid) \in Nat
  <2>1. Firms \in SUBSET Borrowers
    BY <1>1
  <2>2. paid \in [Firms -> Int]
    BY <1>14
  <2>3. all \in [Borrowers -> Int]
    BY <1>15
  <2>4. \A x \in Borrowers : all[x] = IF x \in Firms THEN paid[x] ELSE 0
    BY <1>15
  <2>5. IsFiniteSet(Borrowers)
    BY <1>18
  <2>6. Total(paid) = Total(all)
    BY <2>1, <2>2, <2>3, <2>4, <2>5, TotalPadded
  <2> QED
    BY <1>14, <1>18, <2>6, TotalNat
<1>21. Total(purse') + ledger'.reserve + rest' = Total(purse) + ledger.reserve + rest
  BY <1>1, <1>7, <1>8, <1>9, <1>12, <1>19, <1>20
<1>22. direct' \in [Firms -> [owed : Nat, pay : Nat]]
  <2>1. ASSUME NEW f \in Firms PROVE [direct[f] EXCEPT !.owed = @ - paid[f]] \in [owed : Nat, pay : Nat]
    <3>1. direct[f] \in [owed : Nat, pay : Nat] /\ direct[f].owed - paid[f] \in Nat
      BY <1>1, <1>13 DEF OthersOK
    <3> QED
      BY <3>1
  <2> QED
    BY <1>7, <2>1
<1>23. OthersOK'
  <2>1. cooldown' \in [Borrowers -> 0 .. Cooldown]
    BY <1>1, <1>7, BarredTyped
  <2>2. rest' \in Nat
    BY <1>1, <1>7, <1>20
  <2> QED
    BY <1>1, <1>2, <1>17, <1>22, <2>1, <2>2 DEF OthersOK
<1>24. ClaimsSound'
  <2>1. phase' \notin Week
    BY <1>2 DEF Week
  <2> QED
    BY <1>12, <2>1 DEF ClaimsSound
<1> QED
  BY <1>12, <1>21, <1>23, <1>24, Balance

-----------------------------------------------------------------------------
(* Firms that close *)

\* What the creditors of a closing firm get is in its cash.
LEMMA ExitShares ==
  ASSUME OthersOK, LedgerOK(ledger), NEW f \in Firms, NEW cash \in Nat
  PROVE  /\ Total(Allocation(ExitDues(f), cash)) \in Nat /\ Total(Allocation(ExitDues(f), cash)) <= cash
         /\ Allocation(ExitDues(f), cash)[Len(ledger.claims) + 2] \in Nat
         /\ Allocation(ExitDues(f), cash)[Len(ledger.claims) + 2] <= Total(Allocation(ExitDues(f), cash))
<1>1. PICK n : n = Len(ledger.claims)
  OBVIOUS
<1>2. PICK D : D = Of(ledger.claims, f, Kinds) \cup {n + 1, n + 2}
  OBVIOUS
<1>3. PICK due : due = ExitDues(f)
  OBVIOUS
<1>4. n \in Nat /\ IsFiniteSet(1 .. n) /\ \A i \in 1 .. n : ledger.claims[i] \in Sound
  BY <1>1, Places DEF LedgerOK
<1>5. Of(ledger.claims, f, Kinds) \in SUBSET (1 .. n)
  BY <1>1 DEF Of, Open
<1>6. IsFiniteSet(D) /\ D \in SUBSET Nat /\ n + 2 \in D
  <2>1. IsFiniteSet(Of(ledger.claims, f, Kinds))
    BY <1>4, <1>5, FS_Subset
  <2>2. IsFiniteSet(Of(ledger.claims, f, Kinds) \cup {n + 1})
    BY <2>1, FS_AddElement
  <2>3. IsFiniteSet(D)
    <3>1. PICK E : E = Of(ledger.claims, f, Kinds) \cup {n + 1}
      OBVIOUS
    <3>2. IsFiniteSet(E \cup {n + 2})
      BY <2>2, <3>1, FS_AddElement
    <3>3. D = E \cup {n + 2}
      BY <1>2, <3>1
    <3> QED
      BY <3>2, <3>3
  <2> QED
    BY <1>2, <1>4, <1>5, <2>3
<1>7. due = [i \in D |-> IF i = n + 2 THEN direct[f].owed
                ELSE IF i = n + 1 THEN mortgage[f].owed + (IF mortgage[f].missed THEN MortgageInterest(f) ELSE 0)
                ELSE Remaining(ledger.claims[i])]
  <2>1. due = [i \in Of(ledger.claims, f, Kinds) \cup {n + 2 - 1, n + 2} |->
                IF i = n + 2 THEN direct[f].owed
                ELSE IF i = n + 2 - 1 THEN mortgage[f].owed + (IF mortgage[f].missed THEN MortgageInterest(f) ELSE 0)
                ELSE Remaining(ledger.claims[i])]
    BY <1>1, <1>3 DEF ExitDues
  <2>2. n + 2 - 1 = n + 1
    BY <1>4
  <2> QED
    BY <1>2, <2>1, <2>2
<1>8. direct[f].owed \in Nat /\ mortgage[f].owed + (IF mortgage[f].missed THEN MortgageInterest(f) ELSE 0) \in Nat
  <2>1. direct[f].owed \in Nat /\ mortgage[f].owed \in Nat /\ MortgageInterest(f) \in Nat
    BY MortgageFields, MortgageDues
  <2> QED
    BY <2>1
<1>9. \A i \in Of(ledger.claims, f, Kinds) : Remaining(ledger.claims[i]) \in Nat
  BY <1>4, <1>5, SoundFields
<1>10. due \in [D -> Nat]
  <2>1. \A i \in D : i = n + 2 \/ i = n + 1 \/ i \in Of(ledger.claims, f, Kinds)
    BY <1>2
  <2>2. \A i \in D : due[i] \in Nat
    BY <1>7, <1>8, <1>9, <2>1
  <2> QED
    BY <1>7, <2>2
<1>11. /\ Allocation(due, cash) \in [D -> Nat]
       /\ Total(Allocation(due, cash)) = Min({cash, Total(due)})
  BY <1>6, <1>10, AllocationLaw
<1>12. Total(due) \in Nat
  BY <1>6, <1>10, TotalNat
<1>13. Min({cash, Total(due)}) <= cash
  BY <1>12, MinOfNats
<1>14. Total(Allocation(due, cash)) \in Nat /\ \A i \in D : Allocation(due, cash)[i] <= Total(Allocation(due, cash))
  BY <1>6, <1>11, TotalNat
<1>15. Allocation(due, cash)[n + 2] \in Nat /\ Allocation(due, cash)[n + 2] <= Total(Allocation(due, cash))
  BY <1>6, <1>11, <1>14
<1> QED
  BY <1>1, <1>3, <1>11, <1>13, <1>14, <1>15

\* The claims on the closing firms leave the book with all that is open of them.
LEMMA ExitedBooks ==
  ASSUME NEW claims \in Seq(Sound), NEW C \in SUBSET Borrowers
  PROVE  /\ SumOf(Kept(claims, {i \in 1 .. Len(claims) : claims[i].who \notin C}), AllDebt)
              = SumOf(claims, AllDebt) - Total([f \in C |-> Owed(claims, f, Kinds)])
         /\ Kept(claims, {i \in 1 .. Len(claims) : claims[i].who \notin C}) \in Seq(Sound)
<1> DEFINE D == 1 .. Len(claims)
           P == {i \in D : claims[i].who \notin C}
           stay == [c \in Sound |-> IF c.who \notin C THEN Remaining(c) ELSE 0]
           exit == [c \in Sound |-> IF c.who \in C THEN Remaining(c) ELSE 0]
<1>1. \A c \in Sound : Remaining(c) \in Nat
  BY SoundFields
<1>2. stay \in [Sound -> Nat] /\ exit \in [Sound -> Nat] /\ AllDebt \in [Sound -> Nat]
  BY <1>1, WeightsTyped
<1>3. IsFiniteSet(D) /\ \A i \in D : claims[i] \in Sound
  BY Places
<1>4. \A i \in D : /\ stay[claims[i]] = (IF i \in P THEN AllDebt[claims[i]] ELSE 0)
                   /\ stay[claims[i]] = AllDebt[claims[i]] - exit[claims[i]]
  BY <1>1, <1>3 DEF AllDebt
<1>5. IsFiniteSet(C)
  BY Constants, FS_Subset
<1>6. P \in SUBSET D
  OBVIOUS
<1>7. SumOf(Kept(claims, P), AllDebt) = SumOf(claims, stay)
  <2>1. AllDebt \in [Sound -> Int] /\ stay \in [Sound -> Int]
    BY <1>2
  <2>2. \A i \in 1 .. Len(claims) : stay[claims[i]] = IF i \in P THEN AllDebt[claims[i]] ELSE 0
    BY <1>4
  <2> HIDE DEF stay, P
  <2> QED
    BY <1>6, <2>1, <2>2, SumKept, SMTT(40)
<1>8. SumOf(claims, stay) = SumOf(claims, AllDebt) - SumOf(claims, exit)
  <2> DEFINE a == [i \in D |-> AllDebt[claims[i]]]
             s == [i \in D |-> stay[claims[i]]]
             e == [i \in D |-> exit[claims[i]]]
  <2> HIDE DEF stay, exit, P
  <2>1. a \in [D -> Int] /\ s \in [D -> Int] /\ e \in [D -> Int]
    BY <1>2, <1>3
  <2>2. \A x \in D : s[x] = a[x] - e[x]
    BY <1>4
  <2>3. SumOf(claims, stay) = Total(s) /\ SumOf(claims, AllDebt) = Total(a) /\ SumOf(claims, exit) = Total(e)
    BY DEF SumOf
  <2> HIDE DEF a, s, e, D
  <2>4. \A f, g, h \in [D -> Int] : (\A x \in D : h[x] = f[x] - g[x]) => Total(h) = Total(f) - Total(g)
    BY <1>3, TotalPointwise
  <2>5. Total(s) = Total(a) - Total(e)
    BY <2>1, <2>2, <2>4
  <2> QED
    BY <2>3, <2>5
<1> DEFINE m == [f \in C |-> [i \in D |-> Debt(f, Kinds)[claims[i]]]]
<1>9. m \in [C -> [D -> Int]] /\ \A f \in C : \A i \in D : m[f][i] = Debt(f, Kinds)[claims[i]]
  <2>1. \A f \in C : Debt(f, Kinds) \in [Sound -> Int]
    BY WeightsTyped
  <2> QED
    BY <1>3, <2>1
<1>10. \A f \in C : Total(m[f]) = Owed(claims, f, Kinds)
  BY BooksAreSums DEF SumOf
<1>11. \A i \in D : Total([f \in C |-> m[f][i]]) = exit[claims[i]]
  <2> SUFFICES ASSUME NEW i \in D PROVE Total([f \in C |-> m[f][i]]) = exit[claims[i]]
    OBVIOUS
  <2>1. PICK d, n : d = claims[i].who /\ n = Remaining(claims[i])
    OBVIOUS
  <2>2. claims[i] \in Sound /\ claims[i].kind \in Kinds /\ n \in Int
    <3>1. claims[i] \in Sound
      BY <1>3
    <3>2. claims[i].kind \in Kinds /\ Remaining(claims[i]) \in Nat
      BY <3>1, SoundFields
    <3> QED
      BY <2>1, <3>1, <3>2
  <2>3. \A f \in C : m[f][i] = IF f = d THEN n ELSE 0
    BY <1>9, <2>1, <2>2 DEF Debt
  <2>4. exit[claims[i]] = IF d \in C THEN n ELSE 0
    BY <2>1, <2>2
  <2> HIDE DEF m, exit
  <2>5. [f \in C |-> m[f][i]] = [f \in C |-> IF f = d THEN n ELSE 0]
    BY <2>3
  <2>6. Total([f \in C |-> IF f = d THEN n ELSE 0]) = IF d \in C THEN n ELSE 0
    BY <1>5, <2>2, TotalOne
  <2> QED
    BY <2>4, <2>5, <2>6
<1> HIDE DEF m, exit, stay, D, P
<1>12. Total([f \in C |-> Owed(claims, f, Kinds)]) = SumOf(claims, exit)
  <2>1. Total([f \in C |-> Total(m[f])]) = Total([i \in D |-> Total([f \in C |-> m[f][i]])])
    <3>1. IsFiniteSet(D)
      BY <1>3
    <3>2. m \in [C -> [D -> Int]]
      BY <1>9
    <3> QED
      BY <1>5, <3>1, <3>2, TotalSwap
  <2>2. [f \in C |-> Total(m[f])] = [f \in C |-> Owed(claims, f, Kinds)]
    BY <1>10
  <2>3. [i \in D |-> Total([f \in C |-> m[f][i]])] = [i \in D |-> exit[claims[i]]]
    BY <1>11
  <2> QED
    BY <2>1, <2>2, <2>3 DEF SumOf, D
<1>13. Kept(claims, P) \in Seq(Sound)
  BY <1>6, KeptLaw DEF D
<1> QED
  BY <1>7, <1>8, <1>12, <1>13 DEF P, D

\* The cash of the closing firms goes to the workers, the bank, the treasury, the owners and the pool.
Distributed(cash, C, owned, owner, worker, bank, treasury, left, purses) ==
  /\ cash \in [Borrowers -> Nat] /\ C \in SUBSET Firms /\ owned \in SUBSET C /\ owner \in [owned -> Households]
  /\ worker \in [C -> Nat] /\ bank \in [C -> Nat] /\ treasury \in [C -> Nat] /\ left \in [C -> Nat]
  /\ \A f \in C : cash[f] = worker[f] + bank[f] + treasury[f] + left[f]
  /\ purses = [b \in Borrowers |-> IF b \in C THEN 0
                ELSE cash[b] + Total([f \in {g \in owned : owner[g] = b} |-> left[f]])]

Accounted(cash, C, owned, worker, bank, treasury, left, purses) ==
  /\ purses \in [Borrowers -> Nat]
  /\ Total(bank) \in Nat /\ Total([f \in C |-> worker[f] + treasury[f]]) \in Nat
  /\ Total([f \in C \ owned |-> left[f]]) \in Nat
  /\ Total(purses) + Total(bank) + Total([f \in C |-> worker[f] + treasury[f]])
       + Total([f \in C \ owned |-> left[f]]) = Total(cash)

LEMMA SharedOut ==
  ASSUME NEW cash, NEW C, NEW owned, NEW owner, NEW worker, NEW bank, NEW treasury, NEW left, NEW purses
  PROVE  Distributed(cash, C, owned, owner, worker, bank, treasury, left, purses) =>
         Accounted(cash, C, owned, worker, bank, treasury, left, purses)
<1>0. SUFFICES ASSUME
         /\ cash \in [Borrowers -> Nat] /\ C \in SUBSET Firms /\ owned \in SUBSET C /\ owner \in [owned -> Households]
         /\ worker \in [C -> Nat] /\ bank \in [C -> Nat] /\ treasury \in [C -> Nat] /\ left \in [C -> Nat]
         /\ \A f \in C : cash[f] = worker[f] + bank[f] + treasury[f] + left[f]
         /\ purses = [b \in Borrowers |-> IF b \in C THEN 0
                       ELSE cash[b] + Total([f \in {g \in owned : owner[g] = b} |-> left[f]])]
             PROVE
         /\ purses \in [Borrowers -> Nat]
         /\ Total(bank) \in Nat /\ Total([f \in C |-> worker[f] + treasury[f]]) \in Nat
         /\ Total([f \in C \ owned |-> left[f]]) \in Nat
         /\ Total(purses) + Total(bank) + Total([f \in C |-> worker[f] + treasury[f]])
              + Total([f \in C \ owned |-> left[f]]) = Total(cash)
  BY DEF Distributed, Accounted
<1> DEFINE W == [f \in C |-> worker[f] + treasury[f]]
           L == [f \in C \ owned |-> left[f]]
           O == [f \in owned |-> left[f]]
           G == [b \in Borrowers |-> Total([f \in {g \in owned : owner[g] = b} |-> left[f]])]
           w == [b \in Borrowers |-> IF b \in C THEN W[b] ELSE 0]
           k == [b \in Borrowers |-> IF b \in C THEN bank[b] ELSE 0]
           l == [b \in Borrowers |-> IF b \in C \ owned THEN L[b] ELSE 0]
           o == [b \in Borrowers |-> IF b \in owned THEN O[b] ELSE 0]
           m == [b \in Borrowers |-> [f \in owned |-> IF owner[f] = b THEN left[f] ELSE 0]]
<1>1. /\ IsFiniteSet(Borrowers) /\ C \in SUBSET Borrowers /\ owned \in SUBSET Borrowers /\ (C \ owned) \in SUBSET Borrowers
      /\ IsFiniteSet(C) /\ IsFiniteSet(owned) /\ IsFiniteSet(C \ owned)
      /\ Households \cap C = {} /\ Households \subseteq Borrowers
  <2>1. IsFiniteSet(Borrowers) /\ Firms \subseteq Borrowers /\ Households \subseteq Borrowers /\ Households \cap Firms = {}
    BY Constants
  <2>2. C \in SUBSET Borrowers /\ owned \in SUBSET Borrowers /\ (C \ owned) \in SUBSET Borrowers /\ Households \cap C = {}
    BY <1>0, <2>1
  <2> QED
    BY <2>1, <2>2, FS_Subset
<1>2. W \in [C -> Nat] /\ L \in [C \ owned -> Nat] /\ O \in [owned -> Nat]
  BY <1>0
<1>3. \A f \in C : W[f] = worker[f] + treasury[f] /\ (f \in owned => O[f] = left[f]) /\ (f \notin owned => L[f] = left[f])
  BY <1>0
<1> HIDE DEF W, L, O
<1>4. w \in [Borrowers -> Nat] /\ k \in [Borrowers -> Nat] /\ l \in [Borrowers -> Nat] /\ o \in [Borrowers -> Nat]
  BY <1>0, <1>2
<1>5. \A b \in Borrowers : /\ w[b] = IF b \in C THEN W[b] ELSE 0
                           /\ k[b] = IF b \in C THEN bank[b] ELSE 0
                           /\ l[b] = IF b \in C \ owned THEN L[b] ELSE 0
                           /\ o[b] = IF b \in owned THEN O[b] ELSE 0
  OBVIOUS
<1>6. m \in [Borrowers -> [owned -> Nat]] /\ \A b \in Borrowers : \A f \in owned : m[b][f] = IF owner[f] = b THEN left[f] ELSE 0
  BY <1>0
<1> HIDE DEF w, k, l, o
<1>7. /\ Total(W) = Total(w) /\ Total(bank) = Total(k) /\ Total(L) = Total(l) /\ Total(O) = Total(o)
  <2>2. Total(W) = Total(w)
    <3>1. IsFiniteSet(Borrowers)
      BY <1>1
    <3>2. C \in SUBSET Borrowers
      BY <1>1
    <3>3. W \in [C -> Int]
      BY <1>2
    <3>4. w \in [Borrowers -> Int]
      BY <1>4
    <3>5. \A b \in Borrowers : w[b] = IF b \in C THEN W[b] ELSE 0
      BY <1>5
    <3> QED
      BY <3>1, <3>2, <3>3, <3>4, <3>5, TotalPadded
  <2>3. Total(bank) = Total(k)
    <3>1. IsFiniteSet(Borrowers)
      BY <1>1
    <3>2. C \in SUBSET Borrowers
      BY <1>1
    <3>3. bank \in [C -> Int]
      BY <1>0
    <3>4. k \in [Borrowers -> Int]
      BY <1>4
    <3>5. \A b \in Borrowers : k[b] = IF b \in C THEN bank[b] ELSE 0
      BY <1>5
    <3> QED
      BY <3>1, <3>2, <3>3, <3>4, <3>5, TotalPadded
  <2>4. Total(L) = Total(l)
    <3>1. IsFiniteSet(Borrowers)
      BY <1>1
    <3>2. (C \ owned) \in SUBSET Borrowers
      BY <1>1
    <3>3. L \in [(C \ owned) -> Int]
      BY <1>2
    <3>4. l \in [Borrowers -> Int]
      BY <1>4
    <3>5. \A b \in Borrowers : l[b] = IF b \in (C \ owned) THEN L[b] ELSE 0
      BY <1>5
    <3> QED
      BY <3>1, <3>2, <3>3, <3>4, <3>5, TotalPadded
  <2>5. Total(O) = Total(o)
    <3>1. IsFiniteSet(Borrowers)
      BY <1>1
    <3>2. owned \in SUBSET Borrowers
      BY <1>1
    <3>3. O \in [owned -> Int]
      BY <1>2
    <3>4. o \in [Borrowers -> Int]
      BY <1>4
    <3>5. \A b \in Borrowers : o[b] = IF b \in owned THEN O[b] ELSE 0
      BY <1>5
    <3> QED
      BY <3>1, <3>2, <3>3, <3>4, <3>5, TotalPadded
  <2> QED
    BY <2>2, <2>3, <2>4, <2>5
<1>8. Total(w) \in Nat /\ Total(k) \in Nat /\ Total(l) \in Nat /\ Total(o) \in Nat /\ Total(cash) \in Nat
  BY <1>0, <1>1, <1>4, TotalNat
<1>9. \A b \in Borrowers : Total(m[b]) = G[b] /\ G[b] \in Nat /\ (b \in C => G[b] = 0)
  <2> SUFFICES ASSUME NEW b \in Borrowers PROVE Total(m[b]) = G[b] /\ G[b] \in Nat /\ (b \in C => G[b] = 0)
    OBVIOUS
  <2> DEFINE T == {g \in owned : owner[g] = b}
             t == [f \in T |-> left[f]]
  <2>1. T \in SUBSET owned /\ t \in [T -> Nat] /\ G[b] = Total(t)
    BY <1>0
  <2>2. \A f \in owned : m[b][f] = IF f \in T THEN t[f] ELSE 0
    BY <1>6
  <2>3. m[b] \in [owned -> Int]
    BY <1>6
  <2>4. b \in C => t = [f \in T |-> 0]
    BY <1>0, <1>1
  <2> HIDE DEF m, G, t, T
  <2>5. Total(t) = Total(m[b])
    <3>1. PICK h : h = m[b]
      OBVIOUS
    <3>2. IsFiniteSet(owned)
      BY <1>1
    <3>3. T \in SUBSET owned
      BY <2>1
    <3>4. t \in [T -> Int]
      BY <2>1
    <3>5. h \in [owned -> Int]
      BY <2>3, <3>1
    <3>6. \A f \in owned : h[f] = IF f \in T THEN t[f] ELSE 0
      BY <2>2, <3>1
    <3>7. Total(t) = Total(h)
      BY <3>2, <3>3, <3>4, <3>5, <3>6, TotalPadded
    <3> QED
      BY <3>1, <3>7
  <2>6. IsFiniteSet(T)
    BY <1>1, <2>1, FS_Subset
  <2>7. Total(t) \in Nat /\ (b \in C => Total(t) = 0)
    BY <2>1, <2>4, <2>6, TotalNat, TotalZero
  <2> QED
    BY <2>1, <2>5, <2>7
<1> HIDE DEF m
<1>10. Total(G) = Total(O)
  <2>1. Total([b \in Borrowers |-> Total(m[b])]) = Total([f \in owned |-> Total([b \in Borrowers |-> m[b][f]])])
    <3>1. m \in [Borrowers -> [owned -> Int]]
      BY <1>6
    <3>2. IsFiniteSet(Borrowers)
      BY <1>1
    <3>3. IsFiniteSet(owned)
      BY <1>1
    <3> QED
      BY <3>1, <3>2, <3>3, TotalSwap
  <2>2. G = [b \in Borrowers |-> Total(m[b])]
    BY <1>9
  <2>3. ASSUME NEW f \in owned PROVE Total([b \in Borrowers |-> m[b][f]]) = O[f]
    <3>1. PICK d, n : d = owner[f] /\ n = left[f]
      OBVIOUS
    <3>2. d \in Borrowers /\ n \in Int /\ O[f] = n
      BY <1>0, <1>1, <1>3, <3>1
    <3>3. [b \in Borrowers |-> m[b][f]] = [b \in Borrowers |-> IF b = d THEN n ELSE 0]
      BY <1>6, <3>1
    <3>4. Total([b \in Borrowers |-> IF b = d THEN n ELSE 0]) = n
      <4>1. IsFiniteSet(Borrowers)
        BY <1>1
      <4>2. n \in Int
        BY <3>2
      <4>3. Total([b \in Borrowers |-> IF b = d THEN n ELSE 0]) = IF d \in Borrowers THEN n ELSE 0
        BY <4>1, <4>2, TotalOne
      <4> QED
        BY <3>2, <4>3
    <3> QED
      BY <3>2, <3>3, <3>4
  <2>4. O = [f \in owned |-> Total([b \in Borrowers |-> m[b][f]])]
    BY <1>2, <2>3
  <2> QED
    BY <2>1, <2>2, <2>4
<1>11. purses = [b \in Borrowers |-> IF b \in C THEN 0 ELSE cash[b] + G[b]]
  BY <1>0
<1>12. G \in [Borrowers -> Nat]
  BY <1>9
<1> HIDE DEF G
<1> DEFINE x == [b \in Borrowers |-> purses[b] + w[b]]
           y == [b \in Borrowers |-> x[b] + k[b]]
           z == [b \in Borrowers |-> y[b] + l[b]]
           u == [b \in Borrowers |-> cash[b] + G[b]]
<1>13. purses \in [Borrowers -> Nat]
  BY <1>0, <1>11, <1>12
<1>14. \A b \in Borrowers : u[b] = z[b] + o[b]
  <2> SUFFICES ASSUME NEW b \in Borrowers PROVE cash[b] + G[b] = purses[b] + w[b] + k[b] + l[b] + o[b]
    BY <1>4, <1>13
  <2>1. cash[b] \in Nat /\ G[b] \in Nat
    BY <1>0, <1>12
  <2>2. CASE b \notin C
    <3>1. purses[b] = cash[b] + G[b] /\ w[b] = 0 /\ k[b] = 0 /\ l[b] = 0 /\ o[b] = 0
      <4>1. b \notin owned
        BY <1>0, <2>2
      <4> QED
        BY <1>5, <1>11, <2>2, <4>1
    <3> QED
      BY <2>1, <3>1
  <2>3. CASE b \in C
    <3>1. /\ worker[b] \in Nat /\ bank[b] \in Nat /\ treasury[b] \in Nat /\ left[b] \in Nat
          /\ cash[b] = worker[b] + bank[b] + treasury[b] + left[b]
      BY <1>0, <2>3
    <3>2. /\ purses[b] = 0 /\ G[b] = 0 /\ w[b] = worker[b] + treasury[b] /\ k[b] = bank[b]
      BY <1>3, <1>5, <1>9, <1>11, <2>3
    <3>3. CASE b \in owned
      <4>1. l[b] = 0 /\ o[b] = left[b]
        BY <1>3, <1>5, <2>3, <3>3
      <4> QED
        BY <3>1, <3>2, <4>1
    <3>4. CASE b \notin owned
      <4>1. o[b] = 0 /\ l[b] = left[b]
        BY <1>3, <1>5, <2>3, <3>4
      <4> QED
        BY <3>1, <3>2, <4>1
    <3> QED
      BY <3>3, <3>4
  <2> QED
    BY <2>2, <2>3
<1>15. /\ x \in [Borrowers -> Int] /\ y \in [Borrowers -> Int] /\ z \in [Borrowers -> Int] /\ u \in [Borrowers -> Int]
       /\ \A b \in Borrowers : x[b] = purses[b] + w[b] /\ y[b] = x[b] + k[b] /\ z[b] = y[b] + l[b] /\ u[b] = cash[b] + G[b]
  BY <1>0, <1>4, <1>12, <1>13
<1> HIDE DEF x, y, z, u
<1>16. \A f, g, h \in [Borrowers -> Int] : (\A b \in Borrowers : h[b] = f[b] + g[b]) => Total(h) = Total(f) + Total(g)
  BY <1>1, TotalPointwise
<1>17. /\ purses \in [Borrowers -> Int] /\ w \in [Borrowers -> Int] /\ k \in [Borrowers -> Int] /\ l \in [Borrowers -> Int]
       /\ o \in [Borrowers -> Int] /\ cash \in [Borrowers -> Int] /\ G \in [Borrowers -> Int]
  BY <1>0, <1>4, <1>12, <1>13
<1>18. Total(x) = Total(purses) + Total(w)
  <2>1. x \in [Borrowers -> Int]
    BY <1>15
  <2>2. purses \in [Borrowers -> Int]
    BY <1>15, <1>17
  <2>3. w \in [Borrowers -> Int]
    BY <1>17
  <2>4. \A b \in Borrowers : x[b] = purses[b] + w[b]
    BY <1>15
  <2> QED
    BY <1>16, <2>1, <2>2, <2>3, <2>4
<1>19. Total(y) = Total(x) + Total(k)
  <2>1. y \in [Borrowers -> Int]
    BY <1>15
  <2>2. x \in [Borrowers -> Int]
    BY <1>15, <1>17
  <2>3. k \in [Borrowers -> Int]
    BY <1>17
  <2>4. \A b \in Borrowers : y[b] = x[b] + k[b]
    BY <1>15
  <2> QED
    BY <1>16, <2>1, <2>2, <2>3, <2>4
<1>20. Total(z) = Total(y) + Total(l)
  <2>1. z \in [Borrowers -> Int]
    BY <1>15
  <2>2. y \in [Borrowers -> Int]
    BY <1>15, <1>17
  <2>3. l \in [Borrowers -> Int]
    BY <1>17
  <2>4. \A b \in Borrowers : z[b] = y[b] + l[b]
    BY <1>15
  <2> QED
    BY <1>16, <2>1, <2>2, <2>3, <2>4
<1>21. Total(u) = Total(z) + Total(o)
  <2>1. u \in [Borrowers -> Int]
    BY <1>15
  <2>2. z \in [Borrowers -> Int]
    BY <1>15, <1>17
  <2>3. o \in [Borrowers -> Int]
    BY <1>17
  <2>4. \A b \in Borrowers : u[b] = z[b] + o[b]
    BY <1>14
  <2> QED
    BY <1>16, <2>1, <2>2, <2>3, <2>4
<1>22. Total(u) = Total(cash) + Total(G)
  <2>1. u \in [Borrowers -> Int]
    BY <1>15
  <2>2. cash \in [Borrowers -> Int]
    BY <1>15, <1>17
  <2>3. G \in [Borrowers -> Int]
    BY <1>17
  <2>4. \A b \in Borrowers : u[b] = cash[b] + G[b]
    BY <1>15
  <2> QED
    BY <1>16, <2>1, <2>2, <2>3, <2>4
<1>23. Total(purses) \in Nat
  BY <1>1, <1>13, TotalNat
<1>24. Total(purses) + Total(bank) + Total(W) + Total(L) = Total(cash)
  <2>1. Total(bank) = Total(k) /\ Total(W) = Total(w) /\ Total(L) = Total(l) /\ Total(G) = Total(o)
    BY <1>7, <1>10
  <2>2. Total(cash) + Total(o) = Total(purses) + Total(w) + Total(k) + Total(l) + Total(o)
    BY <1>18, <1>19, <1>20, <1>21, <1>22, <2>1
  <2>3. PICK p, a, c, d, e, q : /\ p = Total(purses) /\ a = Total(w) /\ c = Total(k) /\ d = Total(l)
                                /\ e = Total(o) /\ q = Total(cash)
    OBVIOUS
  <2>4. p \in Nat /\ a \in Nat /\ c \in Nat /\ d \in Nat /\ e \in Nat /\ q \in Nat
    BY <1>8, <1>23, <2>3
  <2>5. q + e = p + a + c + d + e
    BY <2>2, <2>3
  <2>6. p + c + a + d = q
    BY <2>4, <2>5
  <2> QED
    BY <2>1, <2>3, <2>6
<1> QED
  BY <1>7, <1>8, <1>13, <1>24 DEF W, L

\* The end of a week in which these firms close.
Closing(C, wages, owned, owner) ==
  LET worker   == [f \in C |-> Min({wages[f], purse[f]})]
      shared   == [f \in C |-> Allocation(ExitDues(f), purse[f] - worker[f])]
      left     == [f \in C |-> purse[f] - worker[f] - Total(shared[f])]
      treasury == Len(ledger.claims) + 2
      lossy(f) == \E i \in Of(ledger.claims, f, Kinds) : shared[f][i] < Remaining(ledger.claims[i])
  IN /\ ledger' = [ledger EXCEPT
          !.claims  = Kept(@, {i \in 1 .. Len(@) : @[i].who \notin C}),
          !.booked  = @ - Total([f \in C |-> Owed(ledger.claims, f, Kinds)]),
          !.reserve = @ + Total([f \in C |-> Total(shared[f]) - shared[f][treasury]]),
          !.mirror  = [x \in DOMAIN @ |-> IF x[1] \in C THEN 0 ELSE @[x]]]
     /\ purse' = [b \in Borrowers |->
          IF b \in C THEN 0 ELSE purse[b] + Total([f \in {g \in owned : owner[g] = b} |-> left[f]])]
     /\ rest' = rest + Total([f \in C |-> worker[f] + shared[f][treasury]])
                     + Total([f \in C \ owned |-> left[f]])
     /\ mortgage' = [f \in Firms |-> IF f \in C THEN NoMortgage ELSE mortgage[f]]
     /\ direct' = [f \in Firms |-> IF f \in C THEN NoDirect ELSE direct[f]]
     /\ cooldown' = Barred({f \in C : lossy(f)})
     /\ live' = live \ C

LEMMA MoneyExits == MInv /\ Exits => MInv'
<1> SUFFICES ASSUME MInv, Exits PROVE MInv'
  OBVIOUS
<1>1. /\ OthersOK /\ LedgerOK(ledger) /\ ClaimsSound /\ ledger.reserve \in Nat /\ rest \in Nat
      /\ Total(purse) \in Nat /\ live \subseteq Firms /\ Firms \subseteq Borrowers
      /\ ledger.claims \in Seq(Sound) /\ purse \in [Borrowers -> Nat]
  BY MInvFacts
<1>2. phase \notin Week /\ phase' = "entry" /\ UNCHANGED capacity
  BY DEF Exits, Moves, Week
<1>17. \E C \in SUBSET (live \ Baseline) : \E wages \in [C -> 0 .. MaxIncome], owned \in SUBSET C :
         \E owner \in [owned -> Households] : Closing(C, wages, owned, owner)
  BY Zenon DEF Exits, Closing
<1>18. PICK C \in SUBSET (live \ Baseline) : \E wages \in [C -> 0 .. MaxIncome], owned \in SUBSET C :
         \E owner \in [owned -> Households] : Closing(C, wages, owned, owner)
  BY <1>17
<1>19. PICK wages \in [C -> 0 .. MaxIncome], owned \in SUBSET C :
         \E owner \in [owned -> Households] : Closing(C, wages, owned, owner)
  BY <1>18
<1>3. PICK owner \in [owned -> Households] : Closing(C, wages, owned, owner)
  BY <1>19
<1> DEFINE worker == [f \in C |-> Min({wages[f], purse[f]})]
           shared == [f \in C |-> Allocation(ExitDues(f), purse[f] - worker[f])]
           left   == [f \in C |-> purse[f] - worker[f] - Total(shared[f])]
           last   == Len(ledger.claims) + 2
           bank   == [f \in C |-> Total(shared[f]) - shared[f][last]]
           tax    == [f \in C |-> shared[f][last]]
<1>4. /\ ledger' = [ledger EXCEPT
               !.claims  = Kept(@, {i \in 1 .. Len(@) : @[i].who \notin C}),
               !.booked  = @ - Total([f \in C |-> Owed(ledger.claims, f, Kinds)]),
               !.reserve = @ + Total(bank),
               !.mirror  = [x \in DOMAIN @ |-> IF x[1] \in C THEN 0 ELSE @[x]]]
      /\ purse' = [b \in Borrowers |->
               IF b \in C THEN 0 ELSE purse[b] + Total([f \in {g \in owned : owner[g] = b} |-> left[f]])]
      /\ rest' = rest + Total([f \in C |-> worker[f] + shared[f][last]])
                      + Total([f \in C \ owned |-> left[f]])
      /\ mortgage' = [f \in Firms |-> IF f \in C THEN NoMortgage ELSE mortgage[f]]
      /\ direct' = [f \in Firms |-> IF f \in C THEN NoDirect ELSE direct[f]]
      /\ live' = live \ C
  BY <1>3, Zenon DEF Closing
<1>5. PICK bars : cooldown' = Barred(bars)
  BY <1>3, Zenon DEF Closing
<1>6. C \in SUBSET Firms /\ C \in SUBSET Borrowers /\ C \cap Baseline = {}
  BY <1>1
<1>7. ASSUME NEW f \in C
      PROVE  /\ worker[f] \in Nat /\ left[f] \in Nat /\ bank[f] \in Nat /\ tax[f] \in Nat
             /\ purse[f] = worker[f] + bank[f] + tax[f] + left[f]
  <2>1. f \in Firms /\ purse[f] \in Nat /\ wages[f] \in Nat
    <3>1. wages[f] \in 0 .. MaxIncome
      OBVIOUS
    <3>2. MaxIncome \in Nat
      BY Constants
    <3> QED
      BY <1>1, <1>6, <3>1, <3>2
  <2>2. PICK w : w = Min({wages[f], purse[f]})
    OBVIOUS
  <2>3. w \in Nat /\ w <= purse[f] /\ purse[f] - w \in Nat
    BY <2>1, <2>2, MinOfNats
  <2>4. PICK s : s = Allocation(ExitDues(f), purse[f] - w)
    OBVIOUS
  <2>5. Total(s) \in Nat /\ Total(s) <= purse[f] - w /\ s[last] \in Nat /\ s[last] <= Total(s)
    BY <1>1, <2>1, <2>3, <2>4, ExitShares
  <2>6. worker[f] = w /\ shared[f] = s
    BY <2>2, <2>4
  <2>7. left[f] = purse[f] - w - Total(s) /\ bank[f] = Total(s) - s[last] /\ tax[f] = s[last]
    BY <2>6
  <2> HIDE DEF worker, shared, left, last, bank, tax
  <2> QED
    BY <2>1, <2>3, <2>5, <2>6, <2>7
<1>8. /\ worker \in [C -> Nat] /\ left \in [C -> Nat] /\ bank \in [C -> Nat] /\ tax \in [C -> Nat]
      /\ \A f \in C : purse[f] = worker[f] + bank[f] + tax[f] + left[f]
      /\ [f \in C |-> worker[f] + shared[f][last]] = [f \in C |-> worker[f] + tax[f]]
  <2>1. \A f \in C : worker[f] \in Nat /\ left[f] \in Nat /\ bank[f] \in Nat /\ tax[f] \in Nat
    BY <1>7
  <2>2. worker \in [C -> Nat]
    BY <2>1
  <2>3. left \in [C -> Nat]
    BY <2>1
  <2>4. bank \in [C -> Nat]
    BY <2>1
  <2>5. tax \in [C -> Nat]
    BY <2>1
  <2>6. \A f \in C : purse[f] = worker[f] + bank[f] + tax[f] + left[f]
    BY <1>7
  <2>7. \A f \in C : tax[f] = shared[f][last]
    OBVIOUS
  <2> HIDE DEF worker, shared, left, last, bank, tax
  <2> QED
    BY <2>2, <2>3, <2>4, <2>5, <2>6, <2>7
<1> HIDE DEF worker, shared, left, last, bank, tax
<1>9. /\ purse' \in [Borrowers -> Nat]
      /\ Total(bank) \in Nat /\ Total([f \in C |-> worker[f] + tax[f]]) \in Nat
      /\ Total([f \in C \ owned |-> left[f]]) \in Nat
      /\ Total(purse') + Total(bank) + Total([f \in C |-> worker[f] + tax[f]])
           + Total([f \in C \ owned |-> left[f]]) = Total(purse)
  <2>1. PICK p : p = purse'
    OBVIOUS
  <2>2. Distributed(purse, C, owned, owner, worker, bank, tax, left, p)
    BY <1>1, <1>4, <1>6, <1>8, <2>1 DEF Distributed
  <2>3. /\ p \in [Borrowers -> Nat]
        /\ Total(bank) \in Nat /\ Total([f \in C |-> worker[f] + tax[f]]) \in Nat
        /\ Total([f \in C \ owned |-> left[f]]) \in Nat
        /\ Total(p) + Total(bank) + Total([f \in C |-> worker[f] + tax[f]])
             + Total([f \in C \ owned |-> left[f]]) = Total(purse)
    <3>1. Accounted(purse, C, owned, worker, bank, tax, left, p)
      BY <2>2, SharedOut
    <3> QED
      BY <3>1 DEF Accounted
  <2> QED
    BY <2>1, <2>3
<1> DEFINE out == Total([f \in C |-> worker[f] + tax[f]])
           pool == Total([f \in C \ owned |-> left[f]])
<1>20. rest' = rest + out + pool
  BY <1>4, <1>8
<1>21. out \in Nat /\ pool \in Nat /\ Total(bank) \in Nat /\ Total(purse') + Total(bank) + out + pool = Total(purse)
  BY <1>9
<1> HIDE DEF out, pool
<1>10. /\ ledger'.claims = Kept(ledger.claims, {i \in 1 .. Len(ledger.claims) : ledger.claims[i].who \notin C})
       /\ ledger'.booked = ledger.booked - Total([f \in C |-> Owed(ledger.claims, f, Kinds)])
       /\ ledger'.reserve = ledger.reserve + Total(bank) /\ ledger'.index = ledger.index /\ DOMAIN ledger' = DOMAIN ledger
       /\ ledger'.mirror = [x \in DOMAIN ledger.mirror |-> IF x[1] \in C THEN 0 ELSE ledger.mirror[x]]
  BY <1>1, <1>4 DEF LedgerOK
<1>11. /\ ledger'.claims \in Seq(Sound)
       /\ SumOf(ledger'.claims, AllDebt) = ledger'.booked /\ ledger'.booked \in Nat
  <2>1. PICK k : k = Kept(ledger.claims, {i \in 1 .. Len(ledger.claims) : ledger.claims[i].who \notin C})
    OBVIOUS
  <2>2. /\ SumOf(k, AllDebt) = SumOf(ledger.claims, AllDebt) - Total([f \in C |-> Owed(ledger.claims, f, Kinds)])
        /\ k \in Seq(Sound)
    BY <1>1, <1>6, <2>1, ExitedBooks
  <2>3. SumOf(k, AllDebt) \in Nat
    BY <2>2, WeightsTyped, SumTyped
  <2>4. ledger.booked = SumOf(ledger.claims, AllDebt)
    BY <1>1 DEF LedgerOK
  <2>5. ledger'.booked = SumOf(k, AllDebt)
    BY <1>10, <2>2, <2>4
  <2>6. ledger'.claims = k
    BY <1>10, <2>1
  <2> QED
    BY <2>2, <2>3, <2>5, <2>6
<1>12. ledger'.mirror \in [Borrowers \X Kinds -> Nat]
  <2>1. ledger.mirror \in [Borrowers \X Kinds -> Nat]
    BY <1>1 DEF LedgerOK
  <2> QED
    BY <1>10, <2>1
<1>13. LedgerOK(ledger')
  <2>1. ledger'.reserve \in Nat
    BY <1>1, <1>9, <1>10
  <2> QED
    BY <1>1, <1>10, <1>11, <1>12, <2>1 DEF LedgerOK
<1>14. OthersOK'
  <2>1. cooldown' \in [Borrowers -> 0 .. Cooldown]
    BY <1>1, <1>5, BarredTyped
  <2>2. rest' \in Nat
    BY <1>1, <1>20, <1>21
  <2>3. mortgage' \in [Firms -> [owed : Nat, pay : Nat, missed : BOOLEAN]] /\ direct' \in [Firms -> [owed : Nat, pay : Nat]]
    <3>1. NoMortgage \in [owed : Nat, pay : Nat, missed : BOOLEAN] /\ NoDirect \in [owed : Nat, pay : Nat]
      BY DEF NoMortgage, NoDirect
    <3> QED
      BY <1>1, <1>4, <3>1 DEF OthersOK
  <2>4. Baseline \subseteq live' /\ live' \subseteq Firms
    BY <1>1, <1>4, <1>6 DEF OthersOK
  <2> QED
    BY <1>1, <1>2, <1>9, <2>1, <2>2, <2>3, <2>4 DEF OthersOK
<1>15. ClaimsSound'
  <2>1. ledger.claims \in Seq(Idle)
    BY <1>1, <1>2 DEF ClaimsSound
  <2>2. PICK P : P = {i \in 1 .. Len(ledger.claims) : ledger.claims[i].who \notin C}
    OBVIOUS
  <2>3. Kept(ledger.claims, P) \in Seq(Idle)
    BY <2>1, <2>2, KeptLaw
  <2>4. phase' \notin Week
    BY <1>2 DEF Week
  <2> QED
    BY <1>10, <2>2, <2>3, <2>4 DEF ClaimsSound
<1>16. Total(purse') + ledger'.reserve + rest' = Total(purse) + ledger.reserve + rest
  <2>1. Total(purse') \in Nat
    BY <1>9, Constants, TotalNat
  <2> QED
    BY <1>1, <1>10, <1>20, <1>21, <2>1
<1> QED
  BY <1>13, <1>14, <1>15, <1>16, Balance

\* A firm that is gone left no cash.
LEMMA GoneStays == MInv /\ Gone /\ Next => Gone'
<1> SUFFICES ASSUME MInv, Gone, Next PROVE Gone'
  OBVIOUS
<1>1. /\ OthersOK /\ LedgerOK(ledger) /\ ClaimsSound /\ live \subseteq Firms
      /\ Firms \subseteq Borrowers /\ Households \subseteq Borrowers /\ purse \in [Borrowers -> Nat]
  BY MInvFacts
<1>2. Households \cap Firms = {}
  BY Constants
<1>3. \A f \in Firms \ live : purse[f] = 0 /\ f \in Borrowers /\ f \notin Households
  BY <1>1, <1>2 DEF Gone
<1> DEFINE Cold == \A f \in Firms \ live : purse'[f] = 0
<1>4. ASSUME UNCHANGED purse PROVE Cold
  BY <1>3, <1>4
<1>5. ASSUME NEW b \in Households \cup live, NEW v, purse' = [purse EXCEPT ![b] = v] PROVE Cold
  BY <1>1, <1>3, <1>5
<1>6. CASE OpenWeek \/ Refuse \/ StartMortgage
  <2>1. UNCHANGED <<purse, live>>
    BY <1>6 DEF OpenWeek, Refuse, StartMortgage
  <2> QED
    BY <1>4, <2>1 DEF Gone
<1>7. CASE LendToFirm
  <2>1. PICK f \in live, p \in Principals, spent \in BOOLEAN :
          purse' = IF spent THEN purse ELSE [purse EXCEPT ![f] = @ + p]
    BY <1>7 DEF LendToFirm
  <2>2. Cold
    BY <1>4, <1>5, <2>1
  <2> QED
    BY <1>7, <2>2 DEF LendToFirm, Gone
<1>8. CASE LendDirectly
  <2>1. PICK f \in live, p \in Principals, spent \in BOOLEAN :
          purse' = IF spent THEN purse ELSE [purse EXCEPT ![f] = @ + p]
    BY <1>8 DEF LendDirectly
  <2>2. Cold
    BY <1>4, <1>5, <2>1
  <2> QED
    BY <1>8, <2>2 DEF LendDirectly, Gone
<1>9. CASE LendForConsumption
  <2>1. PICK h \in Households, p \in Principals : purse' = [purse EXCEPT ![h] = @ + p]
    BY <1>9 DEF LendForConsumption
  <2>2. Cold
    BY <1>5, <2>1
  <2> QED
    BY <1>9, <2>2 DEF LendForConsumption, Gone
<1>10. CASE Trade
  <2>1. PICK b \in Households \cup live, amount \in (-MaxIncome .. MaxIncome) \ {0} : purse' = [purse EXCEPT ![b] = @ + amount]
    BY <1>10 DEF Trade
  <2>2. Cold
    BY <1>5, <2>1
  <2> QED
    BY <1>10, <2>2 DEF Trade, Gone
<1>11. CASE ServiceMortgages
  <2>1. PICK S \in SUBSET live : purse' = [b \in Borrowers |-> IF b \in S THEN purse[b] - MortgageDue(b) ELSE purse[b]]
    BY <1>11 DEF ServiceMortgages
  <2>2. Cold
    BY <1>3, <2>1
  <2> QED
    BY <1>11, <2>2 DEF ServiceMortgages, Gone
<1>12. CASE Visit
  <2>1. \/ \E h \in Households : purse' = [purse EXCEPT ![h] = 0]
        \/ UNCHANGED purse
    BY <1>12 DEF Visit
  <2>2. Cold
    BY <1>4, <1>5, <2>1
  <2> QED
    BY <1>12, <2>2 DEF Visit, Gone
<1>13. CASE CollectHouseholdDues
  <2>1. PICK due : due = HouseDues(ledger.claims)
    OBVIOUS
  <2>2. purse' = [b \in Borrowers |-> purse[b] - Collection(ledger, Households, due).taken[b]] /\ phase \in Week
    BY <1>13, <2>1 DEF CollectHouseholdDues, HouseDues, Moves, Week
  <2>3. Collectible(ledger, Households, due)
    <3>1. ledger.claims \in Seq(Noted)
      BY <1>1, <2>2 DEF ClaimsSound
    <3> QED
      BY <1>1, <2>1, <3>1, HouseDuesLaw
  <2>4. \A b \in Borrowers \ Households : Collection(ledger, Households, due).taken[b] = 0
    BY <2>3, PaidLaw, CollectionTakes
  <2>5. Cold
    BY <1>3, <2>2, <2>4
  <2> QED
    BY <1>13, <2>5 DEF CollectHouseholdDues, Gone
<1>14. CASE CollectFirmDues
  <2>1. PICK l, due, taken : l = GrownLedger /\ due = FirmDue(l.claims) /\ taken = TakenOf(l, Firms, due)
    OBVIOUS
  <2>2. Collectible(l, Firms, due) /\ l.claims = Grown(ledger.claims, Firms)
    BY <1>1, <2>1, FirmDuesLaw
  <2>3. taken = Collection(l, Firms, due).taken
    BY <2>1, CollectionTakes
  <2>4. purse' = [b \in Borrowers |-> purse[b] - taken[b]
                     - IF b \in Firms THEN (IF b \in live THEN Min({purse[b] - taken[b], direct[b].pay, direct[b].owed}) ELSE 0) ELSE 0]
    <3>1. Grown(ledger.claims, Firms) = [i \in 1 .. Len(ledger.claims) |-> Accrued(ledger.claims[i], Firms)]
      BY DEF Grown
    <3>2. taken = Collection([ledger EXCEPT !.claims = Grown(ledger.claims, Firms), !.booked = @ + Accrual(ledger.claims, Firms)],
                       Firms, FirmDue(Grown(ledger.claims, Firms))).taken
      BY <2>1, <2>2, <2>3 DEF GrownLedger
    <3> QED
      BY <1>14, <3>1, <3>2 DEF CollectFirmDues
  <2>5. taken \in [Borrowers -> Nat] /\ \A b \in Borrowers : taken[b] <= purse[b]
    BY <2>1, <2>2, PaidLaw
  <2>6. ASSUME NEW f \in Firms \ live PROVE purse'[f] = 0
    <3>1. taken[f] \in Nat /\ taken[f] <= 0 /\ purse[f] = 0
      BY <1>3, <2>5
    <3>2. purse'[f] = purse[f] - taken[f] - 0
      BY <1>3, <2>4
    <3> QED
      BY <3>1, <3>2
  <2> QED
    BY <1>14, <2>6 DEF CollectFirmDues, Gone
<1>15. CASE Exits
  <2>1. PICK C \in SUBSET (live \ Baseline) : \E wages \in [C -> 0 .. MaxIncome], owned \in SUBSET C :
           \E owner \in [owned -> Households] : Closing(C, wages, owned, owner)
    BY <1>15, Zenon DEF Exits, Closing
  <2>2. PICK wages \in [C -> 0 .. MaxIncome], owned \in SUBSET C :
           \E owner \in [owned -> Households] : Closing(C, wages, owned, owner)
    BY <2>1
  <2>3. PICK owner \in [owned -> Households] : Closing(C, wages, owned, owner)
    BY <2>2
  <2>4. PICK left : purse' = [b \in Borrowers |->
               IF b \in C THEN 0 ELSE purse[b] + Total([f \in {g \in owned : owner[g] = b} |-> left[f]])]
    BY <2>3, ZenonT(60) DEF Closing
  <2>5. live' = live \ C
    BY <2>3, Zenon DEF Closing
  <2>6. ASSUME NEW f \in Firms \ live' PROVE purse'[f] = 0
    <3>1. CASE f \in C
      BY <1>1, <2>4, <3>1
    <3>2. CASE f \notin C
      <4>1. f \in Firms \ live
        BY <2>5, <3>2
      <4>2. {g \in owned : owner[g] = f} = {}
        BY <1>3, <4>1
      <4>3. [g \in {} |-> left[g]] = [g \in {} |-> 0]
        OBVIOUS
      <4>4. Total([g \in {g \in owned : owner[g] = f} |-> left[g]]) = 0
        BY <4>2, <4>3, FS_EmptySet, TotalZero
      <4>5. purse'[f] = purse[f] + Total([g \in {g \in owned : owner[g] = f} |-> left[g]])
        BY <1>3, <2>4, <3>2, <4>1
      <4> QED
        BY <1>3, <4>1, <4>4, <4>5
    <3> QED
      BY <3>1, <3>2
  <2> QED
    BY <2>6 DEF Gone
<1>16. CASE Entry
  <2>1. CASE UNCHANGED <<purse, live>>
    BY <1>4, <2>1 DEF Gone
  <2>2. ASSUME NEW f \in Firms \ live, NEW p \in Principals, live' = live \cup {f}, purse' = [purse EXCEPT ![f] = p]
        PROVE  Gone'
    BY <1>1, <1>3, <2>2 DEF Gone
  <2>3. ASSUME NEW f \in Firms \ live, NEW p \in Principals, live' = live \cup {f}, NEW h \in Households,
               purse' = [purse EXCEPT ![f] = p, ![h] = @ - p]
        PROVE  Gone'
    BY <1>1, <1>3, <2>3 DEF Gone
  <2>4. \/ UNCHANGED <<purse, live>>
        \/ \E f \in Firms \ live, p \in Principals :
             /\ live' = live \cup {f}
             /\ \/ purse' = [purse EXCEPT ![f] = p]
                \/ \E h \in Households : purse' = [purse EXCEPT ![f] = p, ![h] = @ - p]
    BY <1>16 DEF Entry
  <2> QED
    BY <2>1, <2>2, <2>3, <2>4
<1> QED
  BY <1>6, <1>7, <1>8, <1>9, <1>10, <1>11, <1>12, <1>13, <1>14, <1>15, <1>16 DEF Next

-----------------------------------------------------------------------------
(* The whole run *)

MoneySound == MInv /\ Gone

LEMMA MoneyInit == Init => MoneySound
<1> SUFFICES ASSUME Init PROVE MoneySound
  OBVIOUS
<1>1. /\ phase = "open" /\ live = Firms
      /\ ledger = [claims |-> <<>>, booked |-> 0, reserve |-> OpeningReserve, index |-> NoIndex,
               mirror |-> [x \in Borrowers \X Kinds |-> 0]]
      /\ purse = [b \in Borrowers |-> OpeningCash] /\ rest = OpeningRest
      /\ mortgage = [f \in Firms |-> NoMortgage] /\ direct = [f \in Firms |-> NoDirect]
      /\ capacity = Nothing /\ cooldown = Nothing
  BY DEF Init
<1>2. /\ OpeningCash \in Nat /\ OpeningReserve \in Nat /\ OpeningRest \in Nat /\ Cooldown \in Nat
      /\ IsFiniteSet(Borrowers) /\ Baseline \subseteq Firms
  BY Constants, LoansAssumption
<1>3. OthersOK
  BY <1>1, <1>2 DEF OthersOK, NoMortgage, NoDirect, Nothing
<1>4. SumOf(<<>>, AllDebt) = 0
  <2>1. [i \in 1 .. Len(<<>>) |-> AllDebt[<<>>[i]]] = [i \in {} |-> 0]
    OBVIOUS
  <2> QED
    BY <2>1, FS_EmptySet, TotalZero DEF SumOf
<1>5. LedgerOK(ledger)
  BY <1>1, <1>2, <1>4 DEF LedgerOK
<1>6. Conserved
  <2>1. Total(purse) = OpeningCash * Cardinality(Borrowers)
    <3>1. IsFiniteSet(Borrowers)
      BY <1>2
    <3>2. OpeningCash \in Int
      BY <1>2
    <3>3. Total([b \in Borrowers |-> OpeningCash]) = OpeningCash * Cardinality(Borrowers)
      BY <3>1, <3>2, TotalConst
    <3> QED
      BY <1>1, <3>3
  <2>2. Cardinality(Borrowers) \in Nat
    BY <1>2, FS_CardinalityType
  <2>3. OpeningCash * Cardinality(Borrowers) \in Nat
    BY <1>2, <2>2
  <2> QED
    BY <1>1, <1>2, <2>1, <2>3 DEF Conserved, AllMoney
<1>7. ClaimsSound
  BY <1>1 DEF ClaimsSound, Week
<1>8. Gone
  BY <1>1 DEF Gone
<1> QED
  BY <1>3, <1>5, <1>6, <1>7, <1>8 DEF MoneySound, MInv

LEMMA MoneyNext == MoneySound /\ Next => MoneySound'
<1> SUFFICES ASSUME MInv, Gone, Next PROVE MInv' /\ Gone'
  BY DEF MoneySound
<1>1. MInv'
  BY MoneyOpenWeek, MoneyRefuse, MoneyLendToFirm, MoneyLendDirectly, MoneyLendForConsumption, MoneyTrade,
     MoneyServiceMortgages, MoneyStartMortgage, MoneyVisit, MoneyCollectHouseholdDues, MoneyCollectFirmDues,
     MoneyExits, MoneyEntry DEF Next
<1> QED
  BY <1>1, GoneStays

LEMMA MoneyStutter == MoneySound /\ UNCHANGED vars => MoneySound'
<1> SUFFICES ASSUME MoneySound, UNCHANGED vars PROVE MoneySound'
  OBVIOUS
<1>1. UNCHANGED <<phase, ledger, purse, rest, mortgage, direct, capacity, cooldown, live>>
  BY DEF vars
<1> QED
  BY <1>1 DEF MoneySound, MInv, Gone, OthersOK, LedgerOK, SumOf, AllDebt, IndexType, Conserved, AllMoney, ClaimsSound

LEMMA SpecMoney == Spec => []MoneySound
  BY MoneyInit, MoneyNext, MoneyStutter, PTL DEF Spec

\* No phase of the week makes or loses money, for any borrowers, firms, installments and bounds:
\* nothing lent, accrued, paid, taken back, written off or settled at an exit is booked but once.
THEOREM NoMoneyIsLost == Spec => []MoneyConserved
<1>1. MoneySound => MoneyConserved
  BY MoneyInv DEF MoneySound
<1> QED
  BY <1>1, SpecMoney, PTL

-----------------------------------------------------------------------------
(* The collection *)

\* What was noted on a household's claims is what they are due: the fresh and the settled are due nothing.
LEMMA NotedDues ==
  ASSUME NEW claims \in Seq(Noted), NEW h \in Households
  PROVE  Total([i \in {j \in 1 .. Len(claims) : claims[j].who = h} |-> HouseDues(claims)[i]])
           = Total([i \in {j \in Of(claims, h, Kinds) : ~claims[j].fresh} |-> Min({claims[i].pay, Remaining(claims[i])})])
<1> DEFINE n == Len(claims)
           U == {j \in 1 .. n : claims[j].who = h}
           T == {j \in Of(claims, h, Kinds) : ~claims[j].fresh}
           f == [i \in T |-> Min({claims[i].pay, Remaining(claims[i])})]
           g == [i \in U |-> HouseDues(claims)[i]]
<1>1. IsFiniteSet(1 .. n) /\ \A i \in 1 .. n : claims[i] \in Noted
  BY Places
<1>2. ASSUME NEW i \in 1 .. n
      PROVE  /\ claims[i].kind \in Kinds /\ Min({claims[i].pay, Remaining(claims[i])}) \in Nat /\ Remaining(claims[i]) \in Nat
             /\ (claims[i].who = h => claims[i].due = IF claims[i].fresh THEN 0 ELSE Min({claims[i].pay, Remaining(claims[i])}))
             /\ (Remaining(claims[i]) = 0 => Min({claims[i].pay, Remaining(claims[i])}) = 0)
             /\ claims[i].due \in Nat
  <2>1. PICK c \in Noted : c = claims[i]
    BY <1>1
  <2>2. c \in Sound /\ c.due = IF c.who \in Households THEN DueOf(c) ELSE 0
    BY DEF Noted
  <2>3. /\ c.kind \in Kinds /\ Min({c.pay, Remaining(c)}) \in Nat /\ Remaining(c) \in Nat
        /\ DueOf(c) = IF c.fresh THEN 0 ELSE Min({c.pay, Remaining(c)})
        /\ (Min({c.pay, Remaining(c)}) = 0 <=> Remaining(c) = 0) /\ c.due \in Nat
    BY <2>2, SoundFields
  <2> QED
    BY <2>1, <2>2, <2>3
<1>3. T \in SUBSET U
  BY DEF Of, Open
<1>4. IsFiniteSet(U)
  <2>1. U \in SUBSET (1 .. n)
    OBVIOUS
  <2> QED
    BY <1>1, <2>1, FS_Subset
<1>5. f \in [T -> Int]
  BY <1>2, <1>3
<1>6. g \in [U -> Int]
  <2>1. \A i \in U : HouseDues(claims)[i] = claims[i].due /\ claims[i].due \in Int
    <3>1. SUFFICES ASSUME NEW i \in U PROVE HouseDues(claims)[i] = claims[i].due /\ claims[i].due \in Int
      OBVIOUS
    <3>2. i \in 1 .. Len(claims)
      OBVIOUS
    <3>3. claims[i].due \in Nat
      BY <1>2, <3>2
    <3>4. HouseDues(claims)[i] = claims[i].due
      BY <3>2 DEF HouseDues
    <3> QED
      BY <3>3, <3>4
  <2>2. \A i \in U : HouseDues(claims)[i] \in Int
    BY <2>1
  <2> QED
    BY <2>2
<1>7. ASSUME NEW x \in U PROVE g[x] = IF x \in T THEN f[x] ELSE 0
  <2>1. /\ Remaining(claims[x]) \in Nat /\ claims[x].kind \in Kinds
        /\ claims[x].due = IF claims[x].fresh THEN 0 ELSE Min({claims[x].pay, Remaining(claims[x])})
        /\ (Remaining(claims[x]) = 0 => Min({claims[x].pay, Remaining(claims[x])}) = 0)
    BY <1>2
  <2>2. g[x] = claims[x].due
    BY DEF HouseDues
  <2>3. x \in T <=> Remaining(claims[x]) > 0 /\ ~claims[x].fresh
    BY <2>1 DEF Of, Open
  <2>4. x \in T => f[x] = Min({claims[x].pay, Remaining(claims[x])})
    OBVIOUS
  <2>5. Remaining(claims[x]) = 0 \/ Remaining(claims[x]) > 0
    BY <2>1
  <2> HIDE DEF T, f, g
  <2> QED
    BY <2>1, <2>2, <2>3, <2>4, <2>5
<1> HIDE DEF T, U, f, g
<1>8. \A x \in U : g[x] = IF x \in T THEN f[x] ELSE 0
  BY <1>7
<1>9. PICK D, S, a, b : D = U /\ S = T /\ a = f /\ b = g
  OBVIOUS
<1>10. IsFiniteSet(D)
  BY <1>4, <1>9
<1>11. S \in SUBSET D
  BY <1>3, <1>9
<1>12. a \in [S -> Int]
  BY <1>5, <1>9
<1>13. b \in [D -> Int]
  BY <1>6, <1>9
<1>14. \A x \in D : b[x] = IF x \in S THEN a[x] ELSE 0
  BY <1>8, <1>9
<1>15. Total(a) = Total(b)
  BY <1>10, <1>11, <1>12, <1>13, <1>14, TotalPadded, SMTT(40)
<1> QED
  BY <1>9, <1>15 DEF T, U, f, g

\* What a household pays, and what is left of its claims.
LEMMA CollectedExactly ==
  ASSUME MInv, CollectHouseholdDues, NEW h \in Households, NEW mine, NEW due,
         mine = {i \in Of(ledger.claims, h, Kinds) : ~ledger.claims[i].fresh},
         due = [i \in mine |-> Min({ledger.claims[i].pay, Remaining(ledger.claims[i])})]
  PROVE  /\ purse[h] - purse'[h] = Min({purse[h], Total(due)})
         /\ \A i \in mine : \/ Remaining(ledger'.claims[i]) >= Remaining(ledger.claims[i]) - due[i]
                            \/ ledger'.claims[i].missed = Misses
<1>1. /\ OthersOK /\ LedgerOK(ledger) /\ ClaimsSound /\ Households \subseteq Borrowers /\ purse \in [Borrowers -> Nat]
  BY MInvFacts
<1>2. PICK claims, noted, taken, paid : /\ claims = ledger.claims /\ noted = HouseDues(claims)
        /\ taken = TakenOf(ledger, Households, noted) /\ paid = PaidOn(ledger, Households, noted)
  OBVIOUS
<1>3. phase \in Week
  BY DEF CollectHouseholdDues, Moves, Week
<1>4. claims \in Seq(Noted)
  BY <1>1, <1>2, <1>3 DEF ClaimsSound
<1>5. Collectible(ledger, Households, noted)
  BY <1>1, <1>2, <1>4, HouseDuesLaw
<1>6. /\ ledger' = Collection(ledger, Households, noted).ledger
      /\ purse' = [b \in Borrowers |-> purse[b] - Collection(ledger, Households, noted).taken[b]]
  BY <1>2 DEF CollectHouseholdDues, HouseDues
<1>7. ledger'.claims = SettledAll(ledger, Households, noted)
  BY <1>1, <1>5, <1>6, CollectedLedger
<1>8. /\ taken \in [Borrowers -> Nat]
      /\ taken[h] = Min({purse[h], Total([i \in {j \in 1 .. Len(claims) : claims[j].who = h} |-> noted[i]])})
      /\ \A i \in 1 .. Len(claims) : paid[i] <= noted[i]
      /\ paid \in [1 .. Len(claims) -> Nat]
  BY <1>2, <1>5, PaidLaw
<1>9. Total([i \in {j \in 1 .. Len(claims) : claims[j].who = h} |-> noted[i]]) = Total(due)
  <2>1. due = [i \in {j \in Of(claims, h, Kinds) : ~claims[j].fresh} |-> Min({claims[i].pay, Remaining(claims[i])})]
    BY <1>2
  <2>2. Total([i \in {j \in 1 .. Len(claims) : claims[j].who = h} |-> HouseDues(claims)[i]])
           = Total([i \in {j \in Of(claims, h, Kinds) : ~claims[j].fresh} |-> Min({claims[i].pay, Remaining(claims[i])})])
    BY <1>4, NotedDues
  <2> QED
    BY <1>2, <2>1, <2>2
<1>10. purse[h] - purse'[h] = taken[h]
  <2>1. purse'[h] = purse[h] - taken[h]
    <3>1. Collection(ledger, Households, noted).taken = taken
      BY <1>2, CollectionTakes
    <3> QED
      BY <1>1, <1>6, <3>1
  <2>2. purse[h] \in Nat /\ taken[h] \in Nat
    BY <1>1, <1>8
  <2> QED
    BY <2>1, <2>2
<1>11. ASSUME NEW i \in mine
       PROVE  \/ Remaining(ledger'.claims[i]) >= Remaining(ledger.claims[i]) - due[i]
              \/ ledger'.claims[i].missed = Misses
  <2>1. i \in 1 .. Len(claims) /\ claims[i].who = h /\ ~claims[i].fresh /\ due[i] = Min({claims[i].pay, Remaining(claims[i])})
    BY <1>2 DEF Of, Open
  <2>2. claims[i] \in Noted /\ claims[i] \in Sound
    BY <1>4, <2>1, Places DEF Noted
  <2>3. noted[i] = due[i]
    <3>1. noted[i] = claims[i].due
      BY <1>2, <2>1 DEF HouseDues
    <3>2. claims[i].due = DueOf(claims[i])
      BY <2>1, <2>2 DEF Noted
    <3>3. DueOf(claims[i]) = Min({claims[i].pay, Remaining(claims[i])})
      BY <2>1, <2>2, SoundFields
    <3> QED
      BY <2>1, <3>1, <3>2, <3>3
  <2>4. paid[i] \in Nat /\ paid[i] <= noted[i] /\ noted[i] \in Nat /\ Remaining(claims[i]) \in Nat
    BY <1>5, <1>2, <1>8, <2>1, <2>2, SoundFields DEF Collectible
  <2>5. Remaining(ledger'.claims[i]) = IF Defaults(claims[i], noted[i], paid[i]) THEN 0 ELSE Remaining(claims[i]) - paid[i]
    BY <1>2, <1>5, <1>7, <2>1, CollectedClaims
  <2>6. Defaults(claims[i], noted[i], paid[i]) => ledger'.claims[i].missed = Misses
    BY <1>2, <1>5, <1>7, <2>1, CollectedClaims
  <2>7. CASE Defaults(claims[i], noted[i], paid[i])
    BY <2>6, <2>7
  <2>8. CASE ~ Defaults(claims[i], noted[i], paid[i])
    <3>1. Remaining(ledger'.claims[i]) = Remaining(claims[i]) - paid[i]
      BY <2>5, <2>8
    <3>2. Remaining(ledger'.claims[i]) >= Remaining(claims[i]) - noted[i]
      BY <2>4, <3>1
    <3> QED
      BY <1>2, <2>3, <3>2
  <2> QED
    BY <2>7, <2>8
<1> QED
  BY <1>8, <1>9, <1>10, <1>11

\* The collection takes from each household what its claims are due then, or all it has, though the
\* dues were noted before all the lending, trading and care of the week; and of no claim more.
THEOREM CollectionTakesWhatIsDue == Spec => CollectionIsExact
<1> DEFINE Exactly ==
      (phase # "late" /\ phase' = "late") =>
        \A h \in Households :
          LET mine == {i \in Of(ledger.claims, h, Kinds) : ~ledger.claims[i].fresh}
              due  == [i \in mine |-> Min({ledger.claims[i].pay, Remaining(ledger.claims[i])})]
          IN /\ purse[h] - purse'[h] = Min({purse[h], Total(due)})
             /\ \A i \in mine : \/ Remaining(ledger'.claims[i]) >= Remaining(ledger.claims[i]) - due[i]
                                \/ ledger'.claims[i].missed = Misses
<1>1. MoneySound /\ Next => Exactly
  <2> SUFFICES ASSUME MInv, Next, phase # "late", phase' = "late", NEW h \in Households
               PROVE  LET mine == {i \in Of(ledger.claims, h, Kinds) : ~ledger.claims[i].fresh}
                          due  == [i \in mine |-> Min({ledger.claims[i].pay, Remaining(ledger.claims[i])})]
                      IN /\ purse[h] - purse'[h] = Min({purse[h], Total(due)})
                         /\ \A i \in mine : \/ Remaining(ledger'.claims[i]) >= Remaining(ledger.claims[i]) - due[i]
                                            \/ ledger'.claims[i].missed = Misses
    BY DEF MoneySound
  <2>1. CollectHouseholdDues
    BY DEF Next, OpenWeek, Refuse, LendToFirm, LendDirectly, LendForConsumption, Trade, ServiceMortgages, StartMortgage,
           Visit, CollectFirmDues, Exits, Entry, Moves, Lending
  <2> QED
    BY <2>1, CollectedExactly
<1>2. MoneySound /\ [Next]_vars => [Exactly]_vars
  BY <1>1
<1> QED
  BY <1>2, SpecMoney, PTL DEF Spec, CollectionIsExact

-----------------------------------------------------------------------------
(* The mirrors *)

\* What is noted on the open claims of a household.
Noting(h) == [c \in Sound |-> IF c.who = h /\ Remaining(c) > 0 THEN c.due ELSE 0]

DebtorsIn(claims, there) == \A i \in 1 .. Len(claims) : Remaining(claims[i]) > 0 => claims[i].who \in there
OneMedical(claims) == \A h \in Households : SumOf(claims, Medical(h)) <= 1

\* Where it is noted what falls due, the mirrors of a household lag behind by the interest of the
\* week; but what shows no loan of a kind has none, and where nothing is noted nothing accrued.
Shown(claims, mirror, h) == \A k \in Kinds : mirror[<<h, k>>] = SumOf(claims, Debt(h, {k}))
Lagging(claims, mirror, h) ==
  /\ \A k \in Kinds : mirror[<<h, k>>] = 0 => SumOf(claims, Debt(h, {k})) = 0
  /\ SumOf(claims, Noting(h)) = 0 => Shown(claims, mirror, h)
HouseholdsShown(claims, mirror, noted) ==
  \A h \in Households : IF noted THEN Lagging(claims, mirror, h) ELSE Shown(claims, mirror, h)
FirmsShown(claims, mirror, m) ==
  \A f \in Firms : mirror[<<f, "business">>] = SumOf(claims, Debt(f, {"business"})) + m[f].owed

Mirrored(claims, mirror, m, there, noted) ==
  /\ DebtorsIn(claims, there) /\ OneMedical(claims)
  /\ HouseholdsShown(claims, mirror, noted) /\ FirmsShown(claims, mirror, m)

LEMMA SumZero ==
  ASSUME NEW s \in Seq(Sound), NEW w \in [Sound -> Nat]
  PROVE  SumOf(s, w) = 0 <=> \A i \in 1 .. Len(s) : w[s[i]] = 0
<1>1. SumOf(s, w) \in Nat /\ \A i \in 1 .. Len(s) : w[s[i]] \in Nat /\ w[s[i]] <= SumOf(s, w)
  BY SumTyped
<1>2. ASSUME SumOf(s, w) = 0, NEW i \in 1 .. Len(s) PROVE w[s[i]] = 0
  BY <1>1, <1>2
<1>3. ASSUME \A i \in 1 .. Len(s) : w[s[i]] = 0 PROVE SumOf(s, w) = 0
  <2>1. IsFiniteSet(1 .. Len(s))
    BY Places
  <2>2. [i \in 1 .. Len(s) |-> w[s[i]]] = [i \in 1 .. Len(s) |-> 0]
    BY <1>3
  <2>3. Total([i \in 1 .. Len(s) |-> 0]) = 0
    BY <2>1, TotalZero
  <2> QED
    BY <2>2, <2>3 DEF SumOf
<1> QED
  BY <1>2, <1>3

\* Lists of one length, place by place.
LEMMA SumBelow ==
  ASSUME NEW s \in Seq(Sound), NEW t \in Seq(Sound), Len(t) = Len(s), NEW w \in [Sound -> Nat]
  PROVE  (\A i \in 1 .. Len(s) : w[t[i]] <= w[s[i]]) => SumOf(t, w) <= SumOf(s, w)
<1> SUFFICES ASSUME \A i \in 1 .. Len(s) : w[t[i]] <= w[s[i]]
             PROVE  SumOf(t, w) <= SumOf(s, w)
  OBVIOUS
<1>1. PICK D, f, g : D = 1 .. Len(s) /\ f = [i \in D |-> w[t[i]]] /\ g = [i \in D |-> w[s[i]]]
  OBVIOUS
<1>2. IsFiniteSet(D) /\ f \in [D -> Int] /\ g \in [D -> Int]
  BY <1>1, Places
<1>3. \A x \in D : f[x] <= g[x]
  BY <1>1
<1>4. Total(f) <= Total(g)
  BY <1>2, <1>3, TotalMonotone
<1> QED
  BY <1>1, <1>4 DEF SumOf

\* The weights of one claim.
LEMMA Weighing ==
  ASSUME NEW c \in Sound, NEW b, NEW k \in Kinds
  PROVE  /\ Debt(b, {k})[c] = IF c.who = b /\ c.kind = k THEN Remaining(c) ELSE 0
         /\ Medical(b)[c] = IF c.who = b /\ c.kind = "medical" /\ Remaining(c) > 0 THEN 1 ELSE 0
         /\ Noting(b)[c] = IF c.who = b /\ Remaining(c) > 0 THEN c.due ELSE 0
  BY DEF Debt, Medical, Noting

LEMMA NotingTyped == \A h : Noting(h) \in [Sound -> Nat]
<1>1. \A c \in Sound : c.due \in Nat
  BY SoundFields
<1> QED
  BY <1>1 DEF Noting

\* What is shown does not lag.
LEMMA ShownLags ==
  ASSUME NEW claims, NEW mirror, NEW h, Shown(claims, mirror, h)
  PROVE  Lagging(claims, mirror, h)
  BY DEF Shown, Lagging

\* A household that shows no medical loan has none.
LEMMA NoMedical ==
  ASSUME NEW claims \in Seq(Sound), NEW h, SumOf(claims, Debt(h, {"medical"})) = 0
  PROVE  SumOf(claims, Medical(h)) = 0
<1>1. "medical" \in Kinds
  BY DEF Kinds
<1>2. Debt(h, {"medical"}) \in [Sound -> Nat] /\ Medical(h) \in [Sound -> Nat]
  BY WeightsTyped
<1>3. \A i \in 1 .. Len(claims) : Debt(h, {"medical"})[claims[i]] = 0
  BY <1>2, SumZero
<1>4. ASSUME NEW i \in 1 .. Len(claims) PROVE Medical(h)[claims[i]] = 0
  <2>1. claims[i] \in Sound
    BY Places
  <2>2. PICK c \in Sound : c = claims[i]
    BY <2>1
  <2>3. Remaining(c) \in Nat /\ Debt(h, {"medical"})[c] = 0
    BY <1>3, <2>2, SoundFields
  <2> QED
    BY <1>1, <2>2, <2>3, Weighing
<1> QED
  BY <1>2, <1>4, SumZero

\* A loan that is granted shows on its borrower.
LEMMA MirroredGranted ==
  ASSUME NEW claims \in Seq(Sound), NEW mirror \in [Borrowers \X Kinds -> Nat], NEW m, \A f \in Firms : m[f].owed \in Nat,
         NEW there, NEW more, there \subseteq more, NEW noted, Mirrored(claims, mirror, m, there, noted),
         NEW b \in Borrowers, b \in more, NEW kind \in Kinds, NEW p \in Principals,
         kind = "medical" => SumOf(claims, Medical(b)) = 0
  PROVE  Mirrored(Append(claims, Fresh(b, kind, p)), [mirror EXCEPT ![<<b, kind>>] = @ + p], m, more, noted)
<1>1. PICK c, new, shown : /\ c = Fresh(b, kind, p) /\ new = Append(claims, c) /\ shown = [mirror EXCEPT ![<<b, kind>>] = @ + p]
  OBVIOUS
<1>2. /\ c \in Sound /\ Remaining(c) = p /\ p \in Nat /\ p > 0 /\ c.who = b /\ c.kind = kind /\ c.due = 0
  BY <1>1, FreshLaw
<1>3. \A w \in [Sound -> Int] : SumOf(new, w) = SumOf(claims, w) + w[c]
  BY <1>1, <1>2, SumAppend
<1>4. \A x \in Borrowers, k \in Kinds :
        /\ SumOf(new, Debt(x, {k})) = SumOf(claims, Debt(x, {k})) + IF x = b /\ k = kind THEN p ELSE 0
        /\ SumOf(claims, Debt(x, {k})) \in Nat
        /\ shown[<<x, k>>] = mirror[<<x, k>>] + IF x = b /\ k = kind THEN p ELSE 0
        /\ mirror[<<x, k>>] \in Nat
  <2> SUFFICES ASSUME NEW x \in Borrowers, NEW k \in Kinds
               PROVE  /\ SumOf(new, Debt(x, {k})) = SumOf(claims, Debt(x, {k})) + IF x = b /\ k = kind THEN p ELSE 0
                      /\ SumOf(claims, Debt(x, {k})) \in Nat
                      /\ shown[<<x, k>>] = mirror[<<x, k>>] + IF x = b /\ k = kind THEN p ELSE 0
                      /\ mirror[<<x, k>>] \in Nat
    OBVIOUS
  <2>1. Debt(x, {k}) \in [Sound -> Nat]
    BY WeightsTyped
  <2>2. Debt(x, {k})[c] = IF x = b /\ k = kind THEN p ELSE 0
    BY <1>2, Weighing
  <2>3. SumOf(new, Debt(x, {k})) = SumOf(claims, Debt(x, {k})) + Debt(x, {k})[c]
    <3>1. \A w \in [Sound -> Nat] : w \in [Sound -> Int]
      OBVIOUS
    <3> QED
      BY <1>3, <2>1, <3>1
  <2>4. SumOf(claims, Debt(x, {k})) \in Nat
    BY <2>1, SumTyped
  <2>5. <<x, k>> \in Borrowers \X Kinds /\ <<b, kind>> \in Borrowers \X Kinds /\ (<<x, k>> = <<b, kind>> <=> x = b /\ k = kind)
    OBVIOUS
  <2>6. mirror[<<x, k>>] \in Nat
    BY <2>5
  <2>7. shown[<<x, k>>] = IF <<x, k>> = <<b, kind>> THEN mirror[<<x, k>>] + p ELSE mirror[<<x, k>>]
    BY <1>1, <2>5
  <2> QED
    BY <1>2, <2>2, <2>3, <2>4, <2>5, <2>6, <2>7
<1>5. \A h \in Borrowers :
        /\ SumOf(new, Medical(h)) = SumOf(claims, Medical(h)) + IF h = b /\ kind = "medical" THEN 1 ELSE 0
        /\ SumOf(claims, Medical(h)) \in Nat
        /\ SumOf(new, Noting(h)) = SumOf(claims, Noting(h))
  <2> SUFFICES ASSUME NEW h \in Borrowers
               PROVE  /\ SumOf(new, Medical(h)) = SumOf(claims, Medical(h)) + IF h = b /\ kind = "medical" THEN 1 ELSE 0
                      /\ SumOf(claims, Medical(h)) \in Nat
                      /\ SumOf(new, Noting(h)) = SumOf(claims, Noting(h))
    OBVIOUS
  <2>1. Medical(h) \in [Sound -> Nat] /\ Noting(h) \in [Sound -> Nat]
    BY WeightsTyped, NotingTyped
  <2>2. Medical(h) \in [Sound -> Int] /\ Noting(h) \in [Sound -> Int]
    BY <2>1
  <2>3. SumOf(claims, Medical(h)) \in Nat /\ SumOf(claims, Noting(h)) \in Nat
    BY <2>1, SumTyped
  <2>4. Medical(h)[c] = (IF h = b /\ kind = "medical" THEN 1 ELSE 0) /\ Noting(h)[c] = 0
    BY <1>2, Weighing
  <2> QED
    BY <1>3, <2>2, <2>3, <2>4
<1>6. Len(claims) \in Nat /\ Len(new) = Len(claims) + 1 /\ new[Len(claims) + 1] = c /\ \A i \in 1 .. Len(claims) : new[i] = claims[i]
  BY <1>1, <1>2
<1>7. DebtorsIn(new, more)
  <2> SUFFICES ASSUME NEW i \in 1 .. Len(new), Remaining(new[i]) > 0 PROVE new[i].who \in more
    BY DEF DebtorsIn
  <2>1. i = Len(claims) + 1 \/ i \in 1 .. Len(claims)
    BY <1>6
  <2> QED
    BY <1>2, <1>6, <2>1 DEF Mirrored, DebtorsIn
<1>8. Households \subseteq Borrowers /\ Firms \subseteq Borrowers /\ "business" \in Kinds
  BY Constants DEF Kinds
<1>9. OneMedical(new)
  <2> SUFFICES ASSUME NEW h \in Households PROVE SumOf(new, Medical(h)) <= 1
    BY DEF OneMedical
  <2>1. SumOf(claims, Medical(h)) <= 1
    BY DEF Mirrored, OneMedical
  <2> QED
    BY <1>5, <1>8, <2>1
<1>10. FirmsShown(new, shown, m)
  <2> SUFFICES ASSUME NEW f \in Firms PROVE shown[<<f, "business">>] = SumOf(new, Debt(f, {"business"})) + m[f].owed
    BY DEF FirmsShown
  <2>1. mirror[<<f, "business">>] = SumOf(claims, Debt(f, {"business"})) + m[f].owed
    BY DEF Mirrored, FirmsShown
  <2> QED
    BY <1>2, <1>4, <1>8, <2>1
<1>11. \A h \in Households : Shown(claims, mirror, h) => Shown(new, shown, h)
  <2> SUFFICES ASSUME NEW h \in Households, Shown(claims, mirror, h), NEW k \in Kinds
               PROVE  shown[<<h, k>>] = SumOf(new, Debt(h, {k}))
    BY DEF Shown
  <2>1. mirror[<<h, k>>] = SumOf(claims, Debt(h, {k}))
    BY DEF Shown
  <2>2. h \in Borrowers
    BY <1>8
  <2>3. /\ SumOf(new, Debt(h, {k})) = SumOf(claims, Debt(h, {k})) + IF h = b /\ k = kind THEN p ELSE 0
        /\ shown[<<h, k>>] = mirror[<<h, k>>] + IF h = b /\ k = kind THEN p ELSE 0
    BY <1>4, <2>2
  <2> QED
    BY <2>1, <2>3
<1>12. ASSUME NEW h \in Households, Lagging(claims, mirror, h) PROVE Lagging(new, shown, h)
  <2>1. SumOf(new, Noting(h)) = 0 => Shown(new, shown, h)
    BY <1>5, <1>8, <1>11, <1>12 DEF Lagging
  <2>2. ASSUME NEW k \in Kinds, shown[<<h, k>>] = 0 PROVE SumOf(new, Debt(h, {k})) = 0
    <3>0. h \in Borrowers
      BY <1>8
    <3>3. /\ shown[<<h, k>>] = mirror[<<h, k>>] + IF h = b /\ k = kind THEN p ELSE 0
          /\ mirror[<<h, k>>] \in Nat
      BY <1>4, <3>0
    <3>1. ~ (h = b /\ k = kind) /\ mirror[<<h, k>>] = 0
      BY <1>2, <2>2, <3>3
    <3>2. SumOf(claims, Debt(h, {k})) = 0
      BY <1>12, <3>1 DEF Lagging
    <3> QED
      BY <1>4, <1>8, <3>1, <3>2
  <2> QED
    BY <2>1, <2>2 DEF Lagging
<1>13. HouseholdsShown(new, shown, noted)
  <2> SUFFICES ASSUME NEW h \in Households PROVE IF noted THEN Lagging(new, shown, h) ELSE Shown(new, shown, h)
    BY DEF HouseholdsShown
  <2>1. IF noted THEN Lagging(claims, mirror, h) ELSE Shown(claims, mirror, h)
    BY DEF Mirrored, HouseholdsShown
  <2> QED
    BY <1>11, <1>12, <2>1
<1> QED
  BY <1>1, <1>7, <1>9, <1>10, <1>13 DEF Mirrored

\* Of the state: who the debtors may be, and whether it is noted what falls due.
MirrorInv == Mirrored(ledger.claims, ledger.mirror, mortgage, Households \cup live, phase \in Week)

LEMMA MirrorsAfter ==
  ASSUME Mirrored(ledger'.claims, ledger'.mirror, mortgage', Households \cup live', phase' \in Week)
  PROVE  MirrorInv'
  BY DEF MirrorInv, Mirrored, DebtorsIn, OneMedical, HouseholdsShown, FirmsShown, Lagging, Shown, SumOf, Debt, Medical, Noting, Week

LEMMA MirrorFacts ==
  ASSUME MInv
  PROVE  /\ ledger.claims \in Seq(Sound) /\ ledger.mirror \in [Borrowers \X Kinds -> Nat]
         /\ \A f \in Firms : mortgage[f].owed \in Nat
<1>1. OthersOK /\ LedgerOK(ledger)
  BY MInvFacts
<1> QED
  BY <1>1 DEF OthersOK, LedgerOK

LEMMA NotedAsWell ==
  ASSUME NEW claims, NEW mirror, NEW m, NEW there, NEW a, NEW b, a <=> b, Mirrored(claims, mirror, m, there, a)
  PROVE  Mirrored(claims, mirror, m, there, b)
  BY DEF Mirrored, HouseholdsShown

LEMMA MirrorsStay ==
  ASSUME MirrorInv, ledger'.claims = ledger.claims, ledger'.mirror = ledger.mirror, phase' \in Week <=> phase \in Week,
         mortgage' = mortgage, live \subseteq live'
  PROVE  MirrorInv'
<1>1. DebtorsIn(ledger.claims, Households \cup live)
  BY DEF MirrorInv, Mirrored
<1>2. DebtorsIn(ledger.claims, Households \cup live')
  BY <1>1 DEF DebtorsIn
<1>3. Mirrored(ledger.claims, ledger.mirror, mortgage, Households \cup live', phase \in Week)
  BY <1>2 DEF MirrorInv, Mirrored
<1>4. Mirrored(ledger.claims, ledger.mirror, mortgage, Households \cup live', phase' \in Week)
  BY <1>3, NotedAsWell
<1>5. Mirrored(ledger'.claims, ledger'.mirror, mortgage', Households \cup live', phase' \in Week)
  BY <1>4
<1> QED
  BY <1>5, MirrorsAfter

LEMMA MirrorsGranted ==
  ASSUME MInv, MirrorInv, NEW b \in Borrowers, b \in Households \cup live', NEW kind \in Kinds, NEW p \in Principals,
         ledger' = Granted(ledger, b, kind, p), kind = "medical" => SumOf(ledger.claims, Medical(b)) = 0,
         phase' \in Week <=> phase \in Week, mortgage' = mortgage, live \subseteq live'
  PROVE  MirrorInv'
<1>1. PICK claims, mirror, m, there, more :
        /\ claims = ledger.claims /\ mirror = ledger.mirror /\ m = mortgage
        /\ there = Households \cup live /\ more = Households \cup live'
  OBVIOUS
<1>2. claims \in Seq(Sound)
  BY <1>1, MirrorFacts
<1>3. mirror \in [Borrowers \X Kinds -> Nat]
  BY <1>1, MirrorFacts
<1>4. \A f \in Firms : m[f].owed \in Nat
  BY <1>1, MirrorFacts
<1>5. Mirrored(claims, mirror, m, there, phase \in Week)
  BY <1>1 DEF MirrorInv
<1>6. Mirrored(claims, mirror, m, there, phase' \in Week)
  BY <1>5, NotedAsWell
<1>7. there \subseteq more
  BY <1>1
<1>8. b \in more
  BY <1>1
<1>9. kind = "medical" => SumOf(claims, Medical(b)) = 0
  BY <1>1
<1>10. Mirrored(Append(claims, Fresh(b, kind, p)), [mirror EXCEPT ![<<b, kind>>] = @ + p], m, more, phase' \in Week)
  BY <1>2, <1>3, <1>4, <1>6, <1>7, <1>8, <1>9, MirroredGranted
<1>11. /\ ledger'.claims = Append(claims, Fresh(b, kind, p))
       /\ ledger'.mirror = [mirror EXCEPT ![<<b, kind>>] = @ + p]
  BY <1>1 DEF Granted
<1>12. Mirrored(ledger'.claims, ledger'.mirror, mortgage', Households \cup live', phase' \in Week)
  BY <1>1, <1>10, <1>11
<1> QED
  BY <1>12, MirrorsAfter

LEMMA MirrorsRefuse == MInv /\ MirrorInv /\ Refuse => MirrorInv'
<1> SUFFICES ASSUME MInv, MirrorInv, Refuse PROVE MirrorInv'
  OBVIOUS
<1>1. OthersOK /\ LedgerOK(ledger)
  BY MInvFacts
<1>2. phase' = phase /\ ledger' = Indexed(ledger) /\ mortgage' = mortgage /\ live' = live
  BY DEF Refuse, Lending
<1>3. ledger'.claims = ledger.claims /\ ledger'.mirror = ledger.mirror
  BY <1>1, <1>2, IndexedLaw
<1> QED
  BY <1>2, <1>3, MirrorsStay

LEMMA MirrorsTrade == MirrorInv /\ Trade => MirrorInv'
<1> SUFFICES ASSUME MirrorInv, Trade PROVE MirrorInv'
  OBVIOUS
<1>1. phase \in Week /\ phase' \in Week /\ ledger' = ledger /\ mortgage' = mortgage /\ live' = live
  BY DEF Trade, Moves, Week
<1> QED
  BY <1>1, MirrorsStay

LEMMA MirrorsLendDirectly == MInv /\ MirrorInv /\ LendDirectly => MirrorInv'
<1> SUFFICES ASSUME MInv, MirrorInv, LendDirectly PROVE MirrorInv'
  OBVIOUS
<1>1. OthersOK /\ LedgerOK(ledger)
  BY MInvFacts
<1>2. phase' = phase /\ (ledger' = Indexed(ledger) \/ ledger' = ledger) /\ mortgage' = mortgage /\ live' = live
  BY DEF LendDirectly
<1>3. ledger'.claims = ledger.claims /\ ledger'.mirror = ledger.mirror
  BY <1>1, <1>2, IndexedLaw
<1> QED
  BY <1>2, <1>3, MirrorsStay

LEMMA MirrorsLendToFirm == MInv /\ MirrorInv /\ LendToFirm => MirrorInv'
<1> SUFFICES ASSUME MInv, MirrorInv, LendToFirm PROVE MirrorInv'
  OBVIOUS
<1>1. phase' = phase /\ mortgage' = mortgage /\ live' = live
  BY DEF LendToFirm, Lending
<1>2. PICK f \in live, p \in Principals : ledger' = Granted(ledger, f, "business", p)
  BY DEF LendToFirm
<1>3. f \in Borrowers /\ f \in Households \cup live' /\ "business" \in Kinds
  BY <1>1, MInvFacts DEF Kinds
<1> QED
  BY <1>1, <1>2, <1>3, MirrorsGranted

LEMMA MirrorsLendForConsumption == MInv /\ MirrorInv /\ LendForConsumption => MirrorInv'
<1> SUFFICES ASSUME MInv, MirrorInv, LendForConsumption PROVE MirrorInv'
  OBVIOUS
<1>1. phase' = phase /\ mortgage' = mortgage /\ live' = live
  BY DEF LendForConsumption
<1>2. PICK h \in Households, p \in Principals : ledger' = Granted(ledger, h, "consumption", p)
  BY DEF LendForConsumption
<1>3. h \in Borrowers /\ h \in Households \cup live' /\ "consumption" \in Kinds
  BY MInvFacts DEF Kinds
<1> QED
  BY <1>1, <1>2, <1>3, MirrorsGranted

\* Steps that leave the claims as they are.
LEMMA MirrorsMoved ==
  ASSUME MirrorInv, ledger'.claims = ledger.claims, live \subseteq live',
         HouseholdsShown(ledger.claims, ledger'.mirror, phase' \in Week), FirmsShown(ledger.claims, ledger'.mirror, mortgage')
  PROVE  MirrorInv'
<1>1. DebtorsIn(ledger.claims, Households \cup live) /\ OneMedical(ledger.claims)
  BY DEF MirrorInv, Mirrored
<1>2. DebtorsIn(ledger.claims, Households \cup live')
  BY <1>1 DEF DebtorsIn
<1>3. Mirrored(ledger.claims, ledger'.mirror, mortgage', Households \cup live', phase' \in Week)
  BY <1>1, <1>2 DEF Mirrored
<1>4. Mirrored(ledger'.claims, ledger'.mirror, mortgage', Households \cup live', phase' \in Week)
  BY <1>3
<1> QED
  BY <1>4, MirrorsAfter

LEMMA RowsStay ==
  ASSUME NEW claims, NEW mirror, NEW copy, NEW a, NEW b, a <=> b, HouseholdsShown(claims, mirror, a),
         \A h \in Households : \A k \in Kinds : copy[<<h, k>>] = mirror[<<h, k>>]
  PROVE  HouseholdsShown(claims, copy, b)
<1>1. \A h \in Households : Shown(claims, mirror, h) <=> Shown(claims, copy, h)
  BY DEF Shown
<1>2. \A h \in Households : Lagging(claims, mirror, h) => Lagging(claims, copy, h)
  BY <1>1 DEF Lagging
<1> QED
  BY <1>1, <1>2 DEF HouseholdsShown

LEMMA MirrorsStartMortgage == MInv /\ MirrorInv /\ StartMortgage => MirrorInv'
<1> SUFFICES ASSUME MInv, MirrorInv, StartMortgage PROVE MirrorInv'
  OBVIOUS
<1>1. OthersOK /\ LedgerOK(ledger) /\ live \subseteq Firms
  BY MInvFacts
<1>2. phase' = phase /\ live' = live
  BY DEF StartMortgage
<1>3. PICK f \in live \cap Housing, p \in Principals :
        /\ mortgage[f].owed = 0
        /\ mortgage' = [mortgage EXCEPT ![f] = [owed |-> p, pay |-> Installment[p], missed |-> FALSE]]
        /\ ledger' = [ledger EXCEPT !.reserve = @ - p, !.mirror[<<f, "business">>] = @ + p]
  BY DEF StartMortgage
<1>4. f \in Firms /\ Firms \subseteq Borrowers /\ Households \subseteq Borrowers /\ Households \cap Firms = {} /\ p \in Nat
  BY <1>1, <1>3, Constants
<1>5. ledger'.claims = ledger.claims /\ ledger'.mirror = [ledger.mirror EXCEPT ![<<f, "business">>] = @ + p]
  BY <1>1, <1>3 DEF LedgerOK
<1>6. \A b \in Borrowers, k \in Kinds : ledger'.mirror[<<b, k>>]
          = IF b = f /\ k = "business" THEN ledger.mirror[<<b, k>>] + p ELSE ledger.mirror[<<b, k>>]
  <2>1. ledger.mirror \in [Borrowers \X Kinds -> Nat]
    BY MirrorFacts
  <2> SUFFICES ASSUME NEW b \in Borrowers, NEW k \in Kinds
               PROVE  ledger'.mirror[<<b, k>>]
                        = IF b = f /\ k = "business" THEN ledger.mirror[<<b, k>>] + p ELSE ledger.mirror[<<b, k>>]
    OBVIOUS
  <2>2. <<b, k>> \in Borrowers \X Kinds /\ (<<b, k>> = <<f, "business">> <=> b = f /\ k = "business")
    OBVIOUS
  <2> QED
    BY <1>5, <2>1, <2>2
<1>7. HouseholdsShown(ledger.claims, ledger'.mirror, phase' \in Week)
  <2>1. HouseholdsShown(ledger.claims, ledger.mirror, phase \in Week)
    BY DEF MirrorInv, Mirrored
  <2>2. \A h \in Households : \A k \in Kinds : ledger'.mirror[<<h, k>>] = ledger.mirror[<<h, k>>]
    BY <1>4, <1>6
  <2>3. phase \in Week <=> phase' \in Week
    BY <1>2
  <2> QED
    BY <2>1, <2>2, <2>3, RowsStay
<1>8. FirmsShown(ledger.claims, ledger'.mirror, mortgage')
  <2> SUFFICES ASSUME NEW g \in Firms
               PROVE  ledger'.mirror[<<g, "business">>] = SumOf(ledger.claims, Debt(g, {"business"})) + mortgage'[g].owed
    BY DEF FirmsShown
  <2>1. ledger.mirror[<<g, "business">>] = SumOf(ledger.claims, Debt(g, {"business"})) + mortgage[g].owed
    BY DEF MirrorInv, Mirrored, FirmsShown
  <2>2. SumOf(ledger.claims, Debt(g, {"business"})) \in Nat
    BY MirrorFacts, WeightsTyped, SumTyped
  <2>3. ledger'.mirror[<<g, "business">>] = IF g = f THEN ledger.mirror[<<g, "business">>] + p ELSE ledger.mirror[<<g, "business">>]
    BY <1>4, <1>6 DEF Kinds
  <2>4. mortgage'[g].owed = IF g = f THEN p ELSE mortgage[g].owed
    BY <1>1, <1>3 DEF OthersOK
  <2>5. mortgage[g].owed \in Nat /\ mortgage[f].owed = 0
    BY <1>3, MirrorFacts
  <2> QED
    BY <1>4, <2>1, <2>2, <2>3, <2>4, <2>5
<1> QED
  BY <1>2, <1>5, <1>7, <1>8, MirrorsMoved

LEMMA MirrorsServiceMortgages == MInv /\ MirrorInv /\ ServiceMortgages => MirrorInv'
<1> SUFFICES ASSUME MInv, MirrorInv, ServiceMortgages PROVE MirrorInv'
  OBVIOUS
<1>1. OthersOK /\ LedgerOK(ledger) /\ live \subseteq Firms
  BY MInvFacts
<1>2. phase \in Week /\ phase' \in Week /\ live' = live
  BY DEF ServiceMortgages, Moves, Week
<1> DEFINE debtors == {f \in live : mortgage[f].owed > 0}
           served  == {f \in debtors : purse[f] >= MortgageDue(f)}
           after   == [f \in Firms |-> IF f \in served
                        THEN mortgage[f].owed - (MortgageDue(f) - MortgageInterest(f)) ELSE mortgage[f].owed]
           dues    == [f \in served |-> MortgageDue(f)]
<1>3. /\ mortgage' = [f \in Firms |-> IF after[f] = 0 THEN NoMortgage
                          ELSE [mortgage[f] EXCEPT !.owed = after[f], !.missed = f \in debtors \ served]]
      /\ ledger' = [ledger EXCEPT
           !.reserve = @ + Total(dues),
           !.mirror = [x \in DOMAIN @ |-> IF x[1] \in debtors /\ x[2] = "business"
                         THEN after[x[1]] + Owed(ledger.claims, x[1], {"business"}) ELSE @[x]]]
  BY Zenon DEF ServiceMortgages
<1>4. debtors \in SUBSET Firms /\ served \in SUBSET debtors
  BY <1>1
<1>5. \A f \in Firms \ debtors : after[f] = mortgage[f].owed
  BY <1>4
<1> HIDE DEF debtors, served, after, dues
<1>6. \A f \in Firms : mortgage'[f].owed = after[f]
  <2> SUFFICES ASSUME NEW f \in Firms PROVE mortgage'[f].owed = after[f]
    OBVIOUS
  <2>1. mortgage[f] \in [owed : Nat, pay : Nat, missed : BOOLEAN]
    BY <1>1 DEF OthersOK
  <2>2. mortgage'[f] = IF after[f] = 0 THEN NoMortgage
                       ELSE [mortgage[f] EXCEPT !.owed = after[f], !.missed = f \in debtors \ served]
    BY <1>3
  <2>3. CASE after[f] = 0
    BY <2>2, <2>3 DEF NoMortgage
  <2>4. CASE after[f] # 0
    BY <2>1, <2>2, <2>4
  <2> QED
    BY <2>3, <2>4
<1>7. /\ ledger'.claims = ledger.claims
      /\ ledger'.mirror = [x \in DOMAIN ledger.mirror |-> IF x[1] \in debtors /\ x[2] = "business"
                             THEN after[x[1]] + Owed(ledger.claims, x[1], {"business"}) ELSE ledger.mirror[x]]
  BY <1>1, <1>3 DEF LedgerOK
<1>8. Firms \subseteq Borrowers /\ Households \subseteq Borrowers /\ Households \cap Firms = {} /\ "business" \in Kinds
  BY Constants DEF Kinds
<1>9. \A b \in Borrowers, k \in Kinds : ledger'.mirror[<<b, k>>]
        = IF b \in debtors /\ k = "business" THEN after[b] + Owed(ledger.claims, b, {"business"}) ELSE ledger.mirror[<<b, k>>]
  <2>1. DOMAIN ledger.mirror = Borrowers \X Kinds
    BY <1>1 DEF LedgerOK
  <2> SUFFICES ASSUME NEW b \in Borrowers, NEW k \in Kinds
               PROVE  ledger'.mirror[<<b, k>>]
                        = IF b \in debtors /\ k = "business" THEN after[b] + Owed(ledger.claims, b, {"business"}) ELSE ledger.mirror[<<b, k>>]
    OBVIOUS
  <2>4. <<b, k>> \in Borrowers \X Kinds /\ <<b, k>>[1] = b /\ <<b, k>>[2] = k
    OBVIOUS
  <2>5. PICK x : x = <<b, k>>
    OBVIOUS
  <2>2. x \in Borrowers \X Kinds /\ x = <<b, k>> /\ x[1] = b /\ x[2] = k
    BY <2>4, <2>5
  <2>3. ledger'.mirror[x] = IF x[1] \in debtors /\ x[2] = "business"
                              THEN after[x[1]] + Owed(ledger.claims, x[1], {"business"}) ELSE ledger.mirror[x]
    BY <1>7, <2>1, <2>2
  <2> QED
    BY <2>2, <2>3
<1>10. HouseholdsShown(ledger.claims, ledger'.mirror, phase' \in Week)
  <2>1. HouseholdsShown(ledger.claims, ledger.mirror, phase \in Week)
    BY DEF MirrorInv, Mirrored
  <2>2. \A h \in Households : \A k \in Kinds : ledger'.mirror[<<h, k>>] = ledger.mirror[<<h, k>>]
    BY <1>4, <1>8, <1>9
  <2>3. phase \in Week <=> phase' \in Week
    BY <1>2
  <2> QED
    BY <2>1, <2>2, <2>3, RowsStay
<1>11. FirmsShown(ledger.claims, ledger'.mirror, mortgage')
  <2> SUFFICES ASSUME NEW g \in Firms
               PROVE  ledger'.mirror[<<g, "business">>] = SumOf(ledger.claims, Debt(g, {"business"})) + mortgage'[g].owed
    BY DEF FirmsShown
  <2>1. ledger.mirror[<<g, "business">>] = SumOf(ledger.claims, Debt(g, {"business"})) + mortgage[g].owed
    BY DEF MirrorInv, Mirrored, FirmsShown
  <2>2. SumOf(ledger.claims, Debt(g, {"business"})) \in Nat
    BY MirrorFacts, WeightsTyped, SumTyped
  <2>3. Owed(ledger.claims, g, {"business"}) = SumOf(ledger.claims, Debt(g, {"business"}))
    BY MirrorFacts, BooksAreSums
  <2>4. ledger'.mirror[<<g, "business">>] = IF g \in debtors THEN after[g] + Owed(ledger.claims, g, {"business"})
                                            ELSE ledger.mirror[<<g, "business">>]
    BY <1>8, <1>9
  <2>5. after[g] \in Nat
    BY <1>1, MortgageDues, MortgageFields DEF after
  <2>6. g \notin debtors => mortgage'[g].owed = mortgage[g].owed
    BY <1>5, <1>6
  <2>7. mortgage'[g].owed = after[g]
    BY <1>6
  <2> QED
    BY <2>1, <2>2, <2>3, <2>4, <2>5, <2>6, <2>7
<1> QED
  BY <1>2, <1>7, <1>10, <1>11, MirrorsMoved

\* What the synchronised mirrors show.
Mirrors(mirror) == DOMAIN mirror = Borrowers \X Kinds
ShowsOf(mirror, claims, who, b, k) ==
  Synced(mirror, claims, who)[<<b, k>>] = IF b \in who THEN MirrorOf(claims, b, k) ELSE mirror[<<b, k>>]

LEMMA SyncedAt ==
  ASSUME NEW mirror, Mirrors(mirror), NEW claims, NEW who, NEW b \in Borrowers, NEW k \in Kinds
  PROVE  ShowsOf(mirror, claims, who, b, k)
<1>1. <<b, k>> \in Borrowers \X Kinds /\ <<b, k>>[1] = b /\ <<b, k>>[2] = k
  OBVIOUS
<1>2. PICK x : x = <<b, k>>
  OBVIOUS
<1>3. x \in DOMAIN mirror /\ x[1] = b /\ x[2] = k
  BY <1>1, <1>2 DEF Mirrors
<1>4. Synced(mirror, claims, who)[x] = IF b \in who THEN MirrorOf(claims, b, k) ELSE mirror[x]
  BY <1>3 DEF Synced
<1> QED
  BY <1>2, <1>4 DEF ShowsOf

LEMMA SyncedOther ==
  ASSUME NEW mirror, Mirrors(mirror), NEW claims, NEW who, NEW b \in Borrowers, NEW k \in Kinds, b \notin who
  PROVE  Synced(mirror, claims, who)[<<b, k>>] = mirror[<<b, k>>]
<1>1. ShowsOf(mirror, claims, who, b, k)
  BY SyncedAt
<1> QED
  BY <1>1 DEF ShowsOf

LEMMA SyncedHousehold ==
  ASSUME NEW mirror, Mirrors(mirror), NEW claims \in Seq(Sound), NEW who, NEW h \in Households, h \in who,
         NEW k \in Kinds
  PROVE  Synced(mirror, claims, who)[<<h, k>>] = SumOf(claims, Debt(h, {k}))
<1>1. h \in Borrowers /\ h \notin Firms
  BY Constants
<1>2. Owed(claims, h, {k}) = SumOf(claims, Debt(h, {k}))
  BY BooksAreSums
<1>3. SumOf(claims, Debt(h, {k})) \in Nat
  BY WeightsTyped, SumTyped
<1>4. MirrorOf(claims, h, k) = Owed(claims, h, {k}) + 0
  BY <1>1 DEF MirrorOf
<1>5. ShowsOf(mirror, claims, who, h, k)
  BY <1>1, SyncedAt
<1>7. Synced(mirror, claims, who)[<<h, k>>] = MirrorOf(claims, h, k)
  BY <1>5 DEF ShowsOf
<1> QED
  BY <1>2, <1>3, <1>4, <1>7

LEMMA SyncedFirm ==
  ASSUME NEW mirror, Mirrors(mirror), NEW claims \in Seq(Sound), NEW who, NEW f \in Firms, f \in who
  PROVE  Synced(mirror, claims, who)[<<f, "business">>] = SumOf(claims, Debt(f, {"business"})) + mortgage[f].owed
<1>1. f \in Borrowers /\ "business" \in Kinds
  BY Constants DEF Kinds
<1>2. Owed(claims, f, {"business"}) = SumOf(claims, Debt(f, {"business"}))
  BY BooksAreSums
<1>3. MirrorOf(claims, f, "business") = Owed(claims, f, {"business"}) + mortgage[f].owed
  BY DEF MirrorOf
<1>5. ShowsOf(mirror, claims, who, f, "business")
  BY <1>1, SyncedAt
<1>6. Synced(mirror, claims, who)[<<f, "business">>] = MirrorOf(claims, f, "business")
  BY <1>5 DEF ShowsOf
<1> QED
  BY <1>2, <1>3, <1>6

LEMMA MirrorsVisit == MInv /\ MirrorInv /\ Visit => MirrorInv'
<1> SUFFICES ASSUME MInv, MirrorInv, Visit PROVE MirrorInv'
  OBVIOUS
<1>1. OthersOK /\ LedgerOK(ledger) /\ Households \subseteq Borrowers /\ ledger.claims \in Seq(Sound)
  BY MInvFacts
<1>2. phase \in Week /\ phase' \in Week /\ mortgage' = mortgage /\ live' = live
  BY DEF Visit, Moves, Week
<1>8. PICK h \in Households : \E short :
        /\ short > 0
        /\ \/ /\ MayBorrowForCare(h, short)
              /\ \/ ledger' = Granted(ledger, h, "medical", short)
                 \/ ledger' = RolledBack(Granted(ledger, h, "medical", short), h, short)
           \/ ledger' = Indexed(ledger)
  BY DEF Visit
<1>3. PICK short :
        /\ short > 0
        /\ \/ /\ MayBorrowForCare(h, short)
              /\ \/ ledger' = Granted(ledger, h, "medical", short)
                 \/ ledger' = RolledBack(Granted(ledger, h, "medical", short), h, short)
           \/ ledger' = Indexed(ledger)
  BY <1>8
<1>4. h \in Borrowers /\ h \in Households \cup live' /\ "medical" \in Kinds
  BY <1>1 DEF Kinds
<1>5. CASE ledger' = Indexed(ledger)
  <2>1. ledger'.claims = ledger.claims /\ ledger'.mirror = ledger.mirror
    BY <1>1, <1>5, IndexedLaw
  <2> QED
    BY <1>2, <2>1, MirrorsStay
<1>6. CASE MayBorrowForCare(h, short)
  <2>1. short \in Principals /\ short <= ledger.reserve /\ ledger.mirror[<<h, "medical">>] = 0
    BY <1>6 DEF MayBorrowForCare, Fundable
  <2>2. Lagging(ledger.claims, ledger.mirror, h)
    BY <1>2 DEF MirrorInv, Mirrored, HouseholdsShown
  <2>3. CASE ledger' = Granted(ledger, h, "medical", short)
    <3>1. SumOf(ledger.claims, Debt(h, {"medical"})) = 0
      BY <1>4, <2>1, <2>2 DEF Lagging
    <3>2. SumOf(ledger.claims, Medical(h)) = 0
      BY <1>1, <3>1, NoMedical
    <3> QED
      BY <1>2, <1>4, <2>1, <2>3, <3>2, MirrorsGranted
  <2>4. CASE ledger' = RolledBack(Granted(ledger, h, "medical", short), h, short)
    <3>1. PICK lent : lent = [ledger.mirror EXCEPT ![<<h, "medical">>] = @ + short]
      OBVIOUS
    <3>2. ledger'.claims = ledger.claims /\ ledger'.mirror = Synced(lent, ledger.claims, {h})
      BY <1>1, <1>4, <2>1, <2>4, <3>1, RolledBackLaw
    <3>3. ledger.mirror \in [Borrowers \X Kinds -> Nat] /\ <<h, "medical">> \in Borrowers \X Kinds /\ short \in Nat
      BY <1>4, <2>1, MirrorFacts, Constants
    <3>4. lent \in [Borrowers \X Kinds -> Nat] /\ \A b \in Borrowers, k \in Kinds : b # h => lent[<<b, k>>] = ledger.mirror[<<b, k>>]
      <4>1. lent \in [Borrowers \X Kinds -> Nat]
        BY <3>1, <3>3
      <4>2. ASSUME NEW b \in Borrowers, NEW k \in Kinds, b # h PROVE lent[<<b, k>>] = ledger.mirror[<<b, k>>]
        <5>1. <<b, k>> \in Borrowers \X Kinds /\ <<b, k>> # <<h, "medical">>
          BY <4>2
        <5> QED
          BY <3>1, <3>3, <5>1
      <4> QED
        BY <4>1, <4>2
    <3>5. Mirrors(lent)
      BY <3>4 DEF Mirrors
    <3>6. h \notin Firms /\ Firms \subseteq Borrowers /\ "business" \in Kinds
      BY Constants DEF Kinds
    <3>7. Shown(ledger.claims, ledger'.mirror, h)
      <4> SUFFICES ASSUME NEW k \in Kinds PROVE ledger'.mirror[<<h, k>>] = SumOf(ledger.claims, Debt(h, {k}))
        BY DEF Shown
      <4>1. PICK who, claims : who = {h} /\ claims = ledger.claims
        OBVIOUS
      <4>2. claims \in Seq(Sound) /\ h \in who
        BY <1>1, <4>1
      <4>3. Synced(lent, claims, who)[<<h, k>>] = SumOf(claims, Debt(h, {k}))
        BY <3>5, <4>2, SyncedHousehold
      <4> QED
        BY <3>2, <4>1, <4>3
    <3>10. \A b \in Borrowers, k \in Kinds : b # h => ledger'.mirror[<<b, k>>] = ledger.mirror[<<b, k>>]
      <4> SUFFICES ASSUME NEW b \in Borrowers, NEW k \in Kinds, b # h
                   PROVE  ledger'.mirror[<<b, k>>] = ledger.mirror[<<b, k>>]
        OBVIOUS
      <4>1. PICK who, claims : who = {h} /\ claims = ledger.claims
        OBVIOUS
      <4>2. b \notin who
        BY <4>1
      <4>3. Synced(lent, claims, who)[<<b, k>>] = lent[<<b, k>>]
        BY <3>5, <4>2, SyncedOther
      <4> QED
        BY <3>2, <3>4, <4>1, <4>3
    <3>8. HouseholdsShown(ledger.claims, ledger'.mirror, phase' \in Week)
      <4> SUFFICES ASSUME NEW x \in Households PROVE Lagging(ledger.claims, ledger'.mirror, x)
        BY <1>2 DEF HouseholdsShown
      <4>1. CASE x = h
        BY <3>7, <4>1, ShownLags
      <4>2. CASE x # h
        <5>1. Lagging(ledger.claims, ledger.mirror, x)
          BY <1>2 DEF MirrorInv, Mirrored, HouseholdsShown
        <5>2. \A k \in Kinds : ledger'.mirror[<<x, k>>] = ledger.mirror[<<x, k>>]
          BY <1>1, <3>10, <4>2
        <5> QED
          BY <5>1, <5>2 DEF Lagging, Shown
      <4> QED
        BY <4>1, <4>2
    <3>9. FirmsShown(ledger.claims, ledger'.mirror, mortgage')
      <4>1. FirmsShown(ledger.claims, ledger.mirror, mortgage)
        BY DEF MirrorInv, Mirrored
      <4>2. \A f \in Firms : ledger'.mirror[<<f, "business">>] = ledger.mirror[<<f, "business">>]
        BY <3>6, <3>10
      <4> QED
        BY <1>2, <4>1, <4>2 DEF FirmsShown
    <3> QED
      BY <1>2, <3>2, <3>8, <3>9, MirrorsMoved
  <2> QED
    BY <1>3, <1>5, <2>3, <2>4
<1> QED
  BY <1>3, <1>5, <1>6

LEMMA MirrorsEntry == MInv /\ MirrorInv /\ Entry => MirrorInv'
<1> SUFFICES ASSUME MInv, MirrorInv, Entry PROVE MirrorInv'
  OBVIOUS
<1>1. phase \notin Week /\ phase' \notin Week /\ mortgage' = mortgage
  BY DEF Entry, Moves, Week
<1>2. live \subseteq live'
  BY DEF Entry
<1>3. \/ ledger' = ledger
      \/ \E f \in Firms \ live, p \in Principals : live' = live \cup {f} /\ ledger' = Granted(ledger, f, "business", p)
  BY DEF Entry
<1>4. CASE ledger' = ledger
  BY <1>1, <1>2, <1>4, MirrorsStay
<1>5. ASSUME NEW f \in Firms \ live, NEW p \in Principals, live' = live \cup {f}, ledger' = Granted(ledger, f, "business", p)
      PROVE  MirrorInv'
  <2>1. f \in Borrowers /\ f \in Households \cup live' /\ "business" \in Kinds
    BY <1>5, MInvFacts DEF Kinds
  <2> QED
    BY <1>1, <1>2, <1>5, <2>1, MirrorsGranted
<1> QED
  BY <1>3, <1>4, <1>5

\* The claims of the same borrowers, none of them open again.
Alike(s, t) ==
  /\ Len(t) = Len(s)
  /\ \A i \in 1 .. Len(s) : /\ t[i].who = s[i].who /\ t[i].kind = s[i].kind
                            /\ Remaining(t[i]) > 0 => Remaining(s[i]) > 0

LEMMA FewerDebtors ==
  ASSUME NEW s, NEW t, Alike(s, t), NEW there, DebtorsIn(s, there)
  PROVE  DebtorsIn(t, there)
  BY DEF Alike, DebtorsIn

LEMMA FewerMedical ==
  ASSUME NEW s \in Seq(Sound), NEW t \in Seq(Sound), Alike(s, t), OneMedical(s)
  PROVE  OneMedical(t)
<1> SUFFICES ASSUME NEW h \in Households PROVE SumOf(t, Medical(h)) <= 1
  BY DEF OneMedical
<1>1. Medical(h) \in [Sound -> Nat]
  BY WeightsTyped
<1>2. ASSUME NEW i \in 1 .. Len(s) PROVE Medical(h)[t[i]] <= Medical(h)[s[i]]
  <2>1. PICK c \in Sound, d \in Sound : c = s[i] /\ d = t[i]
    BY Places DEF Alike
  <2>2. d.who = c.who /\ d.kind = c.kind /\ (Remaining(d) > 0 => Remaining(c) > 0)
    BY <2>1 DEF Alike
  <2>3. Medical(h)[d] = (IF d.who = h /\ d.kind = "medical" /\ Remaining(d) > 0 THEN 1 ELSE 0)
        /\ Medical(h)[c] = (IF c.who = h /\ c.kind = "medical" /\ Remaining(c) > 0 THEN 1 ELSE 0)
    BY DEF Medical
  <2> QED
    BY <2>1, <2>2, <2>3
<1>3. SumOf(t, Medical(h)) <= SumOf(s, Medical(h))
  <2>1. Len(t) = Len(s)
    BY DEF Alike
  <2> QED
    BY <1>1, <1>2, <2>1, SumBelow
<1>4. SumOf(s, Medical(h)) <= 1 /\ SumOf(s, Medical(h)) \in Nat /\ SumOf(t, Medical(h)) \in Nat
  BY <1>1, SumTyped DEF OneMedical
<1> QED
  BY <1>3, <1>4

\* Where what is open of a borrower stays as it is, so do the sums.
Untouched(s, t, b) == \A i \in 1 .. Len(s) : s[i].who = b => Remaining(t[i]) = Remaining(s[i])
OwesTheSame(s, t, b) == \A k \in Kinds : SumOf(t, Debt(b, {k})) = SumOf(s, Debt(b, {k}))

LEMMA SameDebt ==
  ASSUME NEW s \in Seq(Sound), NEW t \in Seq(Sound), Alike(s, t), NEW b, Untouched(s, t, b)
  PROVE  OwesTheSame(s, t, b)
<1> SUFFICES ASSUME NEW k \in Kinds PROVE SumOf(t, Debt(b, {k})) = SumOf(s, Debt(b, {k}))
  BY DEF OwesTheSame
<1>1. Debt(b, {k}) \in [Sound -> Int]
  <2>1. Debt(b, {k}) \in [Sound -> Nat]
    BY WeightsTyped
  <2>2. \A w \in [Sound -> Nat] : w \in [Sound -> Int]
    OBVIOUS
  <2> QED
    BY <2>1, <2>2
<1>2. ASSUME NEW i \in 1 .. Len(s) PROVE Debt(b, {k})[t[i]] = Debt(b, {k})[s[i]]
  <2>1. PICK c \in Sound, d \in Sound : c = s[i] /\ d = t[i]
    BY Places DEF Alike
  <2>2. d.who = c.who /\ d.kind = c.kind /\ (c.who = b => Remaining(d) = Remaining(c))
    BY <2>1 DEF Alike, Untouched
  <2>3. Debt(b, {k})[d] = (IF d.who = b /\ d.kind \in {k} THEN Remaining(d) ELSE 0)
        /\ Debt(b, {k})[c] = (IF c.who = b /\ c.kind \in {k} THEN Remaining(c) ELSE 0)
    BY DEF Debt
  <2> QED
    BY <2>1, <2>2, <2>3
<1>3. Len(t) = Len(s)
  BY DEF Alike
<1> QED
  BY <1>1, <1>2, <1>3, SumUnmoved

\* A household that has nothing noted shows what it owes.
LEMMA NothingNoted ==
  ASSUME NEW claims \in Seq(Sound), NEW mirror, NEW h, Lagging(claims, mirror, h),
         \A i \in 1 .. Len(claims) : claims[i].who = h => claims[i].due = 0
  PROVE  Shown(claims, mirror, h)
<1>1. Noting(h) \in [Sound -> Nat]
  BY NotingTyped
<1>2. ASSUME NEW i \in 1 .. Len(claims) PROVE Noting(h)[claims[i]] = 0
  <2>1. PICK c \in Sound : c = claims[i]
    BY Places
  <2> QED
    BY <2>1 DEF Noting
<1>3. SumOf(claims, Noting(h)) = 0
  BY <1>1, <1>2, SumZero
<1> QED
  BY <1>3 DEF Lagging

LEMMA MirrorsCollectHouseholdDues == MInv /\ MirrorInv /\ CollectHouseholdDues => MirrorInv'
<1> SUFFICES ASSUME MInv, MirrorInv, CollectHouseholdDues PROVE MirrorInv'
  OBVIOUS
<1>1. OthersOK /\ LedgerOK(ledger) /\ ClaimsSound /\ Households \subseteq Borrowers /\ Firms \subseteq Borrowers
  BY MInvFacts
<1>2. phase \in Week /\ phase' \notin Week /\ mortgage' = mortgage /\ live' = live
  BY DEF CollectHouseholdDues, Moves, Week
<1>3. PICK claims, due, settled, debtors :
        /\ claims = ledger.claims /\ due = HouseDues(claims)
        /\ settled = SettledAll(ledger, Households, due) /\ debtors = Debtors(ledger, Households, due)
  OBVIOUS
<1>4. claims \in Seq(Noted) /\ claims \in Seq(Sound)
  BY <1>1, <1>2, <1>3, SoundLists DEF ClaimsSound
<1>5. Collectible(ledger, Households, due)
  BY <1>1, <1>3, <1>4, HouseDuesLaw
<1>6. ledger' = Collection(ledger, Households, due).ledger
  BY <1>3 DEF CollectHouseholdDues, HouseDues
<1>7. ledger'.claims = settled /\ ledger'.mirror = Synced(ledger.mirror, settled, debtors)
  BY <1>1, <1>3, <1>5, <1>6, CollectedLedger
<1>8. settled \in Seq(Idle) /\ settled \in Seq(Sound) /\ Len(settled) = Len(claims)
  BY <1>3, <1>5, CollectedClaims, SoundLists
<1>9. \A i \in 1 .. Len(claims) :
        /\ settled[i].who = claims[i].who /\ settled[i].kind = claims[i].kind
        /\ Remaining(settled[i]) <= Remaining(claims[i])
        /\ due[i] = 0 => Remaining(settled[i]) = Remaining(claims[i])
        /\ due[i] = claims[i].due
        /\ Remaining(settled[i]) \in Nat /\ Remaining(claims[i]) \in Nat
  <2>1. \A i \in 1 .. Len(claims) :
          /\ settled[i].who = claims[i].who /\ settled[i].kind = claims[i].kind
          /\ Remaining(settled[i]) <= Remaining(claims[i])
          /\ due[i] = 0 => Remaining(settled[i]) = Remaining(claims[i])
    BY <1>3, <1>5, CollectedClaims
  <2>2. \A i \in 1 .. Len(claims) : due[i] = claims[i].due
    BY <1>3 DEF HouseDues
  <2>3. \A i \in 1 .. Len(claims) : settled[i] \in Sound /\ claims[i] \in Sound
    BY <1>4, <1>8, Places
  <2>4. \A i \in 1 .. Len(claims) : Remaining(settled[i]) \in Nat /\ Remaining(claims[i]) \in Nat
    BY <2>3, SoundFields
  <2> QED
    BY <2>1, <2>2, <2>4
<1>10. Alike(claims, settled)
  BY <1>8, <1>9 DEF Alike
<1>11. DebtorsIn(settled, Households \cup live') /\ OneMedical(settled)
  <2>1. DebtorsIn(claims, Households \cup live) /\ OneMedical(claims)
    BY <1>3 DEF MirrorInv, Mirrored
  <2> QED
    BY <1>2, <1>4, <1>8, <1>10, <2>1, FewerDebtors, FewerMedical
<1>12. Mirrors(ledger.mirror)
  BY <1>1 DEF LedgerOK, Mirrors
<1>13. \A h \in Households \ debtors : \A i \in 1 .. Len(claims) : claims[i].who = h => due[i] = 0
  <2> SUFFICES ASSUME NEW h \in Households, h \notin debtors, NEW i \in 1 .. Len(claims), claims[i].who = h PROVE due[i] = 0
    OBVIOUS
  <2>1. DueAt(ledger, due, h) = {}
    BY <1>3 DEF Debtors
  <2>2. DOMAIN due = 1 .. Len(claims) /\ due[i] \in Nat
    BY <1>3, <1>5 DEF Collectible
  <2>3. ~ (due[i] > 0)
    BY <1>3, <2>1, <2>2 DEF DueAt
  <2> QED
    BY <2>2, <2>3
<1>14. HouseholdsShown(settled, ledger'.mirror, phase' \in Week)
  <2> SUFFICES ASSUME NEW h \in Households, NEW k \in Kinds
               PROVE  ledger'.mirror[<<h, k>>] = SumOf(settled, Debt(h, {k}))
    BY <1>2 DEF HouseholdsShown, Shown
  <2>1. CASE h \in debtors
    <3>1. Synced(ledger.mirror, settled, debtors)[<<h, k>>] = SumOf(settled, Debt(h, {k}))
      BY <1>8, <1>12, <2>1, SyncedHousehold
    <3> QED
      BY <1>7, <3>1
  <2>2. CASE h \notin debtors
    <3>1. \A i \in 1 .. Len(claims) : claims[i].who = h => claims[i].due = 0 /\ Remaining(settled[i]) = Remaining(claims[i])
      BY <1>9, <1>13, <2>2
    <3>2. Lagging(claims, ledger.mirror, h)
      BY <1>2, <1>3 DEF MirrorInv, Mirrored, HouseholdsShown
    <3>3. Shown(claims, ledger.mirror, h)
      BY <1>4, <3>1, <3>2, NothingNoted
    <3>4. OwesTheSame(claims, settled, h)
      <4>1. Untouched(claims, settled, h)
        BY <3>1 DEF Untouched
      <4>2. claims \in Seq(Sound)
        BY <1>4
      <4>3. settled \in Seq(Sound)
        BY <1>8
      <4> QED
        BY <1>10, <4>1, <4>2, <4>3, SameDebt
    <3>5. h \in Borrowers
      BY <1>1
    <3>6. Synced(ledger.mirror, settled, debtors)[<<h, k>>] = ledger.mirror[<<h, k>>]
      BY <1>12, <2>2, <3>5, SyncedOther
    <3> QED
      BY <1>7, <3>3, <3>4, <3>6 DEF Shown, OwesTheSame
  <2> QED
    BY <2>1, <2>2
<1>15. FirmsShown(settled, ledger'.mirror, mortgage')
  <2> SUFFICES ASSUME NEW f \in Firms
               PROVE  ledger'.mirror[<<f, "business">>] = SumOf(settled, Debt(f, {"business"})) + mortgage'[f].owed
    BY DEF FirmsShown
  <2>1. f \in Borrowers /\ f \notin Households /\ "business" \in Kinds
    BY Constants DEF Kinds
  <2>2. f \notin debtors
    BY <1>3, <2>1 DEF Debtors
  <2>3. \A i \in 1 .. Len(claims) : claims[i].who = f => Remaining(settled[i]) = Remaining(claims[i])
    <3> SUFFICES ASSUME NEW i \in 1 .. Len(claims), claims[i].who = f PROVE Remaining(settled[i]) = Remaining(claims[i])
      OBVIOUS
    <3>1. claims[i] \in Noted
      BY <1>4, Places
    <3>2. claims[i].due = 0
      BY <2>1, <3>1 DEF Noted
    <3> QED
      BY <1>9, <3>2
  <2>4. OwesTheSame(claims, settled, f)
    <3>1. Untouched(claims, settled, f)
      BY <2>3 DEF Untouched
    <3>2. claims \in Seq(Sound)
      BY <1>4
    <3>3. settled \in Seq(Sound)
      BY <1>8
    <3> QED
      BY <1>10, <3>1, <3>2, <3>3, SameDebt
  <2>5. Synced(ledger.mirror, settled, debtors)[<<f, "business">>] = ledger.mirror[<<f, "business">>]
    BY <1>12, <2>1, <2>2, SyncedOther
  <2>6. ledger.mirror[<<f, "business">>] = SumOf(claims, Debt(f, {"business"})) + mortgage[f].owed
    BY <1>3 DEF MirrorInv, Mirrored, FirmsShown
  <2> QED
    BY <1>2, <1>7, <2>1, <2>4, <2>5, <2>6 DEF OwesTheSame
<1>16. Mirrored(settled, ledger'.mirror, mortgage', Households \cup live', phase' \in Week)
  BY <1>11, <1>14, <1>15 DEF Mirrored
<1>17. Mirrored(ledger'.claims, ledger'.mirror, mortgage', Households \cup live', phase' \in Week)
  BY <1>7, <1>16
<1> QED
  BY <1>17, MirrorsAfter

\* A household's claim at the beginning of the week: settled, it stays so; open, something is due.
Begun(c, a, g, n) ==
  /\ a = [c EXCEPT !.fresh = FALSE] /\ g = Accrued(a, Households)
  /\ n = [g EXCEPT !.due = IF g.who \in Households THEN DueOf(g) ELSE 0]
CarriedOn(c, n) ==
  /\ n.who = c.who /\ n.kind = c.kind
  /\ Remaining(n) > 0 => Remaining(c) > 0
  /\ Remaining(c) = 0 => Remaining(n) = 0
  /\ c.who \notin Households => Remaining(n) = Remaining(c)
  /\ c.who \in Households /\ n.due = 0 => Remaining(n) = 0 /\ Remaining(c) = 0

LEMMA OpenedClaim ==
  ASSUME NEW c \in Sound, NEW a, NEW g, NEW n, Begun(c, a, g, n)
  PROVE  CarriedOn(c, n)
<1>1. c \in Claim /\ c.pay > 0 /\ (c.missed < Misses \/ Remaining(c) = 0) /\ Remaining(c) \in Nat
  BY SoundFields DEF Sound
<1>2. /\ a \in Claim /\ a.who = c.who /\ a.kind = c.kind /\ a.pay = c.pay /\ a.missed = c.missed /\ ~ a.fresh
      /\ a.principal = c.principal /\ a.interest = c.interest
  BY <1>1 DEF Claim, Begun
<1>3. Remaining(a) = Remaining(c)
  BY <1>2 DEF Remaining
<1>4. a \in Sound
  BY <1>1, <1>2, <1>3 DEF Sound
<1>5. /\ g \in Sound /\ g.who = a.who /\ g.kind = a.kind /\ g.fresh = a.fresh
      /\ Remaining(g) = Remaining(a)
           + IF Remaining(a) > 0 /\ a.who \in Households /\ ~ a.fresh THEN Interest(a.principal) ELSE 0
      /\ Interest(a.principal) \in Nat
  BY <1>4, AccruedOne DEF Begun
<1>6. g \in Claim /\ Remaining(g) \in Nat /\ DueOf(g) \in Nat /\ DueOf(g) = IF g.fresh THEN 0 ELSE Min({g.pay, Remaining(g)})
  BY <1>5, SoundFields
<1>7. Min({g.pay, Remaining(g)}) = 0 <=> Remaining(g) = 0
  BY <1>5, SoundFields
<1>8. /\ n.who = g.who /\ n.kind = g.kind /\ n.principal = g.principal /\ n.interest = g.interest
      /\ n.due = IF g.who \in Households THEN DueOf(g) ELSE 0
  BY <1>6 DEF Claim, Begun
<1>9. Remaining(n) = Remaining(g)
  BY <1>8 DEF Remaining
<1>10. n.who = c.who /\ n.kind = c.kind
  BY <1>2, <1>5, <1>8
<1>11. Remaining(c) = 0 => Remaining(n) = 0
  BY <1>3, <1>5, <1>9
<1>12. c.who \notin Households => Remaining(n) = Remaining(c)
  BY <1>1, <1>2, <1>3, <1>5, <1>9
<1>13. c.who \in Households /\ n.due = 0 => Remaining(n) = 0 /\ Remaining(c) = 0
  BY <1>1, <1>2, <1>3, <1>5, <1>6, <1>7, <1>8, <1>9
<1>14. Remaining(n) > 0 => Remaining(c) > 0
  BY <1>1, <1>11
<1> QED
  BY <1>10, <1>11, <1>12, <1>13, <1>14 DEF CarriedOn

LEMMA MirrorsOpenWeek == MInv /\ MirrorInv /\ OpenWeek => MirrorInv'
<1> SUFFICES ASSUME MInv, MirrorInv, OpenWeek PROVE MirrorInv'
  OBVIOUS
<1>1. OthersOK /\ LedgerOK(ledger)
  BY MInvFacts
<1>2. phase \notin Week /\ phase' \in Week /\ live' = live /\ mortgage' = [f \in Firms |-> [mortgage[f] EXCEPT !.missed = FALSE]]
  BY DEF OpenWeek, Moves, Week
<1>3. PICK claims, a, g, opened :
        claims = ledger.claims /\ a = Aged(claims) /\ g = Grown(a, Households) /\ opened = NotedAll(g)
  OBVIOUS
<1>4. claims \in Seq(Sound)
  BY <1>3, MirrorFacts
<1>5. a \in Seq(Sound) /\ Len(a) = Len(claims)
  BY <1>3, <1>4, AgedLaw
<1>6. g \in Seq(Sound) /\ Len(g) = Len(claims)
  BY <1>3, <1>5, AccruedLaw
<1>7. opened \in Seq(Sound) /\ Len(opened) = Len(claims)
  BY <1>3, <1>6, NotedLaw
<1>8. ledger'.claims = opened /\ ledger'.mirror = ledger.mirror
  BY <1>1, <1>3, OpenWeekLedger DEF LedgerOK
<1>9. ASSUME NEW i \in 1 .. Len(claims)
      PROVE  CarriedOn(claims[i], opened[i]) /\ claims[i] \in Sound /\ opened[i] \in Sound
  <2>1. claims[i] \in Sound /\ opened[i] \in Sound
    BY <1>4, <1>7, Places
  <2>2. a[i] = [claims[i] EXCEPT !.fresh = FALSE]
    BY <1>3 DEF Aged
  <2>3. g[i] = Accrued(a[i], Households)
    BY <1>3, <1>5 DEF Grown
  <2>4. opened[i] = [g[i] EXCEPT !.due = IF g[i].who \in Households THEN DueOf(g[i]) ELSE 0]
    BY <1>3, <1>6 DEF NotedAll
  <2>5. PICK c, aa, gg, n : c = claims[i] /\ aa = a[i] /\ gg = g[i] /\ n = opened[i]
    OBVIOUS
  <2>6. c \in Sound /\ Begun(c, aa, gg, n)
    BY <2>1, <2>2, <2>3, <2>4, <2>5 DEF Begun
  <2>7. CarriedOn(c, n)
    BY <2>6, OpenedClaim
  <2> QED
    BY <2>1, <2>5, <2>7
<1>10. Alike(claims, opened)
  BY <1>7, <1>9 DEF Alike, CarriedOn
<1>11. DebtorsIn(opened, Households \cup live') /\ OneMedical(opened)
  <2>1. DebtorsIn(claims, Households \cup live) /\ OneMedical(claims)
    BY <1>3 DEF MirrorInv, Mirrored
  <2> QED
    BY <1>2, <1>4, <1>7, <1>10, <2>1, FewerDebtors, FewerMedical
<1>12. ASSUME NEW h \in Households PROVE Lagging(opened, ledger'.mirror, h)
  <2>1. Shown(claims, ledger.mirror, h)
    BY <1>2, <1>3 DEF MirrorInv, Mirrored, HouseholdsShown
  <2>2. ASSUME NEW k \in Kinds, ledger.mirror[<<h, k>>] = 0 PROVE SumOf(opened, Debt(h, {k})) = 0
    <3>1. SumOf(claims, Debt(h, {k})) = 0
      BY <2>1, <2>2 DEF Shown
    <3>2. Debt(h, {k}) \in [Sound -> Nat]
      BY WeightsTyped
    <3>3. \A i \in 1 .. Len(claims) : Debt(h, {k})[claims[i]] = 0
      BY <1>4, <3>1, <3>2, SumZero
    <3>4. ASSUME NEW i \in 1 .. Len(opened) PROVE Debt(h, {k})[opened[i]] = 0
      <4>1. i \in 1 .. Len(claims)
        BY <1>7
      <4>2. PICK c \in Sound, n \in Sound : c = claims[i] /\ n = opened[i] /\ n.who = c.who /\ n.kind = c.kind
                                             /\ (Remaining(c) = 0 => Remaining(n) = 0)
        BY <1>9, <4>1 DEF CarriedOn
      <4>3. Debt(h, {k})[c] = 0
        BY <3>3, <4>1, <4>2
      <4>4. /\ Debt(h, {k})[c] = (IF c.who = h /\ c.kind \in {k} THEN Remaining(c) ELSE 0)
            /\ Debt(h, {k})[n] = (IF n.who = h /\ n.kind \in {k} THEN Remaining(n) ELSE 0)
        BY DEF Debt
      <4> QED
        BY <4>2, <4>3, <4>4
    <3> QED
      BY <1>7, <3>2, <3>4, SumZero
  <2>3. ASSUME SumOf(opened, Noting(h)) = 0 PROVE Shown(opened, ledger.mirror, h)
    <3>1. Noting(h) \in [Sound -> Nat]
      BY NotingTyped
    <3>2. \A i \in 1 .. Len(opened) : Noting(h)[opened[i]] = 0
      BY <1>7, <2>3, <3>1, SumZero
    <3>3. ASSUME NEW i \in 1 .. Len(claims), claims[i].who = h PROVE Remaining(opened[i]) = Remaining(claims[i])
      <4>1. PICK c, n : c = claims[i] /\ n = opened[i]
        OBVIOUS
      <4>2. c \in Sound /\ n \in Sound /\ CarriedOn(c, n)
        BY <1>9, <4>1
      <4>3. Remaining(n) \in Nat /\ Remaining(c) \in Nat
        BY <4>2, SoundFields
      <4>4. n.who = h /\ c.who = h
        BY <3>3, <4>1, <4>2 DEF CarriedOn
      <4>5. Noting(h)[n] = 0
        BY <1>7, <3>2, <4>1
      <4>6. Noting(h)[n] = IF n.who = h /\ Remaining(n) > 0 THEN n.due ELSE 0
        BY <4>2 DEF Noting
      <4>7. Remaining(n) = 0 \/ n.due = 0
        BY <4>3, <4>4, <4>5, <4>6
      <4>8. CASE n.due = 0
        <5>1. Remaining(n) = 0 /\ Remaining(c) = 0
          BY <4>2, <4>4, <4>8 DEF CarriedOn
        <5> QED
          BY <4>1, <5>1
      <4>9. CASE Remaining(n) = 0 /\ n.due # 0
        <5>1. n.due = IF n.who \in Households THEN DueOf(n) ELSE 0
          <6>1. opened \in Seq(Noted)
            BY <1>3, <1>6, NotedLaw
          <6>2. opened[i] \in Noted
            BY <1>7, <6>1, Places
          <6> QED
            BY <4>1, <6>2 DEF Noted
        <5>2. DueOf(n) <= Remaining(n) /\ DueOf(n) \in Nat
          BY <4>2, SoundFields
        <5> QED
          BY <4>9, <5>1, <5>2
      <4> QED
        BY <4>7, <4>8, <4>9
    <3>4. Untouched(claims, opened, h)
      BY <3>3 DEF Untouched
    <3>5. OwesTheSame(claims, opened, h)
      BY <1>4, <1>7, <1>10, <3>4, SameDebt
    <3> QED
      BY <2>1, <3>5 DEF Shown, OwesTheSame
  <2> QED
    BY <1>8, <2>2, <2>3 DEF Lagging
<1>13. HouseholdsShown(opened, ledger'.mirror, phase' \in Week)
  BY <1>2, <1>12 DEF HouseholdsShown
<1>14. FirmsShown(opened, ledger'.mirror, mortgage')
  <2> SUFFICES ASSUME NEW f \in Firms
               PROVE  ledger'.mirror[<<f, "business">>] = SumOf(opened, Debt(f, {"business"})) + mortgage'[f].owed
    BY DEF FirmsShown
  <2>1. f \notin Households /\ "business" \in Kinds
    BY Constants DEF Kinds
  <2>2. Untouched(claims, opened, f)
    BY <1>9, <2>1 DEF Untouched, CarriedOn
  <2>3. OwesTheSame(claims, opened, f)
    BY <1>4, <1>7, <1>10, <2>2, SameDebt
  <2>4. mortgage'[f].owed = mortgage[f].owed
    BY <1>1, <1>2 DEF OthersOK
  <2>5. ledger.mirror[<<f, "business">>] = SumOf(claims, Debt(f, {"business"})) + mortgage[f].owed
    BY <1>3 DEF MirrorInv, Mirrored, FirmsShown
  <2> QED
    BY <1>8, <2>1, <2>3, <2>4, <2>5 DEF OwesTheSame
<1>16. Mirrored(opened, ledger'.mirror, mortgage', Households \cup live', phase' \in Week)
  BY <1>11, <1>13, <1>14 DEF Mirrored
<1>17. Mirrored(ledger'.claims, ledger'.mirror, mortgage', Households \cup live', phase' \in Week)
  BY <1>8, <1>16
<1> QED
  BY <1>17, MirrorsAfter

\* Settled claims show nowhere.
LEMMA KeptMirrored ==
  ASSUME NEW claims \in Seq(Sound), NEW kept, kept = Kept(claims, Open(claims)), NEW mirror, NEW m, NEW there,
         DebtorsIn(claims, there), OneMedical(claims), \A h \in Households : Shown(claims, mirror, h), FirmsShown(claims, mirror, m)
  PROVE  Mirrored(kept, mirror, m, there, FALSE)
<1>1. Open(claims) \in SUBSET (1 .. Len(claims))
  BY DEF Open
<1>2. \A w \in [Sound -> Int] : (\A c \in Sound : Remaining(c) = 0 => w[c] = 0) => SumOf(kept, w) = SumOf(claims, w)
  BY KeptOpen
<1>3. \A w \in [Sound -> Nat] : w \in [Sound -> Int]
  OBVIOUS
<1>4. ASSUME NEW b, NEW k PROVE SumOf(kept, Debt(b, {k})) = SumOf(claims, Debt(b, {k}))
  <2>1. Debt(b, {k}) \in [Sound -> Int]
    BY <1>3, WeightsTyped
  <2>2. \A c \in Sound : Remaining(c) = 0 => Debt(b, {k})[c] = 0
    BY DEF Debt
  <2> QED
    BY <1>2, <2>1, <2>2
<1>5. ASSUME NEW h PROVE SumOf(kept, Medical(h)) = SumOf(claims, Medical(h))
  <2>1. Medical(h) \in [Sound -> Int]
    BY <1>3, WeightsTyped
  <2>2. \A c \in Sound : Remaining(c) = 0 => Medical(h)[c] = 0
    BY DEF Medical
  <2> QED
    BY <1>2, <2>1, <2>2
<1>6. DebtorsIn(kept, there)
  <2> SUFFICES ASSUME NEW i \in 1 .. Len(kept), Remaining(kept[i]) > 0 PROVE kept[i].who \in there
    BY DEF DebtorsIn
  <2>1. PICK j \in Open(claims) : kept[i] = claims[j]
    BY <1>1, KeptLaw
  <2> QED
    BY <1>1, <2>1 DEF DebtorsIn
<1>7. OneMedical(kept)
  BY <1>5 DEF OneMedical
<1>8. HouseholdsShown(kept, mirror, FALSE)
  BY <1>4 DEF HouseholdsShown, Shown
<1>9. FirmsShown(kept, mirror, m)
  BY <1>4 DEF FirmsShown
<1> QED
  BY <1>6, <1>7, <1>8, <1>9 DEF Mirrored

LEMMA CollectFirmLedger ==
  ASSUME OthersOK, LedgerOK(ledger), CollectFirmDues
  PROVE  ledger' = [Collection(GrownLedger, Firms, FirmDue(GrownLedger.claims)).ledger EXCEPT !.claims = Kept(@, Open(@))]
<1>1. GrownLedger.claims = Grown(ledger.claims, Firms)
  BY FirmDuesLaw
<1>2. Grown(ledger.claims, Firms) = [i \in 1 .. Len(ledger.claims) |-> Accrued(ledger.claims[i], Firms)]
  BY DEF Grown
<1>3. PICK g : g = Grown(ledger.claims, Firms)
  OBVIOUS
<1>4. GrownLedger = [ledger EXCEPT !.claims = g, !.booked = @ + Accrual(ledger.claims, Firms)]
  BY <1>3 DEF GrownLedger
<1>5. ledger' = [Collection([ledger EXCEPT !.claims = g, !.booked = @ + Accrual(ledger.claims, Firms)], Firms, FirmDue(g)).ledger
                   EXCEPT !.claims = Kept(@, Open(@))]
  BY <1>2, <1>3 DEF CollectFirmDues
<1> QED
  BY <1>1, <1>3, <1>4, <1>5

\* A claim on a firm that nothing falls due of has not accrued.
LEMMA IdleClaim ==
  ASSUME NEW c \in Sound, NEW g, g = Accrued(c, Firms), NEW due, due = IF g.who \in Firms THEN DueOf(g) ELSE 0
  PROVE  /\ g.who = c.who /\ g.kind = c.kind
         /\ Remaining(g) > 0 => Remaining(c) > 0
         /\ due = 0 => Remaining(g) = Remaining(c)
<1>1. /\ g \in Sound /\ g.who = c.who /\ g.kind = c.kind /\ g.fresh = c.fresh
      /\ Remaining(g) = Remaining(c) + IF Remaining(c) > 0 /\ c.who \in Firms /\ ~ c.fresh THEN Interest(c.principal) ELSE 0
      /\ Interest(c.principal) \in Nat
  BY AccruedOne
<1>2. Remaining(c) \in Nat /\ Remaining(g) \in Nat
  BY <1>1, SoundFields
<1>3. Remaining(g) > 0 => Remaining(c) > 0
  BY <1>1, <1>2
<1>4. ASSUME due = 0 PROVE Remaining(g) = Remaining(c)
  <2>1. CASE c.who \notin Firms \/ c.fresh
    BY <1>1, <1>2, <2>1
  <2>2. CASE c.who \in Firms /\ ~ c.fresh
    <3>1. DueOf(g) = 0 /\ ~ g.fresh
      BY <1>1, <1>4, <2>2
    <3>2. DueOf(g) = (IF g.fresh THEN 0 ELSE Min({g.pay, Remaining(g)})) /\ (Min({g.pay, Remaining(g)}) = 0 <=> Remaining(g) = 0)
      BY <1>1, SoundFields
    <3>3. Remaining(g) = 0
      BY <3>1, <3>2
    <3> QED
      BY <1>1, <1>2, <3>3
  <2> QED
    BY <2>1, <2>2
<1> QED
  BY <1>1, <1>3, <1>4

LEMMA MirrorsCollectFirmDues == MInv /\ MirrorInv /\ CollectFirmDues => MirrorInv'
<1> SUFFICES ASSUME MInv, MirrorInv, CollectFirmDues PROVE MirrorInv'
  OBVIOUS
<1>1. OthersOK /\ LedgerOK(ledger) /\ Households \subseteq Borrowers /\ Firms \subseteq Borrowers
  BY MInvFacts
<1>2. phase \notin Week /\ phase' \notin Week /\ mortgage' = mortgage /\ live' = live
  BY DEF CollectFirmDues, Moves, Week
<1>3. PICK claims, l, due, settled, debtors, kept :
        /\ claims = ledger.claims /\ l = GrownLedger /\ due = FirmDue(l.claims)
        /\ settled = SettledAll(l, Firms, due) /\ debtors = Debtors(l, Firms, due) /\ kept = Kept(settled, Open(settled))
  OBVIOUS
<1>4. claims \in Seq(Sound)
  BY <1>3, MirrorFacts
<1>5. LedgerOK(l) /\ l.claims = Grown(claims, Firms) /\ l.mirror = ledger.mirror /\ Collectible(l, Firms, due)
  BY <1>1, <1>3, FirmDuesLaw
<1>6. Len(l.claims) = Len(claims)
  BY <1>4, <1>5, AccruedLaw
<1>7. /\ LedgerOK(Collection(l, Firms, due).ledger) /\ Collection(l, Firms, due).ledger.claims = settled
      /\ Collection(l, Firms, due).ledger.mirror = Synced(ledger.mirror, settled, debtors)
  BY <1>1, <1>3, <1>5, CollectedLedger
<1>8. ledger'.claims = kept /\ ledger'.mirror = Synced(ledger.mirror, settled, debtors)
  <2>1. PICK c : c = Collection(l, Firms, due).ledger
    OBVIOUS
  <2>2. ledger' = [c EXCEPT !.claims = Kept(@, Open(@))]
    BY <1>1, <1>3, <2>1, CollectFirmLedger
  <2>3. LedgerOK(c) /\ c.claims = settled /\ c.mirror = Synced(ledger.mirror, settled, debtors)
    BY <1>7, <2>1
  <2> QED
    BY <1>3, <2>2, <2>3 DEF LedgerOK
<1>9. settled \in Seq(Sound) /\ Len(settled) = Len(claims)
  BY <1>3, <1>5, <1>6, CollectedClaims, SoundLists
<1>10. \A i \in 1 .. Len(claims) :
         /\ settled[i].who = claims[i].who /\ settled[i].kind = claims[i].kind
         /\ Remaining(settled[i]) > 0 => Remaining(claims[i]) > 0
         /\ due[i] = 0 => Remaining(settled[i]) = Remaining(claims[i])
  <2> SUFFICES ASSUME NEW i \in 1 .. Len(claims)
               PROVE  /\ settled[i].who = claims[i].who /\ settled[i].kind = claims[i].kind
                      /\ Remaining(settled[i]) > 0 => Remaining(claims[i]) > 0
                      /\ due[i] = 0 => Remaining(settled[i]) = Remaining(claims[i])
    OBVIOUS
  <2>1. i \in 1 .. Len(l.claims)
    BY <1>6
  <2>2. PICK c, g : c = claims[i] /\ g = l.claims[i]
    OBVIOUS
  <2>3. c \in Sound /\ g = Accrued(c, Firms) /\ settled[i] \in Sound
    BY <1>4, <1>5, <1>9, <2>2, Places DEF Grown
  <2>4. due[i] = IF g.who \in Firms THEN DueOf(g) ELSE 0
    BY <1>3, <2>1, <2>2 DEF FirmDue
  <2>5. /\ g.who = c.who /\ g.kind = c.kind
        /\ Remaining(g) > 0 => Remaining(c) > 0
        /\ due[i] = 0 => Remaining(g) = Remaining(c)
    <3>1. PICK d : d = due[i]
      OBVIOUS
    <3>2. d = IF g.who \in Firms THEN DueOf(g) ELSE 0
      BY <2>4, <3>1
    <3>3. d = 0 => Remaining(g) = Remaining(c)
      BY <2>3, <3>2, IdleClaim
    <3>4. /\ g.who = c.who /\ g.kind = c.kind
          /\ Remaining(g) > 0 => Remaining(c) > 0
      BY <2>3, IdleClaim
    <3> QED
      BY <3>1, <3>3, <3>4
  <2>6. /\ settled[i].who = g.who /\ settled[i].kind = g.kind
        /\ Remaining(settled[i]) <= Remaining(g)
        /\ due[i] = 0 => Remaining(settled[i]) = Remaining(g)
    BY <1>3, <1>5, <2>1, <2>2, CollectedClaims
  <2>7. g \in Sound
    BY <2>3, AccruedOne
  <2>8. Remaining(settled[i]) \in Nat /\ Remaining(g) \in Nat
    BY <2>3, <2>7, SoundFields
  <2> QED
    BY <2>2, <2>5, <2>6, <2>8
<1>11. Alike(claims, settled)
  BY <1>9, <1>10 DEF Alike
<1>12. DebtorsIn(settled, Households \cup live') /\ OneMedical(settled)
  <2>1. DebtorsIn(claims, Households \cup live) /\ OneMedical(claims)
    BY <1>3 DEF MirrorInv, Mirrored
  <2> QED
    BY <1>2, <1>4, <1>9, <1>11, <2>1, FewerDebtors, FewerMedical
<1>13. Mirrors(ledger.mirror)
  BY <1>1 DEF LedgerOK, Mirrors
<1>14. DOMAIN due = 1 .. Len(claims) /\ \A i \in 1 .. Len(claims) : due[i] \in Nat
  BY <1>5, <1>6 DEF Collectible
<1>15. \A b \in Borrowers \ debtors : OwesTheSame(claims, settled, b)
  <2> SUFFICES ASSUME NEW b \in Borrowers, b \notin debtors PROVE OwesTheSame(claims, settled, b)
    OBVIOUS
  <2>1. ASSUME NEW i \in 1 .. Len(claims), claims[i].who = b PROVE due[i] = 0
    <3>1. l.claims[i].who = b
      <4>1. l.claims[i] = Accrued(claims[i], Firms) /\ claims[i] \in Sound
        BY <1>4, <1>5, Places DEF Grown
      <4>2. Accrued(claims[i], Firms).who = claims[i].who
        BY <4>1, AccruedOne
      <4> QED
        BY <2>1, <4>1, <4>2
    <3>2. due[i] > 0 => b \in Firms
      BY <1>5, <1>6, <3>1 DEF Collectible
    <3>3. b \in Firms => DueAt(l, due, b) = {}
      BY <1>3 DEF Debtors
    <3>4. ~ (due[i] > 0)
      BY <1>14, <3>1, <3>2, <3>3 DEF DueAt
    <3> QED
      BY <1>14, <3>4
  <2>2. Untouched(claims, settled, b)
    BY <1>10, <2>1 DEF Untouched
  <2> QED
    BY <1>4, <1>9, <1>11, <2>2, SameDebt
<1>16. ASSUME NEW h \in Households PROVE Shown(settled, ledger'.mirror, h)
  <2> SUFFICES ASSUME NEW k \in Kinds PROVE ledger'.mirror[<<h, k>>] = SumOf(settled, Debt(h, {k}))
    BY DEF Shown
  <2>1. h \in Borrowers /\ h \notin debtors
    BY <1>3, Constants DEF Debtors
  <2>2. Shown(claims, ledger.mirror, h)
    BY <1>2, <1>3 DEF MirrorInv, Mirrored, HouseholdsShown
  <2>3. Synced(ledger.mirror, settled, debtors)[<<h, k>>] = ledger.mirror[<<h, k>>]
    BY <1>13, <2>1, SyncedOther
  <2> QED
    BY <1>8, <1>15, <2>1, <2>2, <2>3 DEF Shown, OwesTheSame
<1>17. FirmsShown(settled, ledger'.mirror, mortgage')
  <2> SUFFICES ASSUME NEW f \in Firms
               PROVE  ledger'.mirror[<<f, "business">>] = SumOf(settled, Debt(f, {"business"})) + mortgage[f].owed
    BY <1>2 DEF FirmsShown
  <2>1. f \in Borrowers /\ "business" \in Kinds
    BY Constants DEF Kinds
  <2>2. CASE f \in debtors
    <3>1. Synced(ledger.mirror, settled, debtors)[<<f, "business">>] = SumOf(settled, Debt(f, {"business"})) + mortgage[f].owed
      BY <1>9, <1>13, <2>2, SyncedFirm
    <3> QED
      BY <1>8, <3>1
  <2>3. CASE f \notin debtors
    <3>1. OwesTheSame(claims, settled, f)
      BY <1>15, <2>1, <2>3
    <3>2. Synced(ledger.mirror, settled, debtors)[<<f, "business">>] = ledger.mirror[<<f, "business">>]
      BY <1>13, <2>1, <2>3, SyncedOther
    <3>3. ledger.mirror[<<f, "business">>] = SumOf(claims, Debt(f, {"business"})) + mortgage[f].owed
      BY <1>3 DEF MirrorInv, Mirrored, FirmsShown
    <3> QED
      BY <1>8, <2>1, <3>1, <3>2, <3>3 DEF OwesTheSame
  <2> QED
    BY <2>2, <2>3
<1>18. PICK mirror, m, there : mirror = ledger'.mirror /\ m = mortgage' /\ there = Households \cup live'
  OBVIOUS
<1>19. Mirrored(kept, mirror, m, there, FALSE)
  <2>1. DebtorsIn(settled, there) /\ OneMedical(settled) /\ FirmsShown(settled, mirror, m)
    BY <1>12, <1>17, <1>18
  <2>2. \A h \in Households : Shown(settled, mirror, h)
    BY <1>16, <1>18
  <2> QED
    BY <1>3, <1>9, <2>1, <2>2, KeptMirrored
<1>20. Mirrored(kept, mirror, m, there, phase' \in Week)
  BY <1>2, <1>19, NotedAsWell
<1>21. Mirrored(ledger'.claims, ledger'.mirror, mortgage', Households \cup live', phase' \in Week)
  BY <1>8, <1>18, <1>20
<1> QED
  BY <1>21, MirrorsAfter

\* The claims on those that stay.
Staying(claims, kept, C) ==
  /\ \A there : DebtorsIn(claims, there) => DebtorsIn(kept, there \ C)
  /\ \A b : b \notin C => OwesTheSame(claims, kept, b) /\ SumOf(kept, Medical(b)) = SumOf(claims, Medical(b))
  /\ \A b \in C : \A k \in Kinds : SumOf(kept, Debt(b, {k})) = 0

LEMMA StayingDebt ==
  ASSUME NEW claims \in Seq(Sound), NEW C
  PROVE  Staying(claims, Kept(claims, {i \in 1 .. Len(claims) : claims[i].who \notin C}), C)
<1>0. PICK kept : kept = Kept(claims, {i \in 1 .. Len(claims) : claims[i].who \notin C})
  OBVIOUS
<1> DEFINE P == {i \in 1 .. Len(claims) : claims[i].who \notin C}
<1>1. P \in SUBSET (1 .. Len(claims)) /\ kept = Kept(claims, P)
  BY <1>0
<1>2. \A i \in 1 .. Len(claims) : i \in P <=> claims[i].who \notin C
  OBVIOUS
<1> HIDE DEF P
<1>3. kept \in Seq(Sound) /\ \A i \in 1 .. Len(kept) : \E j \in P : kept[i] = claims[j]
  <2>1. P \in SUBSET (1 .. Len(claims))
    BY <1>1
  <2>2. Kept(claims, P) \in Seq(Sound) /\ \A i \in 1 .. Len(Kept(claims, P)) : \E j \in P : Kept(claims, P)[i] = claims[j]
    BY <2>1, KeptLaw
  <2> QED
    BY <1>1, <2>2
<1>4. \A i \in 1 .. Len(claims) : claims[i] \in Sound
  BY Places
<1>5. \A w \in [Sound -> Int] : (\A i \in 1 .. Len(claims) : w[claims[i]] = IF i \in P THEN w[claims[i]] ELSE 0)
                                   => SumOf(kept, w) = SumOf(claims, w)
  BY <1>1, SumKept
<1>6. \A w \in [Sound -> Nat] : w \in [Sound -> Int]
  OBVIOUS
<1>7. \A i \in 1 .. Len(kept) : kept[i] \in Sound /\ kept[i].who \notin C
  BY <1>1, <1>2, <1>3, <1>4
<1>8. ASSUME NEW there, DebtorsIn(claims, there) PROVE DebtorsIn(kept, there \ C)
  <2> SUFFICES ASSUME NEW i \in 1 .. Len(kept), Remaining(kept[i]) > 0 PROVE kept[i].who \in there \ C
    BY DEF DebtorsIn
  <2>1. PICK j \in P : kept[i] = claims[j]
    BY <1>3
  <2> QED
    BY <1>1, <1>2, <1>8, <2>1 DEF DebtorsIn
<1>9. ASSUME NEW b, b \notin C PROVE OwesTheSame(claims, kept, b) /\ SumOf(kept, Medical(b)) = SumOf(claims, Medical(b))
  <2>1. ASSUME NEW k \in Kinds PROVE SumOf(kept, Debt(b, {k})) = SumOf(claims, Debt(b, {k}))
    <3>1. Debt(b, {k}) \in [Sound -> Int]
      BY <1>6, WeightsTyped
    <3>2. \A c \in Sound : c.who \in C => Debt(b, {k})[c] = 0
      BY <1>9 DEF Debt
    <3>3. \A i \in 1 .. Len(claims) : Debt(b, {k})[claims[i]] = IF i \in P THEN Debt(b, {k})[claims[i]] ELSE 0
      BY <1>2, <1>4, <3>2
    <3> QED
      BY <1>5, <3>1, <3>3
  <2>2. SumOf(kept, Medical(b)) = SumOf(claims, Medical(b))
    <3>1. Medical(b) \in [Sound -> Int]
      BY <1>6, WeightsTyped
    <3>2. \A c \in Sound : c.who \in C => Medical(b)[c] = 0
      BY <1>9 DEF Medical
    <3>3. \A i \in 1 .. Len(claims) : Medical(b)[claims[i]] = IF i \in P THEN Medical(b)[claims[i]] ELSE 0
      BY <1>2, <1>4, <3>2
    <3> QED
      BY <1>5, <3>1, <3>3
  <2> QED
    BY <2>1, <2>2 DEF OwesTheSame
<1>10. ASSUME NEW b \in C, NEW k \in Kinds PROVE SumOf(kept, Debt(b, {k})) = 0
  <2>1. Debt(b, {k}) \in [Sound -> Nat]
    BY WeightsTyped
  <2>2. \A i \in 1 .. Len(kept) : Debt(b, {k})[kept[i]] = 0
    BY <1>7, <1>10 DEF Debt
  <2> QED
    BY <1>3, <2>1, <2>2, SumZero
<1> QED
  BY <1>0, <1>8, <1>9, <1>10 DEF Staying

LEMMA MirrorsExits == MInv /\ MirrorInv /\ Exits => MirrorInv'
<1> SUFFICES ASSUME MInv, MirrorInv, Exits PROVE MirrorInv'
  OBVIOUS
<1>1. /\ OthersOK /\ LedgerOK(ledger) /\ live \subseteq Firms /\ Firms \subseteq Borrowers /\ Households \subseteq Borrowers
      /\ Households \cap Firms = {}
  BY MInvFacts, Constants
<1>2. phase \notin Week /\ phase' \notin Week
  BY DEF Exits, Moves, Week
<1>3. \E C \in SUBSET (live \ Baseline) : \E wages \in [C -> 0 .. MaxIncome], owned \in SUBSET C :
         \E owner \in [owned -> Households] : Closing(C, wages, owned, owner)
  BY Zenon DEF Exits, Closing
<1>4. PICK C \in SUBSET (live \ Baseline) : \E wages \in [C -> 0 .. MaxIncome], owned \in SUBSET C :
         \E owner \in [owned -> Households] : Closing(C, wages, owned, owner)
  BY <1>3
<1>5. PICK wages \in [C -> 0 .. MaxIncome], owned \in SUBSET C :
         \E owner \in [owned -> Households] : Closing(C, wages, owned, owner)
  BY <1>4
<1>6. PICK owner \in [owned -> Households] : Closing(C, wages, owned, owner)
  BY <1>5
<1>7. PICK booked, reserve :
         ledger' = [ledger EXCEPT
               !.claims  = Kept(@, {i \in 1 .. Len(@) : @[i].who \notin C}),
               !.booked  = booked,
               !.reserve = reserve,
               !.mirror  = [x \in DOMAIN @ |-> IF x[1] \in C THEN 0 ELSE @[x]]]
  BY <1>6, Zenon DEF Closing
<1>8. /\ mortgage' = [f \in Firms |-> IF f \in C THEN NoMortgage ELSE mortgage[f]]
      /\ live' = live \ C
  BY <1>6, Zenon DEF Closing
<1>9. PICK claims, kept : claims = ledger.claims /\ kept = Kept(claims, {i \in 1 .. Len(claims) : claims[i].who \notin C})
  OBVIOUS
<1>10. claims \in Seq(Sound)
  BY <1>9, MirrorFacts
<1>11. /\ ledger'.claims = kept
       /\ ledger'.mirror = [x \in DOMAIN ledger.mirror |-> IF x[1] \in C THEN 0 ELSE ledger.mirror[x]]
  BY <1>1, <1>7, <1>9 DEF LedgerOK
<1>12. /\ \A there : DebtorsIn(claims, there) => DebtorsIn(kept, there \ C)
       /\ \A b : b \notin C => OwesTheSame(claims, kept, b) /\ SumOf(kept, Medical(b)) = SumOf(claims, Medical(b))
       /\ \A b \in C : \A k \in Kinds : SumOf(kept, Debt(b, {k})) = 0
  <2>1. Staying(claims, kept, C)
    BY <1>9, <1>10, StayingDebt
  <2> QED
    BY <2>1 DEF Staying
<1>13. \A h \in Households : h \notin C /\ h \in Borrowers
  BY <1>1
<1>14. \A b \in Borrowers, k \in Kinds : ledger'.mirror[<<b, k>>] = IF b \in C THEN 0 ELSE ledger.mirror[<<b, k>>]
  <2> SUFFICES ASSUME NEW b \in Borrowers, NEW k \in Kinds
               PROVE  ledger'.mirror[<<b, k>>] = IF b \in C THEN 0 ELSE ledger.mirror[<<b, k>>]
    OBVIOUS
  <2>1. <<b, k>> \in Borrowers \X Kinds /\ <<b, k>>[1] = b
    OBVIOUS
  <2>2. PICK x : x = <<b, k>>
    OBVIOUS
  <2>3. DOMAIN ledger.mirror = Borrowers \X Kinds
    BY <1>1 DEF LedgerOK
  <2>4. x \in DOMAIN ledger.mirror /\ x[1] = b
    BY <2>1, <2>2, <2>3
  <2>5. ledger'.mirror[x] = IF b \in C THEN 0 ELSE ledger.mirror[x]
    BY <1>11, <2>4
  <2> QED
    BY <2>2, <2>5
<1>15. DebtorsIn(kept, Households \cup live')
  <2>1. DebtorsIn(claims, Households \cup live)
    BY <1>9 DEF MirrorInv, Mirrored
  <2>2. (Households \cup live) \ C = Households \cup live'
    BY <1>8, <1>13
  <2>3. DebtorsIn(kept, (Households \cup live) \ C)
    BY <1>12, <2>1
  <2> QED
    BY <2>2, <2>3
<1>16. OneMedical(kept)
  <2>1. OneMedical(claims)
    BY <1>9 DEF MirrorInv, Mirrored
  <2> QED
    BY <1>12, <1>13, <2>1 DEF OneMedical
<1>17. HouseholdsShown(kept, ledger'.mirror, phase' \in Week)
  <2> SUFFICES ASSUME NEW h \in Households, NEW k \in Kinds PROVE ledger'.mirror[<<h, k>>] = SumOf(kept, Debt(h, {k}))
    BY <1>2 DEF HouseholdsShown, Shown
  <2>1. Shown(claims, ledger.mirror, h)
    BY <1>2, <1>9 DEF MirrorInv, Mirrored, HouseholdsShown
  <2>2. ledger'.mirror[<<h, k>>] = ledger.mirror[<<h, k>>]
    BY <1>13, <1>14
  <2>3. OwesTheSame(claims, kept, h)
    BY <1>12, <1>13
  <2> QED
    BY <2>1, <2>2, <2>3 DEF Shown, OwesTheSame
<1>18. FirmsShown(kept, ledger'.mirror, mortgage')
  <2> SUFFICES ASSUME NEW f \in Firms
               PROVE  ledger'.mirror[<<f, "business">>] = SumOf(kept, Debt(f, {"business"})) + mortgage'[f].owed
    BY DEF FirmsShown
  <2>1. f \in Borrowers /\ "business" \in Kinds
    BY <1>1 DEF Kinds
  <2>2. ledger.mirror[<<f, "business">>] = SumOf(claims, Debt(f, {"business"})) + mortgage[f].owed
    BY <1>9 DEF MirrorInv, Mirrored, FirmsShown
  <2>3. ledger'.mirror[<<f, "business">>] = IF f \in C THEN 0 ELSE ledger.mirror[<<f, "business">>]
    BY <1>14, <2>1
  <2>4. CASE f \in C
    <3>1. SumOf(kept, Debt(f, {"business"})) = 0
      BY <1>12, <2>1, <2>4
    <3>2. mortgage'[f].owed = 0
      BY <1>8, <2>4 DEF NoMortgage
    <3> QED
      BY <2>3, <2>4, <3>1, <3>2
  <2>5. CASE f \notin C
    <3>1. OwesTheSame(claims, kept, f)
      BY <1>12, <2>5
    <3>2. SumOf(kept, Debt(f, {"business"})) = SumOf(claims, Debt(f, {"business"}))
      BY <2>1, <3>1 DEF OwesTheSame
    <3>3. mortgage'[f] = mortgage[f]
      BY <1>8, <2>5
    <3> QED
      BY <2>2, <2>3, <2>5, <3>2, <3>3
  <2> QED
    BY <2>4, <2>5
<1>19. Mirrored(kept, ledger'.mirror, mortgage', Households \cup live', phase' \in Week)
  BY <1>15, <1>16, <1>17, <1>18 DEF Mirrored
<1>20. Mirrored(ledger'.claims, ledger'.mirror, mortgage', Households \cup live', phase' \in Week)
  BY <1>11, <1>19
<1> QED
  BY <1>20, MirrorsAfter

-----------------------------------------------------------------------------
(* The mirrors, the whole run *)

LEMMA MirrorInit == Init => MirrorInv
<1> SUFFICES ASSUME Init PROVE MirrorInv
  OBVIOUS
<1>1. PICK claims, mirror :
        claims = <<>> /\ claims = ledger.claims /\ mirror = [x \in Borrowers \X Kinds |-> 0] /\ mirror = ledger.mirror
  BY DEF Init
<1>2. phase = "open" /\ \A f \in Firms : mortgage[f].owed = 0
  BY DEF Init, NoMortgage
<1>3. claims \in Seq(Sound) /\ Len(claims) = 0 /\ 1 .. Len(claims) = {}
  BY <1>1
<1>4. \A w \in [Sound -> Nat] : SumOf(claims, w) = 0
  BY <1>3, SumZero
<1>5. Households \subseteq Borrowers /\ Firms \subseteq Borrowers /\ "business" \in Kinds
  BY Constants DEF Kinds
<1>6. \A b \in Borrowers, k \in Kinds : mirror[<<b, k>>] = 0
  BY <1>1
<1>7. \A b : \A k \in Kinds : SumOf(claims, Debt(b, {k})) = 0
  BY <1>4, WeightsTyped
<1>8. \A h : SumOf(claims, Medical(h)) = 0
  BY <1>4, WeightsTyped
<1>9. HouseholdsShown(claims, mirror, phase \in Week)
  BY <1>2, <1>5, <1>6, <1>7 DEF HouseholdsShown, Shown, Week
<1>10. FirmsShown(claims, mirror, mortgage)
  BY <1>2, <1>5, <1>6, <1>7 DEF FirmsShown
<1>11. OneMedical(claims)
  BY <1>8 DEF OneMedical
<1>12. DebtorsIn(claims, Households \cup live)
  BY <1>3 DEF DebtorsIn
<1> QED
  BY <1>1, <1>9, <1>10, <1>11, <1>12 DEF MirrorInv, Mirrored

LEMMA MirrorNext == MoneySound /\ MirrorInv /\ Next => MirrorInv'
  BY MirrorsOpenWeek, MirrorsRefuse, MirrorsLendToFirm, MirrorsLendDirectly, MirrorsLendForConsumption, MirrorsTrade,
     MirrorsServiceMortgages, MirrorsStartMortgage, MirrorsVisit, MirrorsCollectHouseholdDues, MirrorsCollectFirmDues,
     MirrorsExits, MirrorsEntry DEF Next, MoneySound

LEMMA MirrorStutter == MirrorInv /\ UNCHANGED vars => MirrorInv'
<1> SUFFICES ASSUME MirrorInv, UNCHANGED vars PROVE MirrorInv'
  OBVIOUS
<1>1. phase' = phase /\ ledger' = ledger /\ mortgage' = mortgage /\ live' = live
  BY DEF vars
<1> QED
  BY <1>1, MirrorsStay

BookSound == MoneySound /\ MirrorInv

LEMMA SpecBook == Spec => []BookSound
<1>1. Init => BookSound
  BY MoneyInit, MirrorInit DEF BookSound
<1>2. BookSound /\ [Next]_vars => BookSound'
  BY MoneyNext, MoneyStutter, MirrorNext, MirrorStutter DEF BookSound
<1> QED
  BY <1>1, <1>2, PTL DEF Spec

LEMMA MirrorsMatch == MInv /\ MirrorInv => LedgerMatchesMirrors
<1> SUFFICES ASSUME MInv, MirrorInv PROVE LedgerMatchesMirrors
  OBVIOUS
<1>1. ledger.booked = Total([i \in Open(ledger.claims) |-> Remaining(ledger.claims[i])])
  BY MoneyInv DEF BookBalanced
<1>2. PICK claims \in Seq(Sound) : claims = ledger.claims
  BY MirrorFacts
<1>3. \A b, K : Owed(claims, b, K) = SumOf(claims, Debt(b, K))
  BY BooksAreSums
<1>4. \A h : Cardinality(Of(claims, h, {"medical"})) = SumOf(claims, Medical(h))
  BY BooksAreSums
<1>5. /\ DebtorsIn(claims, Households \cup live) /\ OneMedical(claims)
      /\ HouseholdsShown(claims, ledger.mirror, phase \in Week) /\ FirmsShown(claims, ledger.mirror, mortgage)
  BY <1>2 DEF MirrorInv, Mirrored
<1>6. \A i \in Open(ledger.claims) : ledger.claims[i].who \in Households \cup live
  BY <1>2, <1>5 DEF DebtorsIn, Open
<1>7. ASSUME NEW h \in Households
      PROVE  /\ Cardinality(Of(ledger.claims, h, {"medical"})) <= 1
             /\ phase \in {"open", "late", "exits", "entry"} =>
                  \A k \in Kinds : ledger.mirror[<<h, k>>] = Owed(ledger.claims, h, {k})
  <2>1. Cardinality(Of(ledger.claims, h, {"medical"})) <= 1
    BY <1>2, <1>4, <1>5 DEF OneMedical
  <2>2. ASSUME phase \in {"open", "late", "exits", "entry"}, NEW k \in Kinds
        PROVE  ledger.mirror[<<h, k>>] = Owed(ledger.claims, h, {k})
    <3>1. phase \notin Week
      BY <2>2 DEF Week
    <3>2. Shown(claims, ledger.mirror, h)
      BY <1>5, <3>1 DEF HouseholdsShown
    <3> QED
      BY <1>2, <1>3, <3>2 DEF Shown
  <2> QED
    BY <2>1, <2>2
<1>8. ASSUME NEW f \in Firms PROVE ledger.mirror[<<f, "business">>] = MirrorOf(ledger.claims, f, "business")
  <2>1. ledger.mirror[<<f, "business">>] = Owed(claims, f, {"business"}) + mortgage[f].owed
    BY <1>3, <1>5 DEF FirmsShown
  <2> QED
    BY <1>2, <2>1 DEF MirrorOf
<1> QED
  BY <1>1, <1>6, <1>7, <1>8 DEF LedgerMatchesMirrors

\* Whatever is lent, taken back, served, written off, dropped or settled at an exit, the booked total,
\* the claims and the copies of what is owed that the borrowers carry agree whenever a run may start,
\* save for the week's interest of the households, and no household has two medical loans.
THEOREM LedgerStaysInStep == Spec => []LedgerMatchesMirrors
<1>1. BookSound => LedgerMatchesMirrors
  BY MirrorsMatch DEF BookSound, MoneySound
<1> QED
  BY <1>1, SpecBook, PTL

-----------------------------------------------------------------------------
(* The index for underwriting *)

\* While the bank lends, what the index holds for a borrower serves at least its claims in the book: what
\* was lent and taken back since it was built included.
Covers(dues, claims) == \A b \in Borrowers : SumOf(claims, Service(b)) <= dues[b]
Covered(l) == l.index # NoIndex => Covers(l.index.dues, l.claims)
IndexInv == phase \in Week \cup {"late"} => Covered(ledger)

\* The borrower of a loan that is granted can serve it with the rest.
Affordable == \A b \in Borrowers : Granting(b) => Serving(b)' <= capacity[b]

LEMMA ServiceTyped ==
  ASSUME NEW claims \in Seq(Sound), NEW b
  PROVE  SumOf(claims, Service(b)) \in Nat /\ Service(b) \in [Sound -> Int]
<1>1. Service(b) \in [Sound -> Nat]
  BY WeightsTyped
<1> QED
  BY <1>1, SumTyped

LEMMA IndexCovers ==
  ASSUME OthersOK, NEW l, LedgerOK(l), Covered(l)
  PROVE  Covers(Index(l).dues, l.claims)
<1>1. CASE l.index # NoIndex
  BY <1>1 DEF Covered, Index
<1>2. CASE l.index = NoIndex
  <2>1. Index(l).dues = Dues(l.claims)
    BY <1>2 DEF Index
  <2>2. l.claims \in Seq(Sound)
    BY DEF LedgerOK
  <2>3. \A b \in Borrowers :
          /\ Dues(l.claims)[b] >= SumOf(l.claims, Service(b)) /\ SumOf(l.claims, Service(b)) \in Nat
          /\ Dues(l.claims) \in [Borrowers -> Nat]
    BY <2>2, DuesTyped
  <2>4. ASSUME NEW b \in Borrowers PROVE SumOf(l.claims, Service(b)) <= Dues(l.claims)[b]
    <3>1. PICK d, s : d = Dues(l.claims)[b] /\ s = SumOf(l.claims, Service(b))
      OBVIOUS
    <3>2. d >= s /\ s \in Nat /\ d \in Nat
      BY <2>3, <3>1
    <3>3. s <= d
      BY <3>2
    <3> QED
      BY <3>1, <3>3
  <2> QED
    BY <2>1, <2>4 DEF Covers
<1> QED
  BY <1>1, <1>2

LEMMA IndexAfter ==
  ASSUME Covered(ledger')
  PROVE  IndexInv'
  BY DEF IndexInv, Covered, Covers, SumOf, Service

LEMMA CoversAsWell ==
  ASSUME OthersOK, LedgerOK(ledger), Covered(ledger), ledger'.claims = ledger.claims, ledger'.index = Index(ledger)
  PROVE  IndexInv'
<1>1. Covers(Index(ledger).dues, ledger.claims)
  BY IndexCovers
<1>2. Covered(ledger')
  BY <1>1 DEF Covered
<1> QED
  BY <1>2, IndexAfter

LEMMA NothingGranted ==
  ASSUME NEW n \in Nat, NEW m \in Nat, n = Len(ledger.claims), m = Len(ledger'.claims), m <= n
  PROVE  Affordable
<1>1. ~ (m > n)
  OBVIOUS
<1> QED
  BY <1>1 DEF Affordable, Granting

LEMMA SameClaims ==
  ASSUME MInv, ledger'.claims = ledger.claims
  PROVE  Affordable
<1>1. Len(ledger.claims) \in Nat
  BY MInvFacts
<1>2. Len(ledger'.claims) = Len(ledger.claims) /\ Len(ledger'.claims) <= Len(ledger.claims)
  BY <1>1
<1> QED
  BY <1>1, <1>2, NothingGranted

\* A loan that is granted is counted.
LEMMA IndexGranted ==
  ASSUME MInv, Covered(ledger), NEW b \in Borrowers, NEW kind \in Kinds, NEW p \in Principals,
         ledger' = Granted(ledger, b, kind, p), MayOwe(ledger, b, p)
  PROVE  IndexInv' /\ Affordable
<1>1. OthersOK /\ LedgerOK(ledger) /\ ledger.claims \in Seq(Sound)
  BY MInvFacts
<1>2. PICK claims, c, new : claims = ledger.claims /\ c = Fresh(b, kind, p) /\ new = Append(claims, c)
  OBVIOUS
<1>3. claims \in Seq(Sound) /\ Len(claims) \in Nat
  BY <1>1, <1>2
<1>4. /\ c \in Sound /\ c.who = b /\ c.pay = Installment[p] /\ Installment[p] \in Nat /\ Remaining(c) \in Nat
  BY <1>2, FreshLaw, SoundFields
<1>5. new \in Seq(Sound) /\ Len(new) = Len(claims) + 1 /\ new[Len(new)] = c
  BY <1>2, <1>3, <1>4
<1>6. PICK x \in IndexType : x = Index(ledger)
  BY <1>1, IndexTyped
<1>7. PICK dues \in [Borrowers -> Nat] : dues = x.dues
  BY DEF IndexType
<1>8. Covers(dues, claims)
  BY <1>1, <1>2, <1>6, <1>7, IndexCovers
<1>9. ledger'.claims = new /\ ledger'.index = [x EXCEPT !.dues[b] = @ + Installment[p]]
  BY <1>2, <1>6 DEF Granted
<1>10. \A a \in Borrowers : ledger'.index.dues[a] = dues[a] + IF a = b THEN Installment[p] ELSE 0
  <2>1. x.dues = dues /\ DOMAIN x = {"dues", "delinquent"}
    BY <1>7 DEF IndexType
  <2>2. ledger'.index.dues = [dues EXCEPT ![b] = @ + Installment[p]]
    BY <1>9, <2>1
  <2>3. \A a \in Borrowers : dues[a] \in Nat
    OBVIOUS
  <2> QED
    BY <1>4, <2>2, <2>3
<1>11. ASSUME NEW a \in Borrowers
       PROVE  /\ SumOf(new, Service(a)) <= dues[a] + IF a = b THEN Installment[p] ELSE 0
              /\ SumOf(new, Service(a)) \in Nat
  <2>1. PICK w : w = Service(a)
    OBVIOUS
  <2>2. w \in [Sound -> Int] /\ SumOf(claims, w) \in Nat /\ SumOf(new, w) \in Nat
    BY <1>3, <1>5, <2>1, ServiceTyped
  <2>3. SumOf(new, w) = SumOf(claims, w) + w[c]
    BY <1>2, <1>3, <1>4, <2>2, SumAppend, SMTT(40)
  <2>4. w[c] = IF a = b THEN Min({c.pay, Remaining(c)}) ELSE 0
    BY <1>4, <2>1 DEF Service
  <2>5. Min({c.pay, Remaining(c)}) = IF c.pay <= Remaining(c) THEN c.pay ELSE Remaining(c)
    <3>1. c.pay \in Int /\ Remaining(c) \in Int
      BY <1>4
    <3> QED
      BY <3>1, LesserOfTwo
  <2>6. w[c] <= (IF a = b THEN Installment[p] ELSE 0) /\ w[c] \in Nat
    BY <1>4, <2>4, <2>5
  <2>7. SumOf(claims, w) <= dues[a] /\ dues[a] \in Nat
    BY <1>8, <2>1 DEF Covers
  <2>8. SumOf(new, w) <= dues[a] + IF a = b THEN Installment[p] ELSE 0
    BY <1>4, <2>2, <2>3, <2>6, <2>7
  <2> QED
    BY <2>1, <2>2, <2>8
<1>12. IndexInv'
  <2>1. Covers(ledger'.index.dues, new)
    BY <1>10, <1>11 DEF Covers
  <2>2. Covered(ledger')
    BY <1>9, <2>1 DEF Covered
  <2> QED
    BY <2>2, IndexAfter
<1>13. Affordable
  <2> SUFFICES ASSUME NEW a \in Borrowers, Granting(a) PROVE Serving(a)' <= capacity[a]
    BY DEF Affordable
  <2>1. a = b
    <3>1. Last(ledger'.claims).who = a
      BY DEF Granting
    <3>2. Last(new) = new[Len(new)]
      BY DEF Last
    <3> QED
      BY <1>4, <1>5, <1>9, <3>1, <3>2
  <2>2. Serving(a)' = SumOf(new, Service(a))
    <3>1. Total([i \in Of(new, a, Kinds) |-> Min({new[i].pay, Remaining(new[i])})]) = SumOf(new, Service(a))
      BY <1>5, BooksAreSums
    <3>2. Serving(a)' = Total([i \in Of(ledger'.claims, a, Kinds) |-> Min({ledger'.claims[i].pay, Remaining(ledger'.claims[i])})])
      BY DEF Serving, Of, Open, Remaining, Kinds
    <3> QED
      BY <1>9, <3>1, <3>2
  <2>3. Installment[p] + dues[b] <= capacity[b]
    BY <1>6, <1>7 DEF MayOwe
  <2>4. capacity[b] \in Nat /\ dues[b] \in Nat
    BY <1>1 DEF OthersOK
  <2>5. SumOf(new, Service(a)) \in Nat /\ SumOf(new, Service(a)) <= dues[b] + Installment[p]
    BY <1>11, <2>1
  <2>6. SumOf(new, Service(a)) <= capacity[b]
    BY <1>4, <2>3, <2>4, <2>5
  <2> QED
    BY <2>1, <2>2, <2>6
<1> QED
  BY <1>12, <1>13

LEMMA IndexRefuse == MInv /\ IndexInv /\ Refuse => IndexInv' /\ Affordable
<1> SUFFICES ASSUME MInv, IndexInv, Refuse PROVE IndexInv' /\ Affordable
  OBVIOUS
<1>1. OthersOK /\ LedgerOK(ledger)
  BY MInvFacts
<1>2. Covered(ledger) /\ ledger' = Indexed(ledger)
  BY DEF IndexInv, Refuse, Lending, Week
<1>3. ledger'.claims = ledger.claims /\ ledger'.index = Index(ledger)
  BY <1>1, <1>2, IndexedLaw
<1> QED
  BY <1>1, <1>2, <1>3, CoversAsWell, SameClaims

LEMMA IndexLendToFirm == MInv /\ IndexInv /\ LendToFirm => IndexInv' /\ Affordable
<1> SUFFICES ASSUME MInv, IndexInv, LendToFirm PROVE IndexInv' /\ Affordable
  OBVIOUS
<1>1. Covered(ledger)
  BY DEF IndexInv, LendToFirm, Lending, Week
<1>2. PICK f \in live, p \in Principals : ledger' = Granted(ledger, f, "business", p) /\ MayOwe(ledger, f, p)
  BY DEF LendToFirm
<1>3. f \in Borrowers /\ "business" \in Kinds
  BY MInvFacts DEF Kinds
<1> QED
  BY <1>1, <1>2, <1>3, IndexGranted

LEMMA IndexLendForConsumption == MInv /\ IndexInv /\ LendForConsumption => IndexInv' /\ Affordable
<1> SUFFICES ASSUME MInv, IndexInv, LendForConsumption PROVE IndexInv' /\ Affordable
  OBVIOUS
<1>1. Covered(ledger)
  BY DEF IndexInv, LendForConsumption, Week
<1>2. PICK h \in Households, p \in Principals : ledger' = Granted(ledger, h, "consumption", p) /\ MayOwe(ledger, h, p)
  BY DEF LendForConsumption
<1>3. h \in Borrowers /\ "consumption" \in Kinds
  BY MInvFacts DEF Kinds
<1> QED
  BY <1>1, <1>2, <1>3, IndexGranted

LEMMA IndexLendDirectly == MInv /\ IndexInv /\ LendDirectly => IndexInv' /\ Affordable
<1> SUFFICES ASSUME MInv, IndexInv, LendDirectly PROVE IndexInv' /\ Affordable
  OBVIOUS
<1>1. OthersOK /\ LedgerOK(ledger)
  BY MInvFacts
<1>2. Covered(ledger) /\ (ledger' = Indexed(ledger) \/ ledger' = ledger)
  BY DEF IndexInv, LendDirectly, Week
<1>3. CASE ledger' = Indexed(ledger)
  <2>1. ledger'.claims = ledger.claims /\ ledger'.index = Index(ledger)
    BY <1>1, <1>3, IndexedLaw
  <2> QED
    BY <1>1, <1>2, <2>1, CoversAsWell, SameClaims
<1>4. CASE ledger' = ledger
  <2>1. Covered(ledger') /\ ledger'.claims = ledger.claims
    BY <1>2, <1>4
  <2> QED
    BY <2>1, IndexAfter, SameClaims
<1> QED
  BY <1>2, <1>3, <1>4

LEMMA IndexVisit == MInv /\ IndexInv /\ Visit => IndexInv' /\ Affordable
<1> SUFFICES ASSUME MInv, IndexInv, Visit PROVE IndexInv' /\ Affordable
  OBVIOUS
<1>1. OthersOK /\ LedgerOK(ledger) /\ Households \subseteq Borrowers
  BY MInvFacts
<1>2. Covered(ledger)
  BY DEF IndexInv, Visit, Moves, Week
<1>7. PICK h \in Households : \E short :
        \/ /\ MayBorrowForCare(h, short)
           /\ \/ ledger' = Granted(ledger, h, "medical", short)
              \/ ledger' = RolledBack(Granted(ledger, h, "medical", short), h, short)
        \/ ledger' = Indexed(ledger)
  BY DEF Visit
<1>3. PICK short :
        \/ /\ MayBorrowForCare(h, short)
           /\ \/ ledger' = Granted(ledger, h, "medical", short)
              \/ ledger' = RolledBack(Granted(ledger, h, "medical", short), h, short)
        \/ ledger' = Indexed(ledger)
  BY <1>7
<1>4. h \in Borrowers /\ "medical" \in Kinds
  BY <1>1 DEF Kinds
<1>5. CASE ledger' = Indexed(ledger)
  <2>1. ledger'.claims = ledger.claims /\ ledger'.index = Index(ledger)
    BY <1>1, <1>5, IndexedLaw
  <2> QED
    BY <1>1, <1>2, <2>1, CoversAsWell, SameClaims
<1>6. CASE MayBorrowForCare(h, short)
  <2>1. short \in Principals /\ short <= ledger.reserve /\ MayOwe(ledger, h, short)
    BY <1>6 DEF MayBorrowForCare, Fundable
  <2>2. CASE ledger' = Granted(ledger, h, "medical", short)
    BY <1>2, <1>4, <2>1, <2>2, IndexGranted
  <2>3. CASE ledger' = RolledBack(Granted(ledger, h, "medical", short), h, short)
    <3>1. ledger'.claims = ledger.claims /\ ledger'.index = Index(ledger)
      BY <1>1, <1>4, <2>1, <2>3, RolledBackLaw
    <3> QED
      BY <1>1, <1>2, <3>1, CoversAsWell, SameClaims
  <2> QED
    BY <1>3, <1>5, <2>2, <2>3
<1> QED
  BY <1>3, <1>5, <1>6

\* Steps that leave the claims and the index as they are.
LEMMA IndexTrade == MInv /\ IndexInv /\ Trade => IndexInv' /\ Affordable
<1> SUFFICES ASSUME MInv, IndexInv, Trade PROVE IndexInv' /\ Affordable
  OBVIOUS
<1>1. Covered(ledger) /\ ledger' = ledger
  BY DEF IndexInv, Trade, Moves, Week
<1>2. Covered(ledger') /\ ledger'.claims = ledger.claims
  BY <1>1
<1> QED
  BY <1>2, IndexAfter, SameClaims

LEMMA IndexMortgages == MInv /\ IndexInv /\ (ServiceMortgages \/ StartMortgage) => IndexInv' /\ Affordable
<1> SUFFICES ASSUME MInv, IndexInv, ServiceMortgages \/ StartMortgage PROVE IndexInv' /\ Affordable
  OBVIOUS
<1>1. LedgerOK(ledger)
  BY MInvFacts
<1>2. Covered(ledger)
  BY DEF IndexInv, ServiceMortgages, StartMortgage, Moves, Week
<1>3. \E reserve, mirror : ledger' = [ledger EXCEPT !.reserve = reserve, !.mirror = mirror]
  <2>1. CASE ServiceMortgages
    BY <2>1, Zenon DEF ServiceMortgages
  <2>2. CASE StartMortgage
    <3>1. PICK f, p : ledger' = [ledger EXCEPT !.reserve = @ - p, !.mirror[<<f, "business">>] = @ + p]
      BY <2>2 DEF StartMortgage
    <3> QED
      BY <3>1
  <2> QED
    BY <2>1, <2>2
<1>4. ledger'.claims = ledger.claims /\ ledger'.index = ledger.index
  BY <1>1, <1>3 DEF LedgerOK
<1>5. Covered(ledger')
  BY <1>2, <1>4 DEF Covered
<1> QED
  BY <1>4, <1>5, IndexAfter, SameClaims

\* What is paid or written off makes no claim dearer.
LEMMA IndexCollectHouseholdDues == MInv /\ IndexInv /\ CollectHouseholdDues => IndexInv' /\ Affordable
<1> SUFFICES ASSUME MInv, IndexInv, CollectHouseholdDues PROVE IndexInv' /\ Affordable
  OBVIOUS
<1>1. OthersOK /\ LedgerOK(ledger) /\ ClaimsSound
  BY MInvFacts
<1>2. phase \in Week /\ Covered(ledger)
  BY DEF IndexInv, CollectHouseholdDues, Moves, Week
<1>3. PICK claims, due, settled :
        /\ claims = ledger.claims /\ due = HouseDues(claims)
        /\ settled = SettledAll(ledger, Households, due)
  OBVIOUS
<1>4. claims \in Seq(Noted) /\ claims \in Seq(Sound)
  BY <1>1, <1>2, <1>3, SoundLists DEF ClaimsSound
<1>5. Collectible(ledger, Households, due)
  BY <1>1, <1>3, <1>4, HouseDuesLaw
<1>6. ledger' = Collection(ledger, Households, due).ledger
  BY <1>3 DEF CollectHouseholdDues, HouseDues
<1>7. ledger'.claims = settled /\ ledger'.index = ledger.index
  <2>1. PICK booked, reserve, mirror :
          /\ booked = ledger.booked - Total(TakenOf(ledger, Households, due)) - LostIn(ledger, Households, due)
          /\ reserve = ledger.reserve + Total(TakenOf(ledger, Households, due))
          /\ mirror = Synced(ledger.mirror, settled, Debtors(ledger, Households, due))
    OBVIOUS
  <2>2. ledger' = [ledger EXCEPT !.claims = settled, !.booked = booked, !.reserve = reserve, !.mirror = mirror]
    <3>1. Collection(ledger, Households, due).ledger =
            [ledger EXCEPT !.claims = SettledAll(ledger, Households, due),
                           !.booked = @ - Total(TakenOf(ledger, Households, due)) - LostIn(ledger, Households, due),
                           !.reserve = @ + Total(TakenOf(ledger, Households, due)),
                           !.mirror = Synced(@, SettledAll(ledger, Households, due), Debtors(ledger, Households, due))]
      BY CollectionLedger
    <3> QED
      BY <1>1, <1>3, <1>6, <2>1, <3>1 DEF LedgerOK
  <2> QED
    BY <1>1, <2>2 DEF LedgerOK
<1>8. settled \in Seq(Sound) /\ Len(settled) = Len(claims)
  BY <1>3, <1>5, CollectedClaims, SoundLists
<1>9. \A i \in 1 .. Len(claims) :
        settled[i].who = claims[i].who /\ settled[i].pay = claims[i].pay /\ Remaining(settled[i]) <= Remaining(claims[i])
  BY <1>3, <1>5, CollectedClaims
<1>10. ASSUME NEW b \in Borrowers PROVE SumOf(settled, Service(b)) <= SumOf(claims, Service(b))
  <2>1. Service(b) \in [Sound -> Nat]
    BY WeightsTyped
  <2>2. ASSUME NEW i \in 1 .. Len(claims) PROVE Service(b)[settled[i]] <= Service(b)[claims[i]]
    <3>1. PICK c, d : c = claims[i] /\ d = settled[i]
      OBVIOUS
    <3>2. c \in Sound /\ d \in Sound
      BY <1>4, <1>8, <3>1, Places
    <3>3. d.who = c.who /\ d.pay = c.pay /\ Remaining(d) <= Remaining(c)
      BY <1>9, <3>1
    <3>4. c.pay \in Nat /\ Remaining(c) \in Nat /\ Remaining(d) \in Nat
      BY <3>2, SoundFields
    <3>5. /\ Min({c.pay, Remaining(c)}) = IF c.pay <= Remaining(c) THEN c.pay ELSE Remaining(c)
          /\ Min({c.pay, Remaining(d)}) = IF c.pay <= Remaining(d) THEN c.pay ELSE Remaining(d)
      BY <3>4, LesserOfTwo
    <3>6. Min({d.pay, Remaining(d)}) <= Min({c.pay, Remaining(c)})
      BY <3>3, <3>4, <3>5
    <3>7. /\ Service(b)[c] = IF c.who = b THEN Min({c.pay, Remaining(c)}) ELSE 0
          /\ Service(b)[d] = IF d.who = b THEN Min({d.pay, Remaining(d)}) ELSE 0
      BY <3>2 DEF Service
    <3>8. Service(b)[d] <= Service(b)[c]
      BY <3>3, <3>6, <3>7
    <3> QED
      BY <3>1, <3>8
  <2> QED
    BY <1>4, <1>8, <2>1, <2>2, SumBelow
<1>11. IndexInv'
  <2> SUFFICES ASSUME ledger.index # NoIndex, NEW b \in Borrowers PROVE SumOf(settled, Service(b)) <= ledger.index.dues[b]
    BY <1>7, IndexAfter DEF Covered, Covers
  <2>1. SumOf(claims, Service(b)) <= ledger.index.dues[b]
    BY <1>2, <1>3 DEF Covered, Covers
  <2>2. ledger.index.dues[b] \in Nat
    BY <1>1 DEF LedgerOK, IndexType
  <2>3. SumOf(settled, Service(b)) \in Nat /\ SumOf(claims, Service(b)) \in Nat
    BY <1>4, <1>8, ServiceTyped
  <2> QED
    BY <1>10, <2>1, <2>2, <2>3
<1>12. Affordable
  <2>1. Len(claims) \in Nat /\ Len(ledger.claims) = Len(claims) /\ Len(ledger'.claims) = Len(claims) /\ Len(claims) <= Len(claims)
    BY <1>3, <1>4, <1>7, <1>8
  <2> QED
    BY <2>1, NothingGranted
<1> QED
  BY <1>11, <1>12

LEMMA IndexOpenWeek == MInv /\ OpenWeek => IndexInv' /\ Affordable
<1> SUFFICES ASSUME MInv, OpenWeek PROVE IndexInv' /\ Affordable
  OBVIOUS
<1>1. LedgerOK(ledger) /\ ledger.claims \in Seq(Sound)
  BY MInvFacts
<1>2. ledger'.index = NoIndex /\ ledger'.claims = NotedAll(Grown(Aged(ledger.claims), Households))
  BY <1>1, OpenWeekLedger DEF LedgerOK
<1>3. IndexInv'
  BY <1>2, IndexAfter DEF Covered
<1>4. Len(NotedAll(Grown(Aged(ledger.claims), Households))) = Len(ledger.claims) /\ Len(ledger.claims) \in Nat
  BY <1>1 DEF NotedAll, Grown, Aged
<1>5. Affordable
  BY <1>2, <1>4, NothingGranted
<1> QED
  BY <1>3, <1>5

LEMMA IndexCollectFirmDues == MInv /\ CollectFirmDues => IndexInv' /\ Affordable
<1> SUFFICES ASSUME MInv, CollectFirmDues PROVE IndexInv' /\ Affordable
  OBVIOUS
<1>1. OthersOK /\ LedgerOK(ledger) /\ ledger.claims \in Seq(Sound)
  BY MInvFacts
<1>2. IndexInv'
  BY DEF IndexInv, CollectFirmDues, Moves, Week
<1>3. PICK l, due, settled : /\ l = GrownLedger /\ due = FirmDue(l.claims) /\ settled = SettledAll(l, Firms, due)
  OBVIOUS
<1>4. LedgerOK(l) /\ l.claims = Grown(ledger.claims, Firms) /\ Collectible(l, Firms, due)
  BY <1>1, <1>3, FirmDuesLaw
<1>5. Len(l.claims) = Len(ledger.claims)
  BY <1>1, <1>4, AccruedLaw
<1>6. settled \in Seq(Sound) /\ Len(settled) = Len(ledger.claims)
  BY <1>3, <1>4, <1>5, CollectedClaims, SoundLists
<1>7. ledger'.claims = Kept(settled, Open(settled))
  <2>1. PICK c : c = Collection(l, Firms, due).ledger
    OBVIOUS
  <2>2. ledger' = [c EXCEPT !.claims = Kept(@, Open(@))]
    BY <1>1, <1>3, <2>1, CollectFirmLedger
  <2>3. LedgerOK(c) /\ c.claims = settled
    BY <1>1, <1>3, <1>4, <2>1, CollectedLedger
  <2> QED
    BY <2>2, <2>3 DEF LedgerOK
<1>8. Open(settled) \in SUBSET (1 .. Len(settled))
  BY DEF Open
<1>9. Kept(settled, Open(settled)) \in Seq(Sound) /\ Len(Kept(settled, Open(settled))) <= Len(settled)
  BY <1>6, <1>8, KeptLaw
<1>10. Len(ledger.claims) \in Nat /\ Len(ledger'.claims) \in Nat /\ Len(ledger'.claims) <= Len(ledger.claims)
  BY <1>1, <1>6, <1>7, <1>9
<1>11. Affordable
  BY <1>10, NothingGranted
<1> QED
  BY <1>2, <1>11

LEMMA IndexExits == MInv /\ Exits => IndexInv' /\ Affordable
<1> SUFFICES ASSUME MInv, Exits PROVE IndexInv' /\ Affordable
  OBVIOUS
<1>1. LedgerOK(ledger) /\ ledger.claims \in Seq(Sound)
  BY MInvFacts
<1>2. IndexInv'
  BY DEF IndexInv, Exits, Moves, Week
<1>3. \E C \in SUBSET (live \ Baseline) : \E wages \in [C -> 0 .. MaxIncome], owned \in SUBSET C :
         \E owner \in [owned -> Households] : Closing(C, wages, owned, owner)
  BY Zenon DEF Exits, Closing
<1>4. PICK C \in SUBSET (live \ Baseline) : \E wages \in [C -> 0 .. MaxIncome], owned \in SUBSET C :
         \E owner \in [owned -> Households] : Closing(C, wages, owned, owner)
  BY <1>3
<1>10. PICK wages \in [C -> 0 .. MaxIncome], owned \in SUBSET C :
         \E owner \in [owned -> Households] : Closing(C, wages, owned, owner)
  BY <1>4
<1>11. PICK owner \in [owned -> Households] : Closing(C, wages, owned, owner)
  BY <1>10
<1>12. PICK booked, reserve :
         ledger' = [ledger EXCEPT
               !.claims  = Kept(@, {i \in 1 .. Len(@) : @[i].who \notin C}),
               !.booked  = booked,
               !.reserve = reserve,
               !.mirror  = [x \in DOMAIN @ |-> IF x[1] \in C THEN 0 ELSE @[x]]]
  BY <1>11, Zenon DEF Closing
<1>5. PICK P : P = {i \in 1 .. Len(ledger.claims) : ledger.claims[i].who \notin C}
  OBVIOUS
<1>6. ledger'.claims = Kept(ledger.claims, P) /\ P \in SUBSET (1 .. Len(ledger.claims))
  BY <1>1, <1>5, <1>12 DEF LedgerOK
<1>7. Kept(ledger.claims, P) \in Seq(Sound) /\ Len(Kept(ledger.claims, P)) <= Len(ledger.claims)
  BY <1>1, <1>6, KeptLaw
<1>8. Len(ledger.claims) \in Nat /\ Len(ledger'.claims) \in Nat /\ Len(ledger'.claims) <= Len(ledger.claims)
  BY <1>1, <1>6, <1>7
<1>9. Affordable
  BY <1>8, NothingGranted
<1> QED
  BY <1>2, <1>9

LEMMA IndexEntry == Entry => IndexInv' /\ Affordable
  BY DEF IndexInv, Entry, Moves, Week, Affordable, Granting

BooksSound == BookSound /\ IndexInv

LEMMA IndexNext == BooksSound /\ Next => IndexInv' /\ Affordable
<1> SUFFICES ASSUME MInv, IndexInv, Next PROVE IndexInv' /\ Affordable
  BY DEF BooksSound, BookSound, MoneySound
<1> QED
  BY IndexOpenWeek, IndexRefuse, IndexLendToFirm, IndexLendDirectly, IndexLendForConsumption, IndexTrade, IndexMortgages,
     IndexVisit, IndexCollectHouseholdDues, IndexCollectFirmDues, IndexExits, IndexEntry DEF Next

LEMMA SpecIndex == Spec => []BooksSound
<1>1. Init => BooksSound
  <2>1. Init => IndexInv
    BY DEF Init, IndexInv, Week
  <2> QED
    BY <2>1, MoneyInit, MirrorInit DEF BooksSound, BookSound
<1>2. BooksSound /\ UNCHANGED vars => IndexInv'
  <2> SUFFICES ASSUME IndexInv, UNCHANGED vars PROVE IndexInv'
    BY DEF BooksSound
  <2>1. phase' = phase /\ ledger' = ledger
    BY DEF vars
  <2>2. CASE phase \in Week \cup {"late"}
    <3>1. Covered(ledger')
      BY <2>1, <2>2 DEF IndexInv
    <3> QED
      BY <3>1, IndexAfter
  <2>3. CASE phase \notin Week \cup {"late"}
    BY <2>1, <2>3 DEF IndexInv, Week
  <2> QED
    BY <2>2, <2>3
<1>3. BooksSound /\ [Next]_vars => BooksSound'
  BY <1>2, IndexNext, MoneyNext, MoneyStutter, MirrorNext, MirrorStutter DEF BooksSound, BookSound
<1> QED
  BY <1>1, <1>3, PTL DEF Spec

\* Whatever was cached, lent, refused and taken back earlier in the week, what a loan brings its borrower to
\* pay of the registered claims each week is within what the settled income may serve.
THEOREM LoansAreServed == Spec => ServiceWithinIncome
<1>1. BooksSound /\ [Next]_vars => [Affordable]_vars
  BY IndexNext
<1>2. [Affordable]_vars => [\A b \in Borrowers : Granting(b) => Serving(b)' <= capacity[b]]_vars
  BY DEF Affordable
<1> QED
  BY <1>1, <1>2, SpecIndex, PTL DEF Spec, ServiceWithinIncome
==============================================================================
