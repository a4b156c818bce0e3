---------------------------- MODULE PaymentsProofs ----------------------------
(***************************************************************************)
(* Proofs about Payments: what proportional pays out, and the inductive    *)
(* invariant of the week, PInv.  Conservation of money alone is not        *)
(* inductive: what leaves a pocket is bounded by what is in it only        *)
(* because reserved money is in the treasury, nothing is on its way        *)
(* outside the market, a firm that is gone has nothing, the project's      *)
(* money stays reserved and the private payrolls are funded.               *)
(***************************************************************************)
EXTENDS Payments, TotalsProofs

-----------------------------------------------------------------------------
(* The bounded allocation of one pool *)

\* The rounded-up share is no less than the exact one, and whole when the pool covers all dues.
LEMMA WholeShare ==
  ASSUME NEW t \in Nat \ {0}, NEW a \in Nat, NEW d \in Nat
  PROVE  /\ (a * d + t - 1) \div t \in Nat
         /\ ((a * d + t - 1) \div t) * t >= a * d
         /\ (t * d + t - 1) \div t = d
<1>1. PICK x \in Nat : x = a * d
  OBVIOUS
<1>2. PICK y \in Nat : y = x + t - 1
  BY <1>1
<1>3. y \div t \in Nat /\ y < t * (y \div t) + t
  OBVIOUS
<1>4. PICK q \in Nat : q = y \div t
  BY <1>3
<1>5. t * q \in Nat /\ t * q = q * t
  OBVIOUS
<1>6. q * t >= x
  BY <1>2, <1>3, <1>4, <1>5
<1>7. (t * d + t - 1) \div t = d
  OBVIOUS
<1> QED
  BY <1>1, <1>2, <1>4, <1>6, <1>7

\* A share is at most the due and what is left; it is the exact share at least, or all that is left.
LEMMA ShareLaw ==
  ASSUME NEW D, NEW due \in [D -> Nat], Total(due) \in Nat \ {0}
  PROVE  \A pool, left \in Nat, h \in D : \A last :
           pool <= Total(due) =>
             /\ Share(due, pool, h, left, last) \in Nat
             /\ Share(due, pool, h, left, last) <= due[h]
             /\ Share(due, pool, h, left, last) <= left
             /\ \/ Share(due, pool, h, left, last) = left
                \/ Share(due, pool, h, left, last) * Total(due) >= pool * due[h]
<1> SUFFICES ASSUME NEW pool \in Nat, NEW left \in Nat, NEW h \in D, NEW last, pool <= Total(due)
             PROVE  /\ Share(due, pool, h, left, last) \in Nat
                    /\ Share(due, pool, h, left, last) <= due[h]
                    /\ Share(due, pool, h, left, last) <= left
                    /\ \/ Share(due, pool, h, left, last) = left
                       \/ Share(due, pool, h, left, last) * Total(due) >= pool * due[h]
  OBVIOUS
<1> DEFINE t == Total(due)
           q == (pool * due[h] + t - 1) \div t
<1>1. due[h] \in Nat /\ due[h] \in Int /\ left \in Int
  OBVIOUS
<1>2. q \in Nat /\ q \in Int /\ q * t >= pool * due[h]
  BY <1>1, WholeShare
<1>3. due[h] * t >= pool * due[h]
  <2>1. \A a, b, d \in Nat : a <= b => d * b >= a * d
    OBVIOUS
  <2> QED
    BY <1>1, <2>1
<1>4. Share(due, pool, h, left, last) = IF h = last THEN Min({due[h], left}) ELSE Min({due[h], left, q})
  BY DEF Share
<1> HIDE DEF q, t
<1>5. /\ Min({due[h], left}) \in {due[h], left}
      /\ Min({due[h], left}) <= due[h] /\ Min({due[h], left}) <= left
  BY <1>1, MinOfTwo
<1>6. /\ Min({due[h], left, q}) \in {due[h], left, q}
      /\ Min({due[h], left, q}) <= due[h] /\ Min({due[h], left, q}) <= left
  BY <1>1, <1>2, MinOfThree
<1>7. CASE h = last
  BY <1>1, <1>3, <1>4, <1>5, <1>7 DEF t
<1>8. CASE h # last
  BY <1>1, <1>2, <1>3, <1>4, <1>6, <1>8 DEF t
<1> QED
  BY <1>7, <1>8

\* What remains due outside s, and outside s without one of its members.
LEMMA RestOf ==
  ASSUME NEW D, IsFiniteSet(D), NEW due \in [D -> Nat], NEW s \in SUBSET D
  PROVE  /\ Total(On(due, D \ s)) \in Nat
         /\ \A h \in s : Total(On(due, D \ (s \ {h}))) = due[h] + Total(On(due, D \ s))
<1>1. Total(On(due, D \ s)) \in Nat
  <2>1. On(due, D \ s) \in [D \ s -> Nat] /\ IsFiniteSet(D \ s)
    BY FS_Subset DEF On
  <2> QED
    BY <2>1, TotalNat
<1>2. ASSUME NEW h \in s PROVE Total(On(due, D \ (s \ {h}))) = due[h] + Total(On(due, D \ s))
  <2>1. PICK T \in SUBSET D : T = D \ (s \ {h})
    OBVIOUS
  <2>2. h \in T /\ T \ {h} = D \ s
    BY <2>1
  <2>3. due \in [D -> Int]
    OBVIOUS
  <2>4. Total(On(due, T)) = due[h] + Total(On(due, T \ {h}))
    BY <2>2, <2>3, TotalTake
  <2> QED
    BY <2>1, <2>2, <2>4
<1> QED
  BY <1>1, <1>2

\* proportional pays nobody more than his due, and all of them together exactly what there is or
\* what is due: nothing is left in the pool while a due is short.
LEMMA ProportionalLaw ==
  ASSUME NEW D \in SUBSET Nat, IsFiniteSet(D), NEW due \in [D -> Nat], NEW available \in Nat
  PROVE  /\ Proportional(due, available) \in [D -> Nat]
         /\ \A h \in D : Proportional(due, available)[h] <= due[h]
         /\ Total(Proportional(due, available)) <= available
         /\ Total(Proportional(due, available)) <= Total(due)
         /\ Total(Proportional(due, available)) = available \/ Proportional(due, available) = due
         /\ Total(due) <= available => Proportional(due, available) = due
<1> DEFINE claimants == {h \in DOMAIN due : due[h] > 0}
           t == Total(due)
           pool == Min({available, t})
           last == Max(claimants)
           pay(h, acc) == [left |-> acc.left - Share(due, pool, h, acc.left, last),
                           paid |-> [acc.paid EXCEPT ![h] = Share(due, pool, h, acc.left, last)]]
           V == [left : Nat, paid : [D -> Nat]]
           base == [left |-> pool, paid |-> None(DOMAIN due)]
           c == [s \in SUBSET claimants |-> Max(s)]
           step == [p \in claimants \X V |-> pay(p[1], p[2])]
           Iter(g) == [s \in SUBSET claimants |-> IF s = {} THEN base ELSE pay(Max(s), g[s \ {Max(s)}])]
           it == CHOOSE g : g = Iter(g)
<1>1. DOMAIN due = D /\ t \in Nat /\ \A h \in D : due[h] \in Nat /\ due[h] <= t
  BY TotalNat
<1>2. pool \in Nat /\ pool \in {available, t} /\ pool <= available /\ pool <= t
  BY <1>1, MinOfTwo
<1>3. Proportional(due, available) = IF pool = 0 THEN None(DOMAIN due) ELSE it[claimants].paid
  BY Zenon DEF Proportional, MapThenFoldSet
<1> HIDE DEF t, pool, last
<1>4. CASE pool = 0
  <2>1. None(D) \in [D -> Nat] /\ \A h \in D : None(D)[h] = 0
    BY DEF None
  <2>2. Total(None(D)) = 0
    BY TotalZero DEF None
  <2>3. t <= available => due = None(D)
    <3>1. SUFFICES ASSUME t <= available PROVE \A h \in D : due[h] = None(D)[h]
      BY <2>1 DEF None
    <3>2. t = 0
      BY <1>1, <1>2, <1>4, <3>1
    <3> QED
      BY <1>1, <2>1, <3>2
  <2>4. available = 0 \/ t <= available
    BY <1>1, <1>2, <1>4
  <2> QED
    BY <1>1, <1>3, <1>4, <2>1, <2>2, <2>3, <2>4 DEF t
<1>5. CASE pool # 0
  <2>1. t \in Nat \ {0}
    BY <1>1, <1>2, <1>5
  <2>2. IsFiniteSet(claimants) /\ claimants \in SUBSET D
    BY FS_Subset
  <2>3. \A s \in SUBSET claimants : s # {} => Max(s) \in s
    <3> SUFFICES ASSUME NEW s \in SUBSET claimants, s # {} PROVE Max(s) \in s
      OBVIOUS
    <3>1. IsFiniteSet(s)
      BY <2>2, FS_Subset
    <3>2. s \in SUBSET Int
      BY <2>2
    <3> QED
      BY <3>1, <3>2, MaxInSet
  <2>4. \A h \in D, acc \in V :
          /\ Share(due, pool, h, acc.left, last) \in Nat
          /\ Share(due, pool, h, acc.left, last) <= due[h]
          /\ Share(due, pool, h, acc.left, last) <= acc.left
          /\ \/ Share(due, pool, h, acc.left, last) = acc.left
             \/ Share(due, pool, h, acc.left, last) * t >= pool * due[h]
    <3>1. Total(due) \in Nat \ {0}
      BY <2>1 DEF t
    <3>2. \A a, b \in Nat, h \in D : \A l :
            a <= Total(due) =>
              /\ Share(due, a, h, b, l) \in Nat
              /\ Share(due, a, h, b, l) <= due[h]
              /\ Share(due, a, h, b, l) <= b
              /\ Share(due, a, h, b, l) = b \/ Share(due, a, h, b, l) * Total(due) >= a * due[h]
      BY <3>1, ShareLaw
    <3>3. \A acc \in V : acc.left \in Nat
      OBVIOUS
    <3> HIDE DEF V
    <3> QED
      BY <1>2, <3>2, <3>3 DEF t
  <2>5. \A h \in D, acc \in V : pay(h, acc) \in V
    BY <2>4
  <2>6. base \in V
    BY <1>2 DEF None
  <2>7. \A x \in claimants, v \in V : step[<<x, v>>] = pay(x, v)
    OBVIOUS
  <2>8. \A x \in claimants, v \in V : step[<<x, v>>] \in V
    <3> HIDE DEF step, pay, V, claimants
    <3> QED
      BY <2>2, <2>5, <2>7
  <2>9. PICK g : Folds(g, claimants, V, base, c, step)
    <3>1. Picks(c, claimants)
      BY <2>3 DEF Picks
    <3> HIDE DEF c, step, V, base, claimants
    <3> QED
      BY <2>2, <2>6, <2>8, <3>1, FoldExists
  <2>10. g = Iter(g)
    <3>1. g \in [SUBSET claimants -> V] /\ g[{}] = base
      BY <2>9 DEF Folds
    <3>2. ASSUME NEW s \in SUBSET claimants, s # {} PROVE g[s] = pay(Max(s), g[s \ {Max(s)}])
      <4>1. g[s] = step[<<c[s], g[s \ {c[s]}]>>] /\ c[s] = Max(s) /\ Max(s) \in claimants
        BY <2>3, <2>9, <3>2 DEF Folds
      <4>2. g[s \ {Max(s)}] \in V
        BY <3>1
      <4> HIDE DEF step, c, V, pay, claimants
      <4> QED
        BY <2>7, <4>1, <4>2
    <3> HIDE DEF pay, base, claimants, V
    <3> QED
      BY <3>1, <3>2
  <2>11. it = Iter(it)
    <3> HIDE DEF Iter
    <3> QED
      BY <2>10
  <2>12. it[{}] = base /\ \A s \in SUBSET claimants : s # {} => it[s] = pay(Max(s), it[s \ {Max(s)}])
    <3> HIDE DEF pay, base, it
    <3> QED
      BY <2>11
  <2> DEFINE rem(s) == Total(On(due, D \ s))
             Good(s) == /\ it[s] \in V
                        /\ \A h \in D : it[s].paid[h] <= due[h]
                        /\ \A h \in D \ s : it[s].paid[h] = 0
                        /\ Total(it[s].paid) + it[s].left = pool
                        /\ it[s].left * t <= pool * rem(s)
             P == {s \in SUBSET claimants : Good(s)}
  <2> HIDE DEF it
  <2>13. Good({})
    <3>1. it[{}] = base /\ base \in V /\ base.left = pool /\ base.paid = None(D)
      BY <1>1, <2>6, <2>12
    <3>2. None(D) \in [D -> Nat] /\ Total(None(D)) = 0 /\ \A h \in D : None(D)[h] = 0
      BY TotalZero DEF None
    <3>3. it[{}] \in V /\ it[{}].left = pool /\ it[{}].paid = None(D)
      BY <3>1
    <3>4. rem({}) = t
      <4>1. On(due, D) = due /\ D \ {} = D
        BY DEF On
      <4> QED
        BY <4>1 DEF t
    <3> HIDE DEF base, V, rem
    <3>5. Total(it[{}].paid) + it[{}].left = pool /\ it[{}].left * t <= pool * rem({})
      BY <1>1, <1>2, <3>2, <3>3, <3>4
    <3> QED
      BY <1>1, <3>2, <3>3, <3>5
  <2>14. ASSUME NEW s \in SUBSET claimants, s # {}, Good(s \ {Max(s)}) PROVE Good(s)
    <3> DEFINE h == Max(s)
               acc == it[s \ {h}]
               sh == Share(due, pool, h, acc.left, last)
    <3>1. h \in s /\ h \in D /\ it[s] = pay(h, acc)
      BY <2>2, <2>3, <2>12, <2>14
    <3>2. /\ acc \in V /\ acc.left \in Nat /\ acc.paid \in [D -> Nat]
          /\ \A k \in D : acc.paid[k] <= due[k] /\ acc.paid[k] \in Nat
          /\ \A k \in D \ (s \ {h}) : acc.paid[k] = 0
          /\ Total(acc.paid) + acc.left = pool
          /\ acc.left * t <= pool * rem(s \ {h})
      BY <2>14
    <3>3. it[s].left = acc.left - sh /\ it[s].paid = [acc.paid EXCEPT ![h] = sh]
      BY <3>1
    <3>4. it[s] \in V
      BY <2>5, <3>1, <3>2
    <3>5. /\ sh \in Nat /\ sh <= due[h] /\ sh <= acc.left
          /\ sh = acc.left \/ sh * t >= pool * due[h]
      BY <2>4, <3>1, <3>2
    <3> HIDE DEF acc, sh, h, V, Good, pay, rem
    <3>6. acc.paid[h] = 0
      BY <3>1, <3>2
    <3>7. Total(it[s].paid) + it[s].left = pool
      <4>1. Total([acc.paid EXCEPT ![h] = sh]) = Total(acc.paid) - acc.paid[h] + sh
        <5>1. acc.paid \in [D -> Int] /\ sh \in Int
          BY <3>2, <3>5
        <5> QED
          BY <3>1, <5>1, TotalExcept
      <4>2. Total(acc.paid) \in Nat
        BY <3>2, TotalNat
      <4> QED
        BY <1>2, <3>2, <3>3, <3>5, <3>6, <4>1, <4>2
    \* What is left covers no more than the pool's part of the dues that remain.
    <3>8. it[s].left * t <= pool * rem(s)
      <4>1. s \in SUBSET D /\ h \in s
        BY <2>2, <3>1
      <4>2. rem(s \ {h}) = due[h] + rem(s) /\ rem(s) \in Nat
        <5>1. /\ Total(On(due, D \ s)) \in Nat
              /\ \A k \in s : Total(On(due, D \ (s \ {k}))) = due[k] + Total(On(due, D \ s))
          BY <4>1, RestOf, Zenon
        <5> QED
          BY <4>1, <5>1 DEF rem
      <4>3. due[h] \in Nat
        BY <3>1
      <4>4. \A a, b, z, d, e, p \in Nat :
              /\ a * b <= p * (d + e) /\ z <= a
              /\ z = a \/ z * b >= p * d
              => (a - z) * b <= p * e
        <5> SUFFICES ASSUME NEW a \in Nat, NEW b \in Nat, NEW z \in Nat, NEW d \in Nat, NEW e \in Nat, NEW p \in Nat,
                            a * b <= p * (d + e), z <= a, z = a \/ z * b >= p * d
                     PROVE  (a - z) * b <= p * e
          OBVIOUS
        <5>1. p * (d + e) = p * d + p * e /\ (a - z) * b = a * b - z * b
          OBVIOUS
        <5>2. p * d \in Nat /\ p * e \in Nat /\ a * b \in Nat /\ z * b \in Nat
          OBVIOUS
        <5>3. CASE z = a
          BY <5>1, <5>2, <5>3
        <5>4. CASE z * b >= p * d
          BY <5>1, <5>2, <5>4
        <5> QED
          BY <5>3, <5>4
      <4>5. acc.left * t <= pool * (due[h] + rem(s))
        BY <3>2, <4>2
      <4>6. (acc.left - sh) * t <= pool * rem(s)
        BY <1>1, <1>2, <3>2, <3>5, <4>2, <4>3, <4>4, <4>5
      <4> QED
        BY <3>3, <4>6
    <3>9. \A k \in D : it[s].paid[k] = IF k = h THEN sh ELSE acc.paid[k]
      BY <3>1, <3>2, <3>3
    <3>10. (\A k \in D : it[s].paid[k] <= due[k]) /\ \A k \in D \ s : it[s].paid[k] = 0
      BY <3>1, <3>2, <3>5, <3>9
    <3> QED
      BY <3>4, <3>7, <3>8, <3>10 DEF Good
  <2>15. P = SUBSET claimants
    <3> HIDE DEF Good, claimants
    <3>1. ASSUME NEW s \in SUBSET claimants, \A u \in SUBSET s : u # s => u \in P
          PROVE  s \in P
      <4>1. CASE s = {}
        BY <2>13, <4>1
      <4>2. CASE s # {}
        <5>1. s \ {Max(s)} \in P
          BY <2>3, <3>1, <4>2
        <5> QED
          BY <2>14, <4>2, <5>1
      <4> QED
        BY <4>1, <4>2
    <3>2. P \in SUBSET (SUBSET claimants)
      OBVIOUS
    <3> HIDE DEF P
    <3> QED
      BY <2>2, <3>1, <3>2, StrongInduction
  <2> DEFINE paid == it[claimants].paid
             over == it[claimants].left
  <2>16. Good(claimants)
    <3> HIDE DEF Good, claimants
    <3> QED
      BY <2>15
  <2>17. /\ paid \in [D -> Nat] /\ over \in Nat
         /\ \A h \in D : paid[h] <= due[h]
         /\ Total(paid) + over = pool
         /\ over * t <= pool * rem(claimants)
    BY <2>16
  <2>18. Proportional(due, available) = paid
    BY <1>3, <1>5
  \* All claimants are served, so nothing is over.
  <2>19. over = 0
    <3>1. rem(claimants) = 0
      <4>1. On(due, D \ claimants) = [x \in D \ claimants |-> 0]
        <5>1. \A x \in D \ claimants : due[x] = 0
          BY <1>1
        <5> HIDE DEF claimants
        <5> QED
          BY <5>1 DEF On
      <4>2. IsFiniteSet(D \ claimants)
        BY FS_Subset
      <4> HIDE DEF claimants
      <4> QED
        BY <4>1, <4>2, TotalZero
    <3> HIDE DEF over, rem, claimants
    <3>2. \A a \in Nat, b \in Nat \ {0} : a * b <= 0 => a = 0
      OBVIOUS
    <3>3. over * t <= 0
      BY <1>2, <2>17, <3>1
    <3> QED
      BY <2>1, <2>17, <3>2, <3>3
  <2> HIDE DEF paid, over, claimants, rem
  <2>20. Total(paid) = pool /\ Total(paid) \in Nat
    <3>1. Total(paid) \in Nat
      BY <2>17, TotalNat
    <3> QED
      BY <1>2, <2>17, <2>19, <3>1
  <2>21. ASSUME pool = t PROVE paid = due
    <3> DEFINE short == [h \in D |-> due[h] - paid[h]]
    <3>1. short \in [D -> Nat] /\ \A h \in D : short[h] = due[h] - paid[h]
      BY <1>1, <2>17
    <3>2. Total(short) = Total(due) - Total(paid)
      <4>1. due \in [D -> Int] /\ paid \in [D -> Int]
        BY <2>17
      <4> QED
        BY <4>1, TotalMinus
    <3>3. Total(short) = 0
      BY <1>1, <2>20, <2>21, <3>2 DEF t
    <3> HIDE DEF short
    <3>4. \A h \in D : short[h] \in Nat /\ short[h] <= 0
      BY <3>1, <3>3, TotalNat
    <3>5. \A h \in D : paid[h] = due[h]
      BY <1>1, <2>17, <3>1, <3>4
    <3>6. paid = [h \in D |-> paid[h]] /\ due = [h \in D |-> due[h]]
      BY <2>17
    <3> QED
      BY <3>5, <3>6
  <2>22. pool = available \/ pool = t
    BY <1>2
  <2>23. t <= available => pool = t
    BY <1>1, <1>2
  <2> QED
    BY <1>1, <1>2, <2>17, <2>18, <2>20, <2>21, <2>22, <2>23 DEF t
<1> QED
  BY <1>4, <1>5

-----------------------------------------------------------------------------
(* The inductive invariant *)

\* The phases after the market's money has arrived and before the next market.
Quiet == {"close", "exits", "entry", "fiscal", "open", "labor", "income"}

\* Outside the market and the settlement of firms nothing is on its way.
NothingOnTheWay ==
  phase \in Quiet => clearing = None(Firms) /\ late = None(Households) /\ ceoHolds = None(Households)

\* Nothing is left behind at a firm that is gone.
GoneAreClean ==
  \A f \in Firms \ live : /\ claims[f] = None(Households) /\ cash[f] = 0 /\ pending[f] = 0
                          /\ clearing[f] = 0 /\ f \notin slots /\ \A h \in Households : employer[h] # f

\* The project's money is reserved until it is paid or cancelled.
ProjectCovered ==
  project # NoProject =>
    /\ project.status = "authorized" => project.firm \in live
    /\ project.status \in {"authorized", "assigned"} => restricted["project"] >= Quote

\* When income is settled the private payrolls are there, and no claim can exceed its bound.
PayrollReady ==
  phase = "income" =>
    /\ \A f \in live \cap Funded : WageBill(Staff(f)) <= cash[f]
    /\ \A h \in Households : employer[h] # NoOne => MayWork(h, employer[h])

OpeningMoney == OpeningCash * (Cardinality(Firms) + Cardinality(Households)) + OpeningTreasury + OpeningRest

PInv ==
  /\ TypeOK
  /\ Everything = OpeningMoney
  /\ Reserved <= treasury
  /\ ~raised
  /\ NothingOnTheWay
  /\ GoneAreClean
  /\ ProjectCovered
  /\ PayrollReady

LEMMA Constants ==
  /\ Households \subseteq Nat /\ IsFiniteSet(Households) /\ IsFiniteSet(Firms)
  /\ Baseline \subseteq Firms /\ Funded \subseteq Firms /\ Providers \subseteq Firms
  /\ Wage \in [Households -> Nat]
  /\ NoOne \notin Households /\ NoOne \notin Firms /\ NoProject \notin Firms
  /\ Owner \in [Firms -> Households \cup {NoOne}] /\ Ceo \in [Firms -> Households \cup {NoOne}]
  /\ CeoCap \in Nat /\ Benefit \in Nat /\ MaxClaim \in Nat /\ MaxOutlay \in Nat
  /\ OpeningCash \in Nat /\ OpeningTreasury \in Nat /\ OpeningRest \in Nat
  /\ Quote \in Nat \ {0} /\ Seed \in Nat \ {0} /\ ZeroCashMax \in Nat \ {0}
BY PaymentsAssumption

LEMMA NamesFinite == IsFiniteSet(Names)
<1>1. IsFiniteSet({}) /\ Names = (((({} \cup {"B"}) \cup {"G"}) \cup {"assistance"}) \cup {"withholding"}) \cup {"project"}
  BY FS_EmptySet DEF Names
<1> QED
  BY <1>1, FS_AddElement

\* One pocket changes.
LEMMA PocketChanged ==
  ASSUME NEW D, IsFiniteSet(D), NEW f \in [D -> Nat], NEW g \in [D -> Nat], NEW d \in D,
         \A x \in D \ {d} : g[x] = f[x]
  PROVE  /\ Total(g) = Total(f) + g[d] - f[d]
         /\ Total(f) \in Nat /\ Total(g) \in Nat /\ f[d] \in Nat /\ g[d] \in Nat
<1>1. f \in [D -> Int] /\ g \in [D -> Int]
  OBVIOUS
<1> QED
  BY <1>1, TotalChanged, TotalNat

LEMMA PurseChanged ==
  \A f, g \in [Households -> Nat], d \in Households :
    (\A x \in Households \ {d} : g[x] = f[x]) =>
      /\ Total(g) = Total(f) + g[d] - f[d]
      /\ Total(f) \in Nat /\ Total(g) \in Nat /\ f[d] \in Nat /\ g[d] \in Nat
BY Constants, PocketChanged

LEMMA FirmChanged ==
  \A f, g \in [Firms -> Nat], d \in Firms :
    (\A x \in Firms \ {d} : g[x] = f[x]) =>
      /\ Total(g) = Total(f) + g[d] - f[d]
      /\ Total(f) \in Nat /\ Total(g) \in Nat /\ f[d] \in Nat /\ g[d] \in Nat
BY Constants, PocketChanged

LEMMA PromiseChanged ==
  \A f, g \in [Names -> Nat], d \in Names :
    (\A x \in Names \ {d} : g[x] = f[x]) =>
      /\ Total(g) = Total(f) + g[d] - f[d]
      /\ Total(f) \in Nat /\ Total(g) \in Nat /\ f[d] \in Nat /\ g[d] \in Nat
BY NamesFinite, PocketChanged

LEMMA PurseSums ==
  /\ \A f, g, k \in [Households -> Int] : (\A x \in Households : k[x] = f[x] + g[x]) => Total(k) = Total(f) + Total(g)
  /\ \A f, g, k \in [Households -> Int] : (\A x \in Households : k[x] = f[x] - g[x]) => Total(k) = Total(f) - Total(g)
BY Constants, TotalPointwise

LEMMA FirmSums ==
  /\ \A f, g, k \in [Firms -> Int] : (\A x \in Firms : k[x] = f[x] + g[x]) => Total(k) = Total(f) + Total(g)
  /\ \A f, g, k \in [Firms -> Int] : (\A x \in Firms : k[x] = f[x] - g[x]) => Total(k) = Total(f) - Total(g)
BY Constants, TotalPointwise

\* What each household gets of the firms it has and what is nobody's, together.
LEMMA SharedByOwner ==
  ASSUME NEW S \in SUBSET Firms, NEW v \in [Firms -> Int], NEW owner \in [Firms -> Households \cup {NoOne}]
  PROVE  Total([h \in Households |-> Total([f \in {g \in S : owner[g] = h} |-> v[f]])])
           + Total([f \in {g \in S : owner[g] = NoOne} |-> v[f]]) = Total([f \in S |-> v[f]])
<1> DEFINE w == [f \in S |-> v[f]]
           A == {g \in S : owner[g] \in Households}
           B == {g \in S : owner[g] = NoOne}
<1>1. IsFiniteSet(S) /\ IsFiniteSet(Households) /\ NoOne \notin Households
  BY Constants, FS_Subset
<1>2. w \in [S -> Int] /\ A \in SUBSET S /\ B = S \ A
  BY <1>1
<1>3. On(w, A) = [f \in A |-> v[f]] /\ On(w, S \ A) = [f \in B |-> v[f]]
  BY <1>2 DEF On
<1>4. Total(w) = Total(On(w, A)) + Total(On(w, S \ A))
  <2> HIDE DEF w, A
  <2> QED
    BY <1>1, <1>2, TotalSplit
<1>5. Total([h \in Households |-> Total([f \in {g \in S : owner[g] = h} |-> w[f]])])
        = Total([f \in {g \in S : owner[g] \in Households} |-> w[f]])
  <2> HIDE DEF w
  <2> QED
    BY <1>1, <1>2, TotalByOwner, SMTT(40)
<1>6. \A h \in Households : [f \in {g \in S : owner[g] = h} |-> w[f]] = [f \in {g \in S : owner[g] = h} |-> v[f]]
  OBVIOUS
<1>7. [f \in A |-> w[f]] = [f \in A |-> v[f]]
  OBVIOUS
<1>8. [h \in Households |-> Total([f \in {g \in S : owner[g] = h} |-> w[f]])]
        = [h \in Households |-> Total([f \in {g \in S : owner[g] = h} |-> v[f]])]
  BY <1>6
<1> HIDE DEF w
<1> QED
  BY <1>3, <1>4, <1>5, <1>7, <1>8 DEF w

LEMMA NoneTotal ==
  ASSUME NEW D, IsFiniteSet(D)
  PROVE  Total(None(D)) = 0 /\ None(D) \in [D -> Nat] /\ \A x \in D : None(D)[x] = 0
BY TotalZero DEF None

\* The sums of the books are natural numbers.
LEMMA TotalsTyped ==
  ASSUME TypeOK
  PROVE  /\ Total(cash) \in Nat /\ Total(purse) \in Nat /\ Total(clearing) \in Nat /\ Total(holds) \in Nat
         /\ Total(ceoHolds) \in Nat /\ Total(late) \in Nat /\ Reserved \in Nat /\ treasury \in Nat /\ rest \in Nat
<1>1. IsFiniteSet(Firms) /\ IsFiniteSet(Households)
  BY Constants
<1>2. /\ cash \in [Firms -> Nat] /\ purse \in [Households -> Nat] /\ clearing \in [Firms -> Nat]
      /\ holds \in [Households -> Nat] /\ ceoHolds \in [Households -> Nat] /\ late \in [Households -> Nat]
      /\ restricted \in [Names -> Nat] /\ treasury \in Nat /\ rest \in Nat
  BY DEF TypeOK
<1> QED
  BY <1>1, <1>2, NamesFinite, TotalNat DEF Reserved

\* The free part of the treasury, and what is left of it after a spending.
LEMMA FreeLaw ==
  ASSUME TypeOK, Reserved <= treasury
  PROVE  /\ Free = treasury - Reserved
         /\ \A g \in 0 .. Min({Free, MaxOutlay}) : g \in Nat /\ g <= treasury - Reserved
<1>1. treasury \in Nat /\ Reserved \in Nat /\ treasury - Reserved \in Nat /\ MaxOutlay \in Nat
  BY TotalsTyped, Constants
<1>2. Free = treasury - Reserved /\ Free \in Nat
  BY <1>1, MaxWithZero DEF Free
<1>3. Min({Free, MaxOutlay}) \in Nat /\ Min({Free, MaxOutlay}) <= Free
  BY <1>1, <1>2, MinOfNats
<1> QED
  BY <1>2, <1>3

-----------------------------------------------------------------------------
(* Each phase keeps the invariant *)

\* The variables of the type invariant, one by one.
LEMMA Types ==
  ASSUME TypeOK
  PROVE  /\ live \subseteq Firms /\ employer \in [Households -> Firms \cup {NoOne}]
         /\ cash \in [Firms -> Nat] /\ purse \in [Households -> Nat] /\ treasury \in Nat /\ rest \in Nat
         /\ clearing \in [Firms -> Nat] /\ claims \in [Firms -> [Households -> 0 .. MaxClaim]]
         /\ holds \in [Households -> Nat] /\ ceoHolds \in [Households -> Nat] /\ late \in [Households -> Nat]
         /\ restricted \in [Names -> Nat] /\ pending \in [Firms -> Nat] /\ slots \subseteq Firms
BY DEF TypeOK

LEMMA OpenWeekKeeps ==
  ASSUME PInv, OpenWeek
  PROVE  PInv'
<1>0. /\ TypeOK /\ Everything = OpeningMoney /\ Reserved <= treasury /\ ~raised
      /\ NothingOnTheWay /\ GoneAreClean /\ ProjectCovered /\ PayrollReady
  BY DEF PInv
<1>1. /\ phase = "open" /\ phase' = "labor" /\ ~raised /\ timing' = timing
      /\ UNCHANGED <<live, employer, rest, clearing, claims, holds, ceoHolds, late, project, pending, fullyPaid, streak, raised>>
      /\ slots' = {}
  BY DEF OpenWeek, Moves, book
<1>2. PICK g \in 0 .. Min({Free, MaxOutlay}), amount \in -MaxOutlay .. MaxOutlay :
        /\ restricted' = [restricted EXCEPT !["G"] = g]
        /\ amount <= Max({0, treasury - Total(restricted')})
        /\ treasury' = treasury - amount
        /\ \/ /\ \E h \in Households : -amount <= purse[h] /\ purse' = [purse EXCEPT ![h] = @ + amount]
              /\ UNCHANGED cash
           \/ /\ amount > 0 /\ \E f \in live : cash' = [cash EXCEPT ![f] = @ + amount]
              /\ UNCHANGED purse
  BY DEF OpenWeek
<1>3. IsFiniteSet(Firms) /\ IsFiniteSet(Households) /\ MaxOutlay \in Nat
  BY Constants
<1>4. amount \in Int /\ g \in Nat /\ g <= treasury - Reserved
  BY <1>0, <1>3, FreeLaw
<1>5. /\ Total(cash) \in Nat /\ Total(purse) \in Nat /\ Reserved \in Nat /\ treasury \in Nat
  BY <1>0, TotalsTyped
<1>6. restricted' \in [Names -> Nat] /\ Total(restricted') \in Nat /\ Total(restricted') <= treasury
      /\ restricted'["project"] = restricted["project"]
  <2>1. restricted \in [Names -> Nat] /\ "G" \in Names /\ g \in Int
    BY <1>0, <1>4, Types DEF Names
  <2>2. restricted' \in [Names -> Nat]
    BY <1>2, <1>4, <2>1
  <2>3. Total(restricted') = Reserved - restricted["G"] + g
    <3>1. restricted \in [Names -> Int] /\ restricted' \in [Names -> Int]
      BY <2>1, <2>2
    <3>2. \A n \in Names \ {"G"} : restricted'[n] = restricted[n]
      BY <1>2, <2>1
    <3>3. Total(restricted') = Total(restricted) + restricted'["G"] - restricted["G"]
      BY <2>1, <3>1, <3>2, NamesFinite, TotalChanged
    <3>4. restricted'["G"] = g /\ restricted["G"] \in Nat /\ Total(restricted) \in Nat
      BY <1>2, <1>5, <2>1 DEF Reserved
    <3> QED
      BY <2>1, <3>3, <3>4 DEF Reserved
  <2>4. restricted["G"] \in Nat
    BY <2>1
  <2>5. Total(restricted') \in Nat
    BY <2>2, NamesFinite, TotalNat
  <2>6. restricted'["project"] = restricted["project"]
    BY <1>2, <2>1 DEF Names
  <2> QED
    BY <1>4, <1>5, <2>2, <2>3, <2>4, <2>5, <2>6
<1>7. amount <= treasury - Total(restricted')
  <2>1. treasury - Total(restricted') \in Nat
    BY <1>5, <1>6
  <2> QED
    BY <1>2, <2>1, MaxWithZero
<1>8. treasury' \in Nat /\ Total(restricted') <= treasury'
  BY <1>2, <1>4, <1>5, <1>6, <1>7
<1>9. /\ cash' \in [Firms -> Nat] /\ purse' \in [Households -> Nat] /\ (\A f \in Firms \ live : cash'[f] = cash[f])
      /\ Total(cash') + Total(purse') = Total(cash) + Total(purse) + amount
  <2>1. cash \in [Firms -> Nat] /\ purse \in [Households -> Nat] /\ live \subseteq Firms
    BY <1>0, Types
  <2>2. ASSUME NEW h \in Households, -amount <= purse[h], purse' = [purse EXCEPT ![h] = @ + amount], UNCHANGED cash
        PROVE  purse' \in [Households -> Nat] /\ Total(purse') = Total(purse) + amount
    <3>1. purse[h] \in Nat /\ purse[h] + amount \in Nat
      BY <1>4, <2>1, <2>2
    <3>2. purse' \in [Households -> Nat] /\ purse'[h] = purse[h] + amount
      BY <2>1, <2>2, <3>1
    <3>3. purse \in [Households -> Int] /\ purse' \in [Households -> Int]
      BY <2>1, <3>2
    <3>4. \A x \in Households \ {h} : purse'[x] = purse[x]
      BY <2>1, <2>2
    <3>5. Total(purse') = Total(purse) + purse'[h] - purse[h]
      BY <1>3, <3>3, <3>4, TotalChanged
    <3> QED
      BY <1>4, <1>5, <3>1, <3>2, <3>5
  <2>3. ASSUME NEW f \in live, amount > 0, cash' = [cash EXCEPT ![f] = @ + amount], UNCHANGED purse
        PROVE  /\ cash' \in [Firms -> Nat] /\ Total(cash') = Total(cash) + amount
               /\ \A x \in Firms \ live : cash'[x] = cash[x]
    <3>1. cash[f] \in Nat /\ cash[f] + amount \in Nat /\ f \in Firms
      BY <1>4, <2>1, <2>3
    <3>2. cash' \in [Firms -> Nat] /\ cash'[f] = cash[f] + amount
      BY <2>1, <2>3, <3>1
    <3>3. cash \in [Firms -> Int] /\ cash' \in [Firms -> Int]
      BY <2>1, <3>2
    <3>4. \A x \in Firms \ {f} : cash'[x] = cash[x]
      BY <2>1, <2>3
    <3>5. Total(cash') = Total(cash) + cash'[f] - cash[f]
      BY <1>3, <3>1, <3>3, <3>4, TotalChanged
    <3> QED
      BY <1>4, <1>5, <3>1, <3>2, <3>4, <3>5
  <2>4. CASE \E h \in Households : -amount <= purse[h] /\ purse' = [purse EXCEPT ![h] = @ + amount] /\ UNCHANGED cash
    <3>1. PICK h \in Households : -amount <= purse[h] /\ purse' = [purse EXCEPT ![h] = @ + amount] /\ UNCHANGED cash
      BY <2>4
    <3>2. purse' \in [Households -> Nat] /\ Total(purse') = Total(purse) + amount /\ cash' = cash
      BY <2>2, <3>1
    <3> QED
      BY <1>4, <1>5, <2>1, <3>2
  <2>5. CASE \E f \in live : amount > 0 /\ cash' = [cash EXCEPT ![f] = @ + amount] /\ UNCHANGED purse
    <3>1. PICK f \in live : amount > 0 /\ cash' = [cash EXCEPT ![f] = @ + amount] /\ UNCHANGED purse
      BY <2>5
    <3>2. /\ cash' \in [Firms -> Nat] /\ Total(cash') = Total(cash) + amount /\ purse' = purse
          /\ \A x \in Firms \ live : cash'[x] = cash[x]
      BY <2>3, <3>1
    <3> QED
      BY <1>4, <1>5, <2>1, <3>2
  <2> QED
    BY <1>2, <2>4, <2>5
<1>10. TypeOK'
  BY <1>0, <1>1, <1>6, <1>8, <1>9 DEF TypeOK
<1>11. Everything' = Everything
  BY <1>0, <1>1, <1>2, <1>4, <1>5, <1>8, <1>9, TotalsTyped DEF Everything
<1>12. NothingOnTheWay' /\ GoneAreClean' /\ ProjectCovered' /\ PayrollReady'
  <2>1. NothingOnTheWay'
    BY <1>0, <1>1 DEF NothingOnTheWay, Quiet
  <2>2. GoneAreClean'
    BY <1>0, <1>1, <1>9, Types DEF GoneAreClean
  <2>3. ProjectCovered'
    BY <1>0, <1>1, <1>6 DEF ProjectCovered
  <2>4. PayrollReady'
    BY <1>0, <1>1 DEF PayrollReady
  <2> QED
    BY <2>1, <2>2, <2>3, <2>4
<1> QED
  BY <1>0, <1>1, <1>6, <1>8, <1>10, <1>11, <1>12 DEF PInv, Reserved, OpeningMoney

LEMMA SaleKeeps ==
  ASSUME PInv, Sale
  PROVE  PInv'
<1>0. /\ TypeOK /\ Everything = OpeningMoney /\ Reserved <= treasury /\ ~raised
      /\ NothingOnTheWay /\ GoneAreClean /\ ProjectCovered /\ PayrollReady
  BY DEF PInv
<1>1. /\ phase = "market" /\ phase' = "market" /\ ~raised /\ timing' = timing
      /\ UNCHANGED <<live, employer, cash, rest, claims, holds, ceoHolds, late, project, pending, slots, fullyPaid, streak, raised>>
  BY DEF Sale, Moves
<1>2. PICK h \in Households, f \in live, private \in 0 .. 1, name \in {"G", "assistance"}, public \in 0 .. MaxOutlay :
        /\ private <= purse[h] /\ public <= restricted[name] /\ private + public > 0
        /\ purse' = [purse EXCEPT ![h] = @ - private]
        /\ restricted' = [restricted EXCEPT ![name] = @ - public]
        /\ treasury' = treasury - public
        /\ clearing' = [clearing EXCEPT ![f] = @ + private + public]
  BY DEF Sale
<1>3. /\ IsFiniteSet(Firms) /\ IsFiniteSet(Households) /\ MaxOutlay \in Nat
      /\ private \in Nat /\ public \in Nat /\ f \in Firms /\ name \in Names /\ name # "project"
      /\ purse \in [Households -> Nat] /\ restricted \in [Names -> Nat] /\ clearing \in [Firms -> Nat]
  BY <1>0, Types, Constants DEF Names
<1>4. /\ purse' \in [Households -> Nat] /\ purse'[h] = purse[h] - private
      /\ \A x \in Households \ {h} : purse'[x] = purse[x]
  BY <1>2, <1>3
<1>5. /\ restricted' \in [Names -> Nat] /\ restricted'[name] = restricted[name] - public
      /\ \A x \in Names \ {name} : restricted'[x] = restricted[x]
  BY <1>2, <1>3
<1>6. /\ clearing' \in [Firms -> Nat] /\ clearing'[f] = clearing[f] + private + public
      /\ \A x \in Firms \ {f} : clearing'[x] = clearing[x]
  BY <1>2, <1>3
<1>7. Total(purse') = Total(purse) - private
  <2>1. Total(purse') = Total(purse) + purse'[h] - purse[h] /\ Total(purse) \in Nat /\ purse[h] \in Nat
    BY <1>3, <1>4, PurseChanged
  <2> QED
    BY <1>3, <1>4, <2>1
<1>8. Total(restricted') = Total(restricted) - public
  <2>1. /\ Total(restricted') = Total(restricted) + restricted'[name] - restricted[name]
        /\ Total(restricted) \in Nat /\ restricted[name] \in Nat
    BY <1>3, <1>5, PromiseChanged
  <2> QED
    BY <1>3, <1>5, <2>1
<1>9. Total(clearing') = Total(clearing) + private + public
  <2>1. Total(clearing') = Total(clearing) + clearing'[f] - clearing[f] /\ Total(clearing) \in Nat /\ clearing[f] \in Nat
    BY <1>3, <1>6, FirmChanged
  <2> QED
    BY <1>3, <1>6, <2>1
<1>10. treasury' \in Nat /\ Total(restricted') <= treasury' /\ treasury' = treasury - public
  <2>1. Total(restricted') \in Nat
    BY <1>5, NamesFinite, TotalNat
  <2> QED
    BY <1>0, <1>2, <1>3, <1>8, <2>1, TotalsTyped DEF Reserved
<1>11. TypeOK'
  BY <1>0, <1>1, <1>4, <1>5, <1>6, <1>10 DEF TypeOK
<1>12. Everything' = Everything
  BY <1>0, <1>1, <1>3, <1>7, <1>9, <1>10, TotalsTyped DEF Everything
<1>13. NothingOnTheWay' /\ PayrollReady'
  BY <1>0, <1>1 DEF NothingOnTheWay, PayrollReady, Quiet
<1>14. GoneAreClean'
  BY <1>0, <1>1, <1>2, <1>6, Types DEF GoneAreClean
<1>15. ProjectCovered'
  BY <1>0, <1>1, <1>3, <1>5 DEF ProjectCovered, Names
<1> QED
  BY <1>0, <1>1, <1>10, <1>11, <1>12, <1>13, <1>14, <1>15 DEF PInv, Reserved, OpeningMoney

LEMMA EndMarketKeeps ==
  ASSUME PInv, EndMarket
  PROVE  PInv'
<1>0. /\ TypeOK /\ Everything = OpeningMoney /\ Reserved <= treasury /\ ~raised
      /\ NothingOnTheWay /\ GoneAreClean /\ ProjectCovered /\ PayrollReady
  BY DEF PInv
<1>1. /\ phase = "market" /\ phase' = "firms" /\ ~raised /\ timing' = timing
      /\ UNCHANGED <<live, employer, cash, treasury, clearing, claims, holds, ceoHolds, late, restricted, project, pending,
                     slots, fullyPaid, streak, raised>>
  BY DEF EndMarket, Moves, book, state
<1>2. PICK h \in Households, amount \in 0 .. Min({rest, MaxOutlay}) :
        purse' = [purse EXCEPT ![h] = @ + amount] /\ rest' = rest - amount
  BY DEF EndMarket
<1>3. /\ IsFiniteSet(Households) /\ MaxOutlay \in Nat /\ rest \in Nat /\ purse \in [Households -> Nat]
  BY <1>0, Types, Constants
<1>4. amount \in Nat /\ amount <= rest
  BY <1>3, MinOfNats
<1>5. /\ purse' \in [Households -> Nat] /\ purse'[h] = purse[h] + amount
      /\ \A x \in Households \ {h} : purse'[x] = purse[x]
  BY <1>2, <1>3, <1>4
<1>6. Total(purse') = Total(purse) + amount /\ rest' \in Nat
  <2>1. Total(purse') = Total(purse) + purse'[h] - purse[h] /\ Total(purse) \in Nat /\ purse[h] \in Nat
    BY <1>3, <1>5, PurseChanged
  <2> QED
    BY <1>2, <1>3, <1>4, <1>5, <2>1
<1>7. TypeOK'
  BY <1>0, <1>1, <1>5, <1>6 DEF TypeOK
<1>8. Everything' = Everything
  BY <1>0, <1>1, <1>2, <1>3, <1>4, <1>6, TotalsTyped DEF Everything
<1>9. NothingOnTheWay' /\ PayrollReady' /\ GoneAreClean' /\ ProjectCovered'
  BY <1>0, <1>1 DEF NothingOnTheWay, PayrollReady, Quiet, GoneAreClean, ProjectCovered
<1> QED
  BY <1>0, <1>1, <1>7, <1>8, <1>9 DEF PInv, Reserved, OpeningMoney

LEMMA EntryKeeps ==
  ASSUME PInv, Entry
  PROVE  PInv'
<1>0. /\ TypeOK /\ Everything = OpeningMoney /\ Reserved <= treasury /\ ~raised
      /\ NothingOnTheWay /\ GoneAreClean /\ ProjectCovered /\ PayrollReady
  BY DEF PInv
<1>1. /\ phase = "entry" /\ phase' = "fiscal" /\ ~raised /\ timing' = timing
      /\ UNCHANGED <<employer, rest, clearing, claims, holds, ceoHolds, late, restricted, project, pending,
                     slots, fullyPaid, streak, raised>>
  BY DEF Entry, Moves, book, state
<1>2. /\ IsFiniteSet(Firms) /\ IsFiniteSet(Households) /\ Seed \in Nat \ {0}
      /\ purse \in [Households -> Nat] /\ cash \in [Firms -> Nat] /\ treasury \in Nat
  BY <1>0, Types, Constants
<1>3. NothingOnTheWay' /\ PayrollReady'
  BY <1>0, <1>1 DEF NothingOnTheWay, PayrollReady, Quiet
<1>4. CASE UNCHANGED <<live, cash, treasury, purse>>
  <2>1. TypeOK' /\ Everything' = Everything /\ GoneAreClean' /\ ProjectCovered'
    BY <1>0, <1>1, <1>4 DEF TypeOK, Everything, GoneAreClean, ProjectCovered
  <2> QED
    BY <1>0, <1>1, <1>3, <1>4, <2>1 DEF PInv, Reserved, OpeningMoney
<1>5. ASSUME NEW f \in Firms \ live, live' = live \cup {f}, cash' = [cash EXCEPT ![f] = Seed],
             \/ Free >= Seed /\ treasury' = treasury - Seed /\ UNCHANGED purse
             \/ \E h \in Households : /\ purse[h] >= Seed
                                      /\ purse' = [purse EXCEPT ![h] = @ - Seed] /\ UNCHANGED treasury
      PROVE  PInv'
  <2>1. /\ cash' \in [Firms -> Nat] /\ cash'[f] = Seed /\ cash[f] = 0
        /\ \A x \in Firms \ {f} : cash'[x] = cash[x]
    BY <1>0, <1>2, <1>5 DEF GoneAreClean
  <2>2. Total(cash') = Total(cash) + Seed
    <3>1. Total(cash') = Total(cash) + cash'[f] - cash[f] /\ Total(cash) \in Nat
      BY <1>2, <2>1, FirmChanged
    <3> QED
      BY <1>2, <2>1, <3>1
  <2>3. /\ purse' \in [Households -> Nat] /\ treasury' \in Nat
        /\ Total(purse') + treasury' = Total(purse) + treasury - Seed
        /\ Reserved <= treasury'
    <3>0. Total(purse) \in Nat /\ Reserved \in Nat /\ Free = treasury - Reserved
      BY <1>0, TotalsTyped, FreeLaw
    <3>1. CASE Free >= Seed /\ treasury' = treasury - Seed /\ UNCHANGED purse
      BY <1>2, <3>0, <3>1
    <3>2. ASSUME NEW h \in Households, purse[h] >= Seed, purse' = [purse EXCEPT ![h] = @ - Seed], UNCHANGED treasury
          PROVE  purse' \in [Households -> Nat] /\ Total(purse') = Total(purse) - Seed
      <4>1. /\ purse' \in [Households -> Nat] /\ purse'[h] = purse[h] - Seed
            /\ \A x \in Households \ {h} : purse'[x] = purse[x]
        BY <1>2, <3>2
      <4>2. Total(purse') = Total(purse) + purse'[h] - purse[h] /\ purse[h] \in Nat
        BY <1>2, <4>1, PurseChanged
      <4> QED
        BY <1>2, <3>0, <4>1, <4>2
    <3>3. CASE \E h \in Households : /\ purse[h] >= Seed
                                     /\ purse' = [purse EXCEPT ![h] = @ - Seed] /\ UNCHANGED treasury
      <4>1. purse' \in [Households -> Nat] /\ Total(purse') = Total(purse) - Seed /\ treasury' = treasury
        BY <3>2, <3>3
      <4> QED
        BY <1>0, <1>2, <3>0, <4>1
    <3> QED
      BY <1>5, <3>1, <3>3
  <2>4. TypeOK'
    BY <1>0, <1>1, <1>5, <2>1, <2>3 DEF TypeOK
  <2>5. Everything' = Everything
    <3>1. Total(purse') \in Nat
      BY <2>3, Constants, TotalNat
    <3> QED
      BY <1>0, <1>1, <1>2, <2>2, <2>3, <3>1, TotalsTyped DEF Everything
  <2>6. GoneAreClean'
    BY <1>0, <1>1, <1>5, <2>1 DEF GoneAreClean
  <2>7. ProjectCovered'
    BY <1>0, <1>1, <1>5 DEF ProjectCovered
  <2> QED
    BY <1>0, <1>1, <1>3, <2>3, <2>4, <2>5, <2>6, <2>7 DEF PInv, Reserved, OpeningMoney
<1> QED
  BY <1>4, <1>5 DEF Entry

LEMMA InstitutionalCloseKeeps ==
  ASSUME PInv, InstitutionalClose
  PROVE  PInv'
<1>0. /\ TypeOK /\ Everything = OpeningMoney /\ Reserved <= treasury /\ ~raised
      /\ NothingOnTheWay /\ GoneAreClean /\ ProjectCovered /\ PayrollReady
  BY DEF PInv
<1>1. /\ phase = "close" /\ phase' = "exits" /\ ~raised /\ timing' = timing
      /\ UNCHANGED <<live, employer, purse, clearing, claims, holds, ceoHolds, late, fullyPaid, streak>>
  BY DEF InstitutionalClose, Moves, book
<1> DEFINE toPay   == project # NoProject /\ project.status = "assigned"
           payable == toPay /\ Completes
           funded  == payable /\ restricted["project"] >= Quote
<1>2. PICK spent \in 0 .. Min({Free, MaxOutlay}) :
        /\ rest' = rest + spent
        /\ treasury' = treasury - spent - (IF funded THEN Quote ELSE 0)
        /\ restricted' = IF funded THEN [restricted EXCEPT !["project"] = @ - Quote] ELSE restricted
        /\ cash' = IF funded THEN [cash EXCEPT ![project.firm] = @ + Quote] ELSE cash
        /\ pending' = IF funded THEN [pending EXCEPT ![project.firm] = @ + Quote] ELSE pending
        /\ slots' = IF funded THEN slots \cup {project.firm} ELSE slots
        /\ project' = IF toPay THEN [project EXCEPT !.status = IF funded THEN "completed" ELSE "cancelled"]
                      ELSE project
        /\ raised' = (payable /\ ~funded)
  BY DEF InstitutionalClose
<1>3. /\ Quote \in Nat \ {0} /\ "project" \in Names
      /\ cash \in [Firms -> Nat] /\ restricted \in [Names -> Nat] /\ pending \in [Firms -> Nat]
      /\ live \subseteq Firms /\ treasury \in Nat /\ rest \in Nat /\ slots \subseteq Firms
  BY <1>0, Types, Constants DEF Names
<1>4. spent \in Nat /\ spent <= treasury - Reserved /\ Reserved \in Nat /\ Total(cash) \in Nat
  BY <1>0, FreeLaw, TotalsTyped
<1>5. project # NoProject => project \in [firm : Firms, status : Status, worker : Households \cup {NoOne}]
  BY <1>0 DEF TypeOK
<1>6. raised' = FALSE
  BY <1>0, <1>2 DEF ProjectCovered
<1>7. NothingOnTheWay' /\ PayrollReady'
  BY <1>0, <1>1 DEF NothingOnTheWay, PayrollReady, Quiet
<1>8. CASE ~funded
  <2>1. /\ treasury' = treasury - spent /\ restricted' = restricted /\ cash' = cash /\ pending' = pending /\ slots' = slots
        /\ project' = IF toPay THEN [project EXCEPT !.status = "cancelled"] ELSE project
    BY <1>2, <1>3, <1>8
  <2>2. treasury' \in Nat /\ Reserved <= treasury' /\ rest' \in Nat
    BY <1>2, <1>3, <1>4, <2>1
  <2>3. TypeOK'
    <3>1. project' \in {NoProject} \cup [firm : Firms, status : Status, worker : Households \cup {NoOne}]
      BY <1>0, <1>5, <2>1 DEF TypeOK, Status
    <3> QED
      BY <1>0, <1>1, <1>6, <2>1, <2>2, <3>1 DEF TypeOK
  <2>4. Everything' = Everything
    BY <1>0, <1>1, <1>2, <1>3, <1>4, <2>1, TotalsTyped DEF Everything
  <2>5. GoneAreClean'
    BY <1>0, <1>1, <2>1 DEF GoneAreClean
  <2>6. ProjectCovered'
    <3>1. CASE toPay
      <4>1. project' = [project EXCEPT !.status = "cancelled"] /\ project'.status = "cancelled"
        BY <1>5, <2>1, <3>1
      <4> QED
        BY <4>1 DEF ProjectCovered
    <3>2. CASE ~toPay
      BY <1>0, <1>1, <2>1, <3>2 DEF ProjectCovered
    <3> QED
      BY <3>1, <3>2
  <2> QED
    BY <1>0, <1>6, <1>7, <2>1, <2>2, <2>3, <2>4, <2>5, <2>6 DEF PInv, Reserved, OpeningMoney
<1>9. CASE funded
  <2> DEFINE f == project.firm
  <2>1. f \in live /\ f \in Firms /\ restricted["project"] >= Quote /\ toPay
    BY <1>3, <1>9 DEF Completes
  <2>2. /\ treasury' = treasury - spent - Quote
        /\ restricted' = [restricted EXCEPT !["project"] = @ - Quote]
        /\ cash' = [cash EXCEPT ![f] = @ + Quote] /\ pending' = [pending EXCEPT ![f] = @ + Quote]
        /\ slots' = slots \cup {f} /\ project' = [project EXCEPT !.status = "completed"]
    BY <1>2, <1>9
  <2> HIDE DEF funded, payable
  <2>3. /\ cash' \in [Firms -> Nat] /\ cash'[f] = cash[f] + Quote /\ \A x \in Firms \ {f} : cash'[x] = cash[x]
    BY <1>3, <2>1, <2>2
  <2>4. /\ pending' \in [Firms -> Nat] /\ \A x \in Firms \ {f} : pending'[x] = pending[x]
    BY <1>3, <2>1, <2>2
  <2>5. /\ restricted' \in [Names -> Nat] /\ restricted'["project"] = restricted["project"] - Quote
        /\ \A x \in Names \ {"project"} : restricted'[x] = restricted[x]
    <3>1. restricted["project"] \in Nat /\ restricted["project"] - Quote \in Nat
      BY <1>3, <2>1
    <3> QED
      BY <1>3, <2>2, <3>1
  <2> HIDE DEF f
  <2>6. Total(cash') = Total(cash) + Quote
    <3>1. Total(cash') = Total(cash) + cash'[f] - cash[f] /\ cash[f] \in Nat
      BY <1>3, <2>1, <2>3, FirmChanged
    <3> QED
      BY <1>3, <1>4, <2>3, <3>1
  <2>7. Total(restricted') = Reserved - Quote
    <3>1. Total(restricted') = Total(restricted) + restricted'["project"] - restricted["project"]
          /\ restricted["project"] \in Nat
      BY <1>3, <2>5, PromiseChanged
    <3> QED
      BY <1>3, <1>4, <2>5, <3>1 DEF Reserved
  <2>8. treasury' \in Nat /\ Total(restricted') <= treasury' /\ rest' \in Nat
    <3>1. Total(restricted') \in Nat
      BY <2>5, NamesFinite, TotalNat
    <3> QED
      BY <1>2, <1>3, <1>4, <2>2, <2>7, <3>1
  <2>9. project' \in [firm : Firms, status : Status, worker : Households \cup {NoOne}] /\ project'.status = "completed"
    BY <1>5, <2>1, <2>2 DEF Status
  <2>10. TypeOK'
    BY <1>0, <1>1, <1>3, <1>6, <2>1, <2>2, <2>3, <2>4, <2>5, <2>8, <2>9 DEF TypeOK
  <2>11. Everything' = Everything
    BY <1>0, <1>1, <1>2, <1>3, <1>4, <2>2, <2>6, TotalsTyped DEF Everything
  <2>12. GoneAreClean'
    BY <1>0, <1>1, <2>1, <2>2, <2>3, <2>4 DEF GoneAreClean
  <2>13. ProjectCovered'
    BY <2>9 DEF ProjectCovered
  <2> QED
    BY <1>0, <1>6, <1>7, <2>8, <2>10, <2>11, <2>12, <2>13 DEF PInv, Reserved, OpeningMoney
<1> QED
  BY <1>8, <1>9

LEMMA SettleFirmsKeeps ==
  ASSUME PInv, SettleFirms
  PROVE  PInv'
<1>0. /\ TypeOK /\ Everything = OpeningMoney /\ Reserved <= treasury /\ ~raised
      /\ NothingOnTheWay /\ GoneAreClean /\ ProjectCovered /\ PayrollReady
  BY DEF PInv
<1>1. /\ phase = "firms" /\ phase' = "close" /\ ~raised /\ timing' = timing
      /\ UNCHANGED <<live, employer, rest, claims, holds, project, slots, fullyPaid, raised>>
      /\ pending' = None(Firms) /\ clearing' = None(Firms)
      /\ late' = None(Households) /\ ceoHolds' = None(Households)
      /\ purse' = [h \in Households |-> purse[h] + late[h] + ceoHolds[h]]
      /\ restricted' = [restricted EXCEPT !["withholding"] = 0]
  BY DEF SettleFirms, Moves
<1> DEFINE tax(taxed, f) == IF f \in taxed THEN Min({MaxOutlay, cash[f] + clearing[f]}) ELSE 0
<1>2. PICK taxed \in SUBSET live :
        /\ cash' = [f \in Firms |-> cash[f] + clearing[f] - tax(taxed, f)]
        /\ treasury' = treasury + Total([f \in Firms |-> tax(taxed, f)])
        /\ streak' = [f \in Firms |-> IF f \in live /\ cash[f] + clearing[f] - tax(taxed, f) = 0
                                      THEN Min({streak[f] + 1, ZeroCashMax}) ELSE 0]
  BY DEF SettleFirms
<1> DEFINE taxes == [f \in Firms |-> tax(taxed, f)]
           all == [f \in Firms |-> cash[f] + clearing[f]]
           income == [h \in Households |-> purse[h] + late[h]]
<1>3. /\ MaxOutlay \in Nat /\ "withholding" \in Names /\ "project" \in Names /\ ZeroCashMax \in Nat
      /\ cash \in [Firms -> Nat] /\ restricted \in [Names -> Nat] /\ clearing \in [Firms -> Nat]
      /\ purse \in [Households -> Nat] /\ late \in [Households -> Nat] /\ ceoHolds \in [Households -> Nat]
      /\ treasury \in Nat /\ live \subseteq Firms
  BY <1>0, Types, Constants DEF Names
<1>4. streak \in [Firms -> 0 .. ZeroCashMax]
  BY <1>0 DEF TypeOK
<1>5. \A f \in Firms : tax(taxed, f) \in Nat /\ tax(taxed, f) <= cash[f] + clearing[f]
  <2> SUFFICES ASSUME NEW f \in Firms PROVE tax(taxed, f) \in Nat /\ tax(taxed, f) <= cash[f] + clearing[f]
    OBVIOUS
  <2>1. cash[f] + clearing[f] \in Nat
    BY <1>3
  <2>2. Min({MaxOutlay, cash[f] + clearing[f]}) \in Nat /\ Min({MaxOutlay, cash[f] + clearing[f]}) <= cash[f] + clearing[f]
    BY <1>3, <2>1, MinOfNats
  <2> QED
    BY <2>1, <2>2
<1> HIDE DEF tax
<1>6. /\ taxes \in [Firms -> Nat] /\ all \in [Firms -> Nat] /\ cash' \in [Firms -> Nat]
      /\ \A f \in Firms : all[f] = cash[f] + clearing[f] /\ cash'[f] = all[f] - taxes[f]
      /\ treasury' = treasury + Total(taxes)
  BY <1>2, <1>3, <1>5
<1>7. /\ income \in [Households -> Nat] /\ purse' \in [Households -> Nat]
      /\ \A h \in Households : income[h] = purse[h] + late[h] /\ purse'[h] = income[h] + ceoHolds[h]
  BY <1>1, <1>3
<1>8. streak' \in [Firms -> 0 .. ZeroCashMax]
  <2>1. \A f \in Firms : Min({streak[f] + 1, ZeroCashMax}) \in 0 .. ZeroCashMax
    <3> SUFFICES ASSUME NEW f \in Firms PROVE Min({streak[f] + 1, ZeroCashMax}) \in 0 .. ZeroCashMax
      OBVIOUS
    <3>1. streak[f] + 1 \in Nat
      BY <1>4
    <3>2. Min({streak[f] + 1, ZeroCashMax}) \in Nat /\ Min({streak[f] + 1, ZeroCashMax}) <= ZeroCashMax
      BY <1>3, <3>1, MinOfNats
    <3> QED
      BY <1>3, <3>2
  <2> QED
    BY <1>2, <1>3, <2>1
<1> HIDE DEF taxes, all, income
<1>9. Total(cash') + treasury' = Total(cash) + Total(clearing) + treasury /\ treasury' \in Nat /\ treasury' >= treasury
  <2>1. /\ cash \in [Firms -> Int] /\ clearing \in [Firms -> Int] /\ all \in [Firms -> Int]
        /\ taxes \in [Firms -> Int] /\ cash' \in [Firms -> Int]
    BY <1>3, <1>6
  <2>2. Total(all) = Total(cash) + Total(clearing)
    BY <1>6, <2>1, FirmSums
  <2>3. Total(cash') = Total(all) - Total(taxes)
    BY <1>6, <2>1, FirmSums
  <2>4. Total(taxes) \in Nat /\ Total(cash) \in Nat /\ Total(clearing) \in Nat
    BY <1>3, <1>6, Constants, TotalNat
  <2> QED
    BY <1>3, <1>6, <2>2, <2>3, <2>4
<1>10. Total(purse') = Total(purse) + Total(late) + Total(ceoHolds)
  <2>1. /\ purse \in [Households -> Int] /\ late \in [Households -> Int] /\ ceoHolds \in [Households -> Int]
        /\ income \in [Households -> Int] /\ purse' \in [Households -> Int]
    BY <1>3, <1>7
  <2>2. Total(income) = Total(purse) + Total(late)
    BY <1>7, <2>1, PurseSums
  <2>3. Total(purse') = Total(income) + Total(ceoHolds)
    BY <1>7, <2>1, PurseSums
  <2> QED
    BY <2>2, <2>3
<1>11. /\ restricted' \in [Names -> Nat] /\ restricted'["project"] = restricted["project"]
       /\ Total(restricted') <= Reserved /\ Total(restricted') \in Nat
  <2>1. /\ restricted' \in [Names -> Nat] /\ restricted'["withholding"] = 0
        /\ \A x \in Names \ {"withholding"} : restricted'[x] = restricted[x]
    BY <1>1, <1>3
  <2>2. /\ Total(restricted') = Total(restricted) + restricted'["withholding"] - restricted["withholding"]
        /\ Total(restricted) \in Nat /\ Total(restricted') \in Nat /\ restricted["withholding"] \in Nat
    BY <1>3, <2>1, PromiseChanged
  <2> QED
    BY <1>3, <2>1, <2>2 DEF Reserved
<1>12. Total(restricted') <= treasury'
  BY <1>0, <1>3, <1>9, <1>11, TotalsTyped
<1>13. /\ None(Firms) \in [Firms -> Nat] /\ None(Households) \in [Households -> Nat]
       /\ Total(None(Firms)) = 0 /\ Total(None(Households)) = 0 /\ \A f \in Firms : None(Firms)[f] = 0
  BY Constants, NoneTotal
<1>14. TypeOK'
  BY <1>0, <1>1, <1>6, <1>7, <1>8, <1>9, <1>11, <1>13 DEF TypeOK
<1>15. Everything' = Everything
  <2>1. Total(cash') \in Nat /\ Total(purse') \in Nat
    BY <1>6, <1>7, Constants, TotalNat
  <2>2. Total(clearing') = 0 /\ Total(late') = 0 /\ Total(ceoHolds') = 0 /\ rest' = rest /\ Total(holds') = Total(holds)
    BY <1>1, <1>13
  <2> QED
    BY <1>0, <1>9, <1>10, <2>1, <2>2, TotalsTyped DEF Everything
<1>16. NothingOnTheWay' /\ PayrollReady'
  BY <1>0, <1>1 DEF NothingOnTheWay, PayrollReady, Quiet
<1>17. GoneAreClean'
  <2>1. \A f \in Firms \ live : cash'[f] = 0
    <3> SUFFICES ASSUME NEW f \in Firms \ live PROVE cash'[f] = 0
      OBVIOUS
    <3>1. cash[f] = 0 /\ clearing[f] = 0
      BY <1>0 DEF GoneAreClean
    <3>2. taxes[f] \in Nat /\ cash'[f] \in Nat
      BY <1>6
    <3> QED
      BY <1>6, <3>1, <3>2
  <2> QED
    BY <1>0, <1>1, <1>13, <2>1 DEF GoneAreClean
<1>18. ProjectCovered'
  BY <1>0, <1>1, <1>11 DEF ProjectCovered
<1> QED
  BY <1>0, <1>1, <1>12, <1>14, <1>15, <1>16, <1>17, <1>18 DEF PInv, Reserved, OpeningMoney

LEMMA FiscalCloseKeeps ==
  ASSUME PInv, FiscalClose
  PROVE  PInv'
<1>0. /\ TypeOK /\ Everything = OpeningMoney /\ Reserved <= treasury /\ ~raised
      /\ NothingOnTheWay /\ GoneAreClean /\ ProjectCovered /\ PayrollReady
  BY DEF PInv
<1>1. /\ phase = "fiscal" /\ phase' = "open" /\ ~raised /\ timing' = timing
      /\ UNCHANGED <<live, employer, treasury, rest, clearing, claims, holds, ceoHolds, late, pending, slots, streak, raised>>
      /\ fullyPaid' = {}
  BY DEF FiscalClose, Moves, book
<1>2. PICK payers \in SUBSET live :
        /\ cash' = [f \in Firms |-> IF f \in payers THEN cash[f] - DividendOf(f) ELSE cash[f]]
        /\ purse' = [h \in Households |-> purse[h] + Total([f \in {g \in payers : Owner[g] = h} |-> DividendOf(f)])]
  BY DEF FiscalClose
<1>3. /\ MaxOutlay \in Nat /\ Quote \in Nat \ {0} /\ Benefit \in Nat /\ IsFiniteSet(Firms) /\ IsFiniteSet(Households)
      /\ Owner \in [Firms -> Households \cup {NoOne}]
      /\ cash \in [Firms -> Nat] /\ purse \in [Households -> Nat] /\ treasury \in Nat /\ live \subseteq Firms
  BY <1>0, Types, Constants
\* What the payers pay, their owners get.
<1>4. \A f \in Firms : DividendOf(f) \in Nat /\ DividendOf(f) <= cash[f] /\ (Owner[f] = NoOne => DividendOf(f) = 0)
  <2> SUFFICES ASSUME NEW f \in Firms
               PROVE  DividendOf(f) \in Nat /\ DividendOf(f) <= cash[f] /\ (Owner[f] = NoOne => DividendOf(f) = 0)
    OBVIOUS
  <2>1. cash[f] \in Nat
    BY <1>3
  <2>2. Min({MaxOutlay, cash[f]}) \in Nat /\ Min({MaxOutlay, cash[f]}) <= cash[f]
    BY <1>3, <2>1, MinOfNats
  <2> QED
    BY <2>1, <2>2 DEF DividendOf
<1> DEFINE v == [f \in Firms |-> DividendOf(f)]
           part == [f \in Firms |-> IF f \in payers THEN v[f] ELSE 0]
           got == [h \in Households |-> Total([f \in {g \in payers : Owner[g] = h} |-> v[f]])]
           nobodys == {g \in payers : Owner[g] = NoOne}
<1>5. /\ v \in [Firms -> Nat] /\ part \in [Firms -> Nat] /\ cash' \in [Firms -> Nat]
      /\ \A f \in Firms : cash'[f] = cash[f] - part[f]
  BY <1>2, <1>3, <1>4
<1>6. Total([f \in nobodys |-> v[f]]) = 0
  <2>1. [f \in nobodys |-> v[f]] = [f \in nobodys |-> 0]
    BY <1>3, <1>4
  <2>2. IsFiniteSet(nobodys)
    BY <1>3, FS_Subset
  <2> HIDE DEF nobodys
  <2> QED
    BY <2>1, <2>2, TotalZero
<1>7. \A h \in Households : [f \in {g \in payers : Owner[g] = h} |-> DividendOf(f)] = [f \in {g \in payers : Owner[g] = h} |-> v[f]]
  BY <1>3
<1>8. /\ got \in [Households -> Nat] /\ purse' \in [Households -> Nat]
      /\ \A h \in Households : purse'[h] = purse[h] + got[h]
  <2>1. ASSUME NEW h \in Households PROVE Total([f \in {g \in payers : Owner[g] = h} |-> v[f]]) \in Nat
    <3>1. IsFiniteSet({g \in payers : Owner[g] = h})
      BY <1>3, FS_Subset
    <3>2. [f \in {g \in payers : Owner[g] = h} |-> v[f]] \in [{g \in payers : Owner[g] = h} -> Nat]
      BY <1>3, <1>5
    <3> QED
      BY <3>1, <3>2, TotalNat
  <2>2. purse' = [h \in Households |-> purse[h] + Total([f \in {g \in payers : Owner[g] = h} |-> v[f]])]
    BY <1>2, <1>7
  <2> HIDE DEF v
  <2>3. got \in [Households -> Nat] /\ \A h \in Households : purse'[h] = purse[h] + got[h]
    BY <2>1, <2>2
  <2>4. DOMAIN purse' = Households /\ purse' = [h \in Households |-> purse[h] + got[h]]
    BY <2>2
  <2> HIDE DEF got
  <2> QED
    BY <1>3, <2>3, <2>4
<1> HIDE DEF v
<1>9. Total(got) = Total(part)
  <2>1. payers \in SUBSET Firms /\ v \in [Firms -> Int]
    BY <1>3, <1>5
  <2>2. Total(got) + Total([f \in nobodys |-> v[f]]) = Total([f \in payers |-> v[f]])
    BY <1>3, <2>1, SharedByOwner
  <2>3. Total([f \in payers |-> v[f]]) = Total(part)
    <3> DEFINE w == [f \in payers |-> v[f]]
    <3>1. w \in [payers -> Int] /\ part = [f \in Firms |-> IF f \in payers THEN w[f] ELSE 0]
      BY <2>1
    <3> HIDE DEF w, part
    <3>2. Total(w) = Total([f \in Firms |-> IF f \in payers THEN w[f] ELSE 0])
      BY <1>3, <2>1, <3>1, TotalExtend
    <3> QED
      BY <3>1, <3>2 DEF w
  <2>4. Total(got) \in Nat
    BY <1>3, <1>8, TotalNat
  <2> HIDE DEF got, part
  <2> QED
    BY <1>6, <2>2, <2>3, <2>4
<1> HIDE DEF got, part
<1>10. Total(cash') + Total(purse') = Total(cash) + Total(purse)
  <2>1. /\ cash \in [Firms -> Int] /\ part \in [Firms -> Int] /\ cash' \in [Firms -> Int]
        /\ purse \in [Households -> Int] /\ got \in [Households -> Int] /\ purse' \in [Households -> Int]
    BY <1>3, <1>5, <1>8
  <2>2. Total(cash') = Total(cash) - Total(part)
    BY <1>5, <2>1, FirmSums
  <2>3. Total(purse') = Total(purse) + Total(got)
    BY <1>8, <2>1, PurseSums
  <2>4. Total(part) \in Nat /\ Total(cash) \in Nat /\ Total(purse) \in Nat
    BY <1>3, <1>5, TotalNat
  <2> QED
    BY <1>9, <2>2, <2>3, <2>4
\* The new envelopes are cut out of the treasury.
<1> DEFINE b == BenefitEnvelope(treasury)
           envelopes(a, p) == [None(Names) EXCEPT !["B"] = b, !["assistance"] = a, !["project"] = p]
           candidates(a) == IF treasury - b - a >= Quote THEN Providers \cap live ELSE {}
<1>11. PICK a \in 0 .. Min({treasury - b, MaxOutlay}) :
         IF candidates(a) = {}
         THEN project' = NoProject /\ restricted' = envelopes(a, 0)
         ELSE \E f \in candidates(a) :
                /\ project' = [firm |-> f, status |-> "authorized", worker |-> NoOne]
                /\ restricted' = envelopes(a, Quote)
  BY DEF FiscalClose
<1>12. b \in Nat /\ b <= treasury
  <2>1. IsFiniteSet(Jobless)
    BY <1>3, FS_Subset DEF Jobless
  <2>2. Cardinality(Jobless) \in Nat
    BY <2>1, FS_CardinalityType
  <2>3. Benefit * Cardinality(Jobless) \in Nat
    BY <1>3, <2>2
  <2> QED
    BY <1>3, <2>3, MinOfNats DEF BenefitEnvelope
<1> HIDE DEF b
<1>13. a \in Nat /\ a <= treasury - b
  <2>1. treasury - b \in Nat
    BY <1>3, <1>12
  <2>2. Min({treasury - b, MaxOutlay}) \in Nat /\ Min({treasury - b, MaxOutlay}) <= treasury - b
    BY <1>3, <2>1, MinOfNats
  <2> QED
    BY <2>1, <2>2
<1>14. ASSUME NEW p \in Nat
       PROVE  /\ envelopes(a, p) \in [Names -> Nat] /\ envelopes(a, p)["project"] = p
              /\ Total(envelopes(a, p)) = b + a + p
  <2> DEFINE none == None(Names)
             e1 == [none EXCEPT !["B"] = b]
             e2 == [e1 EXCEPT !["assistance"] = a]
             e3 == [e2 EXCEPT !["project"] = p]
  <2>1. /\ none \in [Names -> Nat] /\ Total(none) = 0 /\ \A n \in Names : none[n] = 0
    BY NamesFinite, NoneTotal
  <2>2. "B" \in Names /\ "assistance" \in Names /\ "project" \in Names
    BY DEF Names
  <2> HIDE DEF none
  <2>3. e1 \in [Names -> Nat] /\ e1["B"] = b /\ \A n \in Names \ {"B"} : e1[n] = none[n]
    BY <1>12, <2>1, <2>2
  <2>4. Total(e1) = b
    <3> HIDE DEF e1
    <3>1. Total(e1) = Total(none) + e1["B"] - none["B"]
      BY <2>1, <2>2, <2>3, PromiseChanged
    <3> QED
      BY <1>12, <2>1, <2>2, <2>3, <3>1
  <2> HIDE DEF e1
  <2>5. e2 \in [Names -> Nat] /\ e2["assistance"] = a /\ \A n \in Names \ {"assistance"} : e2[n] = e1[n]
    BY <1>13, <2>2, <2>3
  <2>6. Total(e2) = b + a
    <3> HIDE DEF e2
    <3>1. Total(e2) = Total(e1) + e2["assistance"] - e1["assistance"]
      BY <2>2, <2>3, <2>5, PromiseChanged
    <3>2. e1["assistance"] = 0
      BY <2>1, <2>2, <2>3
    <3> QED
      BY <1>12, <1>13, <2>4, <2>5, <3>1, <3>2
  <2> HIDE DEF e2
  <2>7. e3 \in [Names -> Nat] /\ e3["project"] = p /\ \A n \in Names \ {"project"} : e3[n] = e2[n]
    BY <2>2, <2>5
  <2>8. Total(e3) = b + a + p
    <3> HIDE DEF e3
    <3>1. Total(e3) = Total(e2) + e3["project"] - e2["project"]
      BY <2>2, <2>5, <2>7, PromiseChanged
    <3>2. e2["project"] = 0
      BY <2>1, <2>2, <2>3, <2>5
    <3> QED
      BY <1>12, <1>13, <2>6, <2>7, <3>1, <3>2
  <2>9. envelopes(a, p) = e3
    BY DEF none, e1, e2
  <2> QED
    BY <2>7, <2>8, <2>9
<1> HIDE DEF envelopes
<1>15. /\ restricted' \in [Names -> Nat] /\ Total(restricted') <= treasury
       /\ project' \in {NoProject} \cup [firm : Firms, status : Status, worker : Households \cup {NoOne}]
       /\ project' # NoProject => /\ project'.status = "authorized" /\ project'.firm \in live
                                  /\ restricted'["project"] >= Quote
  <2>1. CASE candidates(a) = {}
    <3>1. project' = NoProject /\ restricted' = envelopes(a, 0)
      BY <1>11, <2>1
    <3> HIDE DEF candidates
    <3>2. 0 \in Nat
      OBVIOUS
    <3>3. restricted' \in [Names -> Nat] /\ Total(restricted') = b + a + 0
      BY <1>14, <3>1, <3>2
    <3> QED
      BY <1>3, <1>12, <1>13, <3>1, <3>3
  <2>2. CASE candidates(a) # {}
    <3>1. PICK f \in candidates(a) : /\ project' = [firm |-> f, status |-> "authorized", worker |-> NoOne]
                                     /\ restricted' = envelopes(a, Quote)
      BY <1>11, <2>2
    <3>2. treasury - b - a >= Quote /\ f \in live
      BY <2>2
    <3> HIDE DEF candidates
    <3>3. restricted' \in [Names -> Nat] /\ Total(restricted') = b + a + Quote /\ restricted'["project"] = Quote
      BY <1>3, <1>14, <3>1
    <3>4. /\ project' \in [firm : Firms, status : Status, worker : Households \cup {NoOne}]
          /\ project'.status = "authorized" /\ project'.firm = f
      BY <1>3, <3>1, <3>2 DEF Status
    <3> QED
      BY <1>3, <1>12, <1>13, <3>2, <3>3, <3>4
  <2> QED
    BY <2>1, <2>2
<1>16. TypeOK'
  BY <1>0, <1>1, <1>5, <1>8, <1>15 DEF TypeOK
<1>17. Everything' = Everything
  <2>1. Total(cash') \in Nat /\ Total(purse') \in Nat
    BY <1>3, <1>5, <1>8, TotalNat
  <2> QED
    BY <1>0, <1>1, <1>10, <2>1, TotalsTyped DEF Everything
<1>18. NothingOnTheWay' /\ PayrollReady'
  BY <1>0, <1>1 DEF NothingOnTheWay, PayrollReady, Quiet
<1>19. GoneAreClean'
  <2>1. \A f \in Firms \ live : cash'[f] = 0
    BY <1>0, <1>2 DEF GoneAreClean
  <2> QED
    BY <1>0, <1>1, <2>1 DEF GoneAreClean
<1>20. ProjectCovered'
  BY <1>1, <1>15 DEF ProjectCovered
<1> QED
  BY <1>0, <1>1, <1>15, <1>16, <1>17, <1>18, <1>19, <1>20 DEF PInv, Reserved, OpeningMoney

\* A bill that is a sum of wages is a natural number.
LEMMA BillTyped ==
  ASSUME NEW S \in SUBSET Households
  PROVE  WageBill(S) \in Nat
<1>1. IsFiniteSet(S) /\ [h \in S |-> Wage[h]] \in [S -> Nat]
  BY Constants, FS_Subset
<1> QED
  BY <1>1, TotalNat DEF WageBill

LEMMA FundPayrollKeeps ==
  ASSUME PInv, FundPayroll
  PROVE  PInv'
<1>0. /\ TypeOK /\ Everything = OpeningMoney /\ Reserved <= treasury /\ ~raised
      /\ NothingOnTheWay /\ GoneAreClean /\ ProjectCovered /\ PayrollReady
  BY DEF PInv
<1>1. /\ phase = "labor" /\ phase' = "income" /\ ~raised /\ timing' = timing
      /\ UNCHANGED <<live, purse, treasury, clearing, claims, holds, ceoHolds, late, restricted, pending, slots,
                     fullyPaid, streak, raised>>
      /\ Assigned({h \in Households : employer'[h] # employer[h]})
  BY DEF FundPayroll, Moves, book
<1> DEFINE staff(plan, f) == {h \in Households : plan[h] = f}
<1>2. PICK plan \in [Households -> live \cup {NoOne}], kept \in SUBSET Households, loan \in [live \cap Funded -> 0 .. rest] :
        /\ \A h \in Households : plan[h] # NoOne => MayWork(h, plan[h])
        /\ Total(loan) <= rest /\ \A f \in live \cap Funded : loan[f] <= Gap(f, staff(plan, f))
        /\ \A h \in Households : h \notin kept =>
             plan[h] \in Funded /\ ~Affords(plan[h], staff(plan, plan[h]), loan[plan[h]])
        /\ \A f \in live \cap Funded : Affords(f, staff(plan, f) \cap kept, loan[f])
        /\ employer' = [h \in Households |-> IF h \in kept THEN plan[h] ELSE NoOne]
        /\ cash' = [f \in Firms |-> IF f \in live \cap Funded THEN cash[f] + loan[f] ELSE cash[f]]
        /\ rest' = rest - Total(loan)
  BY Zenon DEF FundPayroll
<1>3. /\ IsFiniteSet(Firms) /\ Funded \subseteq Firms /\ NoOne \notin Firms /\ NoOne \notin Households
      /\ cash \in [Firms -> Nat] /\ rest \in Nat /\ live \subseteq Firms
      /\ employer \in [Households -> Firms \cup {NoOne}]
  BY <1>0, Types, Constants
\* The loans as a function on all firms: nothing to the others.
<1> DEFINE lent == [f \in Firms |-> IF f \in live \cap Funded THEN loan[f] ELSE 0]
<1>4. lent \in [Firms -> Nat] /\ Total(loan) = Total(lent) /\ Total(loan) \in Nat
  <2>1. loan \in [live \cap Funded -> Int] /\ lent \in [Firms -> Nat]
    BY <1>2, <1>3
  <2>2. live \cap Funded \in SUBSET Firms
    BY <1>3
  <2>3. Total(loan) = Total(lent)
    BY <1>3, <2>1, <2>2, TotalExtend
  <2> HIDE DEF lent
  <2>4. Total(lent) \in Nat
    BY <1>3, <2>1, TotalNat
  <2> QED
    BY <2>1, <2>3, <2>4
<1>5. /\ \A f \in Firms : cash'[f] = cash[f] + lent[f]
      /\ \A f \in live \cap Funded : lent[f] = loan[f]
      /\ \A f \in Firms \ live : cash'[f] = cash[f]
  BY <1>2, <1>3
<1> HIDE DEF lent
<1>6. cash' \in [Firms -> Nat]
  <2>1. cash' = [f \in Firms |-> cash'[f]]
    BY <1>2
  <2>2. \A f \in Firms : cash'[f] \in Nat
    BY <1>3, <1>4, <1>5
  <2> QED
    BY <2>1, <2>2
<1>7. rest' \in Nat /\ Total(cash') + rest' = Total(cash) + rest
  <2>1. Total(cash') = Total(cash) + Total(lent)
    <3>1. cash \in [Firms -> Int] /\ lent \in [Firms -> Int] /\ cash' \in [Firms -> Int]
      BY <1>3, <1>4, <1>6
    <3> QED
      BY <1>5, <3>1, FirmSums
  <2>2. Total(cash) \in Nat
    BY <1>3, TotalNat
  <2> QED
    BY <1>2, <1>3, <1>4, <2>1, <2>2
<1>8. employer' \in [Households -> live \cup {NoOne}] /\ employer' \in [Households -> Firms \cup {NoOne}]
  BY <1>2, <1>3
\* The project gets a worker, or stays as it is.
<1>9. \/ project' = project
      \/ /\ project # NoProject /\ project.status = "authorized" /\ project.firm \in live
         /\ \E h \in Households : project' = [project EXCEPT !.status = "assigned", !.worker = h]
  BY <1>1 DEF Assigned
<1>10. project' \in {NoProject} \cup [firm : Firms, status : Status, worker : Households \cup {NoOne}] /\ ProjectCovered'
  <2>1. project \in {NoProject} \cup [firm : Firms, status : Status, worker : Households \cup {NoOne}]
    BY <1>0 DEF TypeOK
  <2>2. CASE project' = project
    BY <1>0, <1>1, <2>1, <2>2 DEF ProjectCovered
  <2>3. CASE project' # project
    <3>1. PICK h \in Households : project' = [project EXCEPT !.status = "assigned", !.worker = h]
      BY <1>9, <2>3
    <3>2. project # NoProject /\ project.status = "authorized" /\ restricted["project"] >= Quote
      BY <1>0, <1>9, <2>3 DEF ProjectCovered
    <3>3. /\ project' \in [firm : Firms, status : Status, worker : Households \cup {NoOne}]
          /\ project'.status = "assigned"
      BY <2>1, <3>1, <3>2 DEF Status
    <3> QED
      BY <1>1, <3>2, <3>3 DEF ProjectCovered
  <2> QED
    BY <2>2, <2>3
<1>11. TypeOK'
  BY <1>0, <1>1, <1>6, <1>7, <1>8, <1>10 DEF TypeOK
<1>12. Everything' = Everything
  <2>1. Total(cash') \in Nat
    BY <1>3, <1>6, TotalNat
  <2> QED
    BY <1>0, <1>1, <1>7, <2>1, TotalsTyped DEF Everything
<1>13. NothingOnTheWay'
  BY <1>0, <1>1 DEF NothingOnTheWay, Quiet
<1>14. GoneAreClean'
  <2>1. \A f \in Firms \ live : cash'[f] = 0 /\ \A h \in Households : employer'[h] # f
    BY <1>0, <1>3, <1>5, <1>8 DEF GoneAreClean
  <2> QED
    BY <1>0, <1>1, <2>1 DEF GoneAreClean
<1>15. PayrollReady'
  <2>1. ASSUME NEW f \in live \cap Funded PROVE WageBill(Staff(f)') <= cash'[f]
    <3>1. Staff(f)' = staff(plan, f) \cap kept
      BY <1>2, <1>3, <2>1 DEF Staff
    <3>2. WageBill(staff(plan, f) \cap kept) <= cash[f] + loan[f]
      BY <1>2, <2>1 DEF Affords
    <3> QED
      BY <1>3, <1>5, <2>1, <3>1, <3>2
  <2>2. \A h \in Households : employer'[h] # NoOne => MayWork(h, employer'[h])
    BY <1>2
  <2>3. \A h \in Households : employer'[h] # NoOne => MayWork(h, employer[h])'
    BY <1>1, <2>2 DEF MayWork
  <2>4. \A f \in live' \cap Funded : WageBill(Staff(f))' <= cash'[f]
    BY <1>1, <2>1 DEF WageBill
  <2> QED
    BY <2>3, <2>4 DEF PayrollReady
<1> QED
  BY <1>0, <1>1, <1>10, <1>11, <1>12, <1>13, <1>14, <1>15 DEF PInv, Reserved, OpeningMoney

-----------------------------------------------------------------------------
(* Income settlement *)

\* The dues of a firm are the wages of its staff.
LEMMA DueLaw ==
  ASSUME TypeOK, NEW f \in Firms
  PROVE  /\ Due(f) \in [Households -> Nat]
         /\ f \in live => Total(Due(f)) = WageBill(Staff(f))
<1>1. Wage \in [Households -> Nat] /\ IsFiniteSet(Households)
  BY Constants
<1>2. Due(f) \in [Households -> Nat]
  BY <1>1 DEF Due
<1>3. ASSUME f \in live PROVE Total(Due(f)) = WageBill(Staff(f))
  <2> DEFINE S == Staff(f)
             w == [h \in S |-> Wage[h]]
  <2>1. S \in SUBSET Households
    BY DEF Staff
  <2>2. Due(f) = [h \in Households |-> IF h \in S THEN w[h] ELSE 0]
    BY <1>3 DEF Due
  <2>3. w \in [S -> Int]
    BY <1>1, <2>1
  <2> HIDE DEF S, w
  <2>4. Total(w) = Total([h \in Households |-> IF h \in S THEN w[h] ELSE 0])
    BY <1>1, <2>1, <2>3, TotalExtend
  <2> QED
    BY <2>2, <2>4 DEF WageBill, S, w
<1> QED
  BY <1>2, <1>3

\* A firm pays no more than its cash: the week's dues first, then the claims, then its head.
LEMMA PayLaw ==
  ASSUME TypeOK, NEW f \in Firms
  PROVE  /\ Current(f) \in [Households -> Nat] /\ \A h \in Households : Current(f)[h] <= Due(f)[h]
         /\ Arrears(f) \in [Households -> Nat] /\ \A h \in Households : Arrears(f)[h] <= claims[f][h]
         /\ Total(Due(f)) <= cash[f] => Current(f) = Due(f)
         /\ Total(Current(f)) \in Nat /\ Total(Arrears(f)) \in Nat
         /\ CeoPay(f) \in Nat /\ (Ceo[f] = NoOne => CeoPay(f) = 0)
         /\ Total(Current(f)) + Total(Arrears(f)) + CeoPay(f) <= cash[f]
<1>1. IsFiniteSet(Households) /\ Households \in SUBSET Nat /\ CeoCap \in Nat /\ cash[f] \in Nat
  BY Types, Constants
<1>2. Due(f) \in [Households -> Nat] /\ claims[f] \in [Households -> Nat]
  <2>1. claims[f] \in [Households -> 0 .. MaxClaim] /\ MaxClaim \in Nat
    BY Types, Constants
  <2>2. claims[f] \in [Households -> Nat]
    BY <2>1
  <2> QED
    BY <2>2, DueLaw
<1>3. /\ Current(f) \in [Households -> Nat] /\ \A h \in Households : Current(f)[h] <= Due(f)[h]
      /\ Total(Current(f)) <= cash[f]
      /\ Total(Due(f)) <= cash[f] => Current(f) = Due(f)
  BY <1>1, <1>2, ProportionalLaw DEF Current
<1>4. Total(Current(f)) \in Nat /\ cash[f] - Total(Current(f)) \in Nat
  <2>1. Total(Current(f)) \in Nat
    BY <1>1, <1>3, TotalNat
  <2> QED
    BY <1>1, <1>3, <2>1
<1>5. /\ Arrears(f) \in [Households -> Nat] /\ \A h \in Households : Arrears(f)[h] <= claims[f][h]
      /\ Total(Arrears(f)) <= cash[f] - Total(Current(f))
  BY <1>1, <1>2, <1>4, ProportionalLaw, ZenonT(60) DEF Arrears
<1>6. Total(Arrears(f)) \in Nat /\ cash[f] - Total(Current(f)) - Total(Arrears(f)) \in Nat
  <2>1. Total(Arrears(f)) \in Nat
    BY <1>1, <1>5, TotalNat
  <2> QED
    BY <1>1, <1>4, <1>5, <2>1
<1>7. /\ CeoPay(f) \in Nat /\ CeoPay(f) <= cash[f] - Total(Current(f)) - Total(Arrears(f))
      /\ Ceo[f] = NoOne => CeoPay(f) = 0
  <2>1. /\ Min({CeoCap, cash[f] - Total(Current(f)) - Total(Arrears(f))}) \in Nat
        /\ Min({CeoCap, cash[f] - Total(Current(f)) - Total(Arrears(f))}) <= cash[f] - Total(Current(f)) - Total(Arrears(f))
    BY <1>1, <1>6, MinOfNats
  <2> QED
    BY <1>6, <2>1 DEF CeoPay
<1> QED
  BY <1>1, <1>3, <1>4, <1>5, <1>6, <1>7

LEMMA BenefitsLaw ==
  ASSUME TypeOK
  PROVE  /\ Benefits \in [Households -> Nat]
         /\ Total(Benefits) \in Nat /\ Total(Benefits) <= restricted["B"]
<1> DEFINE due == [h \in Households |-> IF h \in Jobless THEN Benefit ELSE 0]
<1>1. due \in [Households -> Nat] /\ Households \in SUBSET Nat /\ IsFiniteSet(Households) /\ restricted["B"] \in Nat
  BY Types, Constants DEF Names
<1>2. Benefits = Proportional(due, restricted["B"])
  BY DEF Benefits
<1> HIDE DEF due
<1>3. Benefits \in [Households -> Nat] /\ Total(Benefits) <= restricted["B"]
  BY <1>1, <1>2, ProportionalLaw
<1> QED
  BY <1>1, <1>3, TotalNat

\* What the workers receive is what the firms pay them and what was recovered for them.
LEMMA GrossLaw ==
  ASSUME TypeOK
  PROVE  LET gross == [h \in Households |-> Gross(h)]
             wages == [f \in Firms |-> Total(Current(f)) + Total(Arrears(f))]
         IN  /\ gross \in [Households -> Nat] /\ wages \in [Firms -> Nat]
             /\ Total(gross) = Total(wages) + Total(holds)
<1> DEFINE gross == [h \in Households |-> Gross(h)]
           wages == [f \in Firms |-> Total(Current(f)) + Total(Arrears(f))]
           m == [f \in Firms |-> [h \in Households |-> Current(f)[h] + Arrears(f)[h]]]
           byWorker == [h \in Households |-> Total([f \in Firms |-> m[f][h]])]
<1>1. IsFiniteSet(Households) /\ IsFiniteSet(Firms) /\ holds \in [Households -> Nat]
  BY Types, Constants
<1>2. /\ \A f \in Firms : /\ Current(f) \in [Households -> Nat] /\ Arrears(f) \in [Households -> Nat]
                          /\ Total(Current(f)) \in Nat /\ Total(Arrears(f)) \in Nat
  BY PayLaw
<1>3. wages \in [Firms -> Nat]
  BY <1>2
<1>4. m \in [Firms -> [Households -> Nat]]
  BY <1>2
<1>5. \A f \in Firms : Total(m[f]) = wages[f]
  <2> SUFFICES ASSUME NEW f \in Firms PROVE Total(m[f]) = wages[f]
    OBVIOUS
  <2>1. /\ Current(f) \in [Households -> Int] /\ Arrears(f) \in [Households -> Int] /\ m[f] \in [Households -> Int]
    BY <1>2
  <2>2. \A h \in Households : m[f][h] = Current(f)[h] + Arrears(f)[h]
    OBVIOUS
  <2> HIDE DEF m
  <2>3. Total(m[f]) = Total(Current(f)) + Total(Arrears(f))
    BY <2>1, <2>2, PurseSums
  <2> QED
    BY <2>3
<1>6. \A h \in Households : Gross(h) = byWorker[h] + holds[h]
  <2> SUFFICES ASSUME NEW h \in Households PROVE Gross(h) = byWorker[h] + holds[h]
    OBVIOUS
  <2>1. [f \in Firms |-> m[f][h]] = [f \in Firms |-> Current(f)[h] + Arrears(f)[h]]
    OBVIOUS
  <2> QED
    BY <2>1 DEF Gross
<1>7. \A h \in Households : Total([f \in Firms |-> m[f][h]]) \in Nat
  <2> SUFFICES ASSUME NEW h \in Households PROVE Total([f \in Firms |-> m[f][h]]) \in Nat
    OBVIOUS
  <2>1. [f \in Firms |-> m[f][h]] \in [Firms -> Nat]
    BY <1>4
  <2> QED
    BY <1>1, <2>1, TotalNat
<1>8. [f \in Firms |-> Total(m[f])] = wages
  BY <1>5
<1> HIDE DEF m
<1>9. byWorker \in [Households -> Nat]
  BY <1>7
<1>10. Total(byWorker) = Total(wages)
  <2>1. m \in [Firms -> [Households -> Int]]
    BY <1>4
  <2>2. Total([f \in Firms |-> Total(m[f])]) = Total(byWorker)
    BY <1>1, <2>1, TotalSwap
  <2> QED
    BY <1>8, <2>2
<1> HIDE DEF byWorker, wages
<1>11. gross \in [Households -> Nat] /\ \A h \in Households : gross[h] = byWorker[h] + holds[h]
  BY <1>1, <1>6, <1>9
<1> HIDE DEF gross
<1>12. Total(gross) = Total(byWorker) + Total(holds)
  <2>1. /\ gross \in [Households -> Int] /\ byWorker \in [Households -> Int] /\ holds \in [Households -> Int]
    BY <1>1, <1>9, <1>11
  <2> QED
    BY <1>11, <2>1, PurseSums
<1>13. gross \in [Households -> Nat] /\ wages \in [Firms -> Nat] /\ Total(gross) = Total(wages) + Total(holds)
  BY <1>3, <1>10, <1>11, <1>12
<1> QED
  BY <1>13 DEF gross, wages

\* The heads receive what the firms pay them.
LEMMA CeoLaw ==
  ASSUME TypeOK
  PROVE  LET heads == [f \in Firms |-> CeoPay(f)]
             got   == [h \in Households |-> CeoIncome(h)]
         IN  /\ heads \in [Firms -> Nat] /\ got \in [Households -> Nat]
             /\ Total(got) = Total(heads)
<1> DEFINE heads == [f \in Firms |-> CeoPay(f)]
           got == [h \in Households |-> CeoIncome(h)]
           of(h) == {g \in Firms : Ceo[g] = h}
<1>1. /\ IsFiniteSet(Firms) /\ IsFiniteSet(Households) /\ Ceo \in [Firms -> Households \cup {NoOne}]
      /\ \A f \in Firms : CeoPay(f) \in Nat /\ (Ceo[f] = NoOne => CeoPay(f) = 0)
  BY Constants, PayLaw
<1>2. heads \in [Firms -> Nat] /\ heads \in [Firms -> Int]
  BY <1>1
<1>3. \A x : [f \in of(x) |-> heads[f]] = [f \in of(x) |-> CeoPay(f)]
  OBVIOUS
<1>4. \A x : [f \in of(x) |-> heads[f]] \in [of(x) -> Nat] /\ IsFiniteSet(of(x))
  <2> SUFFICES ASSUME NEW x PROVE [f \in of(x) |-> heads[f]] \in [of(x) -> Nat] /\ IsFiniteSet(of(x))
    OBVIOUS
  <2>1. of(x) \in SUBSET Firms
    OBVIOUS
  <2>2. IsFiniteSet(of(x))
    BY <1>1, <2>1, FS_Subset
  <2> QED
    BY <1>1, <2>2
<1>5. \A x : Total([f \in of(x) |-> heads[f]]) \in Nat
  BY <1>4, TotalNat
<1>6. got = [h \in Households |-> Total([f \in of(h) |-> heads[f]])]
  BY <1>3 DEF CeoIncome
<1>7. Total([f \in of(NoOne) |-> heads[f]]) = 0
  <2>1. [f \in of(NoOne) |-> heads[f]] = [f \in of(NoOne) |-> 0]
    BY <1>1
  <2> QED
    BY <1>4, <2>1, TotalZero
<1> HIDE DEF heads
<1>8. Total([h \in Households |-> Total([f \in of(h) |-> heads[f]])]) + Total([f \in of(NoOne) |-> heads[f]])
        = Total([f \in Firms |-> heads[f]])
  <2>1. Firms \in SUBSET Firms
    OBVIOUS
  <2> QED
    BY <1>1, <1>2, <2>1, SharedByOwner
<1>9. [f \in Firms |-> heads[f]] = heads
  BY <1>2
<1> DEFINE none == Total([f \in of(NoOne) |-> heads[f]])
<1>9a. Total(got) + none = Total(heads) /\ none = 0
  BY <1>6, <1>7, <1>8, <1>9
<1> HIDE DEF of, none
<1>10. got \in [Households -> Nat]
  BY <1>5, <1>6
<1>11. Total(got) \in Nat
  BY <1>1, <1>10, TotalNat
<1> HIDE DEF got
<1>12. heads \in [Firms -> Nat] /\ got \in [Households -> Nat] /\ Total(got) = Total(heads)
  BY <1>2, <1>9a, <1>10, <1>11
<1> QED
  BY <1>12 DEF heads, got

LEMMA SettleIncomeKeeps ==
  ASSUME PInv, SettleIncome
  PROVE  PInv'
<1>0. /\ TypeOK /\ Everything = OpeningMoney /\ Reserved <= treasury /\ ~raised
      /\ NothingOnTheWay /\ GoneAreClean /\ ProjectCovered /\ PayrollReady
  BY DEF PInv
<1>1. /\ phase = "income" /\ phase' = "market" /\ ~raised /\ timing' = timing
      /\ UNCHANGED <<live, employer, rest, clearing, project, pending, slots, streak>>
      /\ raised' = PayrollShort
      /\ cash' = [f \in Firms |-> cash[f] - Paid(f)]
      /\ claims' = [f \in Firms |-> [h \in Households |->
                      claims[f][h] + Due(f)[h] - Current(f)[h] - Arrears(f)[h]]]
      /\ holds' = None(Households)
      /\ ceoHolds' = [h \in Households |-> ceoHolds[h] + CeoIncome(h)]
      /\ fullyPaid' = {h \in Households : \E f \in live : h \in Staff(f) /\ Current(f)[h] = Wage[h]}
  BY DEF SettleIncome, Moves
<1> DEFINE taxOf(rate) == Total([h \in Households |-> Tax(rate, h)])
<1>2. PICK rate \in {0, 2} :
        /\ treasury' = treasury + taxOf(rate) - Total(Benefits)
        /\ restricted' = [restricted EXCEPT !["withholding"] = @ + taxOf(rate), !["B"] = @ - Total(Benefits)]
        /\ purse' = [h \in Households |-> purse[h] + IF timing = "income_first" THEN Net(rate, h) ELSE 0]
        /\ late' = [h \in Households |-> late[h] + IF timing = "income_late" THEN Net(rate, h) ELSE 0]
  BY DEF SettleIncome
<1>3. /\ IsFiniteSet(Firms) /\ IsFiniteSet(Households) /\ MaxClaim \in Nat /\ Wage \in [Households -> Nat]
      /\ cash \in [Firms -> Nat] /\ purse \in [Households -> Nat] /\ late \in [Households -> Nat]
      /\ holds \in [Households -> Nat] /\ ceoHolds \in [Households -> Nat] /\ treasury \in Nat
      /\ restricted \in [Names -> Nat] /\ claims \in [Firms -> [Households -> 0 .. MaxClaim]]
      /\ live \subseteq Firms /\ Funded \subseteq Firms /\ NoOne \notin Firms
  BY <1>0, Types, Constants
<1>4. \A f \in Firms :
        /\ Due(f) \in [Households -> Nat]
        /\ Current(f) \in [Households -> Nat] /\ \A h \in Households : Current(f)[h] <= Due(f)[h]
        /\ Arrears(f) \in [Households -> Nat] /\ \A h \in Households : Arrears(f)[h] <= claims[f][h]
        /\ Total(Current(f)) \in Nat /\ Total(Arrears(f)) \in Nat /\ CeoPay(f) \in Nat
        /\ Total(Current(f)) + Total(Arrears(f)) + CeoPay(f) <= cash[f]
  BY <1>0, DueLaw, PayLaw
<1> DEFINE gross == [h \in Households |-> Gross(h)]
           wages == [f \in Firms |-> Total(Current(f)) + Total(Arrears(f))]
           heads == [f \in Firms |-> CeoPay(f)]
           got   == [h \in Households |-> CeoIncome(h)]
           taxes == [h \in Households |-> Tax(rate, h)]
           after == [h \in Households |-> Gross(h) - Tax(rate, h)]
           net   == [h \in Households |-> Net(rate, h)]
           paid  == [f \in Firms |-> Paid(f)]
           now   == [h \in Households |-> IF timing = "income_first" THEN Net(rate, h) ELSE 0]
           later == [h \in Households |-> IF timing = "income_late" THEN Net(rate, h) ELSE 0]
<1>5. gross \in [Households -> Nat] /\ wages \in [Firms -> Nat] /\ Total(gross) = Total(wages) + Total(holds)
  BY <1>0, GrossLaw
<1>6. heads \in [Firms -> Nat] /\ got \in [Households -> Nat] /\ Total(got) = Total(heads)
  BY <1>0, CeoLaw
<1>7. /\ Benefits \in [Households -> Nat] /\ Total(Benefits) \in Nat /\ Total(Benefits) <= restricted["B"]
  BY <1>0, BenefitsLaw
<1>8. \A h \in Households : Gross(h) \in Nat /\ Tax(rate, h) \in Nat /\ Tax(rate, h) <= Gross(h)
  <2> SUFFICES ASSUME NEW h \in Households PROVE Gross(h) \in Nat /\ Tax(rate, h) \in Nat /\ Tax(rate, h) <= Gross(h)
    OBVIOUS
  <2>1. Gross(h) \in Nat
    BY <1>5
  <2>2. \A n \in Nat : n \div 2 \in Nat /\ n \div 2 <= n
    OBVIOUS
  <2> QED
    BY <2>1, <2>2 DEF Tax
<1>9. /\ taxes \in [Households -> Nat] /\ after \in [Households -> Nat] /\ net \in [Households -> Nat]
      /\ now \in [Households -> Nat] /\ later \in [Households -> Nat]
      /\ \A h \in Households : after[h] = gross[h] - taxes[h] /\ net[h] = after[h] + Benefits[h]
  BY <1>7, <1>8 DEF Net
<1>10. /\ paid \in [Firms -> Nat] /\ \A f \in Firms : paid[f] = wages[f] + heads[f] /\ paid[f] <= cash[f]
  BY <1>4 DEF Paid
<1>11. /\ cash' \in [Firms -> Nat] /\ \A f \in Firms : cash'[f] = cash[f] - paid[f]
  BY <1>1, <1>3, <1>10
<1>12. /\ purse' \in [Households -> Nat] /\ late' \in [Households -> Nat] /\ ceoHolds' \in [Households -> Nat]
       /\ \A h \in Households : /\ purse'[h] = purse[h] + now[h] /\ late'[h] = late[h] + later[h]
                                /\ ceoHolds'[h] = ceoHolds[h] + got[h]
  <2>1. /\ purse' = [h \in Households |-> purse[h] + now[h]] /\ late' = [h \in Households |-> late[h] + later[h]]
        /\ ceoHolds' = [h \in Households |-> ceoHolds[h] + got[h]]
    BY <1>1, <1>2
  <2> HIDE DEF now, later, got
  <2> QED
    BY <1>3, <1>6, <1>9, <2>1
<1>13. Total(now) + Total(later) = Total(net) /\ Total(now) \in Nat /\ Total(later) \in Nat
  <2>1. \A h \in Households : net[h] = now[h] + later[h]
    <3>1. timing \in {"income_first", "income_late"}
      BY <1>0 DEF TypeOK
    <3>2. \A h \in Households : net[h] \in Nat /\ net[h] = Net(rate, h)
      BY <1>9
    <3> QED
      BY <3>1, <3>2
  <2>2. now \in [Households -> Int] /\ later \in [Households -> Int] /\ net \in [Households -> Int]
    BY <1>9
  <2>2a. now \in [Households -> Nat] /\ later \in [Households -> Nat]
    BY <1>9
  <2> HIDE DEF now, later, net
  <2>3. Total(net) = Total(now) + Total(later)
    BY <2>1, <2>2, PurseSums
  <2>4. Total(now) \in Nat
    BY <1>3, <2>2a, TotalNat
  <2>5. Total(later) \in Nat
    BY <1>3, <2>2a, TotalNat
  <2> QED
    BY <2>3, <2>4, <2>5
<1>14. taxOf(rate) = Total(taxes)
  OBVIOUS
<1> HIDE DEF gross, wages, heads, got, taxes, after, net, paid, now, later, taxOf
\* The sums.
<1>15. /\ Total(gross) \in Nat /\ Total(wages) \in Nat /\ Total(heads) \in Nat /\ Total(taxes) \in Nat
       /\ Total(paid) \in Nat
  BY <1>3, <1>5, <1>6, <1>9, <1>10, TotalNat
<1>16. Total(net) = Total(gross) - Total(taxes) + Total(Benefits)
  <2>1. /\ gross \in [Households -> Int] /\ taxes \in [Households -> Int] /\ after \in [Households -> Int]
        /\ net \in [Households -> Int] /\ Benefits \in [Households -> Int]
    BY <1>5, <1>7, <1>9
  <2>1a. \A h \in Households : after[h] = gross[h] - taxes[h]
    BY <1>9
  <2>2. Total(after) = Total(gross) - Total(taxes)
    BY <2>1, <2>1a, PurseSums
  <2>3. Total(net) = Total(after) + Total(Benefits)
    BY <1>9, <2>1, PurseSums
  <2> QED
    BY <2>2, <2>3
<1>17. Total(cash') = Total(cash) - Total(wages) - Total(heads)
  <2>1. /\ cash \in [Firms -> Int] /\ cash' \in [Firms -> Int] /\ paid \in [Firms -> Int] /\ wages \in [Firms -> Int]
        /\ heads \in [Firms -> Int]
    BY <1>3, <1>5, <1>6, <1>10, <1>11
  <2>2. Total(paid) = Total(wages) + Total(heads)
    BY <1>10, <2>1, FirmSums
  <2>3. Total(cash') = Total(cash) - Total(paid)
    BY <1>11, <2>1, FirmSums
  <2>4. Total(cash) \in Nat
    BY <1>3, TotalNat
  <2> QED
    BY <1>15, <2>2, <2>3, <2>4
<1>18. /\ Total(purse') = Total(purse) + Total(now) /\ Total(late') = Total(late) + Total(later)
       /\ Total(ceoHolds') = Total(ceoHolds) + Total(heads)
  <2>1. /\ purse \in [Households -> Int] /\ purse' \in [Households -> Int] /\ now \in [Households -> Int]
        /\ late \in [Households -> Int] /\ late' \in [Households -> Int] /\ later \in [Households -> Int]
        /\ ceoHolds \in [Households -> Int] /\ ceoHolds' \in [Households -> Int] /\ got \in [Households -> Int]
    BY <1>3, <1>6, <1>9, <1>12
  <2>2. Total(purse') = Total(purse) + Total(now)
    BY <1>12, <2>1, PurseSums
  <2>3. Total(late') = Total(late) + Total(later)
    BY <1>12, <2>1, PurseSums
  <2>4. Total(ceoHolds') = Total(ceoHolds) + Total(got)
    BY <1>12, <2>1, PurseSums
  <2> QED
    BY <1>6, <2>2, <2>3, <2>4
\* The promises.
<1>19. /\ restricted' \in [Names -> Nat] /\ restricted'["project"] = restricted["project"]
       /\ Total(restricted') = Reserved + Total(taxes) - Total(Benefits)
  <2> DEFINE r1 == [restricted EXCEPT !["withholding"] = @ + Total(taxes)]
             r2 == [r1 EXCEPT !["B"] = @ - Total(Benefits)]
  <2>1. "withholding" \in Names /\ "B" \in Names /\ "project" \in Names
    BY DEF Names
  <2>2. /\ restricted["withholding"] \in Nat /\ restricted["B"] \in Nat /\ restricted["B"] - Total(Benefits) \in Nat
        /\ restricted["withholding"] + Total(taxes) \in Nat
    BY <1>3, <1>7, <1>15, <2>1
  <2>3. restricted' = r2
    BY <1>2, <1>14
  <2>4. /\ r1 \in [Names -> Nat] /\ r1["withholding"] = restricted["withholding"] + Total(taxes)
        /\ \A n \in Names \ {"withholding"} : r1[n] = restricted[n]
    BY <1>3, <2>1, <2>2
  <2>5. Total(r1) = Reserved + Total(taxes)
    <3> HIDE DEF r1
    <3>1. Total(r1) = Total(restricted) + r1["withholding"] - restricted["withholding"] /\ Total(restricted) \in Nat
      BY <1>3, <2>1, <2>4, PromiseChanged
    <3> QED
      BY <1>15, <2>2, <2>4, <3>1 DEF Reserved
  <2> HIDE DEF r1
  <2>6. /\ r2 \in [Names -> Nat] /\ r2["B"] = restricted["B"] - Total(Benefits)
        /\ \A n \in Names \ {"B"} : r2[n] = r1[n]
    BY <2>1, <2>2, <2>4
  <2>7. Total(r2) = Reserved + Total(taxes) - Total(Benefits)
    <3> HIDE DEF r2
    <3>1. Total(r2) = Total(r1) + r2["B"] - r1["B"] /\ Total(r1) \in Nat
      BY <2>1, <2>4, <2>6, PromiseChanged
    <3>2. r1["B"] = restricted["B"]
      BY <2>1, <2>4
    <3>3. Reserved \in Nat
      BY <1>0, TotalsTyped
    <3>4. r2["B"] = restricted["B"] - Total(Benefits)
      BY <2>6
    <3> QED
      BY <1>7, <1>15, <2>2, <2>5, <3>1, <3>2, <3>3, <3>4
  <2>8. r2["project"] = restricted["project"]
    BY <2>1, <2>4, <2>6
  <2> HIDE DEF r2
  <2> QED
    BY <2>3, <2>6, <2>7, <2>8
<1>20. treasury' = treasury + Total(taxes) - Total(Benefits) /\ treasury' \in Nat /\ Total(restricted') <= treasury'
  <2>1. treasury' = treasury + Total(taxes) - Total(Benefits)
    BY <1>2, <1>14
  <2>2. Total(restricted') \in Nat
    BY <1>19, NamesFinite, TotalNat
  <2> QED
    BY <1>0, <1>3, <1>7, <1>15, <1>19, <2>1, <2>2, TotalsTyped
\* Nobody's claim gets too large, and nothing is claimed of a firm that is gone.
<1>21. claims' \in [Firms -> [Households -> 0 .. MaxClaim]]
  <2>1. ASSUME NEW f \in Firms, NEW h \in Households
        PROVE  claims[f][h] + Due(f)[h] - Current(f)[h] - Arrears(f)[h] \in 0 .. MaxClaim
    <3>1. /\ claims[f][h] \in 0 .. MaxClaim /\ Due(f)[h] \in Nat /\ Current(f)[h] \in Nat /\ Arrears(f)[h] \in Nat
          /\ Current(f)[h] <= Due(f)[h] /\ Arrears(f)[h] <= claims[f][h]
      BY <1>3, <1>4
    <3>2. claims[f][h] + Due(f)[h] <= MaxClaim
      <4>1. CASE h \in Staff(f) /\ f \in live
        <5>1. MayWork(h, f) /\ Due(f)[h] = Wage[h]
          BY <1>0, <1>1, <1>3, <4>1 DEF PayrollReady, Staff, Due
        <5> QED
          BY <5>1 DEF MayWork
      <4>2. CASE ~(h \in Staff(f) /\ f \in live)
        <5>1. Due(f)[h] = 0
          BY <4>2 DEF Due
        <5> QED
          BY <1>3, <3>1, <5>1
      <4> QED
        BY <4>1, <4>2
    <3> QED
      BY <1>3, <3>1, <3>2
  <2> QED
    BY <1>1, <2>1
<1>22. \A f \in Firms \ live : claims'[f] = None(Households) /\ cash'[f] = 0
  <2> SUFFICES ASSUME NEW f \in Firms \ live PROVE claims'[f] = None(Households) /\ cash'[f] = 0
    OBVIOUS
  <2>1. claims[f] = None(Households) /\ cash[f] = 0 /\ \A h \in Households : claims[f][h] = 0 /\ Due(f)[h] = 0
    BY <1>0 DEF GoneAreClean, None, Due
  <2>2. \A h \in Households : /\ Current(f)[h] \in Nat /\ Current(f)[h] <= 0
                              /\ Arrears(f)[h] \in Nat /\ Arrears(f)[h] <= 0
    BY <1>4, <2>1
  <2>3. \A h \in Households : claims[f][h] + Due(f)[h] - Current(f)[h] - Arrears(f)[h] = 0
    BY <2>1, <2>2
  <2>4. claims'[f] = [h \in Households |-> 0]
    BY <1>1, <2>3
  <2>5. cash'[f] = 0
    BY <1>10, <1>11, <2>1
  <2> QED
    BY <2>4, <2>5 DEF None
\* The private payrolls were funded.
<1>23. raised' = FALSE
  <2>1. ASSUME NEW f \in live \cap Funded PROVE ~(Total(Current(f)) < WageBill(Staff(f)))
    <3>1. f \in Firms /\ WageBill(Staff(f)) <= cash[f]
      BY <1>0, <1>1, <1>3, <2>1 DEF PayrollReady
    <3>2. Total(Due(f)) = WageBill(Staff(f))
      BY <1>0, <2>1, <3>1, DueLaw
    <3>3. Current(f) = Due(f)
      BY <1>0, <3>1, <3>2, PayLaw
    <3>4. Total(Current(f)) \in Nat
      BY <1>4, <3>1
    <3> QED
      BY <3>2, <3>3, <3>4
  <2> QED
    BY <1>1, <2>1 DEF PayrollShort
<1>24. None(Households) \in [Households -> Nat] /\ Total(None(Households)) = 0
  BY <1>3, NoneTotal
<1>25. TypeOK'
  BY <1>0, <1>1, <1>11, <1>12, <1>19, <1>20, <1>21, <1>23, <1>24 DEF TypeOK
<1>26. Everything' = Everything
  <2>1. Total(holds') = 0 /\ rest' = rest /\ Total(clearing') = Total(clearing)
    BY <1>1, <1>24
  <2>2. Total(now) + Total(later) = Total(wages) + Total(holds) - Total(taxes) + Total(Benefits)
    BY <1>0, <1>5, <1>7, <1>13, <1>15, <1>16, TotalsTyped
  <2> QED
    BY <1>0, <1>7, <1>13, <1>15, <1>17, <1>18, <1>20, <2>1, <2>2, TotalsTyped DEF Everything
<1>27. NothingOnTheWay' /\ PayrollReady'
  BY <1>0, <1>1 DEF NothingOnTheWay, PayrollReady, Quiet
<1>28. GoneAreClean'
  BY <1>0, <1>1, <1>22 DEF GoneAreClean
<1>29. ProjectCovered'
  BY <1>0, <1>1, <1>19 DEF ProjectCovered
<1> QED
  BY <1>0, <1>1, <1>20, <1>23, <1>25, <1>26, <1>27, <1>28, <1>29 DEF PInv, Reserved, OpeningMoney

-----------------------------------------------------------------------------
(* Exits *)

\* What a closing firm has goes to its tax, its workers and the residual.
LEMMA ExitLaw ==
  ASSUME TypeOK, NEW f \in Firms
  PROVE  /\ ExitTax(f) \in Nat /\ Residual(f) \in Nat
         /\ Recovered(f) \in [Households -> Nat] /\ Total(Recovered(f)) \in Nat
         /\ cash[f] = ExitTax(f) + Total(Recovered(f)) + Residual(f)
<1>1. cash[f] \in Nat /\ pending[f] \in Nat /\ MaxOutlay \in Nat /\ claims[f] \in [Households -> Nat]
      /\ IsFiniteSet(Households) /\ Households \subseteq Nat
  BY Types, Constants
<1>2. ExitTax(f) \in Nat /\ ExitTax(f) <= cash[f]
  BY <1>1, MinOfNats DEF ExitTax
<1>3. cash[f] - ExitTax(f) \in Nat
  BY <1>1, <1>2
<1>4. /\ Recovered(f) \in [Households -> Nat] /\ Total(Recovered(f)) <= cash[f] - ExitTax(f)
  BY <1>1, <1>3, ProportionalLaw DEF Recovered
<1>5. Total(Recovered(f)) \in Nat
  BY <1>1, <1>4, TotalNat
<1> QED
  BY <1>1, <1>2, <1>3, <1>4, <1>5 DEF Residual

\* The workers hold what the closing firms' claims recovered.
LEMMA RecoveryLaw ==
  ASSUME TypeOK
  PROVE  LET byWorker == [h \in Households |-> Total([f \in Closing |-> Recovered(f)[h]])]
         IN  /\ byWorker \in [Households -> Nat]
             /\ Total(byWorker) = Total([f \in Closing |-> Total(Recovered(f))])
<1> DEFINE m == [f \in Closing |-> [h \in Households |-> Recovered(f)[h]]]
           byWorker == [h \in Households |-> Total([f \in Closing |-> Recovered(f)[h]])]
<1>1. IsFiniteSet(Households) /\ IsFiniteSet(Firms) /\ Closing \in SUBSET Firms
  BY Types, Constants DEF Closing
<1>2. IsFiniteSet(Closing)
  BY <1>1, FS_Subset
<1>3. \A f \in Closing : Recovered(f) \in [Households -> Nat]
  BY <1>1, ExitLaw
<1>4. m \in [Closing -> [Households -> Nat]] /\ \A f \in Closing : m[f] = Recovered(f)
  BY <1>3
<1>5. \A h \in Households : [f \in Closing |-> m[f][h]] = [f \in Closing |-> Recovered(f)[h]]
  OBVIOUS
<1>6. [f \in Closing |-> Total(m[f])] = [f \in Closing |-> Total(Recovered(f))]
  BY <1>4
<1>7. [h \in Households |-> Total([f \in Closing |-> m[f][h]])] = byWorker
  BY <1>5
<1>8. \A h \in Households : Total([f \in Closing |-> Recovered(f)[h]]) \in Nat
  <2> SUFFICES ASSUME NEW h \in Households PROVE Total([f \in Closing |-> Recovered(f)[h]]) \in Nat
    OBVIOUS
  <2>1. [f \in Closing |-> Recovered(f)[h]] \in [Closing -> Nat]
    BY <1>3
  <2> QED
    BY <1>2, <2>1, TotalNat
<1> HIDE DEF m
<1>9. Total([f \in Closing |-> Total(m[f])]) = Total([h \in Households |-> Total([f \in Closing |-> m[f][h]])])
  <2>1. m \in [Closing -> [Households -> Int]]
    BY <1>4
  <2> QED
    BY <1>1, <1>2, <2>1, TotalSwap
<1> QED
  BY <1>6, <1>7, <1>8, <1>9

LEMMA ExitsKeeps ==
  ASSUME PInv, Exits
  PROVE  PInv'
<1>0. /\ TypeOK /\ Everything = OpeningMoney /\ Reserved <= treasury /\ ~raised
      /\ NothingOnTheWay /\ GoneAreClean /\ ProjectCovered /\ PayrollReady
  BY DEF PInv
<1> DEFINE creditors(repaid, f) == Min({repaid[f], Residual(f)})
           leftover(repaid, f)  == Residual(f) - creditors(repaid, f)
           recovered == [h \in Households |-> Total([f \in Closing |-> Recovered(f)[h]])]
<1>1. /\ phase = "exits" /\ phase' = "entry" /\ ~raised /\ timing' = timing
      /\ treasury' = treasury + Total([f \in Closing |-> ExitTax(f)])
      /\ holds' = [h \in Households |-> holds[h] + Total([f \in Closing |-> Recovered(f)[h]])]
      /\ claims' = [f \in Firms |-> IF f \in Closing THEN None(Households) ELSE claims[f]]
      /\ cash' = [f \in Firms |-> IF f \in Closing THEN 0 ELSE cash[f]]
      /\ pending' = [f \in Firms |-> IF f \in Closing THEN 0 ELSE pending[f]]
      /\ slots' = slots \ Closing
      /\ project' = IF project # NoProject /\ project.firm \in Closing /\ project.status \in {"authorized", "assigned"}
                    THEN [project EXCEPT !.status = "cancelled"] ELSE project
      /\ live' = live \ Closing
      /\ employer' = [h \in Households |-> IF employer[h] \in Closing THEN NoOne ELSE employer[h]]
      /\ streak' = [f \in Firms |-> IF f \in Closing THEN 0 ELSE streak[f]]
      /\ UNCHANGED <<clearing, ceoHolds, late, restricted, fullyPaid, raised>>
  BY DEF Exits, Moves, SlotsAfterExits
<1>2. PICK repaid \in [Closing -> 0 .. MaxOutlay] :
        /\ rest' = rest + Total([f \in Closing |-> creditors(repaid, f)])
                        + Total([f \in OwnedBy(NoOne) |-> leftover(repaid, f)])
        /\ purse' = [h \in Households |-> purse[h] + Total([f \in OwnedBy(h) |-> leftover(repaid, f)])]
  BY DEF Exits
<1>3. /\ IsFiniteSet(Firms) /\ IsFiniteSet(Households) /\ MaxOutlay \in Nat
      /\ Owner \in [Firms -> Households \cup {NoOne}] /\ NoOne \notin Firms /\ NoOne \notin Households
      /\ ZeroCashMax \in Nat /\ MaxClaim \in Nat
  BY Constants
<1>4. /\ cash \in [Firms -> Nat] /\ purse \in [Households -> Nat] /\ holds \in [Households -> Nat]
      /\ treasury \in Nat /\ rest \in Nat /\ live \subseteq Firms /\ restricted \in [Names -> Nat]
      /\ claims \in [Firms -> [Households -> 0 .. MaxClaim]] /\ pending \in [Firms -> Nat] /\ slots \subseteq Firms
      /\ employer \in [Households -> Firms \cup {NoOne}]
  BY <1>0, Types
<1>5. Closing \in SUBSET Firms /\ Closing \subseteq live /\ IsFiniteSet(Closing)
  <2>1. Closing \subseteq live
    BY DEF Closing
  <2> QED
    BY <1>3, <1>4, <2>1, FS_Subset
<1>6. \A f \in Firms :
        /\ ExitTax(f) \in Nat /\ Residual(f) \in Nat /\ Total(Recovered(f)) \in Nat
        /\ cash[f] = ExitTax(f) + Total(Recovered(f)) + Residual(f)
  BY <1>0, ExitLaw
<1>7. \A f \in Closing : /\ creditors(repaid, f) \in Nat /\ leftover(repaid, f) \in Nat
                         /\ creditors(repaid, f) + leftover(repaid, f) = Residual(f)
  <2> SUFFICES ASSUME NEW f \in Closing
               PROVE  /\ creditors(repaid, f) \in Nat /\ leftover(repaid, f) \in Nat
                      /\ creditors(repaid, f) + leftover(repaid, f) = Residual(f)
    OBVIOUS
  <2>1. repaid[f] \in Nat /\ Residual(f) \in Nat
    BY <1>3, <1>5, <1>6
  <2>2. Min({repaid[f], Residual(f)}) \in Nat /\ Min({repaid[f], Residual(f)}) <= Residual(f)
    BY <2>1, MinOfNats
  <2> QED
    BY <2>1, <2>2
<1> HIDE DEF creditors, leftover
<1> DEFINE taxes == [f \in Closing |-> ExitTax(f)]
           claimed == [f \in Closing |-> Total(Recovered(f))]
           lent == [f \in Closing |-> creditors(repaid, f)]
           left == [f \in Closing |-> leftover(repaid, f)]
           first == [f \in Closing |-> ExitTax(f) + Total(Recovered(f))]
           second == [f \in Closing |-> Residual(f)]
           had == [f \in Closing |-> cash[f]]
           gone == [f \in Firms |-> IF f \in Closing THEN had[f] ELSE 0]
           share == [f \in Firms |-> IF f \in Closing THEN leftover(repaid, f) ELSE 0]
           inherited == [h \in Households |-> Total([f \in OwnedBy(h) |-> leftover(repaid, f)])]
           ownerless == Total([f \in OwnedBy(NoOne) |-> leftover(repaid, f)])
<1>8. recovered \in [Households -> Nat] /\ Total(recovered) = Total(claimed)
  BY <1>0, RecoveryLaw
\* The owners and the pool share what is left.
<1>9. /\ inherited \in [Households -> Nat] /\ ownerless \in Nat
      /\ Total(inherited) + ownerless = Total(left)
  <2>1. \A x : OwnedBy(x) = {g \in Closing : Owner[g] = x} /\ OwnedBy(x) \subseteq Closing /\ IsFiniteSet(OwnedBy(x))
    <3>1. \A x : OwnedBy(x) = {g \in Closing : Owner[g] = x} /\ OwnedBy(x) \subseteq Closing
      BY DEF OwnedBy
    <3> QED
      BY <1>5, <3>1, FS_Subset
  <2>2. \A x : Total([f \in OwnedBy(x) |-> leftover(repaid, f)]) \in Nat
    <3> SUFFICES ASSUME NEW x PROVE Total([f \in OwnedBy(x) |-> leftover(repaid, f)]) \in Nat
      OBVIOUS
    <3>1. [f \in OwnedBy(x) |-> leftover(repaid, f)] \in [OwnedBy(x) -> Nat]
      BY <1>7, <2>1
    <3> QED
      BY <2>1, <3>1, TotalNat
  <2>3. share \in [Firms -> Int]
    BY <1>5, <1>7
  <2>4. \A x : [f \in {g \in Closing : Owner[g] = x} |-> share[f]] = [f \in OwnedBy(x) |-> leftover(repaid, f)]
    BY <1>5, <2>1
  <2>5. [f \in Closing |-> share[f]] = left
    BY <1>5
  <2>6. [h \in Households |-> Total([f \in {g \in Closing : Owner[g] = h} |-> share[f]])] = inherited
    BY <2>4
  <2> HIDE DEF share
  <2>7. Total([h \in Households |-> Total([f \in {g \in Closing : Owner[g] = h} |-> share[f]])])
          + Total([f \in {g \in Closing : Owner[g] = NoOne} |-> share[f]]) = Total([f \in Closing |-> share[f]])
    <3>1. \A S \in SUBSET Firms, v \in [Firms -> Int], owner \in [Firms -> Households \cup {NoOne}] :
            Total([h \in Households |-> Total([f \in {g \in S : owner[g] = h} |-> v[f]])])
              + Total([f \in {g \in S : owner[g] = NoOne} |-> v[f]]) = Total([f \in S |-> v[f]])
      BY SharedByOwner
    <3>2. Closing \in SUBSET Firms /\ Owner \in [Firms -> Households \cup {NoOne}]
      BY <1>3, <1>5
    <3> QED
      BY <2>3, <3>1, <3>2
  <2>8. Total([f \in {g \in Closing : Owner[g] = NoOne} |-> share[f]]) = ownerless
    BY <2>4
  <2> QED
    BY <2>2, <2>5, <2>6, <2>7, <2>8
\* The sums over the closing firms.
<1>10. /\ taxes \in [Closing -> Nat] /\ claimed \in [Closing -> Nat] /\ lent \in [Closing -> Nat]
       /\ left \in [Closing -> Nat] /\ first \in [Closing -> Nat] /\ second \in [Closing -> Nat]
       /\ had \in [Closing -> Nat]
  BY <1>4, <1>5, <1>6, <1>7
<1>11. /\ \A f \in Closing : first[f] = taxes[f] + claimed[f]
       /\ \A f \in Closing : second[f] = lent[f] + left[f]
       /\ \A f \in Closing : had[f] = first[f] + second[f]
  BY <1>5, <1>6, <1>7
<1>12. gone \in [Firms -> Nat] /\ cash' \in [Firms -> Nat] /\ \A f \in Firms : cash'[f] = cash[f] - gone[f]
  BY <1>1, <1>4, <1>5
<1>13. gone = [f \in Firms |-> IF f \in Closing THEN had[f] ELSE 0]
  OBVIOUS
<1>14. /\ treasury' = treasury + Total(taxes) /\ rest' = rest + Total(lent) + ownerless
       /\ \A h \in Households : holds'[h] = holds[h] + recovered[h] /\ purse'[h] = purse[h] + inherited[h]
       /\ holds' \in [Households -> Nat] /\ purse' \in [Households -> Nat]
  <2>1. /\ holds' = [h \in Households |-> holds[h] + recovered[h]]
        /\ purse' = [h \in Households |-> purse[h] + inherited[h]]
    BY <1>1, <1>2
  <2>2. treasury' = treasury + Total(taxes) /\ rest' = rest + Total(lent) + ownerless
    BY <1>1, <1>2
  <2> HIDE DEF recovered, inherited, taxes, lent, ownerless
  <2> QED
    BY <1>4, <1>8, <1>9, <2>1, <2>2
<1> HIDE DEF taxes, claimed, lent, left, first, second, had, gone, share, inherited, ownerless, recovered
<1>15. /\ Total(taxes) \in Nat /\ Total(claimed) \in Nat /\ Total(lent) \in Nat /\ Total(left) \in Nat
  BY <1>5, <1>10, TotalNat
<1>16. Total(had) = Total(taxes) + Total(claimed) + Total(lent) + Total(left)
  <2>1. /\ taxes \in [Closing -> Int] /\ claimed \in [Closing -> Int] /\ lent \in [Closing -> Int]
        /\ left \in [Closing -> Int] /\ first \in [Closing -> Int] /\ second \in [Closing -> Int]
        /\ had \in [Closing -> Int]
    BY <1>10
  <2>2. \A f, g, k \in [Closing -> Int] : (\A x \in Closing : k[x] = f[x] + g[x]) => Total(k) = Total(f) + Total(g)
    BY <1>5, TotalPointwise
  <2>3. Total(first) = Total(taxes) + Total(claimed)
    BY <1>11, <2>1, <2>2
  <2>4. Total(second) = Total(lent) + Total(left)
    BY <1>11, <2>1, <2>2
  <2>5. Total(had) = Total(first) + Total(second)
    BY <1>11, <2>1, <2>2
  <2> QED
    BY <1>15, <2>3, <2>4, <2>5
<1>17. Total(cash') = Total(cash) - Total(had)
  <2>1. /\ cash \in [Firms -> Int] /\ cash' \in [Firms -> Int] /\ gone \in [Firms -> Int] /\ had \in [Closing -> Int]
    BY <1>4, <1>10, <1>12
  <2>2. Total(had) = Total(gone)
    BY <1>3, <1>5, <1>13, <2>1, TotalExtend
  <2>3. Total(cash') = Total(cash) - Total(gone)
    BY <1>12, <2>1, FirmSums
  <2> QED
    BY <2>2, <2>3
<1>18. Total(holds') = Total(holds) + Total(claimed) /\ Total(purse') = Total(purse) + Total(inherited)
  <2>1. /\ holds \in [Households -> Int] /\ holds' \in [Households -> Int] /\ recovered \in [Households -> Int]
        /\ purse \in [Households -> Int] /\ purse' \in [Households -> Int] /\ inherited \in [Households -> Int]
    BY <1>4, <1>8, <1>9, <1>14
  <2>1a. /\ \A h \in Households : holds'[h] = holds[h] + recovered[h]
         /\ \A h \in Households : purse'[h] = purse[h] + inherited[h]
    BY <1>14
  <2>2. Total(holds') = Total(holds) + Total(recovered)
    BY <2>1, <2>1a, PurseSums
  <2>3. Total(purse') = Total(purse) + Total(inherited)
    BY <2>1, <2>1a, PurseSums
  <2> QED
    BY <1>8, <2>2, <2>3
<1>19. Everything' = Everything
  <2>1. Total(inherited) \in Nat
    BY <1>3, <1>9, TotalNat
  <2>2. Total(clearing') = Total(clearing) /\ Total(ceoHolds') = Total(ceoHolds) /\ Total(late') = Total(late)
    BY <1>1
  <2> QED
    BY <1>0, <1>9, <1>14, <1>15, <1>16, <1>17, <1>18, <2>1, <2>2, TotalsTyped DEF Everything
<1>20. treasury' \in Nat /\ rest' \in Nat /\ Total(restricted') <= treasury'
  <2>1. Reserved \in Nat /\ Total(restricted') = Reserved
    BY <1>0, <1>1, TotalsTyped DEF Reserved
  <2> QED
    BY <1>0, <1>4, <1>9, <1>14, <1>15, <2>1
<1>21. None(Households) \in [Households -> 0 .. MaxClaim]
  BY <1>3 DEF None
<1>22. /\ live' \subseteq Firms /\ slots' \subseteq Firms /\ employer' \in [Households -> Firms \cup {NoOne}]
       /\ claims' \in [Firms -> [Households -> 0 .. MaxClaim]] /\ pending' \in [Firms -> Nat]
  BY <1>1, <1>4, <1>21
<1>23. /\ streak' \in [Firms -> 0 .. ZeroCashMax]
       /\ project' \in {NoProject} \cup [firm : Firms, status : Status, worker : Households \cup {NoOne}]
  <2>1. /\ streak \in [Firms -> 0 .. ZeroCashMax]
        /\ project \in {NoProject} \cup [firm : Firms, status : Status, worker : Households \cup {NoOne}]
    BY <1>0 DEF TypeOK
  <2>2. streak' \in [Firms -> 0 .. ZeroCashMax]
    BY <1>1, <1>3, <2>1
  <2>3. project' \in {NoProject} \cup [firm : Firms, status : Status, worker : Households \cup {NoOne}]
    BY <1>1, <2>1 DEF Status
  <2> QED
    BY <2>2, <2>3
<1>24. TypeOK'
  BY <1>0, <1>1, <1>12, <1>14, <1>20, <1>22, <1>23 DEF TypeOK
<1>25. NothingOnTheWay' /\ PayrollReady'
  BY <1>0, <1>1 DEF NothingOnTheWay, PayrollReady, Quiet
<1>26. GoneAreClean'
  <2> SUFFICES ASSUME NEW f \in Firms \ live'
               PROVE  /\ claims'[f] = None(Households) /\ cash'[f] = 0 /\ pending'[f] = 0
                      /\ clearing'[f] = 0 /\ f \notin slots' /\ \A h \in Households : employer'[h] # f
    BY <1>1 DEF GoneAreClean, None
  <2>1. clearing[f] = 0
    BY <1>0, <1>1 DEF NothingOnTheWay, Quiet, None
  <2>2. CASE f \in Closing
    BY <1>1, <1>3, <2>1, <2>2
  <2>3. CASE f \notin Closing
    <3>1. /\ claims[f] = None(Households) /\ cash[f] = 0 /\ pending[f] = 0
          /\ f \notin slots /\ \A h \in Households : employer[h] # f
      BY <1>0, <1>1, <2>3 DEF GoneAreClean
    <3> QED
      BY <1>1, <1>3, <2>1, <2>3, <3>1
  <2> QED
    BY <2>2, <2>3
<1>27. ProjectCovered'
  <2>1. project \in {NoProject} \cup [firm : Firms, status : Status, worker : Households \cup {NoOne}]
    BY <1>0 DEF TypeOK
  <2> QED
    BY <1>0, <1>1, <2>1 DEF ProjectCovered, Status
<1> QED
  BY <1>0, <1>1, <1>19, <1>20, <1>24, <1>25, <1>26, <1>27 DEF PInv, Reserved, OpeningMoney

-----------------------------------------------------------------------------
(* The theorems *)

\* A run opens with the opening money in the pockets and nothing promised.
LEMMA InitHolds == Init => PInv
<1> SUFFICES ASSUME Init PROVE PInv
  OBVIOUS
<1>1. /\ timing \in {"income_first", "income_late"} /\ phase = "fiscal" /\ live = Firms
      /\ employer = [h \in Households |-> NoOne]
      /\ cash = [f \in Firms |-> OpeningCash] /\ purse = [h \in Households |-> OpeningCash]
      /\ treasury = OpeningTreasury /\ rest = OpeningRest
      /\ clearing = None(Firms) /\ claims = [f \in Firms |-> None(Households)]
      /\ holds = None(Households) /\ ceoHolds = None(Households) /\ late = None(Households)
      /\ restricted = None(Names) /\ project = NoProject /\ pending = None(Firms) /\ slots = {}
      /\ fullyPaid = {} /\ streak = None(Firms) /\ raised = FALSE
  BY DEF Init
<1>2. /\ IsFiniteSet(Firms) /\ IsFiniteSet(Households) /\ IsFiniteSet(Names) /\ MaxClaim \in Nat
      /\ OpeningCash \in Nat /\ OpeningTreasury \in Nat /\ OpeningRest \in Nat /\ ZeroCashMax \in Nat
  BY Constants, NamesFinite
<1>3. /\ Total(clearing) = 0 /\ Total(holds) = 0 /\ Total(ceoHolds) = 0 /\ Total(late) = 0 /\ Reserved = 0
  BY <1>1, <1>2, NoneTotal DEF Reserved
<1>4. Total(cash) = OpeningCash * Cardinality(Firms) /\ Total(purse) = OpeningCash * Cardinality(Households)
  <2>1. OpeningCash \in Int
    BY <1>2
  <2> QED
    BY <1>1, <1>2, <2>1, TotalConst
<1>5. Everything = OpeningMoney
  <2>1. Cardinality(Firms) \in Nat /\ Cardinality(Households) \in Nat
    BY <1>2, FS_CardinalityType
  <2>2. \A a, b, c \in Nat : a * b + a * c = a * (b + c) /\ a * b \in Nat /\ a * c \in Nat
    OBVIOUS
  <2>3. /\ OpeningCash * Cardinality(Firms) + OpeningCash * Cardinality(Households)
             = OpeningCash * (Cardinality(Firms) + Cardinality(Households))
        /\ OpeningCash * Cardinality(Firms) \in Nat /\ OpeningCash * Cardinality(Households) \in Nat
    BY <1>2, <2>1, <2>2
  <2> QED
    BY <1>1, <1>2, <1>3, <1>4, <2>3 DEF Everything, OpeningMoney
<1>6. TypeOK
  <2>1. /\ None(Firms) \in [Firms -> Nat] /\ None(Households) \in [Households -> Nat]
        /\ None(Households) \in [Households -> 0 .. MaxClaim] /\ None(Names) \in [Names -> Nat]
        /\ None(Firms) \in [Firms -> 0 .. ZeroCashMax]
    BY <1>2 DEF None
  <2>2. /\ cash \in [Firms -> Nat] /\ purse \in [Households -> Nat] /\ treasury \in Nat /\ rest \in Nat
        /\ claims \in [Firms -> [Households -> 0 .. MaxClaim]] /\ raised \in BOOLEAN
        /\ employer \in [Households -> Firms \cup {NoOne}]
    BY <1>1, <1>2, <2>1
  <2> QED
    BY <1>1, <2>1, <2>2 DEF TypeOK
<1>7. NothingOnTheWay /\ GoneAreClean /\ ProjectCovered /\ PayrollReady
  BY <1>1 DEF NothingOnTheWay, GoneAreClean, ProjectCovered, PayrollReady
<1> QED
  BY <1>1, <1>2, <1>3, <1>5, <1>6, <1>7 DEF PInv

LEMMA StutterKeeps ==
  ASSUME PInv, UNCHANGED vars
  PROVE  PInv'
<1>1. /\ timing' = timing /\ phase' = phase /\ live' = live /\ employer' = employer /\ cash' = cash
      /\ purse' = purse /\ treasury' = treasury /\ rest' = rest /\ clearing' = clearing /\ claims' = claims
      /\ holds' = holds /\ ceoHolds' = ceoHolds /\ late' = late /\ restricted' = restricted
      /\ project' = project /\ fullyPaid' = fullyPaid /\ pending' = pending /\ slots' = slots
      /\ streak' = streak /\ raised' = raised
  BY DEF vars, money, book, state
<1>2. TypeOK' /\ Everything' = Everything /\ Reserved' = Reserved
  BY <1>1 DEF PInv, TypeOK, Everything, Reserved
<1>3. NothingOnTheWay' /\ GoneAreClean' /\ ProjectCovered'
  BY <1>1 DEF PInv, NothingOnTheWay, GoneAreClean, ProjectCovered
<1>4. PayrollReady'
  <2>1. /\ \A f : WageBill(Staff(f))' = WageBill(Staff(f))
        /\ \A h, f : MayWork(h, f)' = MayWork(h, f)
    BY <1>1 DEF WageBill, Staff, MayWork
  <2> QED
    BY <1>1, <2>1 DEF PInv, PayrollReady
<1> QED
  BY <1>1, <1>2, <1>3, <1>4 DEF PInv, OpeningMoney

THEOREM Solvent == Spec => []PInv
<1>1. PInv /\ Next => PInv'
  BY OpenWeekKeeps, FundPayrollKeeps, SettleIncomeKeeps, SaleKeeps, EndMarketKeeps, SettleFirmsKeeps,
     InstitutionalCloseKeeps, ExitsKeeps, EntryKeeps, FiscalCloseKeeps DEF Next
<1>2. PInv /\ [Next]_vars => PInv'
  BY <1>1, StutterKeeps
<1> QED
  BY <1>2, InitHolds, PTL DEF Spec

\* No pocket is overdrawn and no phase mints or loses money, however many firms and households
\* there are (PaymentBook's cash movements).
THEOREM MoneyIsConserved == Spec => []MoneyConserved
<1>1. PInv => MoneyConserved
  BY DEF PInv, MoneyConserved, OpeningMoney
<1> QED
  BY <1>1, Solvent, PTL

\* The treasury always holds what it has reserved, and no guard of the payment book fires.
THEOREM PromisesAreCovered == Spec => []PromisesCovered
<1>1. PInv => PromisesCovered
  BY DEF PInv, PromisesCovered
<1> QED
  BY <1>1, Solvent, PTL

\* A firm that is gone keeps no cash, claim, receipt, slot or worker, and a week starts with
\* nothing in clearing and nothing deferred.
THEOREM NothingIsStranded == Spec => []NothingStranded
<1>1. PInv => NothingStranded
  <2> SUFFICES ASSUME PInv PROVE NothingStranded
    OBVIOUS
  <2>1. NothingOnTheWay /\ GoneAreClean /\ ProjectCovered
    BY DEF PInv
  <2>2. Total(None(Firms)) = 0 /\ Total(None(Households)) = 0
    BY Constants, NoneTotal
  <2>3. \A f \in Firms \ live : /\ Owed(f) = 0 /\ cash[f] = 0 /\ pending[f] = 0
                                /\ clearing[f] = 0 /\ f \notin slots /\ Staff(f) = {}
    BY <2>1, <2>2 DEF GoneAreClean, Owed, Staff
  <2>4. project # NoProject /\ project.status = "authorized" => project.firm \in live
    BY <2>1 DEF ProjectCovered
  <2>5. phase \in {"open", "labor", "income"} => Total(clearing) + Total(late) + Total(ceoHolds) = 0
    BY <2>1, <2>2 DEF NothingOnTheWay, Quiet
  <2> QED
    BY <2>3, <2>4, <2>5 DEF NothingStranded
<1> QED
  BY <1>1, Solvent, PTL

\* Dues and claims take all the cash of a firm unless it settles them in full.
LEMMA PaidOut ==
  ASSUME TypeOK, NEW f \in Firms
  PROVE  \/ Current(f) = Due(f) /\ Arrears(f) = claims[f]
         \/ Total(Current(f)) + Total(Arrears(f)) = cash[f] /\ CeoPay(f) = 0
<1>1. IsFiniteSet(Households) /\ Households \in SUBSET Nat /\ cash[f] \in Nat
  BY Types, Constants
<1>2. Due(f) \in [Households -> Nat] /\ claims[f] \in [Households -> Nat]
  <2>1. claims[f] \in [Households -> 0 .. MaxClaim] /\ MaxClaim \in Nat
    BY Types, Constants
  <2>2. claims[f] \in [Households -> Nat]
    BY <2>1
  <2> QED
    BY <2>2, DueLaw
<1>3. Total(Current(f)) \in Nat /\ Total(Arrears(f)) \in Nat /\ CeoPay(f) \in Nat
      /\ Total(Current(f)) + Total(Arrears(f)) + CeoPay(f) <= cash[f]
  BY PayLaw
<1>4. Total(Current(f)) = cash[f] \/ Current(f) = Due(f)
  BY <1>1, <1>2, ProportionalLaw DEF Current
<1>5. cash[f] - Total(Current(f)) \in Nat
  BY <1>1, <1>3
<1>6. Total(Arrears(f)) = cash[f] - Total(Current(f)) \/ Arrears(f) = claims[f]
  BY <1>1, <1>2, <1>5, ProportionalLaw DEF Arrears
<1> QED
  BY <1>1, <1>3, <1>4, <1>6

LEMMA SettlesExactly ==
  ASSUME PInv, SettleIncome, NEW f \in Firms
  PROVE  /\ Owed(f)' = Owed(f) + Total(Due(f)) - (cash[f] - cash'[f] - CeoPay(f))
         /\ Owed(f)' > 0 => cash'[f] = 0 /\ CeoPay(f) = 0
<1>0. TypeOK
  BY DEF PInv
<1>1. /\ cash'[f] = cash[f] - Paid(f)
      /\ claims'[f] = [h \in Households |-> claims[f][h] + Due(f)[h] - Current(f)[h] - Arrears(f)[h]]
  BY DEF SettleIncome
<1>2. IsFiniteSet(Households) /\ cash[f] \in Nat
  BY <1>0, Types, Constants
<1>3. claims[f] \in [Households -> Nat]
  <2>1. claims[f] \in [Households -> 0 .. MaxClaim] /\ MaxClaim \in Nat
    BY <1>0, Types, Constants
  <2> QED
    BY <2>1
<1>4. Due(f) \in [Households -> Nat]
  BY <1>0, DueLaw
<1>5. /\ Current(f) \in [Households -> Nat] /\ \A h \in Households : Current(f)[h] <= Due(f)[h]
  BY <1>0, PayLaw
<1>6. /\ Arrears(f) \in [Households -> Nat] /\ \A h \in Households : Arrears(f)[h] <= claims[f][h]
  BY <1>0, PayLaw
<1>7. /\ Total(Current(f)) \in Nat /\ Total(Arrears(f)) \in Nat /\ CeoPay(f) \in Nat
  BY <1>0, PayLaw
<1> DEFINE due   == [h \in Households |-> claims[f][h] + Due(f)[h]]
           short == [h \in Households |-> due[h] - Current(f)[h]]
           owed  == claims'[f]
<1>8. /\ due \in [Households -> Int] /\ \A h \in Households : due[h] = claims[f][h] + Due(f)[h]
  BY <1>3, <1>4
<1>9. /\ short \in [Households -> Int] /\ \A h \in Households : short[h] = due[h] - Current(f)[h]
  BY <1>5, <1>8
<1>10. owed \in [Households -> Int] /\ \A h \in Households : owed[h] = short[h] - Arrears(f)[h]
  BY <1>1, <1>3, <1>4, <1>5, <1>6
<1> HIDE DEF due, short, owed
<1>11. Total(claims[f]) \in Nat /\ Total(Due(f)) \in Nat
  BY <1>2, <1>3, <1>4, TotalNat
<1>12. Total(owed) = Total(claims[f]) + Total(Due(f)) - Total(Current(f)) - Total(Arrears(f))
  <2>1. /\ claims[f] \in [Households -> Int] /\ Due(f) \in [Households -> Int]
        /\ Current(f) \in [Households -> Int] /\ Arrears(f) \in [Households -> Int]
        /\ due \in [Households -> Int] /\ short \in [Households -> Int] /\ owed \in [Households -> Int]
    BY <1>3, <1>4, <1>5, <1>6, <1>8, <1>9, <1>10
  <2>2. Total(due) = Total(claims[f]) + Total(Due(f))
    BY <1>8, <2>1, PurseSums
  <2>3. Total(short) = Total(due) - Total(Current(f))
    BY <1>9, <2>1, PurseSums
  <2>4. Total(owed) = Total(short) - Total(Arrears(f))
    BY <1>10, <2>1, PurseSums
  <2> QED
    BY <1>7, <1>11, <2>2, <2>3, <2>4
<1>13. Owed(f)' = Total(owed)
  BY DEF Owed, owed
<1>14. cash'[f] = cash[f] - (Total(Current(f)) + Total(Arrears(f)) + CeoPay(f))
  BY <1>1 DEF Paid
<1>15. Owed(f)' = Owed(f) + Total(Due(f)) - (cash[f] - cash'[f] - CeoPay(f))
  BY <1>2, <1>7, <1>11, <1>12, <1>13, <1>14 DEF Owed
<1>16. Owed(f)' > 0 => cash'[f] = 0 /\ CeoPay(f) = 0
  <2>1. CASE Current(f) = Due(f) /\ Arrears(f) = claims[f]
    BY <1>7, <1>11, <1>12, <1>13, <2>1
  <2>2. CASE Total(Current(f)) + Total(Arrears(f)) = cash[f] /\ CeoPay(f) = 0
    BY <1>2, <1>7, <1>14, <2>2
  <2> QED
    BY <1>0, <2>1, <2>2, PaidOut
<1> QED
  BY <1>15, <1>16

\* In the week's income settlement what a firm pays and what it still owes balance against its
\* dues, and neither cash is kept nor its head paid while one of its workers is owed.
THEOREM SettlementIsBalanced == Spec => SettlementIsExact
<1>1. ASSUME PInv, [Next]_vars, ~UNCHANGED vars, phase = "income", NEW f \in Firms
      PROVE  /\ Owed(f)' = Owed(f) + Total(Due(f)) - (cash[f] - cash'[f] - CeoPay(f))
             /\ Owed(f)' > 0 => cash'[f] = 0 /\ CeoPay(f) = 0
  <2>1. SettleIncome
    BY <1>1 DEF Next, Moves, OpenWeek, FundPayroll, Sale, EndMarket, SettleFirms, InstitutionalClose, Exits, Entry,
                FiscalClose
  <2> QED
    BY <1>1, <2>1, SettlesExactly
<1>2. PInv /\ [Next]_vars =>
        [phase = "income" =>
           \A f \in Firms :
             /\ Owed(f)' = Owed(f) + Total(Due(f)) - (cash[f] - cash'[f] - CeoPay(f))
             /\ Owed(f)' > 0 => cash'[f] = 0 /\ CeoPay(f) = 0]_vars
  BY <1>1
<1> QED
  BY <1>2, Solvent, PTL DEF Spec, SettlementIsExact
==============================================================================
