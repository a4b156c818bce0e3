------------------------------ MODULE CareProofs ------------------------------
(***************************************************************************)
(* Proofs about Care: the queue is sorted, rotated and walked without      *)
(* losing or doubling a patient, the pass over it keeps queue and patients *)
(* in step, and no visit costs more than was quoted but for what was lent  *)
(* in the same pass.  The pass and the walk of the quotes are folds: each  *)
(* is shown to be the last of a row of states, one for every prefix of the *)
(* queue, and an invariant is carried along the row.                       *)
(***************************************************************************)
EXTENDS Care, TotalsProofs, SequenceTheorems

-----------------------------------------------------------------------------
(* The constants *)

LEMMA Constants ==
  /\ Patients \subseteq Nat /\ IsFiniteSet(Patients)
  /\ Provider \in Nat /\ MinSlots \in Nat /\ MaxSlots \in Nat /\ MaxBudget \in Nat /\ Subsidy \in Nat
  /\ MaxCash \in Nat
  /\ Means \subseteq [cash : Nat, credit : {"none", "bank", "treasury"}] /\ Means # {}
  /\ Prices \subseteq Nat /\ NoQuote \notin Nat
  /\ MaxVisits \in Nat \ {0} /\ MaxGap \in Nat \ {0} /\ Rotation \in Nat \ {0}
BY CareAssumption

-----------------------------------------------------------------------------
(* The places of a queue *)

\* The greatest of the first k places, and the places before it.
LEMMA LastPlace ==
  ASSUME NEW k \in Nat \ {0}
  PROVE  Max(1 .. k) = k /\ (1 .. k) \ {k} = 1 .. (k - 1)
<1>1. IsFiniteSet(1 .. k)
  BY FS_Interval
<1>2. k \in 1 .. k /\ 1 .. k \in SUBSET Int
  OBVIOUS
<1>3. Max(1 .. k) \in 1 .. k /\ \A y \in 1 .. k : Max(1 .. k) >= y
  <2>1. PICK D : D = 1 .. k
    OBVIOUS
  <2>2. Max(D) \in D /\ \A y \in D : Max(D) >= y
    BY <1>1, <1>2, <2>1, MaxInSet
  <2> QED
    BY <2>1, <2>2
<1>4. Max(1 .. k) = k
  BY <1>2, <1>3
<1> QED
  BY <1>4

-----------------------------------------------------------------------------
(* Sequences that hold every member of a set once *)

Lists(q, S) == q \in Seq(S) /\ IsInjective(q) /\ ToSet(q) = S

LEMMA ListsMeans ==
  ASSUME NEW S, NEW q
  PROVE  Lists(q, S) <=> /\ q \in Seq(S)
                         /\ \A i, j \in 1 .. Len(q) : q[i] = q[j] => i = j
                         /\ \A x \in S : \E i \in 1 .. Len(q) : q[i] = x
<1>1. CASE q \in Seq(S)
  <2>1. DOMAIN q = 1 .. Len(q) /\ \A i \in 1 .. Len(q) : q[i] \in S
    BY <1>1
  <2>2. IsInjective(q) <=> \A i, j \in 1 .. Len(q) : q[i] = q[j] => i = j
    BY <2>1 DEF IsInjective
  <2>3. ToSet(q) = S <=> \A x \in S : \E i \in 1 .. Len(q) : q[i] = x
    BY <2>1 DEF ToSet
  <2> QED
    BY <1>1, <2>2, <2>3 DEF Lists
<1>2. CASE q \notin Seq(S)
  BY <1>2 DEF Lists
<1> QED
  BY <1>1, <1>2

LEMMA ListsConcat ==
  ASSUME NEW S, NEW T, S \cap T = {}, NEW p, NEW q, Lists(p, S), Lists(q, T)
  PROVE  Lists(p \o q, S \cup T)
<1>1. /\ p \in Seq(S) /\ q \in Seq(T)
      /\ \A i, j \in 1 .. Len(p) : p[i] = p[j] => i = j
      /\ \A i, j \in 1 .. Len(q) : q[i] = q[j] => i = j
      /\ \A x \in S : \E i \in 1 .. Len(p) : p[i] = x
      /\ \A x \in T : \E i \in 1 .. Len(q) : q[i] = x
  BY ListsMeans
<1>2. PICK m \in Nat, n \in Nat : m = Len(p) /\ n = Len(q)
  BY <1>1
<1>3. p \in Seq(S \cup T) /\ q \in Seq(S \cup T)
  BY <1>1
<1>4. /\ p \o q \in Seq(S \cup T) /\ Len(p \o q) = m + n
      /\ \A i \in 1 .. m + n : (p \o q)[i] = IF i <= m THEN p[i] ELSE q[i - m]
  BY <1>2, <1>3, ConcatProperties
<1>5. (\A i \in 1 .. m : p[i] \in S) /\ \A i \in 1 .. n : q[i] \in T
  BY <1>1, <1>2
<1>6. ASSUME NEW i \in 1 .. m + n, NEW j \in 1 .. m + n, (p \o q)[i] = (p \o q)[j] PROVE i = j
  <2>1. CASE i <= m /\ j <= m
    BY <1>1, <1>2, <1>4, <1>6, <2>1
  <2>2. CASE i > m /\ j > m
    <3>1. i - m \in 1 .. n /\ j - m \in 1 .. n
      BY <1>2, <2>2
    <3>2. q[i - m] = q[j - m]
      BY <1>2, <1>4, <1>6, <2>2
    <3>3. i - m = j - m
      BY <1>1, <1>2, <3>1, <3>2
    <3> QED
      BY <1>2, <3>3
  <2>3. CASE i <= m /\ j > m
    <3>1. p[i] = q[j - m] /\ i \in 1 .. m /\ j - m \in 1 .. n
      BY <1>2, <1>4, <1>6, <2>3
    <3> QED
      BY <1>5, <3>1
  <2>4. CASE i > m /\ j <= m
    <3>1. q[i - m] = p[j] /\ j \in 1 .. m /\ i - m \in 1 .. n
      BY <1>2, <1>4, <1>6, <2>4
    <3> QED
      BY <1>5, <3>1
  <2> QED
    BY <1>2, <2>1, <2>2, <2>3, <2>4
<1>7. ASSUME NEW x \in S \cup T PROVE \E i \in 1 .. m + n : (p \o q)[i] = x
  <2>1. CASE x \in S
    <3>1. PICK i \in 1 .. m : p[i] = x
      BY <1>1, <1>2, <2>1
    <3> QED
      BY <1>2, <1>4, <3>1
  <2>2. CASE x \in T
    <3>1. PICK i \in 1 .. n : q[i] = x
      BY <1>1, <1>2, <2>2
    <3>2. m + i \in 1 .. m + n /\ ~(m + i <= m) /\ (m + i) - m = i
      BY <1>2
    <3>3. (p \o q)[m + i] = x
      BY <1>4, <3>1, <3>2
    <3> QED
      BY <3>2, <3>3
  <2> QED
    BY <1>7, <2>1, <2>2
<1> QED
  BY <1>4, <1>6, <1>7, ListsMeans

LEMMA ListsAppend ==
  ASSUME NEW S, NEW q, NEW x, x \notin S, Lists(q, S)
  PROVE  Lists(Append(q, x), S \cup {x})
<1>1. Lists(<<x>>, {x})
  <2>1. PICK o : o = <<x>>
    OBVIOUS
  <2>2. o \in Seq({x}) /\ Len(o) = 1 /\ o[1] = x
    BY <2>1
  <2>3. /\ \A i, j \in 1 .. Len(o) : o[i] = o[j] => i = j
        /\ \A y \in {x} : \E i \in 1 .. Len(o) : o[i] = y
    BY <2>2
  <2>4. Lists(o, {x})
    BY <2>2, <2>3, ListsMeans
  <2> QED
    BY <2>1, <2>4
<1>2. Lists(q \o <<x>>, S \cup {x})
  BY <1>1, ListsConcat
<1>3. Append(q, x) = q \o <<x>>
  <2>1. q \in Seq(S \cup {x})
    BY DEF Lists
  <2> QED
    BY <2>1, AppendIsConcat
<1> QED
  BY <1>2, <1>3

LEMMA ListsNothing == Lists(<<>>, {})
<1>1. PICK o : o = <<>>
  OBVIOUS
<1>2. o \in Seq({}) /\ Len(o) = 0
  BY <1>1
<1>3. /\ \A i, j \in 1 .. Len(o) : o[i] = o[j] => i = j
      /\ \A y \in {} : \E i \in 1 .. Len(o) : o[i] = y
  BY <1>2
<1>4. Lists(o, {})
  BY <1>2, <1>3, ListsMeans
<1> QED
  BY <1>1, <1>4

-----------------------------------------------------------------------------
(* Orders: by id, by priority, rotated *)

\* The members of a set of numbers, counted from below.
LEMMA RankLaw ==
  ASSUME NEW D \in SUBSET Nat, IsFiniteSet(D)
  PROVE  [x \in D |-> Cardinality({m \in D : m <= x})] \in Bijection(D, 1 .. Cardinality(D))
<1> DEFINE below(x) == {m \in D : m <= x}
           rank == [x \in D |-> Cardinality(below(x))]
<1>1. \A x \in D : IsFiniteSet(below(x)) /\ rank[x] \in Nat /\ rank[x] <= Cardinality(D)
  BY FS_Subset, FS_CardinalityType
<1>2. Cardinality(D) \in Nat
  BY FS_CardinalityType
<1>3. ASSUME NEW x \in D PROVE rank[x] # 0
  <2>1. x \in below(x)
    OBVIOUS
  <2>2. Cardinality(below(x)) # 0
    BY <1>1, <2>1, FS_EmptySet
  <2> QED
    BY <2>2
<1>4. ASSUME NEW x \in D, NEW y \in D, x < y PROVE rank[x] # rank[y]
  <2>1. below(x) \in SUBSET below(y) /\ y \in below(y) /\ y \notin below(x)
    <3>1. x \in Nat /\ y \in Nat /\ D \subseteq Nat
      OBVIOUS
    <3>2. \A m \in Nat : m <= x => m <= y
      BY <1>4, <3>1
    <3>3. ~(y <= x) /\ y <= y
      BY <1>4, <3>1
    <3> QED
      BY <3>1, <3>2, <3>3
  <2>2. below(x) # below(y)
    BY <2>1
  <2>3. IsFiniteSet(below(y))
    BY <1>1
  <2> HIDE DEF below
  <2>4. Cardinality(below(y)) # Cardinality(below(x))
    BY <2>1, <2>2, <2>3, FS_Subset
  <2> QED
    BY <2>4
<1>5. rank \in [D -> 1 .. Cardinality(D)]
  <2>1. ASSUME NEW x \in D PROVE rank[x] \in 1 .. Cardinality(D)
    BY <1>1, <1>2, <1>3
  <2> QED
    BY <2>1
<1> HIDE DEF rank
<1>6. ASSUME NEW x \in D, NEW y \in D, rank[x] = rank[y] PROVE x = y
  <2>1. x \in Nat /\ y \in Nat
    OBVIOUS
  <2>2. x < y \/ y < x \/ x = y
    BY <2>1
  <2> QED
    BY <1>4, <1>6, <2>2
<1>7. rank \in Injection(D, 1 .. Cardinality(D))
  BY <1>5, <1>6 DEF Injection, IsInjective
<1>8. IsFiniteSet(1 .. Cardinality(D)) /\ Cardinality(1 .. Cardinality(D)) = Cardinality(D)
  BY <1>2, FS_Interval
<1>9. rank \in Surjection(D, 1 .. Cardinality(D))
  BY <1>7, <1>8, FS_Injection
<1> QED
  BY <1>7, <1>9 DEF Bijection, rank

LEMMA SortedLaw ==
  ASSUME NEW D \in SUBSET Nat, IsFiniteSet(D)
  PROVE  Lists(Sorted(D), D)
<1> DEFINE n == Cardinality(D)
           rank == [x \in D |-> Cardinality({m \in D : m <= x})]
<1>1. rank \in Bijection(D, 1 .. n)
  BY RankLaw
<1>2. n \in Nat
  BY FS_CardinalityType
<1>3. DOMAIN Sorted(D) = 1 .. n /\ \A i \in 1 .. n : (\E x \in D : rank[x] = i) => Sorted(D)[i] \in D /\ rank[Sorted(D)[i]] = i
  BY DEF Sorted
<1> HIDE DEF rank, n
<1>4. /\ rank \in [D -> 1 .. n]
      /\ \A x, y \in D : rank[x] = rank[y] => x = y
      /\ \A i \in 1 .. n : \E x \in D : rank[x] = i
  BY <1>1 DEF Bijection, Injection, IsInjective, Surjection
<1>5. \A i \in 1 .. n : Sorted(D)[i] \in D /\ rank[Sorted(D)[i]] = i
  BY <1>3, <1>4
<1>6. Sorted(D) \in Seq(D) /\ Len(Sorted(D)) = n
  <2> DEFINE pick(i) == CHOOSE x \in D : Cardinality({m \in D : m <= x}) = i
  <2>1. Sorted(D) = [i \in 1 .. n |-> pick(i)]
    BY Zenon DEF Sorted, n
  <2> HIDE DEF pick
  <2> QED
    BY <1>2, <1>5, <2>1
<1>7. \A i, j \in 1 .. n : Sorted(D)[i] = Sorted(D)[j] => i = j
  BY <1>5
<1>8. \A x \in D : rank[x] \in 1 .. n /\ Sorted(D)[rank[x]] = x
  BY <1>4, <1>5
<1> QED
  BY <1>6, <1>7, <1>8, ListsMeans

\* The places of S in a queue, and what stands there.
LEMMA AmongLaw ==
  ASSUME NEW Q \in SUBSET Patients, Lists(queue, Q), NEW S
  PROVE  Lists(Among(S), Q \cap S)
<1> DEFINE places == {i \in 1 .. Len(queue) : queue[i] \in S}
           at == Sorted(places)
<1>1. /\ queue \in Seq(Q) /\ Len(queue) \in Nat /\ DOMAIN queue = 1 .. Len(queue)
      /\ \A i, j \in 1 .. Len(queue) : queue[i] = queue[j] => i = j
      /\ \A x \in Q : \E i \in 1 .. Len(queue) : queue[i] = x
      /\ \A i \in 1 .. Len(queue) : queue[i] \in Q
  BY ListsMeans
<1>2. IsFiniteSet(places) /\ places \in SUBSET Nat
  <2>1. IsFiniteSet(1 .. Len(queue))
    BY <1>1, FS_Interval
  <2> QED
    BY <1>1, <2>1, FS_Subset
<1>3. Lists(at, places)
  BY <1>2, SortedLaw
<1>4. Among(S) = [i \in DOMAIN at |-> queue[at[i]]]
  BY <1>1, Zenon DEF Among
<1> HIDE DEF at, places
<1>5. /\ at \in Seq(places) /\ Len(at) \in Nat /\ DOMAIN at = 1 .. Len(at)
      /\ \A i, j \in 1 .. Len(at) : at[i] = at[j] => i = j
      /\ \A x \in places : \E i \in 1 .. Len(at) : at[i] = x
      /\ \A i \in 1 .. Len(at) : at[i] \in places
  BY <1>3, ListsMeans
<1>6. \A i \in 1 .. Len(at) : queue[at[i]] \in Q \cap S
  BY <1>1, <1>5 DEF places
<1>7. Among(S) \in Seq(Q \cap S) /\ Len(Among(S)) = Len(at)
  BY <1>4, <1>5, <1>6
<1>8. \A i \in 1 .. Len(at) : Among(S)[i] = queue[at[i]]
  BY <1>4, <1>5
<1>9. \A i, j \in 1 .. Len(at) : Among(S)[i] = Among(S)[j] => i = j
  BY <1>1, <1>5, <1>8 DEF places
<1>10. ASSUME NEW x \in Q \cap S PROVE \E i \in 1 .. Len(at) : Among(S)[i] = x
  <2>1. PICK j \in 1 .. Len(queue) : queue[j] = x
    BY <1>1
  <2>2. PICK i \in 1 .. Len(at) : at[i] = j
    BY <1>5, <2>1 DEF places
  <2> QED
    BY <1>8, <2>1, <2>2
<1> QED
  BY <1>7, <1>9, <1>10, ListsMeans

LEMMA PrioritizedLaw ==
  ASSUME NEW Q \in SUBSET Patients, Lists(queue, Q)
  PROVE  Lists(Prioritized, Q)
<1>1. Lists(Among(sick), Q \cap sick) /\ Lists(Among(Patients \ sick), Q \cap (Patients \ sick))
  BY AmongLaw
<1>2. (Q \cap sick) \cap (Q \cap (Patients \ sick)) = {}
  OBVIOUS
<1>3. (Q \cap sick) \cup (Q \cap (Patients \ sick)) = Q
  OBVIOUS
<1>4. Lists(Prioritized, (Q \cap sick) \cup (Q \cap (Patients \ sick)))
  BY <1>1, <1>2, ListsConcat DEF Prioritized
<1> QED
  BY <1>3, <1>4

\* A part of the list from one place to another.
LEMMA PartLaw ==
  ASSUME NEW S, NEW q, Lists(q, S), NEW a \in Nat \ {0}, NEW b \in Nat, b <= Len(q)
  PROVE  Lists(SubSeq(q, a, b), {q[i] : i \in a .. b})
<1>1. q \in Seq(S) /\ Len(q) \in Nat /\ \A i, j \in 1 .. Len(q) : q[i] = q[j] => i = j
  BY ListsMeans
<1> DEFINE T == {q[i] : i \in a .. b}
           p == SubSeq(q, a, b)
<1>2. \A i \in a .. b : q[i] \in T
  OBVIOUS
<1>3. /\ p \in Seq(T) /\ Len(p) = IF a <= b THEN b - a + 1 ELSE 0
      /\ \A i \in 1 .. b - a + 1 : p[i] = q[a + i - 1]
  <2>1. a \in Int /\ b \in Int
    OBVIOUS
  <2> HIDE DEF T
  <2> QED
    BY <1>2, <2>1, SubSeqProperties
<1> HIDE DEF p
<1>4. \A i \in 1 .. Len(p) : p[i] = q[a + i - 1] /\ a + i - 1 \in a .. b /\ a + i - 1 \in 1 .. Len(q)
  BY <1>1, <1>3
<1>5. ASSUME NEW i \in 1 .. Len(p), NEW j \in 1 .. Len(p), p[i] = p[j] PROVE i = j
  <2>1. a + i - 1 = a + j - 1
    BY <1>1, <1>4, <1>5
  <2> QED
    BY <2>1
<1>6. ASSUME NEW x \in T PROVE \E i \in 1 .. Len(p) : p[i] = x
  <2>1. PICK j \in a .. b : x = q[j]
    OBVIOUS
  <2>2. j - a + 1 \in 1 .. b - a + 1 /\ a <= b /\ a + (j - a + 1) - 1 = j
    BY <2>1
  <2>3. p[j - a + 1] = q[j]
    BY <1>3, <2>2
  <2> QED
    BY <1>3, <2>1, <2>2, <2>3
<1> QED
  BY <1>3, <1>5, <1>6, ListsMeans DEF p

LEMMA RotatedLaw ==
  ASSUME NEW S, NEW q, Lists(q, S), Len(q) > 1, week \in Nat
  PROVE  Lists(Rotated(q), S)
<1>1. /\ q \in Seq(S) /\ Len(q) \in Nat
      /\ \A i, j \in 1 .. Len(q) : q[i] = q[j] => i = j
      /\ \A x \in S : \E i \in 1 .. Len(q) : q[i] = x
      /\ \A i \in 1 .. Len(q) : q[i] \in S
  BY ListsMeans
<1>2. PICK start \in 0 .. Len(q) - 1 : start = (week + Provider) % Len(q)
  <2>1. PICK n \in Nat \ {0} : n = Len(q)
    BY <1>1
  <2>2. PICK m \in Nat : m = week + Provider
    BY Constants
  <2>3. m % n \in 0 .. n - 1
    OBVIOUS
  <2> QED
    BY <2>1, <2>2, <2>3
<1> DEFINE A == {q[i] : i \in start + 1 .. Len(q)}
           B == {q[i] : i \in 1 .. start}
<1>3. Lists(SubSeq(q, start + 1, Len(q)), A)
  <2>1. start + 1 \in Nat \ {0} /\ Len(q) <= Len(q)
    BY <1>1
  <2> HIDE DEF A
  <2> QED
    BY <1>1, <2>1, PartLaw, SMTT(40) DEF A
<1>4. Lists(SubSeq(q, 1, start), B)
  <2>1. start \in Nat /\ start <= Len(q) /\ 1 \in Nat \ {0}
    BY <1>1
  <2> HIDE DEF B
  <2> QED
    BY <2>1, PartLaw DEF B
<1>5. A \cap B = {}
  <2>1. ASSUME NEW i \in start + 1 .. Len(q), NEW j \in 1 .. start PROVE q[i] # q[j]
    <3>1. i \in 1 .. Len(q) /\ j \in 1 .. Len(q) /\ i # j
      BY <1>1, <1>2
    <3> QED
      BY <1>1, <3>1
  <2> QED
    BY <2>1
<1>6. A \cup B = S
  <2>1. ASSUME NEW x \in S PROVE x \in A \cup B
    <3>1. PICK i \in 1 .. Len(q) : q[i] = x
      BY <1>1
    <3>2. i \in start + 1 .. Len(q) \/ i \in 1 .. start
      BY <1>1, <1>2
    <3> QED
      BY <3>1, <3>2
  <2>2. \A i \in 1 .. Len(q) : q[i] \in S
    BY <1>1
  <2>3. start + 1 .. Len(q) \subseteq 1 .. Len(q) /\ 1 .. start \subseteq 1 .. Len(q)
    BY <1>1, <1>2, SMTT(40)
  <2> QED
    BY <2>1, <2>2, <2>3
<1> HIDE DEF A, B
<1>7. Lists(SubSeq(q, start + 1, Len(q)) \o SubSeq(q, 1, start), S)
  BY <1>3, <1>4, <1>5, <1>6, ListsConcat
<1> QED
  BY <1>2, <1>7 DEF Rotated

LEMMA OrderedLaw ==
  ASSUME NEW Q \in SUBSET Patients, Lists(queue, Q), week \in Nat
  PROVE  Lists(Ordered, Q)
BY PrioritizedLaw, RotatedLaw DEF Ordered

-----------------------------------------------------------------------------
(* The invariant *)

Record == [queued : BOOLEAN, visits : 0 .. MaxVisits, due : BOOLEAN, retry : BOOLEAN,
           quote : Prices \cup {NoQuote}, gap : 0 .. MaxGap]

\* What holds of the fields of a patient between the phases.
Agrees(p) ==
  /\ p.due => sequence = "payment" /\ p.visits > 0
  /\ p.retry => p.due /\ ~p.queued
  /\ sequence = "payment" /\ p.queued => p.due /\ p.quote \in Prices

Waiting == {h \in Patients : patient[h].queued}

\* The queue is the list of those who are waiting, and the arm's own count of the care money is what
\* the restriction holds.
CInv ==
  /\ TypeOK
  /\ Lists(queue, Waiting)
  /\ \A h \in Patients : Agrees(patient[h])
  /\ sequence = "payment" => budget = remaining
  /\ ~refused

LEMMA InvMeans == CInv => QueueMatchesPatients /\ CommitNeverRefused
<1> SUFFICES ASSUME CInv PROVE QueueMatchesPatients /\ CommitNeverRefused
  OBVIOUS
<1>1. TypeOK /\ IsInjective(queue) /\ ToSet(queue) = Waiting /\ \A h \in Patients : Agrees(patient[h])
  BY DEF CInv, Lists
<1>2. ASSUME NEW h \in Patients
      PROVE  /\ patient[h].due => sequence = "payment" /\ patient[h].visits > 0
             /\ patient[h].retry => patient[h].due /\ ~patient[h].queued
             /\ sequence = "payment" /\ patient[h].queued => patient[h].due /\ patient[h].quote \in Prices
  BY <1>1 DEF Agrees
<1> QED
  BY <1>1, <1>2 DEF QueueMatchesPatients, Waiting, CInv, CommitNeverRefused

LEMMA InitInv == Init => CInv
<1> SUFFICES ASSUME Init PROVE CInv
  OBVIOUS
<1>1. patient = [h \in Patients |-> Healthy] /\ queue = <<>> /\ bill = Nobody
  BY DEF Init
<1>2. Healthy \in Record /\ Agrees(Healthy) /\ ~Healthy.queued
  BY Constants DEF Healthy, Record, Agrees
<1>3. Waiting = {}
  BY <1>1, <1>2 DEF Waiting
<1>4. Lists(queue, Waiting)
  BY <1>1, <1>3, ListsNothing
<1>5. patient \in [Patients -> Record] /\ \A h \in Patients : Agrees(patient[h])
  BY <1>1, <1>2
<1>6. TypeOK
  <2>1. bill \in [Patients -> Nat \cup {NoQuote}]
    BY <1>1 DEF Nobody
  <2>2. queue \in Seq(Patients)
    BY <1>1
  <2>3. /\ sequence \in {"legacy", "payment"} /\ covered \in BOOLEAN /\ refused \in BOOLEAN
        /\ phase \in {"request", "treat"} /\ price \in Prices /\ sick \subseteq Doctors
    BY DEF Init
  <2>4. /\ week \in 0 .. Rotation - 1 /\ staff \in 0 .. MaxSlots /\ budget \in 0 .. MaxBudget
        /\ cash \in 0 .. MaxCash /\ remaining \in 0 .. MaxBudget
    BY Constants DEF Init
  <2> QED
    BY <1>5, <2>1, <2>2, <2>3, <2>4 DEF TypeOK, Record
<1> QED
  BY <1>4, <1>5, <1>6 DEF CInv, Init

LEMMA InvFacts ==
  ASSUME CInv
  PROVE  /\ sequence \in {"legacy", "payment"} /\ covered \in BOOLEAN /\ ~refused
         /\ week \in Nat /\ price \in Prices /\ price \in Nat /\ staff \in Nat
         /\ queue \in Seq(Patients) /\ Lists(queue, Waiting) /\ ToSet(queue) = Waiting
         /\ patient \in [Patients -> Record] /\ \A h \in Patients : patient[h] \in Record /\ Agrees(patient[h])
         /\ budget \in 0 .. MaxBudget /\ cash \in 0 .. MaxCash /\ remaining \in 0 .. MaxBudget
         /\ bill \in [Patients -> Nat \cup {NoQuote}]
<1>1. TypeOK /\ Lists(queue, Waiting) /\ (\A h \in Patients : Agrees(patient[h])) /\ ~refused
  BY DEF CInv
<1>2. week \in Nat /\ staff \in Nat /\ price \in Nat
  BY <1>1, Constants DEF TypeOK
<1>3. patient \in [Patients -> Record]
  BY <1>1 DEF TypeOK, Record
<1>4. \A h \in Patients : patient[h] \in Record
  BY <1>3
<1> QED
  BY <1>1, <1>2, <1>3, <1>4 DEF TypeOK, Lists

-----------------------------------------------------------------------------
(* Requests *)

\* New entries at the end of the queue, in the order of their ids.
LEMMA ListsMore ==
  ASSUME NEW q, NEW S, Lists(q, S), NEW T \in SUBSET Patients, S \cap T = {}
  PROVE  Lists(q \o Sorted(T), S \cup T)
<1>1. T \in SUBSET Nat /\ IsFiniteSet(T)
  BY Constants, FS_Subset
<1>2. Lists(Sorted(T), T)
  BY <1>1, SortedLaw
<1> QED
  BY <1>2, ListsConcat

\* The rest of a request is the same in both sequences.
LEMMA RequestKeeps ==
  ASSUME CInv, Request, NEW Q \in SUBSET Patients, Lists(queue', Q),
         patient' \in [Patients -> Record], \A h \in Patients : Agrees(patient'[h]),
         Q = {h \in Patients : patient'[h].queued}
  PROVE  CInv'
<1>1. /\ sequence' = sequence /\ covered' = covered /\ week' = week /\ price' = price /\ refused' = refused
      /\ phase' = "treat" /\ bill' = Nobody /\ sick' \in SUBSET Doctors
      /\ budget' \in IF sequence = "legacy" \/ covered THEN 0 .. MaxBudget ELSE {0}
      /\ cash' \in IF sequence = "legacy" THEN 0 .. MaxCash ELSE {0}
      /\ remaining' = IF sequence = "payment" THEN budget' ELSE 0
      /\ staff' \in IF sequence = "legacy" THEN MinSlots .. MaxSlots ELSE {0}
  BY DEF Request
<1>2. /\ budget' \in 0 .. MaxBudget /\ staff' \in 0 .. MaxSlots /\ cash' \in 0 .. MaxCash
      /\ remaining' \in 0 .. MaxBudget
  BY <1>1, Constants
<1>3. TypeOK /\ ~refused
  BY DEF CInv
<1>4. bill' \in [Patients -> Nat \cup {NoQuote}]
  BY <1>1 DEF Nobody
<1>5. queue' \in Seq(Patients)
  BY DEF Lists
<1>6. TypeOK'
  BY <1>1, <1>2, <1>3, <1>4, <1>5 DEF TypeOK, Record
<1>7. \A h \in Patients : Agrees(patient[h])'
  BY <1>1 DEF Agrees
<1>8. Waiting' = Q
  BY DEF Waiting
<1> QED
  BY <1>1, <1>3, <1>6, <1>7, <1>8 DEF CInv

LEMMA LegacyRequest ==
  ASSUME CInv, Request, sequence = "legacy", NEW ill \in Illnesses, NEW gap \in 1 .. MaxGap, EnqueueLegacy(ill, gap)
  PROVE  CInv'
<1> DEFINE asks == LegacyAsks(ill)
<1>1. /\ Lists(queue, Waiting) /\ \A h \in Patients : patient[h] \in Record /\ Agrees(patient[h])
  BY InvFacts
<1>2. /\ queue' = queue \o Sorted(asks)
      /\ patient' = [h \in Patients |->
                       IF h \in asks THEN LegacyAsked(patient[h], ill[h], gap) ELSE patient[h]]
  BY DEF EnqueueLegacy
<1>3. asks \in SUBSET Patients /\ \A h \in asks : MayAsk(patient[h]) /\ (patient[h].visits > 0 \/ ill[h] > 0)
  BY DEF LegacyAsks
<1>4. \A h \in Patients : ill[h] \in 0 .. MaxVisits
  BY DEF Illnesses
<1> HIDE DEF asks
<1>5. Waiting \cap asks = {}
  BY <1>3 DEF Waiting, MayAsk
<1>6. Lists(queue', Waiting \cup asks)
  BY <1>1, <1>2, <1>3, <1>5, ListsMore
<1>7. ASSUME NEW h \in asks
      PROVE  /\ LegacyAsked(patient[h], ill[h], gap) \in Record
             /\ LegacyAsked(patient[h], ill[h], gap).queued
             /\ Agrees(LegacyAsked(patient[h], ill[h], gap))
  <2>1. patient[h] \in Record /\ Agrees(patient[h]) /\ ill[h] \in 0 .. MaxVisits /\ (patient[h].visits > 0 \/ ill[h] > 0)
    BY <1>1, <1>3, <1>4
  <2>2. gap \in 0 .. MaxGap
    BY Constants
  <2>3. (IF patient[h].visits = 0 THEN ill[h] ELSE patient[h].visits) - 1 \in 0 .. MaxVisits
    BY <2>1, Constants DEF Record
  <2>4. ~patient[h].due /\ ~patient[h].retry
    BY <2>1 DEF Agrees
  <2> QED
    BY <2>1, <2>2, <2>3, <2>4 DEF LegacyAsked, Record, Agrees
<1>8. patient' \in [Patients -> Record] /\ \A h \in Patients : Agrees(patient'[h])
  BY <1>1, <1>2, <1>7
<1>9. {h \in Patients : patient'[h].queued} = Waiting \cup asks
  BY <1>2, <1>3, <1>7 DEF Waiting
<1> QED
  BY <1>6, <1>8, <1>9, RequestKeeps

\* What a visit that falls due changes.
LEMMA FallsDueLaw ==
  ASSUME NEW p \in Record, Agrees(p), NEW size \in 0 .. MaxVisits, sequence = "payment"
  PROVE  /\ FallsDue(p, size) \in Record /\ Agrees(FallsDue(p, size))
         /\ FallsDue(p, size).queued = p.queued /\ FallsDue(p, size).gap = p.gap
         /\ FallsDue(p, size).retry = p.retry /\ FallsDue(p, size).quote = p.quote
         /\ p.due => FallsDue(p, size).due
         /\ p.queued => FallsDue(p, size) = p
<1>1. CASE ~MayAsk(p)
  BY <1>1 DEF FallsDue
<1>2. CASE MayAsk(p) /\ p.visits = 0 /\ ~p.due
  <2>1. FallsDue(p, size) = [p EXCEPT !.visits = size, !.due = size > 0]
    BY <1>2 DEF FallsDue
  <2>2. ~p.queued /\ ~p.retry /\ (size > 0) \in BOOLEAN
    BY <1>2 DEF MayAsk, Agrees
  <2> QED
    BY <1>2, <2>1, <2>2 DEF Record, Agrees
<1>3. CASE MayAsk(p) /\ ~(p.visits = 0 /\ ~p.due)
  <2>1. FallsDue(p, size) = [p EXCEPT !.due = TRUE]
    BY <1>3 DEF FallsDue
  <2>2. ~p.queued /\ p.visits > 0
    BY <1>3 DEF MayAsk, Agrees, Record
  <2> QED
    BY <1>3, <2>1, <2>2 DEF Record, Agrees
<1> QED
  BY <1>1, <1>2, <1>3

LEMMA PaymentRequest ==
  ASSUME CInv, Request, sequence = "payment", NEW ill \in Illnesses, EnqueuePayment(ill)
  PROVE  CInv'
<1> DEFINE asked(h) == FallsDue(Returned(h), ill[h])
           asking   == {h \in Patients : MayAsk(asked(h)) /\ asked(h).due}
           deciding == {h \in asking : ~covered /\ ~(asked(h).retry /\ Accepts(asked(h)))}
<1>1. PICK putOff \in SUBSET deciding :
         /\ queue' = queue \o Sorted(Returning) \o Sorted(asking \ (putOff \cup ToSet(queue)))
         /\ patient' = [h \in Patients |->
              IF h \in asking \ putOff
              THEN [asked(h) EXCEPT !.queued = TRUE, !.quote = price, !.retry = FALSE] ELSE asked(h)]
  BY DEF EnqueuePayment
<1>2. /\ Lists(queue, Waiting) /\ ToSet(queue) = Waiting /\ price \in Prices
      /\ \A h \in Patients : patient[h] \in Record /\ Agrees(patient[h])
  BY InvFacts
<1>3. \A h \in Patients : ill[h] \in 0 .. MaxVisits
  BY DEF Illnesses
<1>4. ASSUME NEW h \in Patients
      PROVE  /\ Returned(h) \in Record /\ Agrees(Returned(h))
             /\ Returned(h).queued <=> h \in Returning \/ h \in Waiting
  <2>1. patient[h] \in Record /\ Agrees(patient[h])
    BY <1>2
  <2>2. h \in Returning => patient[h].retry /\ ~patient[h].queued /\ patient[h].quote \in Prices
    BY <2>1 DEF Returning, Accepts, Record
  <2>3. CASE h \in Returning
    BY <2>1, <2>2, <2>3 DEF Returned, Record, Agrees
  <2>4. CASE h \notin Returning
    BY <2>1, <2>4 DEF Returned, Waiting
  <2> QED
    BY <2>3, <2>4
<1>5. ASSUME NEW h \in Patients
      PROVE  /\ asked(h) \in Record /\ Agrees(asked(h))
             /\ asked(h).queued <=> h \in Returning \/ h \in Waiting
  <2>1. Returned(h) \in Record /\ Agrees(Returned(h)) /\ ill[h] \in 0 .. MaxVisits
    BY <1>3, <1>4
  <2>2. asked(h) \in Record /\ Agrees(asked(h)) /\ asked(h).queued = Returned(h).queued
    BY <2>1, FallsDueLaw
  <2> QED
    BY <1>4, <2>2
<1>6. asking \in SUBSET Patients /\ \A h \in asking : ~asked(h).queued /\ asked(h).due
  BY DEF MayAsk
<1> HIDE DEF asked, asking, deciding
<1>7. Returning \in SUBSET Patients /\ Waiting \cap Returning = {}
  BY DEF Returning, Waiting
<1>8. asking \cap (Waiting \cup Returning) = {}
  BY <1>5, <1>6
<1> DEFINE new == asking \ putOff
<1>9. asking \ (putOff \cup ToSet(queue)) = new
  BY <1>2, <1>8
<1>10. Lists(queue', (Waiting \cup Returning) \cup new)
  <2>1. Lists(queue \o Sorted(Returning), Waiting \cup Returning)
    BY <1>2, <1>7, ListsMore
  <2>2. new \in SUBSET Patients /\ (Waiting \cup Returning) \cap new = {}
    BY <1>6, <1>8
  <2>3. Lists((queue \o Sorted(Returning)) \o Sorted(new), (Waiting \cup Returning) \cup new)
    BY <2>1, <2>2, ListsMore
  <2> QED
    BY <1>1, <1>9, <2>3
<1>11. ASSUME NEW h \in Patients
       PROVE  /\ patient'[h] \in Record /\ Agrees(patient'[h])
              /\ patient'[h].queued <=> h \in (Waiting \cup Returning) \cup new
  <2>1. CASE h \in new
    <3>1. patient'[h] = [asked(h) EXCEPT !.queued = TRUE, !.quote = price, !.retry = FALSE]
      BY <1>1, <2>1
    <3>2. asked(h) \in Record /\ Agrees(asked(h)) /\ asked(h).due
      BY <1>5, <1>6, <2>1
    <3> QED
      BY <1>2, <2>1, <3>1, <3>2 DEF Record, Agrees
  <2>2. CASE h \notin new
    <3>1. patient'[h] = asked(h)
      BY <1>1, <2>2
    <3> QED
      BY <1>5, <2>2, <3>1
  <2> QED
    BY <2>1, <2>2
<1>12. patient' \in [Patients -> Record]
  <2>1. patient' = [h \in Patients |-> patient'[h]]
    BY <1>1
  <2> QED
    BY <1>11, <2>1
<1>13. (Waiting \cup Returning) \cup new = {h \in Patients : patient'[h].queued}
  BY <1>6, <1>7, <1>11 DEF Waiting
<1>14. (Waiting \cup Returning) \cup new \in SUBSET Patients
  BY <1>13
<1> QED
  BY <1>10, <1>11, <1>12, <1>13, <1>14, RequestKeeps

LEMMA RequestStep == CInv /\ Request => CInv'
<1> SUFFICES ASSUME CInv, Request PROVE CInv'
  OBVIOUS
<1>1. PICK ill \in Illnesses : \/ sequence = "legacy" /\ \E gap \in 1 .. MaxGap : EnqueueLegacy(ill, gap)
                               \/ sequence = "payment" /\ EnqueuePayment(ill)
  BY DEF Request
<1> QED
  BY <1>1, LegacyRequest, PaymentRequest

-----------------------------------------------------------------------------
(* Folds along a queue *)

\* A fold over the places 1 .. n, from the first to the last.
Along(g, n, V, base, step) ==
  /\ g \in [SUBSET (1 .. n) -> V]
  /\ g[{}] = base
  /\ \A s \in SUBSET (1 .. n) : s # {} => Max(s) \in s /\ g[s] = step[<<Max(s), g[s \ {Max(s)}]>>]

LEMMA PlacesFold ==
  ASSUME NEW n \in Nat, NEW V, NEW base \in V, NEW step, \A i \in 1 .. n, v \in V : step[<<i, v>>] \in V
  PROVE  \E g : Along(g, n, V, base, step)
<1> DEFINE D == 1 .. n
           c == [s \in SUBSET D |-> Max(s)]
<1>1. IsFiniteSet(D)
  BY FS_Interval
<1>2. \A s \in SUBSET D : s # {} => Max(s) \in s
  <2> SUFFICES ASSUME NEW s \in SUBSET D, s # {} PROVE Max(s) \in s
    OBVIOUS
  <2>1. IsFiniteSet(s)
    BY <1>1, FS_Subset
  <2>2. s \in SUBSET Int
    OBVIOUS
  <2> QED
    BY <2>1, <2>2, MaxInSet
<1>3. Picks(c, D)
  BY <1>2 DEF Picks
<1>4. PICK g : Folds(g, D, V, base, c, step)
  <2>1. \A i \in D, v \in V : step[<<i, v>>] \in V
    OBVIOUS
  <2> HIDE DEF D, c
  <2> QED
    BY <1>1, <1>3, <2>1, FoldExists
<1>5. g \in [SUBSET D -> V] /\ g[{}] = base
  BY <1>4 DEF Folds
<1>6. \A s \in SUBSET D : s # {} => g[s] = step[<<c[s], g[s \ {c[s]}]>>] /\ c[s] = Max(s)
  BY <1>4 DEF Folds
<1> QED
  BY <1>2, <1>5, <1>6 DEF Along

\* The values of a fold on the prefixes of the places.
LEMMA FirstPlaces ==
  ASSUME NEW n \in Nat
  PROVE  /\ 1 .. 0 = {}
         /\ \A k \in 0 .. n : 1 .. k \in SUBSET (1 .. n)
         /\ \A k \in 1 .. n : /\ 1 .. k # {} /\ Max(1 .. k) = k /\ (1 .. k) \ {k} = 1 .. (k - 1)
                              /\ k - 1 \in 0 .. n
<1>1. ASSUME NEW k \in 1 .. n
      PROVE  1 .. k # {} /\ Max(1 .. k) = k /\ (1 .. k) \ {k} = 1 .. (k - 1) /\ k - 1 \in 0 .. n
  <2>1. k \in Nat \ {0} /\ k \in 1 .. k /\ k - 1 \in 0 .. n
    OBVIOUS
  <2>2. Max(1 .. k) = k /\ (1 .. k) \ {k} = 1 .. (k - 1)
    BY <2>1, LastPlace
  <2> QED
    BY <2>1, <2>2
<1>2. 1 .. 0 = {} /\ \A k \in 0 .. n : 1 .. k \in SUBSET (1 .. n)
  OBVIOUS
<1> QED
  BY <1>1, <1>2

-----------------------------------------------------------------------------
(* One patient in the pass *)

Acc == [left : Seq(Patients), done : Nat, patient : [Patients -> Record],
        budget : 0 .. MaxBudget, cash : 0 .. MaxCash, remaining : 0 .. MaxBudget,
        bill : [Patients -> Nat \cup {NoQuote}], refused : BOOLEAN]

Step(acc, h, slots, means, gap) ==
  IF sequence = "legacy" THEN TreatLegacy(acc, h, slots, means) ELSE TreatPayment(acc, h, slots, means, gap)

LEMMA GrantedLaw ==
  ASSUME price \in Nat, NEW money \in Nat
  PROVE  /\ Granted(money) \in Nat /\ Granted(money) <= price /\ Granted(money) <= money
         /\ Granted(money) \in {Subsidy, price, money} /\ Granted(money) <= Subsidy
<1>1. Subsidy \in Int /\ price \in Int /\ money \in Int /\ Subsidy \in Nat
  BY Constants
<1>2. /\ Min({Subsidy, price, money}) \in {Subsidy, price, money}
      /\ Min({Subsidy, price, money}) <= Subsidy /\ Min({Subsidy, price, money}) <= price
      /\ Min({Subsidy, price, money}) <= money
  BY <1>1, MinOfThree
<1> QED
  BY <1>1, <1>2 DEF Granted

\* The fields of what the outcomes of a visit make of acc.
LEMMA LeavesFields ==
  ASSUME NEW acc \in Acc, NEW h \in Patients
  PROVE  /\ Leaves(acc, h).left = acc.left /\ Leaves(acc, h).done = acc.done
         /\ Leaves(acc, h).patient = [acc.patient EXCEPT ![h] = [acc.patient[h] EXCEPT !.queued = FALSE]]
         /\ Leaves(acc, h).budget = acc.budget /\ Leaves(acc, h).cash = acc.cash
         /\ Leaves(acc, h).remaining = acc.remaining
         /\ Leaves(acc, h).bill = acc.bill /\ Leaves(acc, h).refused = acc.refused
         /\ Leaves(acc, h) \in Acc
<1>1. acc.patient \in [Patients -> Record] /\ acc.patient[h] \in Record
  BY DEF Acc
<1>2. [acc.patient[h] EXCEPT !.queued = FALSE] \in Record
  BY <1>1 DEF Record
<1> QED
  BY <1>1, <1>2 DEF Leaves, Acc

LEMMA AwayFields ==
  ASSUME NEW acc \in Acc, NEW h \in Patients
  PROVE  /\ TurnedAway(acc, h).left = acc.left /\ TurnedAway(acc, h).done = acc.done
         /\ TurnedAway(acc, h).patient =
              [acc.patient EXCEPT ![h] = [acc.patient[h] EXCEPT !.queued = FALSE, !.retry = TRUE]]
         /\ TurnedAway(acc, h).budget = acc.budget /\ TurnedAway(acc, h).remaining = acc.remaining
         /\ TurnedAway(acc, h).bill = acc.bill /\ TurnedAway(acc, h).refused = acc.refused
         /\ TurnedAway(acc, h) \in Acc
<1> DEFINE l == Leaves(acc, h)
<1>1. /\ l \in Acc /\ l.left = acc.left /\ l.done = acc.done
      /\ l.patient = [acc.patient EXCEPT ![h] = [acc.patient[h] EXCEPT !.queued = FALSE]]
      /\ l.budget = acc.budget /\ l.remaining = acc.remaining /\ l.bill = acc.bill /\ l.refused = acc.refused
  BY LeavesFields
<1>2. TurnedAway(acc, h) = [l EXCEPT !.patient[h].retry = TRUE]
  BY DEF TurnedAway
<1> HIDE DEF l
<1>3. acc.patient \in [Patients -> Record] /\ acc.patient[h] \in Record /\ l.patient[h] = [acc.patient[h] EXCEPT !.queued = FALSE]
  BY <1>1 DEF Acc
<1>4. [acc.patient[h] EXCEPT !.queued = FALSE, !.retry = TRUE] \in Record
  BY <1>3 DEF Record
<1>5. [l.patient[h] EXCEPT !.retry = TRUE] = [acc.patient[h] EXCEPT !.queued = FALSE, !.retry = TRUE]
  BY <1>3
<1>6. TurnedAway(acc, h) = [l EXCEPT !.patient = [l.patient EXCEPT ![h] = [l.patient[h] EXCEPT !.retry = TRUE]]]
  BY <1>2
<1>7. [l.patient EXCEPT ![h] = [l.patient[h] EXCEPT !.retry = TRUE]]
        = [acc.patient EXCEPT ![h] = [acc.patient[h] EXCEPT !.queued = FALSE, !.retry = TRUE]]
  BY <1>1, <1>3, <1>5
<1> QED
  BY <1>1, <1>3, <1>4, <1>6, <1>7 DEF Acc

\* The record of a patient who has been treated.
Cured(p, gap) ==
  LET visits == IF p.visits > 0 THEN p.visits - 1 ELSE 0
  IN [p EXCEPT !.queued = FALSE, !.retry = FALSE, !.due = FALSE, !.visits = visits,
               !.gap = IF visits > 0 THEN gap ELSE 1]

LEMMA TreatedFields ==
  ASSUME NEW acc \in Acc, NEW h \in Patients, NEW gap \in 1 .. MaxGap
  PROVE  /\ Treated(acc, h, gap).left = acc.left /\ Treated(acc, h, gap).done = acc.done
         /\ Treated(acc, h, gap).patient = [acc.patient EXCEPT ![h] = Cured(acc.patient[h], gap)]
         /\ Treated(acc, h, gap).budget = acc.budget /\ Treated(acc, h, gap).remaining = acc.remaining
         /\ Treated(acc, h, gap).bill = acc.bill /\ Treated(acc, h, gap).refused = acc.refused
         /\ Treated(acc, h, gap) \in Acc
         /\ Cured(acc.patient[h], gap) \in Record
<1> DEFINE p == acc.patient[h]
           visits == IF p.visits > 0 THEN p.visits - 1 ELSE 0
           next == IF visits > 0 THEN gap ELSE 1
<1>1. acc.patient \in [Patients -> Record] /\ p \in Record /\ visits \in 0 .. MaxVisits /\ next \in 0 .. MaxGap
  BY Constants DEF Acc, Record
<1>2. Treated(acc, h, gap) = [acc EXCEPT !.patient[h] = Cured(p, gap)]
  BY DEF Treated, Cured
<1>3. Cured(p, gap) = [p EXCEPT !.queued = FALSE, !.retry = FALSE, !.due = FALSE, !.visits = visits, !.gap = next]
  BY Zenon DEF Cured
<1> HIDE DEF visits, next
<1>4. Cured(p, gap) \in Record
  BY <1>1, <1>3 DEF Record
<1>5. PICK c \in Record : c = Cured(p, gap)
  BY <1>4
<1>6. PICK ps \in [Patients -> Record] : ps = [acc.patient EXCEPT ![h] = c]
  BY <1>1
<1>7. Treated(acc, h, gap) = [acc EXCEPT !.patient = ps]
  BY <1>2, <1>5, <1>6
<1>8. Treated(acc, h, gap) \in Acc
  BY <1>6, <1>7 DEF Acc
<1>9. LET n == Treated(acc, h, gap)
      IN /\ n.left = acc.left /\ n.done = acc.done /\ n.patient = ps /\ n.bill = acc.bill
         /\ n.budget = acc.budget /\ n.remaining = acc.remaining /\ n.refused = acc.refused
  BY <1>7 DEF Acc
<1> QED
  BY <1>4, <1>5, <1>6, <1>8, <1>9

-----------------------------------------------------------------------------
(* The branches of the pass *)

LEMMA WaitsFields ==
  ASSUME NEW acc \in Acc, NEW h \in Patients
  PROVE  /\ Waits(acc, h) \in Acc /\ Waits(acc, h).left = Append(acc.left, h) /\ Waits(acc, h).done = acc.done
         /\ Waits(acc, h).patient = acc.patient /\ Waits(acc, h).bill = acc.bill
         /\ Waits(acc, h).budget = acc.budget /\ Waits(acc, h).cash = acc.cash
         /\ Waits(acc, h).remaining = acc.remaining
         /\ Waits(acc, h).refused = acc.refused
<1>1. acc.left \in Seq(Patients) /\ Append(acc.left, h) \in Seq(Patients)
  BY DEF Acc
<1> QED
  BY <1>1 DEF Waits, Acc

\* The counters of acc replaced.
LEMMA Recounted ==
  ASSUME NEW l \in Acc, NEW d \in Nat, NEW b \in [Patients -> Nat \cup {NoQuote}],
         NEW m \in 0 .. MaxBudget, NEW c \in 0 .. MaxCash, NEW r \in 0 .. MaxBudget
  PROVE  /\ [l EXCEPT !.done = d, !.bill = b, !.budget = m, !.remaining = r] \in Acc
         /\ [l EXCEPT !.done = d, !.bill = b, !.budget = m, !.cash = c] \in Acc
<1>1. PICK B, P, M, C, S : B = [Patients -> Nat \cup {NoQuote}] /\ P = [Patients -> Record]
                           /\ M = 0 .. MaxBudget /\ C = 0 .. MaxCash /\ S = Seq(Patients)
  OBVIOUS
<1>2. Acc = [left : S, done : Nat, patient : P, budget : M, cash : C, remaining : M, bill : B, refused : BOOLEAN]
  BY <1>1 DEF Acc
<1>3. b \in B /\ m \in M /\ c \in C /\ r \in M
  BY <1>1
<1> QED
  BY <1>2, <1>3

\* legacy: the subsidy of the next visit.
Paid(acc) == Granted(BudgetLeft(acc.budget, acc.cash))

LEMMA PaidLaw ==
  ASSUME CInv, NEW acc \in Acc
  PROVE  /\ Paid(acc) \in Nat /\ Paid(acc) <= price /\ Paid(acc) <= acc.budget /\ Paid(acc) <= acc.cash
         /\ price \in Nat /\ acc.budget \in 0 .. MaxBudget /\ acc.cash \in 0 .. MaxCash
         /\ acc.budget \in Nat /\ acc.cash \in Nat
<1>1. price \in Nat /\ acc.budget \in 0 .. MaxBudget /\ acc.cash \in 0 .. MaxCash /\ MaxBudget \in Nat /\ MaxCash \in Nat
  BY InvFacts, Constants DEF Acc
<1>2. acc.budget \in Nat /\ acc.cash \in Nat
  BY <1>1
<1>3. PICK m \in Nat : m = BudgetLeft(acc.budget, acc.cash) /\ m <= acc.budget /\ m <= acc.cash
  BY <1>2 DEF BudgetLeft
<1>4. PICK g \in Nat : g = Granted(m) /\ g <= price /\ g <= m
  BY <1>1, GrantedLaw
<1>5. g = Paid(acc) /\ g <= acc.budget /\ g <= acc.cash
  BY <1>2, <1>3, <1>4 DEF Paid
<1> QED
  BY <1>1, <1>2, <1>4, <1>5

\* legacy: the visit is made, and paid; the treasury may stand in with a loan for what is lacking.
Sold(acc, h, backed) ==
  [Leaves(acc, h) EXCEPT !.done = @ + 1, !.bill[h] = price - Paid(acc),
                         !.budget = @ - Paid(acc), !.cash = @ - Paid(acc) - backed]

LEMMA SoldFields ==
  ASSUME CInv, NEW acc \in Acc, NEW h \in Patients, NEW backed \in Nat, backed <= acc.cash - Paid(acc)
  PROVE  LET n == Sold(acc, h, backed)
         IN /\ n \in Acc /\ n.left = acc.left /\ n.done = acc.done + 1
            /\ n.patient = [acc.patient EXCEPT ![h] = [acc.patient[h] EXCEPT !.queued = FALSE]]
            /\ n.bill = [acc.bill EXCEPT ![h] = price - Paid(acc)]
            /\ n.budget = acc.budget - Paid(acc) /\ n.cash <= acc.cash - Paid(acc)
            /\ n.remaining = acc.remaining /\ n.refused = acc.refused
            /\ price - Paid(acc) \in Nat
<1> DEFINE l == Leaves(acc, h)
           g == Paid(acc)
<1>1. /\ l \in Acc /\ l.left = acc.left /\ l.done = acc.done
      /\ l.patient = [acc.patient EXCEPT ![h] = [acc.patient[h] EXCEPT !.queued = FALSE]]
      /\ l.budget = acc.budget /\ l.cash = acc.cash
      /\ l.remaining = acc.remaining /\ l.bill = acc.bill /\ l.refused = acc.refused
  BY LeavesFields
<1>2. /\ price \in Nat /\ acc.budget \in 0 .. MaxBudget /\ acc.cash \in 0 .. MaxCash
      /\ g \in Nat /\ g <= price /\ g <= acc.budget /\ g <= acc.cash
  BY PaidLaw
<1>3. PICK c : c = l.cash - g - backed
  OBVIOUS
<1>4. Sold(acc, h, backed) = [l EXCEPT !.done = l.done + 1, !.bill = [l.bill EXCEPT ![h] = price - g],
                                       !.budget = l.budget - g, !.cash = c]
  BY <1>3 DEF Sold
<1>5. price - g \in Nat /\ acc.budget - g \in 0 .. MaxBudget /\ c \in 0 .. MaxCash /\ c <= acc.cash - g
  <2> HIDE DEF l, g
  <2>1. backed <= acc.cash - g /\ c = acc.cash - g - backed
    BY <1>1, <1>3 DEF g
  <2> QED
    BY <1>2, <2>1, Constants
<1> HIDE DEF l, g
<1>6. acc.bill \in [Patients -> Nat \cup {NoQuote}] /\ acc.done \in Nat
  BY DEF Acc
<1>7. [l.bill EXCEPT ![h] = price - g] \in [Patients -> Nat \cup {NoQuote}] /\ l.done + 1 \in Nat
  BY <1>1, <1>5, <1>6
<1>8. LET n == Sold(acc, h, backed)
      IN /\ n.left = l.left /\ n.done = l.done + 1 /\ n.patient = l.patient
         /\ n.bill = [l.bill EXCEPT ![h] = price - g] /\ n.budget = l.budget - g /\ n.cash = c
         /\ n.remaining = l.remaining /\ n.refused = l.refused
  BY <1>1, <1>4 DEF Acc
<1>9. Sold(acc, h, backed) \in Acc
  <2>1. PICK d \in Nat, b \in [Patients -> Nat \cup {NoQuote}], m \in 0 .. MaxBudget :
           d = l.done + 1 /\ b = [l.bill EXCEPT ![h] = price - g] /\ m = l.budget - g
    BY <1>1, <1>5, <1>7
  <2>2. Sold(acc, h, backed) = [l EXCEPT !.done = d, !.bill = b, !.budget = m, !.cash = c]
    BY <1>4, <2>1
  <2>3. [l EXCEPT !.done = d, !.bill = b, !.budget = m, !.cash = c] \in Acc
    <3>1. m \in 0 .. MaxBudget /\ c \in 0 .. MaxCash
      BY <1>5, <2>1
    <3> QED
      BY <1>1, <3>1, Recounted, Constants
  <2> QED
    BY <2>2, <2>3
<1> QED
  BY <1>1, <1>5, <1>8, <1>9 DEF g

\* payment: the visit is made, and charged to the public money or to the household.
Served(acc, h, gap) ==
  [Treated(acc, h, gap) EXCEPT !.done = @ + 1, !.bill[h] = price - Public,
     !.budget = @ - Public, !.remaining = @ - Public]

LEMMA ServedFields ==
  ASSUME CInv, NEW acc \in Acc, NEW h \in Patients, NEW gap \in 1 .. MaxGap,
         Public <= acc.budget, Public <= acc.remaining
  PROVE  /\ Served(acc, h, gap) \in Acc /\ Served(acc, h, gap).left = acc.left
         /\ Served(acc, h, gap).done = acc.done + 1
         /\ Served(acc, h, gap).patient = [acc.patient EXCEPT ![h] = Cured(acc.patient[h], gap)]
         /\ Served(acc, h, gap).bill = [acc.bill EXCEPT ![h] = price - Public]
         /\ Served(acc, h, gap).budget = acc.budget - Public
         /\ Served(acc, h, gap).remaining = acc.remaining - Public
         /\ Served(acc, h, gap).refused = acc.refused
         /\ price - Public \in Nat /\ price - Public <= price
<1> DEFINE l == Treated(acc, h, gap)
<1>1. /\ l \in Acc /\ l.left = acc.left /\ l.done = acc.done
      /\ l.patient = [acc.patient EXCEPT ![h] = Cured(acc.patient[h], gap)]
      /\ l.budget = acc.budget /\ l.remaining = acc.remaining /\ l.bill = acc.bill /\ l.refused = acc.refused
  BY TreatedFields
<1>2. PICK g \in Nat : g = Public /\ g <= price
  BY InvFacts DEF Public
<1>3. price \in Nat /\ acc.budget \in 0 .. MaxBudget /\ acc.remaining \in 0 .. MaxBudget /\ MaxBudget \in Nat
  BY InvFacts, Constants DEF Acc
<1>4. Served(acc, h, gap) = [l EXCEPT !.done = l.done + 1, !.bill = [l.bill EXCEPT ![h] = price - g],
                                      !.budget = l.budget - g, !.remaining = l.remaining - g]
  BY <1>2 DEF Served
<1> HIDE DEF l
<1>5. price - g \in Nat /\ acc.budget - g \in 0 .. MaxBudget /\ acc.remaining - g \in 0 .. MaxBudget
  BY <1>2, <1>3
<1>6. acc.bill \in [Patients -> Nat \cup {NoQuote}] /\ acc.done \in Nat
  BY DEF Acc
<1>7. price - g <= price
  BY <1>2, <1>3
<1>8. [l.bill EXCEPT ![h] = price - g] \in [Patients -> Nat \cup {NoQuote}] /\ l.done + 1 \in Nat
  BY <1>1, <1>5, <1>6
<1>9. LET n == Served(acc, h, gap)
      IN /\ n.left = l.left /\ n.done = l.done + 1 /\ n.patient = l.patient
         /\ n.bill = [l.bill EXCEPT ![h] = price - g] /\ n.budget = l.budget - g
         /\ n.remaining = l.remaining - g /\ n.refused = l.refused
  BY <1>1, <1>4 DEF Acc
<1>10. Served(acc, h, gap) \in Acc
  <2>1. PICK d \in Nat, b \in [Patients -> Nat \cup {NoQuote}], m \in 0 .. MaxBudget, r \in 0 .. MaxBudget :
           /\ d = l.done + 1 /\ b = [l.bill EXCEPT ![h] = price - g]
           /\ m = l.budget - g /\ r = l.remaining - g
    BY <1>1, <1>5, <1>8
  <2>2. Served(acc, h, gap) = [l EXCEPT !.done = d, !.bill = b, !.budget = m, !.remaining = r]
    BY <1>4, <2>1
  <2>3. [l EXCEPT !.done = d, !.bill = b, !.budget = m, !.remaining = r] \in Acc
    <3>1. 0 \in 0 .. MaxCash
      BY Constants
    <3> QED
      BY <1>1, <3>1, Recounted
  <2> QED
    BY <2>2, <2>3
<1> QED
  BY <1>1, <1>2, <1>5, <1>7, <1>9, <1>10

\* Turned away, and the price once accepted does not count any more.
Unaccepted(acc, h) == [TurnedAway(acc, h) EXCEPT !.patient[h].quote = NoQuote]
Asked(p) == [p EXCEPT !.queued = FALSE, !.retry = TRUE]

LEMMA UnacceptedFields ==
  ASSUME NEW acc \in Acc, NEW h \in Patients
  PROVE  /\ Unaccepted(acc, h) \in Acc /\ Unaccepted(acc, h).left = acc.left /\ Unaccepted(acc, h).done = acc.done
         /\ Unaccepted(acc, h).patient = [acc.patient EXCEPT ![h] = [Asked(acc.patient[h]) EXCEPT !.quote = NoQuote]]
         /\ Unaccepted(acc, h).bill = acc.bill
         /\ Unaccepted(acc, h).budget = acc.budget /\ Unaccepted(acc, h).remaining = acc.remaining
         /\ Unaccepted(acc, h).refused = acc.refused
<1> DEFINE l == TurnedAway(acc, h)
<1>1. /\ l \in Acc /\ l.left = acc.left /\ l.done = acc.done
      /\ l.patient = [acc.patient EXCEPT ![h] = Asked(acc.patient[h])]
      /\ l.budget = acc.budget /\ l.remaining = acc.remaining /\ l.bill = acc.bill /\ l.refused = acc.refused
  BY AwayFields DEF Asked
<1>2. Unaccepted(acc, h) = [l EXCEPT !.patient[h].quote = NoQuote]
  BY DEF Unaccepted
<1> HIDE DEF l
<1>3. acc.patient \in [Patients -> Record] /\ l.patient[h] = Asked(acc.patient[h])
  BY <1>1 DEF Acc
<1>4. Unaccepted(acc, h) = [l EXCEPT !.patient = [l.patient EXCEPT ![h] = [l.patient[h] EXCEPT !.quote = NoQuote]]]
  BY <1>2
<1>5. [Asked(acc.patient[h]) EXCEPT !.quote = NoQuote] \in Record
  <2>1. acc.patient[h] \in Record
    BY <1>3
  <2> QED
    BY <2>1 DEF Record, Asked
<1>6. [l.patient EXCEPT ![h] = [l.patient[h] EXCEPT !.quote = NoQuote]]
        = [acc.patient EXCEPT ![h] = [Asked(acc.patient[h]) EXCEPT !.quote = NoQuote]]
  BY <1>1, <1>3
<1>7. PICK ps \in [Patients -> Record] : ps = [acc.patient EXCEPT ![h] = [Asked(acc.patient[h]) EXCEPT !.quote = NoQuote]]
  BY <1>3, <1>5
<1>8. Unaccepted(acc, h) = [l EXCEPT !.patient = ps]
  BY <1>4, <1>6, <1>7
<1>9. Unaccepted(acc, h) \in Acc
  BY <1>1, <1>7, <1>8 DEF Acc
<1>10. LET n == Unaccepted(acc, h)
       IN /\ n.left = l.left /\ n.done = l.done /\ n.patient = ps /\ n.bill = l.bill
          /\ n.budget = l.budget /\ n.remaining = l.remaining /\ n.refused = l.refused
  BY <1>1, <1>8 DEF Acc
<1> QED
  BY <1>1, <1>7, <1>9, <1>10

LEMMA LegacyCases ==
  ASSUME CInv, NEW acc \in Acc, NEW h \in Waiting, NEW slots, NEW means \in [Waiting -> Means], NEW gap,
         sequence = "legacy"
  PROVE  \/ Step(acc, h, slots, means, gap) = Waits(acc, h)
         \/ Step(acc, h, slots, means, gap) = Leaves(acc, h)
         \/ \E backed \in Nat : /\ backed <= acc.cash - Paid(acc)
                                /\ Step(acc, h, slots, means, gap) = Sold(acc, h, backed)
<1> DEFINE lacks == price - Paid(acc) - means[h].cash
           backed == IF lacks > 0 /\ means[h].credit = "treasury" THEN lacks ELSE 0
<1>1. Step(acc, h, slots, means, gap)
        = IF acc.done >= slots THEN Waits(acc, h)
          ELSE IF (lacks > 0 /\ means[h].credit = "none") \/ backed > acc.cash - Paid(acc) THEN Leaves(acc, h)
          ELSE Sold(acc, h, backed)
  BY Zenon DEF Step, TreatLegacy, Sold, Paid
<1>2. means[h].cash \in Nat
  BY Constants
<1>3. lacks \in Int /\ Paid(acc) \in Nat /\ acc.cash \in Nat
  BY <1>2, PaidLaw
<1> HIDE DEF lacks
<1>4. backed \in Nat
  BY <1>3
<1> HIDE DEF backed
<1>5. backed > acc.cash - Paid(acc) \/ backed <= acc.cash - Paid(acc)
  BY <1>3, <1>4
<1> QED
  BY <1>1, <1>4, <1>5, Zenon

LEMMA PaymentCases ==
  ASSUME NEW acc, NEW h, NEW slots, NEW means, NEW gap, sequence = "payment"
  PROVE  \/ ~acc.patient[h].queued /\ Step(acc, h, slots, means, gap) = acc
         \/ Step(acc, h, slots, means, gap) = Waits(acc, h)
         \/ Step(acc, h, slots, means, gap) = Unaccepted(acc, h)
         \/ Step(acc, h, slots, means, gap) = TurnedAway(acc, h)
         \/ /\ Funded(acc, h, means) /\ ~Commits(acc, h, means)
            /\ Step(acc, h, slots, means, gap) = [TurnedAway(acc, h) EXCEPT !.refused = TRUE]
         \/ /\ ~Overpriced(acc, h) /\ Funded(acc, h, means) /\ Commits(acc, h, means)
            /\ Step(acc, h, slots, means, gap) = Served(acc, h, gap)
<1>1. Step(acc, h, slots, means, gap) = TreatPayment(acc, h, slots, means, gap)
  BY DEF Step
<1>2. CASE ~acc.patient[h].queued
  BY <1>1, <1>2, Zenon DEF TreatPayment
<1>3. CASE acc.patient[h].queued /\ (acc.done >= slots \/ Overpriced(acc, h))
  BY <1>1, <1>3, Zenon DEF TreatPayment, Unaccepted
<1>4. CASE acc.patient[h].queued /\ ~(acc.done >= slots) /\ ~Overpriced(acc, h)
  BY <1>1, <1>4, Zenon DEF TreatPayment, Served
<1> QED
  BY <1>2, <1>3, <1>4

\* What a funded visit takes of the public money is there, in both counts.
LEMMA FundedLaw ==
  ASSUME CInv, NEW acc \in Acc, NEW h \in Waiting, NEW means \in [Waiting -> Means], Funded(acc, h, means)
  PROVE  /\ Public \in Nat /\ Public <= acc.remaining /\ Public <= price
         /\ price - Public - Shortfall(means, h) <= means[h].cash
         /\ Shortfall(means, h) <= Pending(h, means)
<1>1. means[h].cash \in Nat /\ price \in Nat /\ acc.remaining \in Nat
  BY InvFacts, Constants DEF Acc
<1>2. CASE covered
  BY <1>1, <1>2 DEF Funded, Public, Shortfall, Private, Pending
<1>3. CASE ~covered
  <2>1. Min({price, means[h].cash}) \in Nat /\ Min({price, means[h].cash}) <= means[h].cash
    BY <1>1, MinOfNats
  <2> QED
    BY <1>1, <1>3, <2>1 DEF Public, Shortfall, Private, Pending
<1> QED
  BY <1>2, <1>3, InvFacts

LEMMA StepTyped ==
  ASSUME CInv, NEW acc \in Acc, NEW h \in Waiting, NEW slots, NEW means \in [Waiting -> Means], NEW gap \in 1 .. MaxGap
  PROVE  Step(acc, h, slots, means, gap) \in Acc
<1>1. h \in Patients
  BY DEF Waiting
<1>2. /\ Waits(acc, h) \in Acc /\ Leaves(acc, h) \in Acc
      /\ \A backed \in Nat : backed <= acc.cash - Paid(acc) => Sold(acc, h, backed) \in Acc
      /\ Unaccepted(acc, h) \in Acc /\ TurnedAway(acc, h) \in Acc
  BY <1>1, WaitsFields, LeavesFields, SoldFields, UnacceptedFields, AwayFields
<1>3. [TurnedAway(acc, h) EXCEPT !.refused = TRUE] \in Acc
  BY <1>2 DEF Acc
<1>4. ASSUME Funded(acc, h, means), Commits(acc, h, means) PROVE Served(acc, h, gap) \in Acc
  <2>1. Public <= acc.budget /\ Public <= acc.remaining
    BY <1>4, FundedLaw DEF Commits
  <2> QED
    BY <1>1, <2>1, ServedFields
<1>5. sequence \in {"legacy", "payment"}
  BY InvFacts
<1>6. CASE sequence = "legacy"
  BY <1>2, <1>6, LegacyCases
<1>7. CASE sequence = "payment"
  <2>1. PICK next : next = Step(acc, h, slots, means, gap)
    OBVIOUS
  <2>2. next = acc \/ next \in Acc
    BY <1>2, <1>3, <1>4, <1>7, <2>1, PaymentCases
  <2> QED
    BY <2>1, <2>2
<1> QED
  BY <1>5, <1>6, <1>7

\* What the pass may make of the next patient in the queue.
Outcome(acc, next, h) ==
  LET p == acc.patient[h]  r == next.patient[h]
  IN /\ \A g \in Patients \ {h} : next.patient[g] = acc.patient[g] /\ next.bill[g] = acc.bill[g]
     /\ next.left = IF r.queued THEN Append(acc.left, h) ELSE acc.left
     /\ Agrees(r)
     /\ p.due /\ ~r.due => next.bill[h] # NoQuote /\ r.visits = p.visits - 1
     /\ sequence = "payment" => next.budget = next.remaining
     /\ ~next.refused
     /\ sequence = "payment" /\ next.bill[h] # NoQuote => next.bill[h] <= p.quote
     /\ \/ next.bill[h] = NoQuote /\ next.done = acc.done
           /\ (sequence = "legacy" => next.budget = acc.budget /\ next.cash = acc.cash)
        \/ next.bill[h] \in Nat /\ next.done = acc.done + 1
           /\ (sequence = "legacy" => /\ next.bill[h] = price - Paid(acc)
                                      /\ next.budget = acc.budget - Paid(acc)
                                      /\ next.cash <= acc.cash - Paid(acc))

\* What is known of the next patient before.
Next1(acc, h) ==
  /\ acc \in Acc /\ h \in Waiting
  /\ acc.patient[h] = patient[h] /\ acc.bill[h] = NoQuote
  /\ sequence = "payment" => acc.budget = acc.remaining
  /\ ~acc.refused

LEMMA StepOutcome ==
  ASSUME CInv, NEW acc, NEW h, Next1(acc, h), NEW slots, NEW means \in [Waiting -> Means], NEW gap \in 1 .. MaxGap
  PROVE  Outcome(acc, Step(acc, h, slots, means, gap), h)
<1> DEFINE p == acc.patient[h]
<1> SUFFICES ASSUME NEW next, next = Step(acc, h, slots, means, gap) PROVE Outcome(acc, next, h)
  OBVIOUS
<1>1. /\ acc \in Acc /\ h \in Waiting /\ h \in Patients /\ p = patient[h] /\ acc.bill[h] = NoQuote /\ ~acc.refused
      /\ sequence = "payment" => acc.budget = acc.remaining
  BY DEF Next1, Waiting
<1>2. p \in Record /\ Agrees(p) /\ p.queued /\ NoQuote \notin Nat /\ price \in Nat /\ sequence \in {"legacy", "payment"}
  BY <1>1, InvFacts, Constants DEF Waiting
<1>3. acc.patient \in [Patients -> Record] /\ acc.bill \in [Patients -> Nat \cup {NoQuote}]
  BY <1>1 DEF Acc
<1>4. CASE next = Waits(acc, h)
  <2>1. /\ next.left = Append(acc.left, h) /\ next.patient = acc.patient /\ next.bill = acc.bill /\ next.done = acc.done
        /\ next.budget = acc.budget /\ next.cash = acc.cash /\ next.remaining = acc.remaining
        /\ next.refused = acc.refused
    BY <1>1, <1>4, WaitsFields
  <2> QED
    BY <1>1, <1>2, <2>1 DEF Outcome
<1>5. CASE next = Leaves(acc, h) /\ sequence = "legacy"
  <2>1. /\ next.left = acc.left /\ next.bill = acc.bill /\ next.done = acc.done
        /\ next.patient = [acc.patient EXCEPT ![h] = [p EXCEPT !.queued = FALSE]]
        /\ next.budget = acc.budget /\ next.cash = acc.cash /\ next.refused = acc.refused
    BY <1>1, <1>5, LeavesFields
  <2>2. next.patient[h] = [p EXCEPT !.queued = FALSE] /\ \A g \in Patients \ {h} : next.patient[g] = acc.patient[g]
    BY <1>1, <1>3, <2>1
  <2>3. /\ ~next.patient[h].queued /\ next.patient[h].due = p.due /\ next.patient[h].retry = p.retry
        /\ next.patient[h].visits = p.visits
    BY <1>2, <2>2 DEF Record
  <2>4. Agrees(next.patient[h])
    BY <1>2, <2>3 DEF Agrees
  <2> QED
    BY <1>1, <1>2, <1>5, <2>1, <2>2, <2>3, <2>4 DEF Outcome
<1>6. ASSUME NEW backed \in Nat, backed <= acc.cash - Paid(acc), next = Sold(acc, h, backed), sequence = "legacy"
      PROVE  Outcome(acc, next, h)
  <2>1. /\ next.left = acc.left /\ next.done = acc.done + 1
        /\ next.bill = [acc.bill EXCEPT ![h] = price - Paid(acc)]
        /\ next.patient = [acc.patient EXCEPT ![h] = [p EXCEPT !.queued = FALSE]]
        /\ next.budget = acc.budget - Paid(acc) /\ next.cash <= acc.cash - Paid(acc) /\ next.refused = acc.refused
        /\ price - Paid(acc) \in Nat
    BY <1>1, <1>6, SoldFields
  <2>2. /\ next.patient[h] = [p EXCEPT !.queued = FALSE] /\ next.bill[h] = price - Paid(acc)
        /\ \A g \in Patients \ {h} : next.patient[g] = acc.patient[g] /\ next.bill[g] = acc.bill[g]
    BY <1>1, <1>3, <2>1
  <2>3. /\ ~next.patient[h].queued /\ next.patient[h].due = p.due /\ next.patient[h].retry = p.retry
        /\ next.patient[h].visits = p.visits
    BY <1>2, <2>2 DEF Record
  <2>4. Agrees(next.patient[h])
    BY <1>2, <2>3 DEF Agrees
  <2> QED
    BY <1>1, <1>2, <1>6, <2>1, <2>2, <2>3, <2>4 DEF Outcome
\* Turned away, with or without a price to come back at.
<1>7. ASSUME sequence = "payment",
             /\ next.left = acc.left /\ next.done = acc.done /\ next.bill = acc.bill
             /\ next.budget = acc.budget /\ next.remaining = acc.remaining /\ next.refused = acc.refused,
             NEW r, next.patient = [acc.patient EXCEPT ![h] = r],
             r \in {Asked(p), [Asked(p) EXCEPT !.quote = NoQuote]}
      PROVE  Outcome(acc, next, h)
  <2>1. next.patient[h] = r /\ \A g \in Patients \ {h} : next.patient[g] = acc.patient[g]
    BY <1>1, <1>3, <1>7
  <2>2. ~r.queued /\ r.due = p.due /\ r.visits = p.visits /\ r.retry
    BY <1>2, <1>7 DEF Record, Asked
  <2>3. Agrees(r)
    BY <1>2, <1>7, <2>2 DEF Agrees
  <2> QED
    BY <1>1, <1>2, <1>7, <2>1, <2>2, <2>3 DEF Outcome
<1>8. CASE next = Unaccepted(acc, h) /\ sequence = "payment"
  <2>1. PICK n : n = Unaccepted(acc, h)
    OBVIOUS
  <2>2. /\ n.left = acc.left /\ n.done = acc.done /\ n.bill = acc.bill
        /\ n.budget = acc.budget /\ n.remaining = acc.remaining /\ n.refused = acc.refused
        /\ n.patient = [acc.patient EXCEPT ![h] = [Asked(p) EXCEPT !.quote = NoQuote]]
    BY <1>1, <2>1, UnacceptedFields
  <2>3. PICK r : r = [Asked(p) EXCEPT !.quote = NoQuote]
    OBVIOUS
  <2> QED
    BY <1>7, <1>8, <2>1, <2>2, <2>3
<1>9. CASE next = TurnedAway(acc, h) /\ sequence = "payment"
  <2>1. PICK n : n = TurnedAway(acc, h)
    OBVIOUS
  <2>2. /\ n.left = acc.left /\ n.done = acc.done /\ n.bill = acc.bill
        /\ n.budget = acc.budget /\ n.remaining = acc.remaining /\ n.refused = acc.refused
        /\ n.patient = [acc.patient EXCEPT ![h] = Asked(p)]
    BY <1>1, <2>1, AwayFields DEF Asked
  <2>3. PICK r : r = Asked(p)
    OBVIOUS
  <2> QED
    BY <1>7, <1>9, <2>1, <2>2, <2>3
\* The restriction holds what the arm's own count found there.
<1>10. ASSUME sequence = "payment", Funded(acc, h, means) PROVE Commits(acc, h, means)
  BY <1>1, <1>10, FundedLaw DEF Commits
<1>11. CASE /\ next = Served(acc, h, gap) /\ sequence = "payment"
            /\ ~Overpriced(acc, h) /\ Funded(acc, h, means)
  <2>1. Public \in Nat /\ Public <= acc.remaining /\ Public <= acc.budget
    BY <1>1, <1>11, FundedLaw
  <2>2. /\ next.left = acc.left /\ next.done = acc.done + 1
        /\ next.bill = [acc.bill EXCEPT ![h] = price - Public]
        /\ next.patient = [acc.patient EXCEPT ![h] = Cured(p, gap)]
        /\ next.budget = acc.budget - Public /\ next.remaining = acc.remaining - Public /\ next.refused = acc.refused
        /\ price - Public \in Nat
    BY <1>1, <1>11, <2>1, ServedFields
  <2>3. /\ next.patient[h] = Cured(p, gap) /\ next.bill[h] = price - Public
        /\ \A g \in Patients \ {h} : next.patient[g] = acc.patient[g] /\ next.bill[g] = acc.bill[g]
    BY <1>1, <1>3, <2>2
  <2>4. p.due /\ p.visits > 0 /\ p.quote \in Prices /\ p.quote \in Nat
    BY <1>2, <1>11, Constants DEF Agrees
  <2>5. ~Cured(p, gap).queued /\ ~Cured(p, gap).due /\ ~Cured(p, gap).retry /\ Cured(p, gap).visits = p.visits - 1
    BY <1>2, <2>4 DEF Cured, Record
  <2>6. Agrees(Cured(p, gap))
    BY <2>5 DEF Agrees
  <2>7. price - Public <= p.quote
    <3>1. covered \/ price <= p.quote
      BY <1>2, <1>11, <2>4 DEF Overpriced
    <3>2. covered => price - Public = 0
      BY <1>2 DEF Public
    <3> QED
      BY <1>2, <2>1, <2>4, <3>1, <3>2
  <2> QED
    BY <1>1, <1>2, <1>11, <2>2, <2>3, <2>4, <2>5, <2>6, <2>7 DEF Outcome
<1> QED
  BY <1>1, <1>2, <1>4, <1>5, <1>6, <1>8, <1>9, <1>10, <1>11, LegacyCases, PaymentCases

-----------------------------------------------------------------------------
(* The pass *)

\* A row of states, one for every prefix of the queue in the order of treatment.
Row(A, slots, means, gap, free) ==
  /\ A \in [0 .. Len(Ordered) -> Acc]
  /\ A[0] = Start(free)
  /\ \A k \in 1 .. Len(Ordered) : A[k] = Step(A[k - 1], Ordered[k], slots, means, gap)

LEMMA OrderedFacts ==
  ASSUME CInv
  PROVE  /\ Lists(Ordered, Waiting) /\ Len(Ordered) \in Nat
         /\ \A i \in 1 .. Len(Ordered) : Ordered[i] \in Waiting
         /\ \A i, j \in 1 .. Len(Ordered) : Ordered[i] = Ordered[j] => i = j
         /\ \A h \in Waiting : \E i \in 1 .. Len(Ordered) : Ordered[i] = h
         /\ DOMAIN Ordered = 1 .. Len(Ordered)
<1>1. Waiting \in SUBSET Patients /\ Lists(queue, Waiting) /\ week \in Nat
  BY InvFacts DEF Waiting
<1>2. Lists(Ordered, Waiting)
  BY <1>1, OrderedLaw
<1>3. /\ Ordered \in Seq(Waiting)
      /\ \A i, j \in 1 .. Len(Ordered) : Ordered[i] = Ordered[j] => i = j
      /\ \A h \in Waiting : \E i \in 1 .. Len(Ordered) : Ordered[i] = h
  BY <1>2, ListsMeans
<1>4. Len(Ordered) \in Nat /\ DOMAIN Ordered = 1 .. Len(Ordered) /\ \A i \in 1 .. Len(Ordered) : Ordered[i] \in Waiting
  BY <1>3
<1> QED
  BY <1>2, <1>3, <1>4

LEMMA StartTyped == ASSUME CInv, NEW free \in 0 .. MaxCash PROVE Start(free) \in Acc
<1>1. /\ patient \in [Patients -> Record] /\ budget \in 0 .. MaxBudget /\ remaining \in 0 .. MaxBudget /\ refused \in BOOLEAN
  BY InvFacts DEF CInv, TypeOK
<1>2. Nobody \in [Patients -> Nat \cup {NoQuote}] /\ <<>> \in Seq(Patients) /\ 0 \in Nat
  BY DEF Nobody
<1> QED
  BY <1>1, <1>2 DEF Start, Acc

\* The fold of the pass is the end of such a row.
LEMMA PassRow ==
  ASSUME CInv, NEW slots \in Nat, NEW means \in [Waiting -> Means], NEW gap \in 1 .. MaxGap, NEW free \in 0 .. MaxCash
  PROVE  \E A : /\ Row(A, slots, means, gap, free)
                /\ Pass(slots, means, gap, free) = IF slots = 0 THEN [Start(free) EXCEPT !.left = Prioritized] ELSE A[Len(Ordered)]
<1> DEFINE q == Ordered
           D == DOMAIN q
           n == Len(q)
           S(acc, h) == Step(acc, h, slots, means, gap)
           Iter(g) == [s \in SUBSET D |-> IF s = {} THEN Start(free) ELSE S(g[s \ {Max(s)}], q[Max(s)])]
           it == CHOOSE g : g = Iter(g)
           step == [p \in (1 .. n) \X Acc |-> S(p[2], q[p[1]])]
<1>1. Pass(slots, means, gap, free) = IF slots = 0 THEN [Start(free) EXCEPT !.left = Prioritized] ELSE it[D]
  BY Zenon DEF Pass, FoldLeft, MapThenFoldSet, Step
<1>2. D = 1 .. n /\ n \in Nat /\ \A i \in 1 .. n : q[i] \in Waiting
  BY OrderedFacts
<1>3. \A i \in 1 .. n, v \in Acc : step[<<i, v>>] = S(v, q[i])
  OBVIOUS
<1>4. \A i \in 1 .. n, v \in Acc : step[<<i, v>>] \in Acc
  <2> SUFFICES ASSUME NEW i \in 1 .. n, NEW v \in Acc PROVE step[<<i, v>>] \in Acc
    OBVIOUS
  <2>1. q[i] \in Waiting
    BY <1>2
  <2>2. S(v, q[i]) \in Acc
    BY <2>1, StepTyped
  <2> HIDE DEF step, S
  <2> QED
    BY <1>3, <2>2
<1> HIDE DEF step, q, n
<1>5. PICK g : Along(g, n, Acc, Start(free), step)
  <2>1. n \in Nat /\ Start(free) \in Acc
    BY <1>2, StartTyped
  <2> QED
    BY <1>4, <2>1, PlacesFold
<1>6. g = Iter(g)
  <2>1. ASSUME NEW s \in SUBSET D, s # {} PROVE g[s] = S(g[s \ {Max(s)}], q[Max(s)])
    <3>1. Max(s) \in s /\ g[s] = step[<<Max(s), g[s \ {Max(s)}]>>] /\ Max(s) \in 1 .. n
      BY <1>2, <1>5, <2>1 DEF Along
    <3>2. g[s \ {Max(s)}] \in Acc
      BY <1>2, <1>5 DEF Along
    <3> HIDE DEF S
    <3> QED
      BY <1>3, <3>1, <3>2
  <2>2. g \in [SUBSET D -> Acc] /\ g[{}] = Start(free)
    BY <1>2, <1>5 DEF Along
  <2> HIDE DEF S, D
  <2> QED
    BY <2>1, <2>2
<1>7. it = Iter(it)
  <2> HIDE DEF Iter
  <2> QED
    BY <1>6
<1>8. it[{}] = Start(free) /\ \A s \in SUBSET D : s # {} => it[s] = S(it[s \ {Max(s)}], q[Max(s)])
  <2> HIDE DEF S, it, D
  <2> QED
    BY <1>7
<1> HIDE DEF it
<1> DEFINE A == [k \in 0 .. n |-> it[1 .. k]]
<1>9. \A k \in 1 .. n : it[1 .. k] = S(it[1 .. (k - 1)], q[k])
  <2> SUFFICES ASSUME NEW k \in 1 .. n PROVE it[1 .. k] = S(it[1 .. (k - 1)], q[k])
    OBVIOUS
  <2>1. /\ 1 .. k \in SUBSET D /\ 1 .. k # {} /\ Max(1 .. k) = k /\ (1 .. k) \ {k} = 1 .. (k - 1)
    BY <1>2, FirstPlaces
  <2> HIDE DEF S
  <2> QED
    BY <1>8, <2>1
<1>10. \A k \in 0 .. n : it[1 .. k] \in Acc
  <2> DEFINE P == {k \in 0 .. n : it[1 .. k] \in Acc}
  <2>1. 0 \in P
    BY <1>2, <1>8, StartTyped, FirstPlaces
  <2>2. ASSUME NEW k \in 1 .. n, k - 1 \in P PROVE k \in P
    <3>1. it[1 .. (k - 1)] \in Acc /\ q[k] \in Waiting /\ k \in 0 .. n
      BY <1>2, <2>2
    <3>2. S(it[1 .. (k - 1)], q[k]) \in Acc
      BY <3>1, StepTyped
    <3> HIDE DEF S
    <3> QED
      BY <1>9, <3>1, <3>2
  <2>3. P \in SUBSET (0 .. n)
    OBVIOUS
  <2> HIDE DEF P
  <2>4. P = 0 .. n
    BY <1>2, <2>1, <2>2, <2>3, UpTo
  <2> QED
    BY <2>4 DEF P
<1>11. Row(A, slots, means, gap, free)
  <2>1. A \in [0 .. n -> Acc]
    BY <1>10
  <2>2. A[0] = Start(free)
    BY <1>2, <1>8, FirstPlaces
  <2>3. ASSUME NEW k \in 1 .. n PROVE A[k] = S(A[k - 1], q[k])
    <3>1. k \in 0 .. n /\ k - 1 \in 0 .. n
      BY <1>2
    <3> HIDE DEF S
    <3> QED
      BY <1>9, <3>1
  <2> HIDE DEF A
  <2> QED
    BY <2>1, <2>2, <2>3 DEF Row, q, n
<1>12. A[n] = it[D]
  BY <1>2
<1> QED
  BY <1>1, <1>11, <1>12 DEF n, q

\* The patients of the first k places have been seen.
Seen(k) == {Ordered[i] : i \in 1 .. k}

\* What holds of a patient during the pass.
Fate(acc, h) ==
  /\ Agrees(acc.patient[h])
  /\ patient[h].due /\ ~acc.patient[h].due => acc.bill[h] # NoQuote /\ acc.patient[h].visits = patient[h].visits - 1
  /\ sequence = "payment" /\ acc.bill[h] # NoQuote => acc.bill[h] <= patient[h].quote

\* After k places, those seen who stay are listed, the others are as they were.
Known(acc, k) ==
  /\ acc \in Acc
  /\ Lists(acc.left, {h \in Seen(k) : acc.patient[h].queued})
  /\ \A h \in Patients \ Seen(k) : acc.patient[h] = patient[h] /\ acc.bill[h] = NoQuote
  /\ \A h \in Patients : Fate(acc, h)
  /\ sequence = "payment" => acc.budget = acc.remaining
  /\ ~acc.refused

LEMMA SeenNext ==
  ASSUME CInv, NEW k \in 1 .. Len(Ordered)
  PROVE  /\ Ordered[k] \in Waiting /\ Ordered[k] \notin Seen(k - 1)
         /\ Seen(k) = Seen(k - 1) \cup {Ordered[k]}
<1>1. /\ Len(Ordered) \in Nat /\ \A i \in 1 .. Len(Ordered) : Ordered[i] \in Waiting
      /\ \A i, j \in 1 .. Len(Ordered) : Ordered[i] = Ordered[j] => i = j
  BY OrderedFacts
<1>2. 1 .. k = (1 .. (k - 1)) \cup {k} /\ \A i \in 1 .. (k - 1) : i \in 1 .. Len(Ordered) /\ i # k
  BY <1>1
<1>3. \A i \in 1 .. (k - 1) : Ordered[i] # Ordered[k]
  BY <1>1, <1>2
<1> QED
  BY <1>1, <1>2, <1>3 DEF Seen

LEMMA KnownStart == ASSUME CInv, NEW free \in 0 .. MaxCash PROVE Known(Start(free), 0)
<1>1. Start(free) \in Acc
  BY StartTyped
<1>2. /\ Start(free).left = <<>> /\ Start(free).patient = patient /\ Start(free).bill = Nobody
      /\ Start(free).budget = budget /\ Start(free).remaining = remaining /\ Start(free).refused = refused
  BY DEF Start
<1>3. Seen(0) = {}
  BY DEF Seen
<1>4. \A h \in Patients : Agrees(patient[h]) /\ Nobody[h] = NoQuote
  BY InvFacts DEF Nobody
<1>5. Lists(Start(free).left, {h \in Seen(0) : Start(free).patient[h].queued})
  <2>1. {h \in Seen(0) : Start(free).patient[h].queued} = {}
    BY <1>3
  <2> QED
    BY <1>2, <2>1, ListsNothing
<1>6. \A h \in Patients : Fate(Start(free), h)
  BY <1>2, <1>4 DEF Fate
<1> QED
  BY <1>1, <1>2, <1>4, <1>5, <1>6 DEF Known, CInv

LEMMA KnownStep ==
  ASSUME CInv, NEW k \in 1 .. Len(Ordered), NEW acc, Known(acc, k - 1),
         NEW slots, NEW means \in [Waiting -> Means], NEW gap \in 1 .. MaxGap
  PROVE  Known(Step(acc, Ordered[k], slots, means, gap), k)
<1> SUFFICES ASSUME NEW next, NEW h, h = Ordered[k], next = Step(acc, h, slots, means, gap)
             PROVE  Known(next, k)
  OBVIOUS
<1>1. h \in Waiting /\ h \in Patients /\ h \notin Seen(k - 1) /\ Seen(k) = Seen(k - 1) \cup {h}
  BY SeenNext DEF Waiting
<1>2. Seen(k - 1) \in SUBSET Patients
  <2>1. \A i \in 1 .. Len(Ordered) : Ordered[i] \in Patients
    BY OrderedFacts DEF Waiting
  <2>2. Len(Ordered) \in Nat /\ \A i \in 1 .. (k - 1) : i \in 1 .. Len(Ordered)
    BY OrderedFacts
  <2> QED
    BY <2>1, <2>2 DEF Seen
<1>3. /\ acc \in Acc
      /\ Lists(acc.left, {g \in Seen(k - 1) : acc.patient[g].queued})
      /\ \A g \in Patients \ Seen(k - 1) : acc.patient[g] = patient[g] /\ acc.bill[g] = NoQuote
      /\ \A g \in Patients : Fate(acc, g)
      /\ sequence = "payment" => acc.budget = acc.remaining
      /\ ~acc.refused
  BY DEF Known
<1>4. Next1(acc, h)
  BY <1>1, <1>3 DEF Next1
<1>5. Outcome(acc, next, h) /\ next \in Acc
  BY <1>1, <1>3, <1>4, StepOutcome, StepTyped
<1>6. /\ \A g \in Patients \ {h} : next.patient[g] = acc.patient[g] /\ next.bill[g] = acc.bill[g]
      /\ next.left = IF next.patient[h].queued THEN Append(acc.left, h) ELSE acc.left
      /\ Agrees(next.patient[h])
      /\ acc.patient[h].due /\ ~next.patient[h].due => next.bill[h] # NoQuote /\ next.patient[h].visits = acc.patient[h].visits - 1
      /\ sequence = "payment" => next.budget = next.remaining
      /\ ~next.refused
      /\ sequence = "payment" /\ next.bill[h] # NoQuote => next.bill[h] <= acc.patient[h].quote
  BY <1>5 DEF Outcome
<1>7. Lists(next.left, {g \in Seen(k) : next.patient[g].queued})
  <2> DEFINE kept == {g \in Seen(k - 1) : acc.patient[g].queued}
  <2>1. \A g \in Seen(k - 1) : next.patient[g] = acc.patient[g]
    BY <1>1, <1>2, <1>6
  <2>2. {g \in Seen(k) : next.patient[g].queued} = IF next.patient[h].queued THEN kept \cup {h} ELSE kept
    BY <1>1, <2>1
  <2>3. h \notin kept
    BY <1>1
  <2> HIDE DEF kept
  <2>4. Lists(acc.left, kept)
    BY <1>3 DEF kept
  <2>5. Lists(Append(acc.left, h), kept \cup {h})
    BY <2>3, <2>4, ListsAppend
  <2> QED
    BY <1>6, <2>2, <2>4, <2>5
<1>8. \A g \in Patients \ Seen(k) : next.patient[g] = patient[g] /\ next.bill[g] = NoQuote
  BY <1>1, <1>3, <1>6
<1>9. ASSUME NEW g \in Patients PROVE Fate(next, g)
  <2>1. CASE g = h
    <3>1. acc.patient[h] = patient[h]
      BY <1>4 DEF Next1
    <3> QED
      BY <1>6, <2>1, <3>1 DEF Fate
  <2>2. CASE g # h
    BY <1>3, <1>6, <2>2 DEF Fate
  <2> QED
    BY <2>1, <2>2
<1> QED
  BY <1>5, <1>6, <1>7, <1>8, <1>9 DEF Known

LEMMA RowKnown ==
  ASSUME CInv, NEW slots, NEW means \in [Waiting -> Means], NEW gap \in 1 .. MaxGap, NEW free \in 0 .. MaxCash, NEW A, Row(A, slots, means, gap, free)
  PROVE  \A k \in 0 .. Len(Ordered) : Known(A[k], k)
<1> DEFINE n == Len(Ordered)
           P == {k \in 0 .. n : Known(A[k], k)}
<1>1. n \in Nat
  BY OrderedFacts
<1>2. 0 \in P
  BY <1>1, KnownStart DEF Row
<1>3. ASSUME NEW k \in 1 .. n, k - 1 \in P PROVE k \in P
  <2>1. Known(A[k - 1], k - 1) /\ k \in 0 .. n
    BY <1>1, <1>3
  <2>2. A[k] = Step(A[k - 1], Ordered[k], slots, means, gap)
    BY DEF Row
  <2> QED
    BY <2>1, <2>2, KnownStep
<1>4. P \in SUBSET (0 .. n)
  OBVIOUS
<1> HIDE DEF P, n
<1>5. P = 0 .. n
  BY <1>1, <1>2, <1>3, <1>4, UpTo
<1> QED
  BY <1>5 DEF P, n

Passes == {Pass(slots, means, gap, free) :
             slots \in Nat, means \in [Waiting -> Means], gap \in 1 .. MaxGap, free \in 0 .. MaxCash}

\* What the pass as a whole makes of queue, patients and money.
LEMMA PassLaw ==
  ASSUME CInv, NEW pass \in Passes
  PROVE  /\ pass \in Acc
         /\ Lists(pass.left, {h \in Patients : pass.patient[h].queued})
         /\ \A h \in Patients : Fate(pass, h)
         /\ \A h \in Patients \ Waiting : pass.bill[h] = NoQuote
         /\ sequence = "payment" => pass.budget = pass.remaining
         /\ ~pass.refused
<1> PICK slots \in Nat, means \in [Waiting -> Means], gap \in 1 .. MaxGap, free \in 0 .. MaxCash : pass = Pass(slots, means, gap, free)
  BY DEF Passes
<1>1. PICK A : /\ Row(A, slots, means, gap, free)
               /\ pass = IF slots = 0 THEN [Start(free) EXCEPT !.left = Prioritized] ELSE A[Len(Ordered)]
  BY PassRow
<1>2. CASE slots = 0
  <2>1. pass = [Start(free) EXCEPT !.left = Prioritized]
    BY <1>1, <1>2
  <2>2. Lists(Prioritized, Waiting) /\ Waiting \in SUBSET Patients
    BY InvFacts, PrioritizedLaw DEF Waiting
  <2>3. Prioritized \in Seq(Patients)
    BY <2>2 DEF Lists
  <2>4. Start(free) \in Acc /\ Known(Start(free), 0)
    BY StartTyped, KnownStart
  <2>5. /\ pass.left = Prioritized /\ pass.patient = patient /\ pass.bill = Start(free).bill /\ Start(free).patient = patient
        /\ pass.budget = Start(free).budget /\ pass.remaining = Start(free).remaining /\ pass.refused = Start(free).refused
    BY <2>1 DEF Start
  <2>6. pass \in Acc
    BY <2>1, <2>3, <2>4 DEF Acc
  <2>7. {h \in Patients : pass.patient[h].queued} = Waiting
    BY <2>5 DEF Waiting
  <2>8. \A h \in Patients : Fate(pass, h)
    BY <2>4, <2>5 DEF Known, Fate
  <2>9. \A h \in Patients : pass.bill[h] = NoQuote
    BY <2>5 DEF Start, Nobody
  <2> QED
    BY <2>2, <2>4, <2>5, <2>6, <2>7, <2>8, <2>9 DEF Known
<1>3. CASE slots # 0
  <2>1. Known(pass, Len(Ordered))
    <3>1. \A k \in 0 .. Len(Ordered) : Known(A[k], k)
      BY <1>1, RowKnown
    <3>2. Len(Ordered) \in 0 .. Len(Ordered)
      BY OrderedFacts
    <3>3. pass = A[Len(Ordered)]
      BY <1>1, <1>3
    <3> QED
      BY <3>1, <3>2, <3>3
  <2>2. Seen(Len(Ordered)) = Waiting
    BY OrderedFacts DEF Seen
  <2>3. {h \in Seen(Len(Ordered)) : pass.patient[h].queued} = {h \in Patients : pass.patient[h].queued}
    <3>1. \A h \in Patients \ Waiting : pass.patient[h] = patient[h] /\ ~patient[h].queued
      BY <2>1, <2>2 DEF Known, Waiting
    <3> QED
      BY <2>2, <3>1 DEF Waiting
  <2>4. \A h \in Patients \ Waiting : pass.bill[h] = NoQuote
    BY <2>1, <2>2 DEF Known
  <2> QED
    BY <2>1, <2>3, <2>4 DEF Known
<1> QED
  BY <1>2, <1>3

-----------------------------------------------------------------------------
(* The treatment, and what every step keeps *)

TreatedBy(pass) ==
  /\ queue' = pass.left
  /\ patient' = [h \in Patients |-> [pass.patient[h] EXCEPT !.gap = IF @ > 0 THEN @ - 1 ELSE 0]]
  /\ budget' = pass.budget /\ cash' = pass.cash /\ remaining' = pass.remaining
  /\ bill' = pass.bill /\ refused' = pass.refused

LEMMA TreatFacts ==
  ASSUME CInv, Treat
  PROVE  \E pass \in Passes : TreatedBy(pass)
<1>1. PICK slots \in MinSlots .. MaxSlots, means \in [ToSet(queue) -> MeansThatMatter], gap \in 1 .. MaxGap,
            free \in IF sequence = "legacy" THEN cash .. MaxCash ELSE {0} :
         TreatedBy(Pass(slots, means, gap, free))
  BY DEF Treat, TreatedBy
<1>2. slots \in Nat /\ free \in 0 .. MaxCash
  BY Constants, InvFacts
<1>3. MeansThatMatter \subseteq Means /\ ToSet(queue) = Waiting
  BY Constants, InvFacts DEF MeansThatMatter
<1>4. means \in [Waiting -> Means]
  BY <1>3
<1>5. Pass(slots, means, gap, free) \in Passes
  BY <1>2, <1>4 DEF Passes
<1> QED
  BY <1>1, <1>5

LEMMA TreatStep == CInv /\ Treat => CInv'
<1> SUFFICES ASSUME CInv, Treat PROVE CInv'
  OBVIOUS
<1>1. PICK pass \in Passes :
         /\ queue' = pass.left
         /\ patient' = [h \in Patients |-> [pass.patient[h] EXCEPT !.gap = IF @ > 0 THEN @ - 1 ELSE 0]]
         /\ budget' = pass.budget /\ cash' = pass.cash /\ remaining' = pass.remaining
         /\ bill' = pass.bill /\ refused' = pass.refused
  BY TreatFacts DEF TreatedBy
<1>2. /\ pass \in Acc
      /\ Lists(pass.left, {h \in Patients : pass.patient[h].queued})
      /\ \A h \in Patients : Fate(pass, h)
      /\ sequence = "payment" => pass.budget = pass.remaining
      /\ ~pass.refused
  BY <1>1, PassLaw
<1>3. /\ price' \in Prices /\ week' = (week + 1) % Rotation /\ phase' = "request" /\ staff' = 0 /\ sick' = {}
      /\ sequence' = sequence /\ covered' = covered
  BY DEF Treat
<1>4. ASSUME NEW h \in Patients
      PROVE  /\ patient'[h] \in Record /\ patient'[h].queued = pass.patient[h].queued
             /\ Agrees(patient'[h])
  <2>1. pass.patient[h] \in Record /\ Agrees(pass.patient[h])
    BY <1>2 DEF Acc, Fate
  <2>2. patient'[h] = [pass.patient[h] EXCEPT !.gap = IF pass.patient[h].gap > 0 THEN pass.patient[h].gap - 1 ELSE 0]
    BY <1>1
  <2>3. (IF pass.patient[h].gap > 0 THEN pass.patient[h].gap - 1 ELSE 0) \in 0 .. MaxGap
    BY <2>1, Constants DEF Record
  <2> QED
    BY <2>1, <2>2, <2>3 DEF Record, Agrees
<1>5. patient' \in [Patients -> Record]
  <2>1. patient' = [h \in Patients |-> patient'[h]]
    BY <1>1
  <2> QED
    BY <1>4, <2>1
<1>6. {h \in Patients : pass.patient[h].queued} = Waiting'
  BY <1>4 DEF Waiting
<1>7. week' \in 0 .. Rotation - 1
  <2>1. PICK r \in Nat \ {0} : r = Rotation
    BY Constants
  <2>2. PICK w \in Nat : w = week + 1
    BY InvFacts
  <2>3. w % r \in 0 .. r - 1
    OBVIOUS
  <2> QED
    BY <1>3, <2>1, <2>2, <2>3
<1>8. TypeOK'
  <2>1. /\ queue' \in Seq(Patients) /\ bill' \in [Patients -> Nat \cup {NoQuote}] /\ refused' \in BOOLEAN
        /\ budget' \in 0 .. MaxBudget /\ cash' \in 0 .. MaxCash /\ remaining' \in 0 .. MaxBudget
    BY <1>1, <1>2 DEF Acc
  <2>2. sequence' \in {"legacy", "payment"} /\ covered' \in BOOLEAN /\ staff' \in 0 .. MaxSlots
    BY <1>3, InvFacts, Constants
  <2> QED
    BY <1>3, <1>5, <1>7, <2>1, <2>2 DEF TypeOK, Record
<1>9. \A h \in Patients : Agrees(patient[h])'
  BY <1>3, <1>4 DEF Agrees
<1>10. Lists(queue', Waiting')
  BY <1>1, <1>2, <1>6
<1>11. (sequence = "payment" => budget = remaining)' /\ ~refused'
  BY <1>1, <1>2, <1>3
<1> QED
  BY <1>8, <1>9, <1>10, <1>11 DEF CInv

LEMMA InvStep == CInv /\ [Next]_vars => CInv'
<1> SUFFICES ASSUME CInv, [Next]_vars PROVE CInv'
  OBVIOUS
<1>1. CASE Next
  BY <1>1, RequestStep, TreatStep DEF Next
<1>2. CASE UNCHANGED vars
  <2>1. TypeOK'
    BY <1>2 DEF vars, CInv, TypeOK
  <2>2. Waiting' = Waiting /\ \A h \in Patients : Agrees(patient[h])'
    BY <1>2 DEF vars, CInv, Waiting, Agrees
  <2> QED
    BY <1>2, <2>1, <2>2 DEF vars, CInv
<1> QED
  BY <1>1, <1>2

LEMMA CareInv == Spec => []CInv
<1>1. Init => CInv
  BY InitInv
<1>2. CInv /\ [Next]_vars => CInv'
  BY InvStep
<1> QED
  BY <1>1, <1>2, PTL DEF Spec

\* Queue and patients agree: a patient is in the queue once exactly when it is marked as queued, and a
\* visit that was turned away is still due, in both sequences, for any patients, prices and staff.
THEOREM QueueStaysInStep == Spec => []QueueMatchesPatients
<1>1. CInv => QueueMatchesPatients
  BY InvMeans
<1> QED
  BY <1>1, CareInv, PTL

\* What the pass found funded, commit_sale never refuses: the arm's own count of the care money and
\* the restriction agree at every visit.
THEOREM FundedVisitsAreSold == Spec => []CommitNeverRefused
<1>1. CInv => CommitNeverRefused
  BY InvMeans
<1> QED
  BY <1>1, CareInv, PTL

-----------------------------------------------------------------------------
(* A due visit *)

LEMMA RequestKeepsDue ==
  ASSUME CInv, Request, NEW h \in Patients, patient[h].due
  PROVE  patient'[h].due
<1>1. PICK ill \in Illnesses : \/ sequence = "legacy" /\ \E gap \in 1 .. MaxGap : EnqueueLegacy(ill, gap)
                               \/ sequence = "payment" /\ EnqueuePayment(ill)
  BY DEF Request
<1>2. patient[h] \in Record /\ Agrees(patient[h]) /\ sequence = "payment" /\ ill[h] \in 0 .. MaxVisits
  BY InvFacts DEF Agrees, Illnesses
<1>3. EnqueuePayment(ill)
  BY <1>1, <1>2
<1> DEFINE asked(g) == FallsDue(Returned(g), ill[g])
<1>4. PICK ask \in SUBSET Patients :
         patient' = [g \in Patients |->
           IF g \in ask THEN [asked(g) EXCEPT !.queued = TRUE, !.quote = price, !.retry = FALSE] ELSE asked(g)]
  <2>1. PICK putOff : patient' = [g \in Patients |->
            IF g \in {f \in Patients : MayAsk(asked(f)) /\ asked(f).due} \ putOff
            THEN [asked(g) EXCEPT !.queued = TRUE, !.quote = price, !.retry = FALSE] ELSE asked(g)]
    BY <1>3 DEF EnqueuePayment
  <2> HIDE DEF asked
  <2> QED
    BY <2>1
<1>5. Returned(h) \in Record /\ Returned(h).due /\ Agrees(Returned(h))
  <2>1. h \in Returning => patient[h].retry /\ ~patient[h].queued /\ patient[h].quote \in Prices
    BY <1>2 DEF Returning, Accepts, Record
  <2> QED
    BY <1>2, <2>1 DEF Returned, Record, Agrees
<1>6. asked(h).due /\ asked(h) \in Record
  BY <1>2, <1>5, FallsDueLaw
<1> HIDE DEF asked
<1> QED
  BY <1>4, <1>6 DEF Record

LEMMA TreatKeepsEpisode ==
  ASSUME CInv, Treat, NEW h \in Patients, patient[h].due, ~patient'[h].due
  PROVE  bill'[h] # NoQuote /\ patient'[h].visits = patient[h].visits - 1
<1>1. PICK pass \in Passes :
         /\ patient' = [g \in Patients |-> [pass.patient[g] EXCEPT !.gap = IF @ > 0 THEN @ - 1 ELSE 0]]
         /\ bill' = pass.bill
  BY TreatFacts DEF TreatedBy
<1>2. pass \in Acc /\ Fate(pass, h)
  BY <1>1, PassLaw
<1>3. patient'[h].due = pass.patient[h].due /\ patient'[h].visits = pass.patient[h].visits
  BY <1>1, <1>2 DEF Acc, Record
<1> QED
  BY <1>1, <1>2, <1>3 DEF Fate

\* A due visit ends only by being made: being turned away for the price, the money or the place never
\* ends it, whoever else is treated in that week.
THEOREM EpisodesAreKept == Spec => EpisodeKept
<1>1. ASSUME CInv, [Next]_vars
      PROVE  [\A h \in Patients : patient[h].due /\ ~patient'[h].due =>
                 bill'[h] # NoQuote /\ patient'[h].visits = patient[h].visits - 1]_vars
  <2>1. CASE Request
    BY <1>1, <2>1, RequestKeepsDue
  <2>2. CASE Treat
    BY <1>1, <2>2, TreatKeepsEpisode
  <2> QED
    BY <1>1, <2>1, <2>2 DEF Next
<1> QED
  BY <1>1, CareInv, PTL DEF Spec, EpisodeKept

-----------------------------------------------------------------------------
(* The walk of the quotes *)

Estimate == [left : Nat, seen : Nat, quote : [Patients -> Nat \cup {NoQuote}]]
Estimate0 == [left |-> BudgetLeft(budget, cash), seen |-> 0, quote |-> Nobody]
Quoted(acc, h) ==
  [left  |-> IF acc.seen < staff THEN acc.left - Granted(acc.left) ELSE acc.left,
   seen  |-> acc.seen + 1,
   quote |-> [acc.quote EXCEPT ![h] = price - Granted(acc.left)]]

\* A row of estimates, one for every prefix of the queue.
WalkRow(W) ==
  /\ W \in [0 .. Len(Ordered) -> Estimate]
  /\ W[0] = Estimate0
  /\ \A k \in 1 .. Len(Ordered) : W[k] = Quoted(W[k - 1], Ordered[k])

LEMMA QuotedTyped ==
  ASSUME CInv, NEW acc \in Estimate, NEW h \in Patients
  PROVE  Quoted(acc, h) \in Estimate
<1>1. acc.left \in Nat /\ acc.seen \in Nat /\ acc.quote \in [Patients -> Nat \cup {NoQuote}] /\ price \in Nat
  BY InvFacts DEF Estimate
<1>2. PICK g \in Nat : g = Granted(acc.left) /\ g <= price /\ g <= acc.left
  BY <1>1, GrantedLaw
<1>3. PICK c \in Nat : c = price - g
  BY <1>1, <1>2
<1>4. PICK l \in Nat : l = IF acc.seen < staff THEN acc.left - g ELSE acc.left
  BY <1>1, <1>2
<1>5. [acc.quote EXCEPT ![h] = c] \in [Patients -> Nat \cup {NoQuote}]
  BY <1>1
<1>6. Quoted(acc, h) = [left |-> l, seen |-> acc.seen + 1, quote |-> [acc.quote EXCEPT ![h] = c]]
  BY <1>2, <1>3, <1>4 DEF Quoted
<1> QED
  BY <1>1, <1>5, <1>6 DEF Estimate

\* The walk is the end of such a row.
LEMMA WalkIsARow ==
  ASSUME CInv
  PROVE  \E W : WalkRow(W) /\ QuoteWalk = W[Len(Ordered)].quote
<1> DEFINE q == Ordered
           D == DOMAIN q
           n == Len(q)
           Iter(g) == [s \in SUBSET D |-> IF s = {} THEN Estimate0 ELSE Quoted(g[s \ {Max(s)}], q[Max(s)])]
           it == CHOOSE g : g = Iter(g)
           step == [p \in (1 .. n) \X Estimate |-> Quoted(p[2], q[p[1]])]
<1>1. QuoteWalk = it[D].quote
  BY Zenon DEF QuoteWalk, FoldLeft, MapThenFoldSet, Quoted, Estimate0
<1>2. D = 1 .. n /\ n \in Nat /\ \A i \in 1 .. n : q[i] \in Patients
  BY OrderedFacts DEF Waiting
<1>3. Estimate0 \in Estimate
  <2>1. budget \in Nat /\ cash \in Nat
    BY InvFacts, Constants
  <2>2. BudgetLeft(budget, cash) \in Nat
    BY <2>1 DEF BudgetLeft
  <2>3. Nobody \in [Patients -> Nat \cup {NoQuote}]
    BY DEF Nobody
  <2> QED
    BY <2>2, <2>3 DEF Estimate0, Estimate
<1>4. \A i \in 1 .. n, v \in Estimate : step[<<i, v>>] = Quoted(v, q[i])
  OBVIOUS
<1>5. \A i \in 1 .. n, v \in Estimate : step[<<i, v>>] \in Estimate
  <2> SUFFICES ASSUME NEW i \in 1 .. n, NEW v \in Estimate PROVE step[<<i, v>>] \in Estimate
    OBVIOUS
  <2>1. Quoted(v, q[i]) \in Estimate
    BY <1>2, QuotedTyped
  <2> HIDE DEF step
  <2> QED
    BY <1>4, <2>1
<1> HIDE DEF step, q, n
<1>6. PICK g : Along(g, n, Estimate, Estimate0, step)
  BY <1>2, <1>3, <1>5, PlacesFold
<1>7. g = Iter(g)
  <2>1. ASSUME NEW s \in SUBSET D, s # {} PROVE g[s] = Quoted(g[s \ {Max(s)}], q[Max(s)])
    <3>1. Max(s) \in s /\ g[s] = step[<<Max(s), g[s \ {Max(s)}]>>] /\ Max(s) \in 1 .. n
      BY <1>2, <1>6, <2>1 DEF Along
    <3>2. g[s \ {Max(s)}] \in Estimate
      BY <1>2, <1>6 DEF Along
    <3> QED
      BY <1>4, <3>1, <3>2
  <2>2. g \in [SUBSET D -> Estimate] /\ g[{}] = Estimate0
    BY <1>2, <1>6 DEF Along
  <2> HIDE DEF D
  <2> QED
    BY <2>1, <2>2
<1>8. it = Iter(it)
  <2> HIDE DEF Iter
  <2> QED
    BY <1>7
<1>9. it[{}] = Estimate0 /\ \A s \in SUBSET D : s # {} => it[s] = Quoted(it[s \ {Max(s)}], q[Max(s)])
  <2> HIDE DEF it, D
  <2> QED
    BY <1>8
<1> HIDE DEF it
<1> DEFINE W == [k \in 0 .. n |-> it[1 .. k]]
<1>10. \A k \in 1 .. n : it[1 .. k] = Quoted(it[1 .. (k - 1)], q[k])
  <2> SUFFICES ASSUME NEW k \in 1 .. n PROVE it[1 .. k] = Quoted(it[1 .. (k - 1)], q[k])
    OBVIOUS
  <2>1. /\ 1 .. k \in SUBSET D /\ 1 .. k # {} /\ Max(1 .. k) = k /\ (1 .. k) \ {k} = 1 .. (k - 1)
    BY <1>2, FirstPlaces
  <2> QED
    BY <1>9, <2>1
<1>11. \A k \in 0 .. n : it[1 .. k] \in Estimate
  <2> DEFINE P == {k \in 0 .. n : it[1 .. k] \in Estimate}
  <2>1. 0 \in P
    BY <1>2, <1>3, <1>9, FirstPlaces
  <2>2. ASSUME NEW k \in 1 .. n, k - 1 \in P PROVE k \in P
    <3>1. it[1 .. (k - 1)] \in Estimate /\ q[k] \in Patients /\ k \in 0 .. n
      BY <1>2, <2>2
    <3>2. Quoted(it[1 .. (k - 1)], q[k]) \in Estimate
      BY <3>1, QuotedTyped
    <3> QED
      BY <1>10, <3>1, <3>2
  <2>3. P \in SUBSET (0 .. n)
    OBVIOUS
  <2> HIDE DEF P
  <2>4. P = 0 .. n
    BY <1>2, <2>1, <2>2, <2>3, UpTo
  <2> QED
    BY <2>4 DEF P
<1>12. WalkRow(W)
  <2>1. W \in [0 .. n -> Estimate] /\ W[0] = Estimate0
    BY <1>2, <1>9, <1>11, FirstPlaces
  <2>2. ASSUME NEW k \in 1 .. n PROVE W[k] = Quoted(W[k - 1], q[k])
    <3>1. k \in 0 .. n /\ k - 1 \in 0 .. n
      BY <1>2
    <3> QED
      BY <1>10, <3>1
  <2> HIDE DEF W
  <2> QED
    BY <2>1, <2>2 DEF WalkRow, q, n
<1>13. W[n] = it[D]
  BY <1>2
<1> QED
  BY <1>1, <1>12, <1>13 DEF n, q

\* What the walk leaves never grows, falls by one subsidy for each of the first `staff` patients, and
\* each patient is told what the subsidy leaves of the price.
Estimated(W, k) ==
  /\ W[k].seen = k
  /\ \A i \in 0 .. k : W[k].left <= W[i].left
  /\ \A i \in 1 .. k : W[k].quote[Ordered[i]] = price - Granted(W[i - 1].left)

LEMMA WalkLaw ==
  ASSUME CInv, NEW W, WalkRow(W)
  PROVE  /\ \A k \in 0 .. Len(Ordered) : Estimated(W, k)
         /\ \A k \in 1 .. Len(Ordered) :
              k <= staff => W[k].left = W[k - 1].left - Granted(W[k - 1].left)
<1> DEFINE n == Len(Ordered)
           P == {k \in 0 .. n : Estimated(W, k)}
<1>1. n \in Nat /\ (\A i \in 1 .. n : Ordered[i] \in Patients)
      /\ \A i, j \in 1 .. n : Ordered[i] = Ordered[j] => i = j
  BY OrderedFacts DEF Waiting
<1>2. /\ W \in [0 .. n -> Estimate] /\ W[0] = Estimate0
      /\ \A k \in 1 .. n : W[k] = Quoted(W[k - 1], Ordered[k])
  BY DEF WalkRow
<1>3. \A k \in 0 .. n : /\ W[k].left \in Nat /\ W[k].seen \in Nat
                        /\ W[k].quote \in [Patients -> Nat \cup {NoQuote}]
  BY <1>2 DEF Estimate
<1>4. price \in Nat /\ staff \in Nat
  BY InvFacts
<1>5. ASSUME NEW k \in 1 .. n
      PROVE  /\ k - 1 \in 0 .. n /\ k \in 0 .. n /\ W[k].left <= W[k - 1].left
             /\ W[k].left = IF W[k - 1].seen < staff THEN W[k - 1].left - Granted(W[k - 1].left) ELSE W[k - 1].left
             /\ W[k].seen = W[k - 1].seen + 1
             /\ W[k].quote = [W[k - 1].quote EXCEPT ![Ordered[k]] = price - Granted(W[k - 1].left)]
  <2>1. k - 1 \in 0 .. n /\ k \in 0 .. n
    BY <1>1
  <2>2. W[k] = Quoted(W[k - 1], Ordered[k])
    BY <1>2
  <2>3. Granted(W[k - 1].left) \in Nat
    BY <1>3, <1>4, <2>1, GrantedLaw
  <2>4. /\ W[k].left = IF W[k - 1].seen < staff THEN W[k - 1].left - Granted(W[k - 1].left) ELSE W[k - 1].left
        /\ W[k].seen = W[k - 1].seen + 1
        /\ W[k].quote = [W[k - 1].quote EXCEPT ![Ordered[k]] = price - Granted(W[k - 1].left)]
    BY <2>2 DEF Quoted
  <2> QED
    BY <1>3, <2>1, <2>3, <2>4
<1>6. 0 \in P
  BY <1>1, <1>2, <1>3 DEF Estimate0, Estimated
<1>7. ASSUME NEW k \in 1 .. n, k - 1 \in P PROVE k \in P
  <2>0. k \in Nat
    OBVIOUS
  <2>1. /\ k - 1 \in 0 .. n /\ k \in 0 .. n /\ k \in Nat /\ W[k].left <= W[k - 1].left
        /\ W[k].seen = W[k - 1].seen + 1
    BY <2>0, <1>5
  <2>2. Estimated(W, k - 1)
    BY <1>7
  <2>3. W[k].seen = k
    BY <2>1, <2>2 DEF Estimated
  <2>4. ASSUME NEW i \in 0 .. k PROVE W[k].left <= W[i].left
    <3>1. CASE i = k
      BY <1>3, <2>1, <3>1
    <3>2. CASE i # k
      <4>1. i \in 0 .. (k - 1) /\ i \in 0 .. n
        BY <1>1, <2>1, <3>2
      <4>2. W[k - 1].left <= W[i].left
        BY <2>2, <4>1 DEF Estimated
      <4> QED
        BY <1>3, <2>1, <4>1, <4>2
    <3> QED
      BY <3>1, <3>2
  <2>5. ASSUME NEW i \in 1 .. k PROVE W[k].quote[Ordered[i]] = price - Granted(W[i - 1].left)
    <3>1. /\ W[k].quote = [W[k - 1].quote EXCEPT ![Ordered[k]] = price - Granted(W[k - 1].left)]
          /\ W[k - 1].quote \in [Patients -> Nat \cup {NoQuote}]
      BY <1>3, <1>5, <2>1
    <3>2. Ordered[i] \in Patients /\ Ordered[k] \in Patients /\ (i # k => Ordered[i] # Ordered[k])
      BY <1>1
    <3>3. CASE i = k
      BY <3>1, <3>2, <3>3
    <3>4. CASE i # k
      <4>1. i \in 1 .. (k - 1)
        BY <2>1, <3>4
      <4>2. W[k - 1].quote[Ordered[i]] = price - Granted(W[i - 1].left)
        BY <2>2, <4>1 DEF Estimated
      <4> QED
        BY <3>1, <3>2, <3>4, <4>2
    <3> QED
      BY <3>3, <3>4
  <2>6. Estimated(W, k)
    BY <2>3, <2>4, <2>5 DEF Estimated
  <2> QED
    BY <2>1, <2>6
<1>8. P \in SUBSET (0 .. n)
  OBVIOUS
<1>9. P = 0 .. n
  <2> HIDE DEF P, n
  <2> QED
    BY <1>1, <1>6, <1>7, <1>8, UpTo
<1>10. ASSUME NEW k \in 1 .. n, k <= staff
       PROVE  W[k].left = W[k - 1].left - Granted(W[k - 1].left)
  <2>1. k - 1 \in 0 .. n
    BY <1>1
  <2>2. W[k - 1].seen = k - 1
    BY <1>9, <2>1 DEF Estimated
  <2>3. W[k - 1].seen < staff
    BY <1>1, <1>4, <1>10, <2>2
  <2> QED
    BY <1>5, <2>3
<1> QED
  BY <1>9, <1>10

\* More money never buys a smaller subsidy, and less one smaller by no more than what is missing.
LEMMA GrantedGrows ==
  ASSUME price \in Nat, NEW m \in Nat, NEW w \in Nat, NEW e \in Nat, m <= w + e
  PROVE  Granted(m) <= Granted(w) + e
<1>1. /\ Granted(m) <= Subsidy /\ Granted(m) <= price /\ Granted(m) <= m /\ Granted(m) \in Nat
      /\ Granted(w) \in {Subsidy, price, w} /\ Granted(w) \in Nat /\ Subsidy \in Nat
  BY GrantedLaw, Constants
<1> QED
  BY <1>1

Charged(acc) == {h \in Patients : acc.bill[h] # NoQuote}

\* Since the quotes were made, loans have taken at most e from the free cash.
KeepsUp(acc, e) == cash - acc.cash <= budget - acc.budget + e

\* legacy, after k places: unless the walk had nothing left for as many patients as were treated, no
\* more was spent than it reckoned with, so nobody treated so far pays more than it was told and was lent.
Priced(acc, W, k, e) ==
  /\ acc.done \in 0 .. k
  /\ Cardinality(Charged(acc)) = acc.done
  /\ acc.done <= staff =>
       /\ W[acc.done].left = 0 \/ budget - acc.budget <= W[0].left - W[acc.done].left
       /\ \A i \in 1 .. k : acc.bill[Ordered[i]] # NoQuote =>
            acc.bill[Ordered[i]] <= price - Granted(W[i - 1].left) + e

LEMMA PricedStart == ASSUME CInv, NEW W, WalkRow(W), NEW free, NEW e \in Nat PROVE Priced(Start(free), W, 0, e)
<1>1. Start(free).done = 0 /\ Start(free).bill = Nobody /\ Start(free).budget = budget
  BY DEF Start
<1>2. Charged(Start(free)) = {}
  BY <1>1 DEF Charged, Nobody
<1>3. W[0].left \in Nat /\ budget \in Nat
  <2>1. W[0] \in Estimate
    BY OrderedFacts DEF WalkRow
  <2> QED
    BY <2>1, InvFacts, Constants DEF Estimate
<1>4. budget - Start(free).budget <= W[0].left - W[0].left
  BY <1>1, <1>3
<1> QED
  BY <1>1, <1>2, <1>4, FS_EmptySet DEF Priced

\* What the pass has left covers what the walk had left for as many patients as were treated.
LEMMA EnoughLeft ==
  ASSUME CInv, NEW W, WalkRow(W), NEW acc \in Acc, NEW e \in Nat, KeepsUp(acc, e),
         NEW d \in 0 .. Len(Ordered),
         budget - acc.budget <= W[0].left - W[d].left
  PROVE  W[d].left <= BudgetLeft(acc.budget, acc.cash) + e
<1>1. /\ budget \in Nat /\ cash \in Nat /\ acc.budget \in Nat /\ acc.cash \in Nat
  BY InvFacts, PaidLaw, Constants
<1>2. W[0].left = BudgetLeft(budget, cash) /\ W[d].left \in Nat
  <2>1. W[d] \in Estimate
    BY DEF WalkRow
  <2> QED
    BY <2>1 DEF WalkRow, Estimate0, Estimate
<1>3. PICK l \in Nat : l = W[d].left
  BY <1>2
<1>4. PICK m \in Nat : m = BudgetLeft(budget, cash) /\ m <= budget /\ m <= cash
  BY <1>1 DEF BudgetLeft
<1>5. budget - acc.budget <= m - l /\ cash - acc.cash <= budget - acc.budget + e
  BY <1>2, <1>3, <1>4 DEF KeepsUp
<1>6. l <= acc.budget + e /\ l <= acc.cash + e
  <2>1. PICK b \in Nat, c \in Nat, ab \in Nat, ac \in Nat : b = budget /\ c = cash /\ ab = acc.budget /\ ac = acc.cash
    BY <1>1
  <2>2. b - ab <= m - l /\ c - ac <= b - ab + e /\ m <= b /\ m <= c
    BY <1>4, <1>5, <2>1
  <2>3. l <= ab + e /\ l <= ac + e
    BY <2>2
  <2> QED
    BY <2>1, <2>3
<1> QED
  BY <1>3, <1>6 DEF BudgetLeft

LEMMA PricedStep ==
  ASSUME CInv, sequence = "legacy", NEW W, WalkRow(W), NEW k \in 1 .. Len(Ordered),
         NEW acc, Known(acc, k - 1), NEW e \in Nat, Priced(acc, W, k - 1, e), KeepsUp(acc, e),
         NEW slots, NEW means \in [Waiting -> Means], NEW gap \in 1 .. MaxGap
  PROVE  Priced(Step(acc, Ordered[k], slots, means, gap), W, k, e)
<1> SUFFICES ASSUME NEW next, NEW h, h = Ordered[k], next = Step(acc, h, slots, means, gap)
             PROVE  Priced(next, W, k, e)
  OBVIOUS
<1> DEFINE n == Len(Ordered)
<1>1. /\ h \in Waiting /\ h \in Patients /\ h \notin Seen(k - 1) /\ n \in Nat /\ k \in 0 .. n /\ k - 1 \in 0 .. n
      /\ \A i \in 1 .. n : Ordered[i] \in Patients
      /\ \A i \in 1 .. n : Ordered[i] = h => i = k
  BY SeenNext, OrderedFacts DEF Waiting
<1>2. Next1(acc, h)
  BY <1>1 DEF Next1, Known
<1>3. /\ acc \in Acc /\ acc.bill[h] = NoQuote
      /\ \A g \in Patients \ {h} : next.bill[g] = acc.bill[g]
      /\ \/ next.bill[h] = NoQuote /\ next.done = acc.done /\ next.budget = acc.budget
         \/ /\ next.bill[h] \in Nat /\ next.done = acc.done + 1
            /\ next.bill[h] = price - Paid(acc)
            /\ next.budget = acc.budget - Paid(acc)
  <2>1. Outcome(acc, next, h)
    BY <1>1, <1>2, StepOutcome
  <2> QED
    BY <1>2, <2>1 DEF Outcome, Next1
<1>4. PICK d \in 0 .. (k - 1) : d = acc.done
  BY DEF Priced
<1>5. /\ Cardinality(Charged(acc)) = d
      /\ d <= staff => /\ W[d].left = 0 \/ budget - acc.budget <= W[0].left - W[d].left
                       /\ \A i \in 1 .. (k - 1) : acc.bill[Ordered[i]] # NoQuote =>
                            acc.bill[Ordered[i]] <= price - Granted(W[i - 1].left) + e
  BY <1>4 DEF Priced
<1>6. price \in Nat /\ staff \in Nat /\ NoQuote \notin Nat
  BY InvFacts, Constants
<1>7. CASE next.bill[h] = NoQuote /\ next.done = acc.done /\ next.budget = acc.budget
  <2>1. Charged(next) = Charged(acc)
    BY <1>3, <1>7 DEF Charged
  <2>2. ASSUME d <= staff, NEW i \in 1 .. k, next.bill[Ordered[i]] # NoQuote
        PROVE  next.bill[Ordered[i]] <= price - Granted(W[i - 1].left) + e
    <3>1. i \in 1 .. n /\ Ordered[i] # h /\ i # k
      BY <1>1, <1>7, <2>2
    <3>2. i \in 1 .. (k - 1) /\ next.bill[Ordered[i]] = acc.bill[Ordered[i]]
      BY <1>1, <1>3, <3>1
    <3> QED
      BY <1>5, <2>2, <3>2
  <2>3. next.done = d /\ d \in 0 .. k
    BY <1>4, <1>7
  <2> QED
    BY <1>5, <1>7, <2>1, <2>2, <2>3 DEF Priced
<1>8. CASE /\ next.bill[h] \in Nat /\ next.done = acc.done + 1
           /\ next.bill[h] = price - Paid(acc)
           /\ next.budget = acc.budget - Paid(acc)
  <2>1. Charged(next) = Charged(acc) \cup {h} /\ h \notin Charged(acc)
    BY <1>1, <1>3, <1>6, <1>8 DEF Charged
  <2>2. IsFiniteSet(Charged(acc))
    BY Constants, FS_Subset DEF Charged
  <2>3. Cardinality(Charged(next)) = d + 1
    BY <1>5, <2>1, <2>2, FS_AddElement
  <2>4. next.done = d + 1 /\ d + 1 \in 0 .. k /\ d + 1 \in 1 .. n /\ d \in 0 .. n /\ d \in 0 .. (k - 1)
    BY <1>1, <1>4, <1>8
  <2>5. ASSUME d + 1 <= staff
        PROVE  /\ W[d + 1].left = 0 \/ budget - next.budget <= W[0].left - W[d + 1].left
               /\ \A i \in 1 .. k : next.bill[Ordered[i]] # NoQuote =>
                     next.bill[Ordered[i]] <= price - Granted(W[i - 1].left) + e
    <3>1. d <= staff
      BY <1>4, <1>6, <2>5
    <3>2. W[d].left = 0 \/ budget - acc.budget <= W[0].left - W[d].left
      BY <1>5, <3>1
    <3>3. W[d + 1].left = W[d].left - Granted(W[d].left)
      <4>1. d + 1 - 1 = d
        BY <2>4
      <4> QED
        BY <2>4, <2>5, <4>1, WalkLaw
    <3>4. /\ W[k - 1].left \in Nat /\ W[d].left \in Nat /\ W[0].left \in Nat /\ W[k - 1].left <= W[d].left
          /\ budget \in Nat
      <4>1. W[k - 1].left <= W[d].left
        BY <1>1, <2>4, WalkLaw DEF Estimated
      <4>2. W[k - 1] \in Estimate /\ W[d] \in Estimate /\ W[0] \in Estimate
        <5>1. W \in [0 .. n -> Estimate] /\ 0 \in 0 .. n
          BY <1>1 DEF WalkRow
        <5> QED
          BY <1>1, <2>4, <5>1
      <4>3. budget \in Nat
        BY InvFacts, Constants
      <4> QED
        BY <4>1, <4>2, <4>3 DEF Estimate
    <3>6. /\ Granted(W[k - 1].left) \in Nat /\ Granted(W[k - 1].left) <= Granted(W[d].left)
          /\ Granted(W[d].left) \in Nat /\ Granted(W[d].left) <= W[d].left
          /\ Granted(W[d].left) \in {Subsidy, price, W[d].left}
      <4>1. Granted(W[k - 1].left) \in Nat /\ Granted(W[d].left) \in Nat
        BY <1>6, <3>4, GrantedLaw
      <4>2. W[k - 1].left <= W[d].left + 0 /\ 0 \in Nat
        BY <3>4
      <4>3. Granted(W[k - 1].left) <= Granted(W[d].left) + 0
        BY <1>6, <3>4, <4>2, GrantedGrows
      <4>4. Granted(W[k - 1].left) <= Granted(W[d].left)
        BY <4>1, <4>3
      <4> QED
        BY <1>6, <3>4, <4>1, <4>4, GrantedLaw
    <3>7. /\ Paid(acc) \in Nat /\ Paid(acc) <= price /\ acc.budget \in Nat /\ Paid(acc) <= Subsidy /\ Subsidy \in Nat
      <4>1. BudgetLeft(acc.budget, acc.cash) \in Nat
        BY <1>3, PaidLaw DEF BudgetLeft
      <4> QED
        BY <1>3, <1>6, <4>1, PaidLaw, GrantedLaw, Constants DEF Paid
    <3>8. Granted(W[k - 1].left) <= Paid(acc) + e
      <4>1. CASE W[d].left = 0
        BY <3>4, <3>6, <3>7, <4>1
      <4>2. CASE budget - acc.budget <= W[0].left - W[d].left
        <5>1. W[d].left <= BudgetLeft(acc.budget, acc.cash) + e
          BY <1>3, <2>4, <4>2, EnoughLeft
        <5>2. BudgetLeft(acc.budget, acc.cash) \in Nat
          BY <1>3, PaidLaw DEF BudgetLeft
        <5>3. Granted(W[d].left) <= Paid(acc) + e
          BY <1>6, <3>4, <5>1, <5>2, GrantedGrows DEF Paid
        <5> QED
          BY <3>6, <3>7, <5>3
      <4> QED
        BY <3>2, <4>1, <4>2
    <3>9. W[d + 1].left = 0 \/ budget - next.budget <= W[0].left - W[d + 1].left
      <4> SUFFICES ASSUME W[d + 1].left # 0 PROVE budget - next.budget <= W[0].left - W[d + 1].left
        OBVIOUS
      <4>1. Granted(W[d].left) # W[d].left /\ W[d].left # 0
        BY <3>3, <3>4, <3>6
      <4>2. budget - acc.budget <= W[0].left - W[d].left /\ Paid(acc) <= Granted(W[d].left)
        BY <3>2, <3>6, <3>7, <4>1
      <4>3. PICK g \in Nat, p \in Nat, b \in Nat, l \in Nat, w \in Nat :
              g = Granted(W[d].left) /\ p = Paid(acc) /\ b = acc.budget /\ l = W[d].left /\ w = W[0].left
        BY <3>4, <3>6, <3>7
      <4>4. next.budget = b - p /\ W[d + 1].left = l - g /\ budget - b <= w - l /\ p <= g
        BY <1>8, <3>3, <4>2, <4>3
      <4>5. budget - (b - p) <= w - (l - g)
        BY <3>4, <4>4
      <4> QED
        BY <4>3, <4>4, <4>5
    <3>5. ASSUME NEW i \in 1 .. k, next.bill[Ordered[i]] # NoQuote
          PROVE  next.bill[Ordered[i]] <= price - Granted(W[i - 1].left) + e
      <4>1. CASE i = k
        BY <1>6, <1>8, <3>6, <3>7, <3>8, <4>1
      <4>2. CASE i # k
        <5>1. i \in 1 .. n /\ i \in 1 .. (k - 1) /\ Ordered[i] \in Patients \ {h}
          BY <1>1, <4>2
        <5>2. next.bill[Ordered[i]] = acc.bill[Ordered[i]]
          BY <1>3, <5>1
        <5> QED
          BY <1>5, <3>1, <3>5, <5>1, <5>2
      <4> QED
        BY <4>1, <4>2
    <3> QED
      BY <3>5, <3>9
  <2> QED
    BY <2>3, <2>4, <2>5 DEF Priced
<1> QED
  BY <1>3, <1>7, <1>8

\* When the free cash has kept up by the end of the pass, it has at every place.
LEMMA RowKeepsUp ==
  ASSUME CInv, sequence = "legacy", NEW slots, NEW means \in [Waiting -> Means], NEW gap \in 1 .. MaxGap,
         NEW free \in 0 .. MaxCash, NEW A, Row(A, slots, means, gap, free), NEW e \in Nat, KeepsUp(A[Len(Ordered)], e)
  PROVE  \A k \in 0 .. Len(Ordered) : KeepsUp(A[k], e)
<1> DEFINE n == Len(Ordered)
           P == {k \in 0 .. n : KeepsUp(A[n - k], e)}
<1>1. n \in Nat
  BY OrderedFacts
<1>2. 0 \in P
  BY <1>1
<1>3. ASSUME NEW k \in 1 .. n, k - 1 \in P PROVE k \in P
  <2>1. PICK i \in 1 .. n : i = n - (k - 1) /\ i - 1 = n - k /\ i - 1 \in 0 .. n /\ i \in 0 .. n /\ k \in 0 .. n
    <3>1. n - (k - 1) \in 1 .. n /\ n - (k - 1) - 1 = n - k
      BY <1>1
    <3>2. n - k \in 0 .. n /\ n - (k - 1) \in 0 .. n /\ k \in 0 .. n
      BY <1>1
    <3> QED
      BY <3>1, <3>2
  <2>2. KeepsUp(A[i], e)
    BY <1>3, <2>1
  <2>3. PICK acc, next, h : acc = A[i - 1] /\ next = A[i] /\ h = Ordered[i] /\ next = Step(acc, h, slots, means, gap)
    BY DEF Row
  <2>4. Known(acc, i - 1) /\ acc \in Acc /\ next \in Acc
    BY <2>1, <2>3, RowKnown DEF Row
  <2>5. h \in Waiting /\ h \in Patients /\ h \notin Seen(i - 1)
    BY <2>3, SeenNext DEF Waiting
  <2>6. Next1(acc, h)
    BY <2>4, <2>5 DEF Next1, Known
  <2>7. Outcome(acc, next, h)
    BY <2>3, <2>6, StepOutcome
  <2>8. \/ next.budget = acc.budget /\ next.cash = acc.cash
        \/ next.budget = acc.budget - Paid(acc) /\ next.cash <= acc.cash - Paid(acc)
    BY <2>7 DEF Outcome
  <2>9. /\ acc.budget \in Nat /\ acc.cash \in Nat /\ next.cash \in Nat /\ Paid(acc) \in Nat
        /\ budget \in Nat /\ cash \in Nat
    BY <2>4, PaidLaw, InvFacts, Constants
  <2>10. cash - next.cash <= budget - next.budget + e
    BY <2>2, <2>3 DEF KeepsUp
  <2>11. cash - acc.cash <= budget - acc.budget + e
    <3>1. PICK b \in Nat, c \in Nat, d \in Nat, p \in Nat : b = acc.budget /\ c = acc.cash /\ d = next.cash /\ p = Paid(acc)
      BY <2>9
    <3>2. CASE next.budget = b /\ d = c
      BY <2>10, <3>1, <3>2
    <3>3. CASE next.budget = b - p /\ d <= c - p
      <4>1. cash - d <= budget - (b - p) + e
        BY <2>10, <3>1, <3>3
      <4>2. cash - c <= budget - b + e
        BY <2>9, <3>3, <4>1
      <4> QED
        BY <3>1, <4>2
    <3> QED
      BY <2>8, <3>1, <3>2, <3>3
  <2> QED
    BY <2>1, <2>3, <2>11 DEF KeepsUp
<1>4. P \in SUBSET (0 .. n)
  OBVIOUS
<1> HIDE DEF P, n
<1>5. P = 0 .. n
  BY <1>1, <1>2, <1>3, <1>4, UpTo
<1>6. ASSUME NEW k \in 0 .. n PROVE KeepsUp(A[k], e)
  <2>1. n - k \in P /\ n - (n - k) = k
    BY <1>1, <1>5
  <2> QED
    BY <2>1 DEF P
<1> QED
  BY <1>6 DEF n

LEMMA RowPriced ==
  ASSUME CInv, sequence = "legacy", NEW W, WalkRow(W),
         NEW slots, NEW means \in [Waiting -> Means], NEW gap \in 1 .. MaxGap, NEW free \in 0 .. MaxCash, NEW A, Row(A, slots, means, gap, free),
         NEW e \in Nat, KeepsUp(A[Len(Ordered)], e)
  PROVE  \A k \in 0 .. Len(Ordered) : Priced(A[k], W, k, e)
<1> DEFINE n == Len(Ordered)
           P == {k \in 0 .. n : Priced(A[k], W, k, e)}
<1>1. n \in Nat
  BY OrderedFacts
<1>2. 0 \in P
  BY <1>1, PricedStart DEF Row
<1>3. ASSUME NEW k \in 1 .. n, k - 1 \in P PROVE k \in P
  <2>1. Priced(A[k - 1], W, k - 1, e) /\ k \in 0 .. n /\ k - 1 \in 0 .. n
    BY <1>1, <1>3
  <2>2. Known(A[k - 1], k - 1)
    BY <2>1, RowKnown
  <2>3. A[k] = Step(A[k - 1], Ordered[k], slots, means, gap)
    BY DEF Row
  <2>4. Priced(Step(A[k - 1], Ordered[k], slots, means, gap), W, k, e)
    BY <2>1, <2>2, RowKeepsUp, PricedStep
  <2> QED
    BY <2>1, <2>3, <2>4
<1>4. P \in SUBSET (0 .. n)
  OBVIOUS
<1> HIDE DEF P, n
<1>5. P = 0 .. n
  BY <1>1, <1>2, <1>3, <1>4, UpTo
<1> QED
  BY <1>5 DEF P, n

LEMMA LegacyQuotes ==
  ASSUME CInv, sequence = "legacy", NEW pass \in Passes, Cardinality(Charged(pass)) <= staff,
         NEW e \in Nat, KeepsUp(pass, e), NEW h \in Patients, pass.bill[h] # NoQuote
  PROVE  pass.bill[h] <= QuoteWalk[h] + e
<1> PICK slots \in Nat, means \in [Waiting -> Means], gap \in 1 .. MaxGap, free \in 0 .. MaxCash : pass = Pass(slots, means, gap, free)
  BY DEF Passes
<1>1. PICK A : /\ Row(A, slots, means, gap, free)
               /\ pass = IF slots = 0 THEN [Start(free) EXCEPT !.left = Prioritized] ELSE A[Len(Ordered)]
  BY PassRow
<1>2. PICK W : WalkRow(W) /\ QuoteWalk = W[Len(Ordered)].quote
  BY WalkIsARow
<1>3. PICK n \in Nat : n = Len(Ordered)
  BY OrderedFacts
<1>4. slots # 0
  <2>1. ASSUME slots = 0 PROVE pass.bill = Nobody
    BY <1>1, <2>1 DEF Start
  <2> QED
    BY <2>1 DEF Nobody
<1>5. pass = A[n] /\ n \in 0 .. n
  BY <1>1, <1>3, <1>4
<1>6. Known(pass, n) /\ Priced(pass, W, n, e)
  <2>1. (\A k \in 0 .. Len(Ordered) : Known(A[k], k)) /\ \A k \in 0 .. Len(Ordered) : Priced(A[k], W, k, e)
    <3>1. KeepsUp(A[Len(Ordered)], e)
      BY <1>3, <1>5
    <3> QED
      BY <1>1, <1>2, <3>1, RowKnown, RowPriced
  <2> QED
    BY <1>3, <1>5, <2>1
<1>7. PICK i \in 1 .. n : h = Ordered[i]
  <2>1. h \in Seen(n)
    BY <1>6 DEF Known
  <2> QED
    BY <2>1 DEF Seen
<1>8. pass.bill[h] <= price - Granted(W[i - 1].left) + e
  BY <1>6, <1>7 DEF Priced
<1>9. QuoteWalk[h] = price - Granted(W[i - 1].left)
  <2>1. Estimated(W, n)
    BY <1>2, <1>3, <1>5, WalkLaw
  <2> QED
    BY <1>2, <1>3, <1>7, <2>1 DEF Estimated
<1> QED
  BY <1>8, <1>9

\* What loans have taken from the free cash of the quotes, and the treasury has not received since.
Lent == Max({0, (cash - cash') - (budget - budget')})

LEMMA TreatKeepsQuotes ==
  ASSUME CInv, Treat, NEW h \in Patients, bill'[h] # NoQuote,
         sequence = "payment" \/ Cardinality({g \in Patients : bill'[g] # NoQuote}) <= staff
  PROVE  bill'[h] <= (IF sequence = "legacy" THEN QuoteWalk[h] ELSE patient[h].quote) + Lent
<1>1. PICK pass \in Passes : bill' = pass.bill /\ budget' = pass.budget /\ cash' = pass.cash
  BY TreatFacts DEF TreatedBy
<1>2. PICK e \in Nat : e = Lent /\ cash - cash' <= budget - budget' + e
  <2>1. budget \in Int /\ cash \in Int
    BY InvFacts, Constants
  <2>2. pass \in Acc
    BY PassLaw
  <2>3. pass.budget \in Nat /\ pass.cash \in Nat
    BY <2>2, PaidLaw
  <2>4. budget' \in Int /\ cash' \in Int
    BY <1>1, <2>3
  <2>5. PICK b \in Int, c \in Int, t \in Int : b = budget - budget' /\ c = cash - cash' /\ t = c - b
    <3>1. budget - budget' \in Int /\ cash - cash' \in Int
      BY <2>1, <2>4
    <3>2. (cash - cash') - (budget - budget') \in Int
      BY <3>1
    <3> QED
      BY <3>1, <3>2
  <2>6. Lent = Max({0, t})
    BY <2>5 DEF Lent
  <2>7. PICK e \in Nat : e = Lent /\ e >= t
    BY <2>6, MaxOfTwo
  <2>8. c <= b + e
    BY <2>5, <2>7
  <2> QED
    BY <2>5, <2>7, <2>8
<1>3. CASE sequence = "legacy"
  <2>1. Cardinality(Charged(pass)) <= staff /\ KeepsUp(pass, e)
    BY <1>1, <1>2, <1>3 DEF Charged, KeepsUp
  <2>2. pass.bill[h] <= QuoteWalk[h] + e
    BY <1>1, <1>3, <2>1, LegacyQuotes
  <2> QED
    BY <1>1, <1>2, <1>3, <2>2
<1>4. CASE sequence = "payment"
  <2>1. Fate(pass, h) /\ pass \in Acc
    BY PassLaw
  <2>2. PICK c \in Nat : c = pass.bill[h]
    BY <1>1, <2>1 DEF Acc
  <2>3. patient[h].quote \in Nat /\ c <= patient[h].quote
    <3>1. h \in Waiting
      BY <1>1, PassLaw
    <3>2. patient[h].quote \in Nat
      BY <1>4, <3>1, InvFacts, Constants DEF Agrees, Waiting
    <3>3. c <= patient[h].quote
      BY <1>1, <1>4, <2>1, <2>2 DEF Fate
    <3> QED
      BY <3>2, <3>3
  <2>4. c <= patient[h].quote + e
    BY <2>3
  <2> QED
    BY <1>1, <1>2, <1>4, <2>2, <2>4
<1> QED
  BY <1>3, <1>4, InvFacts

\* Nobody is charged more than it was told, but for what the treasury has lent to other patients: on the
\* payment arms than the price it accepted when it asked, in the legacy sequence than the walk over the
\* queue promised with the staff known then, whoever before it in the queue was refused, as long as no
\* more are treated than that staff could.
THEOREM ChargesAreAsTold == Spec => ChargesKeepToQuotes
<1> DEFINE told == IF sequence = "legacy" THEN QuoteWalk ELSE [h \in Patients |-> patient[h].quote]
           Kept == phase = "treat"
                     /\ (sequence = "payment" \/ Cardinality({h \in Patients : bill'[h] # NoQuote}) <= staff) =>
                   \A h \in Patients : bill'[h] # NoQuote => bill'[h] <= told[h] + Lent
<1>1. ASSUME CInv, [Next]_vars PROVE [Kept]_vars
  <2>1. CASE Request
    <3>1. phase = "request"
      BY <2>1 DEF Request
    <3> QED
      BY <3>1
  <2>2. CASE Treat
    <3> SUFFICES ASSUME sequence = "payment" \/ Cardinality({h \in Patients : bill'[h] # NoQuote}) <= staff,
                        NEW h \in Patients, bill'[h] # NoQuote
                 PROVE  bill'[h] <= told[h] + Lent
      OBVIOUS
    <3>1. bill'[h] <= (IF sequence = "legacy" THEN QuoteWalk[h] ELSE patient[h].quote) + Lent
      BY <1>1, <2>2, TreatKeepsQuotes
    <3> QED
      BY <3>1
  <2> QED
    BY <1>1, <2>1, <2>2 DEF Next
<1> QED
  BY <1>1, CareInv, PTL DEF Spec, ChargesKeepToQuotes, Lent
===============================================================================
