------------------------------ MODULE LaborProofs ------------------------------
(***************************************************************************)
(* What TLAPS proves of Labor, for any households, firms, skills, wages    *)
(* and bounds: rosters and links agree, nobody is hired twice, the events  *)
(* of a week are the moves that lasted, payroll cuts this week's hires     *)
(* first, and the indexed matcher hires exactly whom the direct search     *)
(* hires.  The first four follow from the invariant LInv; the last one     *)
(* needs MatchInv as well: what the buckets and the tree hold at every     *)
(* pop, and how far the direct search has come by then.                    *)
(***************************************************************************)
EXTENDS Labor, TotalsProofs, SequenceTheorems

\* What the plans of the week keep to while the matcher runs.
Plans ==
  /\ plan.switching \in SUBSET Households
  /\ plan.layoffs \in [Firms -> SUBSET Households]
  /\ pc \in {"open", "hire", "apply"} =>
       /\ plan.canWork \subseteq Households
       /\ plan.switching \subseteq Employed \ Doctors
       /\ \A f \in Firms : plan.layoffs[f] \subseteq roster[f]
       /\ plan.hires \in [Market -> Nat]

\* Rosters and links agree except while the outcome is being applied.
Linked ==
  /\ Baseline \subseteq live
  /\ pc # "sync" =>
       /\ \A f \in Firms : roster[f] = {h \in Households : employer[h] = f}
       /\ \A h \in Households : employer[h] # None => employer[h] \in live
       /\ \A h \in Households : h \in Doctors <=> employer[h] \in Healthcare

\* Nobody changes the employer before the outcome is applied.
Morning == pc \in {"plan", "open", "hire", "apply"} => before = employer

\* Nobody stands twice among the hires of a firm.
Distinct ==
  \A f \in Firms : \A i, j \in 1 .. Len(hired[f]) : hired[f][i] = hired[f][j] => i = j

\* What the matcher has decided so far: who has an outcome is off the pool, and is an incumbent or
\* among the hires of that firm; who leaves a firm has lost the job there or found another one.
Matched ==
  pc \in {"hire", "apply"} =>
    /\ \A h \in Households : outcome[h] # None =>
         /\ h \in assigned
         /\ outcome[h] = employer[h] \/ h \in ToSet(hired[outcome[h]])
    /\ \A f \in Firms : \A h \in ToSet(hired[f]) :
         outcome[h] = f /\ employer[h] # f /\ h \notin Doctors /\ f \in Market
    /\ \A f \in Firms : \A h \in leaving[f] :
         employer[h] = f /\ outcome[h] # f /\ (outcome[h] = None => h \in LaidOff(plan))

\* What is left of the openings: the firms served have no more hires than openings, the one whose
\* turn it is still has its vacancies, those to come have hired nobody.
Places ==
  /\ pc = "hire" =>
       /\ order \in SetToSeqs(HiringFirms(plan)) /\ turn \in 1 .. Len(order)
       /\ \A f \in Firms : hired[f] # <<>> => \E k \in 1 .. turn : f = order[k]
       /\ \A k \in 1 .. turn - 1 : Len(hired[order[k]]) <= Openings(order[k])
       /\ Len(hired[Firm]) + vacancies <= Openings(Firm)
  /\ pc = "apply" => \A f \in Firms : hired[f] # <<>> => Len(hired[f]) <= Openings(f)

\* The hires and the layoff events say what moved since the morning.
Announced(firms) ==
  /\ \A f \in firms, h \in Households : <<"hire", f, h>> \in events <=> h \in ToSet(hired[f])
  /\ \A f \in firms, h \in Households : <<"layoff", f, h>> \in events => before[h] = f /\ employer[h] # f

\* The outcome is applied to the links, and not yet to the hospitals.
Moved ==
  pc = "sync" =>
    /\ Announced(Firms)
    /\ \A f \in Firms : \A h \in ToSet(hired[f]) :
         employer[h] = f /\ before[h] # f /\ h \notin Doctors /\ f \notin Healthcare
    /\ \A h \in Households : employer[h] # None =>
         employer[h] \in live /\ (employer[h] = before[h] \/ h \in ToSet(hired[employer[h]]))

\* The rosters are rebuilt: this week's hires are those who are where they were not in the morning.
Rebuilt ==
  pc = "payroll" =>
    /\ Announced(Firms \ Healthcare)
    /\ \A f \in Firms \ Healthcare, h \in Households :
         h \in ToSet(hired[f]) <=> employer[h] = f /\ before[h] # f

LInv ==
  /\ TypeOK /\ Plans /\ Linked /\ Morning /\ Distinct /\ Matched /\ Places /\ Moved /\ Rebuilt
  /\ EventsAreMoves

-----------------------------------------------------------------------------
(* The constants *)

LEMMA Constants ==
  /\ Households \subseteq Nat \ {0} /\ IsFiniteSet(Households)
  /\ Firms \subseteq Nat \ {0} /\ IsFiniteSet(Firms)
  /\ Healthcare \subseteq Baseline /\ Baseline \subseteq Firms /\ IsFiniteSet(Healthcare)
  /\ Doctors \subseteq Households /\ (Doctors # {} => Healthcare # {})
  /\ SwitcherCap \in Nat
  /\ None \notin Households /\ None \notin Firms
<1>1. Healthcare \subseteq Firms
  BY LaborAssumption
<1>2. IsFiniteSet(Healthcare)
  BY <1>1, LaborAssumption, FS_Subset
<1> QED
  BY <1>2, LaborAssumption

LEMMA PayrollOutsideHealthcare == PayrollFirms \subseteq Firms \ Healthcare
BY DEF PayrollFirms

-----------------------------------------------------------------------------
(* Sequences and the order of ids *)

\* A finite set of ids can be put in order.
LEMMA OrderExists ==
  ASSUME NEW D \in SUBSET Nat, IsFiniteSet(D)
  PROVE  \E s \in SetToSeqs(D) : \A i, j \in DOMAIN s : i < j => s[i] < s[j]
<1>1. PICK s \in [1 .. Cardinality(D) -> D] : \A i, j \in 1 .. Cardinality(D) : i < j => s[i] < s[j]
  BY InOrder
<1>2. Cardinality(D) \in Nat
  BY FS_CardinalityType
<1>3. \A i, j \in 1 .. Cardinality(D) : i # j => s[i] # s[j]
  <2> SUFFICES ASSUME NEW i \in 1 .. Cardinality(D), NEW j \in 1 .. Cardinality(D), i # j PROVE s[i] # s[j]
    OBVIOUS
  <2>1. s[i] \in Nat /\ s[j] \in Nat
    BY <1>1
  <2>2. i < j \/ j < i
    BY <1>2
  <2>3. s[i] < s[j] \/ s[j] < s[i]
    BY <1>1, <2>2
  <2> QED
    BY <2>1, <2>3
<1>4. s \in SetToSeqs(D)
  BY <1>1, <1>3 DEF SetToSeqs
<1> QED
  BY <1>1, <1>4

LEMMA RisingIsOrder == \A D \in SUBSET Nat : IsFiniteSet(D) => Rising(D) \in SetToSeqs(D)
<1> SUFFICES ASSUME NEW D \in SUBSET Nat, IsFiniteSet(D) PROVE Rising(D) \in SetToSeqs(D)
  OBVIOUS
<1>1. \E s \in SetToSeqs(D) : \A i, j \in DOMAIN s : i < j => s[i] < s[j]
  BY OrderExists
<1> QED
  BY <1>1 DEF Rising

\* The elements of a list, of a longer one, and of none.
LEMMA Elements ==
  /\ \A D : \A s \in Seq(D) : \A h : h \in ToSet(s) <=> \E i \in 1 .. Len(s) : s[i] = h
  /\ \A D : \A s \in Seq(D) : ToSet(s) \subseteq D
  /\ ToSet(<<>>) = {}
  /\ \A D : \A s \in Seq(D) : s # <<>> => ToSet(s) # {}
<1>1. \A D : \A s \in Seq(D) : \A h : h \in ToSet(s) <=> \E i \in 1 .. Len(s) : s[i] = h
  BY DEF ToSet
<1>2. \A D : \A s \in Seq(D) : ToSet(s) \subseteq D
  BY DEF ToSet
<1>3. ToSet(<<>>) = {}
  BY DEF ToSet
<1>4. \A D : \A s \in Seq(D) : s # <<>> => ToSet(s) # {}
  <2> SUFFICES ASSUME NEW D, NEW s \in Seq(D), s # <<>> PROVE ToSet(s) # {}
    OBVIOUS
  <2>1. Len(s) \in Nat \ {0}
    OBVIOUS
  <2>2. s[1] \in ToSet(s)
    BY <1>1, <2>1
  <2> QED
    BY <2>2
<1> QED
  BY <1>1, <1>2, <1>3, <1>4

-----------------------------------------------------------------------------
(* The inductive invariant *)

LEMMA NoPlanIsPlan == NoPlan.switching = {} /\ NoPlan.layoffs = [f \in Firms |-> {}]
BY DEF NoPlan

LEMMA InitInv == Init => LInv
<1> SUFFICES ASSUME Init PROVE LInv
  OBVIOUS
<1>1. /\ pc = "plan" /\ live = Baseline /\ vacancies = 0
      /\ employer \in [Households -> Healthcare \cup {None}]
      /\ \A h \in Households : h \in Doctors <=> employer[h] # None
      /\ roster = [f \in Firms |-> {h \in Households : employer[h] = f}]
      /\ plan = NoPlan /\ assigned = {} /\ outcome = [h \in Households |-> None]
      /\ hired = [f \in Firms |-> <<>>] /\ leaving = [f \in Firms |-> {}]
      /\ events = {} /\ before = employer
  BY DEF Init
<1>2. Healthcare \subseteq Baseline /\ Baseline \subseteq Firms /\ None \notin Firms
  BY Constants
<1>3. \A f \in Firms : hired[f] = <<>> /\ Len(hired[f]) = 0 /\ hired[f] \in Seq(Households)
  BY <1>1
<1>4. TypeOK
  <2>1. employer \in [Households -> Firms \cup {None}]
    BY <1>1, <1>2
  <2>2. hired \in [Firms -> Seq(Households)]
    BY <1>1
  <2>3. live \subseteq Firms
    BY <1>1, <1>2
  <2>4. outcome \in [Households -> Firms \cup {None}]
    BY <1>1
  <2>5. roster \in [Firms -> SUBSET Households] /\ leaving \in [Firms -> SUBSET Households]
    BY <1>1
  <2> QED
    BY <1>1, <2>1, <2>2, <2>3, <2>4, <2>5 DEF TypeOK
<1>5. Plans
  BY <1>1, NoPlanIsPlan DEF Plans
<1>6. Linked
  <2>1. \A f \in Firms : roster[f] = {h \in Households : employer[h] = f}
    BY <1>1
  <2>2. \A h \in Households : employer[h] # None => employer[h] \in live
    BY <1>1, <1>2
  <2>3. \A h \in Households : h \in Doctors <=> employer[h] \in Healthcare
    BY <1>1, <1>2
  <2> QED
    BY <1>1, <2>1, <2>2, <2>3 DEF Linked
<1>7. Distinct
  BY <1>3 DEF Distinct
<1> QED
  BY <1>1, <1>4, <1>5, <1>6, <1>7 DEF LInv, Morning, Matched, Places, Moved, Rebuilt, EventsAreMoves

\* What the invariant says while the matcher runs.
LEMMA InTheMarket ==
  ASSUME LInv, pc \in {"hire", "apply"}
  PROVE  /\ TypeOK /\ Plans /\ Linked /\ Morning /\ Distinct /\ Matched /\ Places
         /\ before = employer
         /\ \A f \in Firms : hired[f] \in Seq(Households) /\ Len(hired[f]) \in Nat
         /\ \A f \in Firms : ToSet(hired[f]) \subseteq Households
<1>1. TypeOK /\ Plans /\ Linked /\ Morning /\ Distinct /\ Matched /\ Places
  BY DEF LInv
<1>2. before = employer
  BY <1>1 DEF Morning
<1>3. \A f \in Firms : hired[f] \in Seq(Households) /\ Len(hired[f]) \in Nat
  BY <1>1 DEF TypeOK
<1>4. \A f \in Firms : ToSet(hired[f]) \subseteq Households
  BY <1>3, Elements
<1> QED
  BY <1>1, <1>2, <1>3, <1>4

\* The firm whose turn it is.
LEMMA FirmsTurn ==
  ASSUME LInv, pc = "hire"
  PROVE  /\ Firm \in HiringFirms(plan) /\ Firm \in Market /\ Firm \in Firms /\ Firm \notin Healthcare
         /\ order \in SetToSeqs(HiringFirms(plan)) /\ turn \in 1 .. Len(order)
         /\ DOMAIN order = 1 .. Len(order)
         /\ Len(order) \in Nat
         /\ \A i, j \in 1 .. Len(order) : i # j => order[i] # order[j]
<1>1. order \in SetToSeqs(HiringFirms(plan)) /\ turn \in 1 .. Len(order)
  BY DEF LInv, Places
<1>2. IsFiniteSet(HiringFirms(plan)) /\ HiringFirms(plan) \subseteq Market /\ Market \subseteq Firms
  <2>1. Market \subseteq Firms
    BY DEF LInv, TypeOK, Market
  <2>2. HiringFirms(plan) \subseteq Market
    BY DEF HiringFirms, SwitcherFirms
  <2>3. IsFiniteSet(HiringFirms(plan))
    BY <2>1, <2>2, Constants, FS_Subset
  <2> QED
    BY <2>1, <2>2, <2>3
<1>3. PICK n \in Nat : n = Cardinality(HiringFirms(plan))
  BY <1>2, FS_CardinalityType
<1>4. order \in [1 .. n -> HiringFirms(plan)] /\ \A i, j \in 1 .. n : i # j => order[i] # order[j]
  BY <1>1, <1>3 DEF SetToSeqs
<1>5. Len(order) = n /\ DOMAIN order = 1 .. n
  BY <1>3, <1>4
<1>6. order[turn] \in HiringFirms(plan)
  BY <1>1, <1>4, <1>5
<1>7. Firm \in HiringFirms(plan) /\ Firm \in Market /\ Firm \in Firms /\ Firm \notin Healthcare
  BY <1>2, <1>6 DEF Firm, Market
<1> QED
  BY <1>1, <1>3, <1>4, <1>5, <1>7

-----------------------------------------------------------------------------
(* The matcher *)

\* What stays while the matcher runs: a step that leaves the agents and the plans alone keeps what
\* the invariant says of them.
LEMMA AgentsStay ==
  ASSUME LInv, pc \in {"open", "hire"}, pc' \in {"hire", "apply"},
         UNCHANGED <<live, employer, roster, plan, events, before>>
  PROVE  /\ Plans' /\ Linked' /\ Morning' /\ Moved' /\ Rebuilt' /\ EventsAreMoves'
         /\ HiringFirms(plan)' = HiringFirms(plan) /\ Market' = Market
         /\ LaidOff(plan)' = LaidOff(plan)
         /\ \A f : Openings(f)' = Openings(f)
<1>1. Market' = Market /\ Employed' = Employed
  BY DEF Market, Employed
<1>2. SwitcherFirms(plan)' = SwitcherFirms(plan)
  BY <1>1 DEF SwitcherFirms
<1>3. HiringFirms(plan)' = HiringFirms(plan)
  BY <1>1, <1>2 DEF HiringFirms
<1>4. \A f : Openings(f)' = Openings(f)
  BY <1>2 DEF Openings
<1>5. Plans'
  BY <1>1 DEF LInv, Plans
<1>6. Linked'
  BY DEF LInv, Linked
<1>7. Morning'
  BY DEF LInv, Morning
<1>8. Moved' /\ Rebuilt' /\ EventsAreMoves'
  BY DEF Moved, Rebuilt, EventsAreMoves
<1> QED
  BY <1>1, <1>3, <1>4, <1>5, <1>6, <1>7, <1>8 DEF LaidOff

\* One more hire at the end of a list.
LEMMA OneMore ==
  ASSUME NEW D, NEW s \in Seq(D), NEW h \in D
  PROVE  /\ Append(s, h) \in Seq(D) /\ Len(Append(s, h)) = Len(s) + 1
         /\ ToSet(Append(s, h)) = ToSet(s) \cup {h}
         /\ h \notin ToSet(s) /\ (\A i, j \in 1 .. Len(s) : s[i] = s[j] => i = j)
              => \A i, j \in 1 .. Len(s) + 1 : Append(s, h)[i] = Append(s, h)[j] => i = j
<1> DEFINE t == Append(s, h)
<1>1. /\ t \in Seq(D) /\ Len(t) = Len(s) + 1 /\ Len(s) \in Nat
      /\ \A i \in 1 .. Len(s) : t[i] = s[i]
      /\ t[Len(s) + 1] = h
  OBVIOUS
<1> HIDE DEF t
<1>2. \A g : g \in ToSet(t) <=> \E i \in 1 .. Len(s) + 1 : t[i] = g
  BY <1>1, Elements
<1>3. \A g : g \in ToSet(s) <=> \E i \in 1 .. Len(s) : s[i] = g
  BY Elements
<1>4. \A i \in 1 .. Len(s) + 1 : i \in 1 .. Len(s) \/ i = Len(s) + 1
  BY <1>1
<1>5. 1 .. Len(s) \subseteq 1 .. Len(s) + 1 /\ Len(s) + 1 \in 1 .. Len(s) + 1
  BY <1>1
<1>6. ToSet(t) = ToSet(s) \cup {h}
  BY <1>1, <1>2, <1>3, <1>4, <1>5
<1>7. ASSUME h \notin ToSet(s), \A i, j \in 1 .. Len(s) : s[i] = s[j] => i = j,
             NEW i \in 1 .. Len(s) + 1, NEW j \in 1 .. Len(s) + 1, t[i] = t[j]
      PROVE  i = j
  BY <1>1, <1>3, <1>4, <1>7
<1> QED
  BY <1>1, <1>6, <1>7 DEF t

\* A hire of somebody who is still in the pool, is no doctor and does not work here already.
LEMMA HireKeeps ==
  ASSUME LInv, pc = "hire", vacancies > 0,
         NEW h \in Households \ Doctors, h \notin assigned, employer[h] # Firm,
         Hire(Firm, h),
         UNCHANGED <<pc, live, employer, roster, plan, order, turn, events, before>>
  PROVE  LInv'
<1> DEFINE f0 == Firm
<1>1. /\ TypeOK /\ Distinct /\ Matched /\ Places
      /\ \A f \in Firms : hired[f] \in Seq(Households) /\ Len(hired[f]) \in Nat
  BY InTheMarket
<1>2. /\ f0 \in Firms /\ f0 \in Market /\ f0 \notin Healthcare /\ turn \in 1 .. Len(order)
      /\ \A i, j \in 1 .. Len(order) : i # j => order[i] # order[j]
      /\ Len(order) \in Nat
  BY FirmsTurn
<1>3. /\ Plans' /\ Linked' /\ Morning' /\ Moved' /\ Rebuilt' /\ EventsAreMoves'
      /\ HiringFirms(plan)' = HiringFirms(plan) /\ Market' = Market
      /\ LaidOff(plan)' = LaidOff(plan)
      /\ \A f : Openings(f)' = Openings(f)
  BY AgentsStay
<1>4. f0' = f0
  BY DEF Firm
<1>5. /\ hired' = [hired EXCEPT ![f0] = Append(@, h)]
      /\ outcome' = [outcome EXCEPT ![h] = f0]
      /\ assigned' = assigned \cup {h}
      /\ leaving' = IF h \in plan.switching
                    THEN [leaving EXCEPT ![employer[h]] = @ \cup {h}] ELSE leaving
      /\ vacancies' = vacancies - 1
  BY DEF Hire
<1> HIDE DEF f0
<1>6. outcome[h] = None /\ None \notin Firms
  BY <1>1, Constants DEF Matched, TypeOK
<1>7. h \notin ToSet(hired[f0])
  BY <1>1, <1>2, <1>6 DEF Matched
<1>8. /\ hired'[f0] = Append(hired[f0], h) /\ \A f \in Firms : f # f0 => hired'[f] = hired[f]
      /\ DOMAIN hired' = Firms
  BY <1>1, <1>2, <1>5 DEF TypeOK
<1>9. /\ Append(hired[f0], h) \in Seq(Households) /\ Len(Append(hired[f0], h)) = Len(hired[f0]) + 1
      /\ ToSet(Append(hired[f0], h)) = ToSet(hired[f0]) \cup {h}
      /\ \A i, j \in 1 .. Len(hired[f0]) + 1 : Append(hired[f0], h)[i] = Append(hired[f0], h)[j] => i = j
  <2>1. \A i, j \in 1 .. Len(hired[f0]) : hired[f0][i] = hired[f0][j] => i = j
    BY <1>1, <1>2 DEF Distinct
  <2>2. hired[f0] \in Seq(Households) /\ h \in Households
    BY <1>1, <1>2
  <2> QED
    BY <1>7, <2>1, <2>2, OneMore
<1>10. /\ outcome'[h] = f0 /\ \A g \in Households : g # h => outcome'[g] = outcome[g]
       /\ outcome' \in [Households -> Firms \cup {None}]
  BY <1>1, <1>2, <1>5 DEF TypeOK
<1>11. /\ leaving' \in [Firms -> SUBSET Households]
       /\ \A f \in Firms : \A g \in leaving'[f] : g \in leaving[f] \/ (g = h /\ employer[h] = f)
  BY <1>1, <1>5 DEF TypeOK
<1>12. TypeOK'
  <2>1. hired' \in [Firms -> Seq(Households)]
    BY <1>1, <1>2, <1>5, <1>9 DEF TypeOK
  <2>2. vacancies' \in Nat
    BY <1>1, <1>5 DEF TypeOK
  <2>3. assigned' \subseteq Households
    BY <1>1, <1>5 DEF TypeOK
  <2> QED
    BY <1>1, <1>10, <1>11, <2>1, <2>2, <2>3 DEF TypeOK
<1>13. Distinct'
  <2> SUFFICES ASSUME NEW f \in Firms PROVE (\A i, j \in 1 .. Len(hired[f]) : hired[f][i] = hired[f][j] => i = j)'
    BY DEF Distinct
  <2>1. CASE f = f0
    BY <1>8, <1>9, <2>1
  <2>2. CASE f # f0
    BY <1>1, <1>8, <2>2 DEF Distinct
  <2> QED
    BY <2>1, <2>2
<1>14. Matched'
  <2>1. \A g \in Households : outcome'[g] # None =>
          /\ g \in assigned'
          /\ outcome'[g] = employer[g] \/ g \in ToSet(hired'[outcome'[g]])
    <3> SUFFICES ASSUME NEW g \in Households, outcome'[g] # None
                 PROVE  /\ g \in assigned'
                        /\ outcome'[g] = employer[g] \/ g \in ToSet(hired'[outcome'[g]])
      OBVIOUS
    <3>1. CASE g = h
      BY <1>5, <1>8, <1>9, <1>10, <3>1
    <3>2. CASE g # h
      <4>1. outcome'[g] = outcome[g] /\ outcome[g] \in Firms
        BY <1>1, <1>10, <3>2 DEF TypeOK
      <4>2. g \in assigned /\ (outcome[g] = employer[g] \/ g \in ToSet(hired[outcome[g]]))
        BY <1>1, <4>1 DEF Matched
      <4>3. ToSet(hired[outcome[g]]) \subseteq ToSet(hired'[outcome[g]])
        BY <1>8, <1>9, <4>1
      <4> QED
        BY <1>5, <4>1, <4>2, <4>3
    <3> QED
      BY <3>1, <3>2
  <2>2. \A f \in Firms : \A g \in ToSet(hired'[f]) :
          outcome'[g] = f /\ employer[g] # f /\ g \notin Doctors /\ f \in Market
    <3> SUFFICES ASSUME NEW f \in Firms, NEW g \in ToSet(hired'[f])
                 PROVE  outcome'[g] = f /\ employer[g] # f /\ g \notin Doctors /\ f \in Market
      OBVIOUS
    <3>1. CASE f = f0 /\ g = h
      BY <1>2, <1>10, <3>1 DEF f0
    <3>2. CASE ~ (f = f0 /\ g = h)
      <4>1. g \in ToSet(hired[f])
        BY <1>8, <1>9, <3>2
      <4>2. outcome[g] = f /\ employer[g] # f /\ g \notin Doctors /\ f \in Market
        BY <1>1, <4>1 DEF Matched
      <4>3. g # h /\ g \in Households
        <5>1. g # h
          BY <1>6, <4>2
        <5>2. g \in Households
          BY <4>1, InTheMarket
        <5> QED
          BY <5>1, <5>2
      <4> QED
        BY <1>10, <4>2, <4>3
    <3> QED
      BY <3>1, <3>2
  <2>3. \A f \in Firms : \A g \in leaving'[f] :
          employer[g] = f /\ outcome'[g] # f /\ (outcome'[g] = None => g \in LaidOff(plan))
    <3> SUFFICES ASSUME NEW f \in Firms, NEW g \in leaving'[f]
                 PROVE  employer[g] = f /\ outcome'[g] # f /\ (outcome'[g] = None => g \in LaidOff(plan))
      OBVIOUS
    <3>0. g \in Households
      BY <1>11
    <3>1. CASE g = h
      <4>1. employer[h] = f
        BY <1>1, <1>11, <3>1 DEF Matched
      <4>2. f # f0 /\ outcome'[h] = f0 /\ f0 # None
        BY <1>2, <1>6, <1>10, <4>1 DEF f0
      <4> QED
        BY <3>1, <4>1, <4>2
    <3>2. CASE g # h
      BY <1>1, <1>10, <1>11, <3>0, <3>2 DEF Matched
    <3> QED
      BY <3>1, <3>2
  <2>4. Market' = Market /\ LaidOff(plan)' = LaidOff(plan) /\ employer' = employer
    BY <1>3
  <2> QED
    BY <2>1, <2>2, <2>3, <2>4 DEF Matched
<1>15. Places'
  <2>1. /\ order \in SetToSeqs(HiringFirms(plan))
        /\ \A f \in Firms : hired[f] # <<>> => \E k \in 1 .. turn : f = order[k]
        /\ \A k \in 1 .. turn - 1 : Len(hired[order[k]]) <= Openings(order[k])
        /\ Len(hired[f0]) + vacancies <= Openings(f0)
    BY <1>1 DEF Places, f0
  <2>2. f0 = order[turn] /\ turn \in 1 .. turn
    BY <1>2 DEF f0, Firm
  <2>3. \A f \in Firms : hired'[f] # <<>> => \E k \in 1 .. turn : f = order[k]
    BY <1>8, <2>1, <2>2
  <2>4. ASSUME NEW k \in 1 .. turn - 1 PROVE Len(hired'[order[k]]) <= Openings(order[k])
    <3>1. k \in 1 .. Len(order) /\ k # turn
      BY <1>2
    <3>2. order[k] # f0
      BY <1>2, <2>2, <3>1
    <3>3. hired'[order[k]] = hired[order[k]]
      BY <1>5, <3>2
    <3> QED
      BY <2>1, <3>3
  <2>5. Len(hired'[f0]) + vacancies' <= Openings(f0)
    <3>1. Len(hired'[f0]) = Len(hired[f0]) + 1 /\ vacancies' = vacancies - 1
      BY <1>5, <1>8, <1>9
    <3>2. Len(hired[f0]) \in Nat /\ vacancies \in Nat
      BY <1>1, <1>2 DEF TypeOK
    <3>3. Len(hired'[f0]) + vacancies' = Len(hired[f0]) + vacancies
      BY <3>1, <3>2
    <3> QED
      BY <2>1, <3>3
  <2>6. order' = order /\ turn' = turn /\ pc' = "hire"
    OBVIOUS
  <2>7. Openings(f0)' = Openings(f0) /\ \A k \in 1 .. turn - 1 : Openings(order[k])' = Openings(order[k])
    BY <1>3, <1>4
  <2>8. Len(hired'[Firm']) + vacancies' <= Openings(Firm)'
    BY <1>4, <2>5, <2>7 DEF f0
  <2> QED
    BY <1>2, <1>3, <2>1, <2>3, <2>4, <2>6, <2>7, <2>8 DEF Places
<1> QED
  BY <1>3, <1>12, <1>13, <1>14, <1>15 DEF LInv

\* A head is popped, and nobody is hired.
LEMMA SkipKeeps ==
  ASSUME LInv, pc = "hire",
         UNCHANGED <<pc, live, employer, roster, plan, order, turn, vacancies, results, events, before>>
  PROVE  LInv'
<1>1. TypeOK /\ Distinct /\ Matched /\ Places
  BY InTheMarket
<1>2. /\ Plans' /\ Linked' /\ Morning' /\ Moved' /\ Rebuilt' /\ EventsAreMoves'
      /\ HiringFirms(plan)' = HiringFirms(plan) /\ Market' = Market
      /\ LaidOff(plan)' = LaidOff(plan)
      /\ \A f : Openings(f)' = Openings(f)
  BY AgentsStay
<1>3. TypeOK' /\ Distinct'
  BY <1>1 DEF TypeOK, Distinct, results
<1>4. Matched'
  BY <1>1, <1>2 DEF Matched, results
<1>5. Places'
  <2>1. Firm' = Firm /\ hired' = hired
    BY DEF Firm, results
  <2>2. Openings(Firm)' = Openings(Firm) /\ \A k \in 1 .. turn - 1 : Openings(order[k])' = Openings(order[k])
    BY <1>2, <2>1
  <2> QED
    BY <1>1, <1>2, <2>1, <2>2 DEF Places
<1> QED
  BY <1>2, <1>3, <1>4, <1>5 DEF LInv

LEMMA HireSwitcherKeeps ==
  ASSUME LInv, HireSwitcher
  PROVE  LInv'
<1>1. pc = "hire" /\ vacancies > 0
  BY DEF HireSwitcher
<1>2. UNCHANGED <<pc, live, employer, roster, plan, order, turn, events, before>>
  BY DEF HireSwitcher
<1>3. PICK h \in Movable : Hire(Firm, h)
  BY DEF HireSwitcher
<1>4. h \in Households \ Doctors /\ h \notin assigned /\ employer[h] # Firm
  BY <1>1, <1>3 DEF Movable, LInv, Plans, Employed
<1> QED
  BY <1>1, <1>2, <1>3, <1>4, HireKeeps

LEMMA PopHeadKeeps ==
  ASSUME LInv, PopHead
  PROVE  LInv'
<1>1. pc = "hire" /\ vacancies > 0
  BY DEF PopHead
<1>2. UNCHANGED <<pc, live, employer, roster, plan, order, turn, events, before>>
  BY DEF PopHead
<1>3. PICK h \in Pool(plan) :
        \/ UNCHANGED <<vacancies, results>>
        \/ h \notin assigned /\ employer[h] # Firm /\ Hire(Firm, h)
  BY DEF PopHead
<1>4. CASE UNCHANGED <<vacancies, results>>
  BY <1>1, <1>2, <1>4, SkipKeeps
<1>5. CASE h \notin assigned /\ employer[h] # Firm /\ Hire(Firm, h)
  <2>1. h \in Households \ Doctors
    BY <1>1 DEF Pool, LInv, Plans
  <2> QED
    BY <1>1, <1>2, <1>5, <2>1, HireKeeps
<1> QED
  BY <1>3, <1>4, <1>5

\* A firm that hires has a number of openings.
LEMMA OpeningsAreNat ==
  ASSUME LInv, pc \in {"open", "hire"}, NEW f \in HiringFirms(plan)
  PROVE  Openings(f) \in Nat
<1>1. CASE f \in SwitcherFirms(plan)
  <2>1. IsFiniteSet(plan.switching)
    <3>1. plan.switching \in SUBSET Households
      BY DEF LInv, Plans
    <3> QED
      BY <3>1, Constants, FS_Subset
  <2>2. Cardinality(plan.switching) \in Nat
    BY <2>1, FS_CardinalityType
  <2> QED
    BY <1>1, <2>2, Constants DEF Openings, Least
<1>2. CASE f \notin SwitcherFirms(plan)
  <2>1. plan.hires \in [Market -> Nat] /\ f \in Market
    BY <1>2 DEF LInv, Plans, HiringFirms
  <2> QED
    BY <1>2, <2>1 DEF Openings
<1> QED
  BY <1>1, <1>2

LEMMA CloseFirmKeeps ==
  ASSUME LInv, CloseFirm
  PROVE  LInv'
<1>1. /\ pc = "hire" /\ turn' = turn + 1 /\ vacancies' = OpeningsAt(order, turn + 1)
      /\ pc' = IF turn = Len(order) THEN "apply" ELSE "hire"
      /\ UNCHANGED <<live, employer, roster, plan, order, results, events, before>>
  BY DEF CloseFirm
<1>2. /\ TypeOK /\ Distinct /\ Matched /\ Places
      /\ \A f \in Firms : hired[f] \in Seq(Households) /\ Len(hired[f]) \in Nat
  BY <1>1, InTheMarket
<1>3. /\ Plans' /\ Linked' /\ Morning' /\ Moved' /\ Rebuilt' /\ EventsAreMoves'
      /\ HiringFirms(plan)' = HiringFirms(plan) /\ Market' = Market
      /\ LaidOff(plan)' = LaidOff(plan)
      /\ \A f : Openings(f)' = Openings(f)
  <2>1. pc \in {"open", "hire"} /\ pc' \in {"hire", "apply"}
    BY <1>1
  <2> QED
    BY <1>1, <2>1, AgentsStay
<1>4. /\ Firm \in Firms /\ order \in SetToSeqs(HiringFirms(plan)) /\ turn \in 1 .. Len(order)
      /\ \A i, j \in 1 .. Len(order) : i # j => order[i] # order[j]
      /\ Len(order) \in Nat /\ DOMAIN order = 1 .. Len(order)
  BY <1>1, FirmsTurn
<1>5. \A k \in 1 .. Len(order) : order[k] \in HiringFirms(plan) /\ order[k] \in Firms
  <2>1. \A k \in DOMAIN order : order[k] \in HiringFirms(plan)
    BY <1>4 DEF SetToSeqs
  <2>2. HiringFirms(plan) \subseteq Firms
    BY <1>2 DEF HiringFirms, SwitcherFirms, Market, TypeOK
  <2> QED
    BY <1>4, <2>1, <2>2
<1>6. vacancies' \in Nat
  <2>1. CASE turn + 1 <= Len(order)
    <3>1. turn + 1 \in 1 .. Len(order)
      BY <1>4, <2>1
    <3> QED
      BY <1>1, <1>5, <2>1, <3>1, OpeningsAreNat DEF OpeningsAt
  <2>2. CASE ~ (turn + 1 <= Len(order))
    BY <1>1, <2>2 DEF OpeningsAt
  <2> QED
    BY <2>1, <2>2
<1>7. TypeOK' /\ Distinct'
  BY <1>1, <1>2, <1>6 DEF TypeOK, Distinct, results
<1>8. Matched'
  BY <1>1, <1>2, <1>3 DEF Matched, results
<1>9. /\ \A f \in Firms : hired[f] # <<>> => \E k \in 1 .. turn : f = order[k]
      /\ \A k \in 1 .. turn : Len(hired[order[k]]) <= Openings(order[k])
  <2>1. /\ \A f \in Firms : hired[f] # <<>> => \E k \in 1 .. turn : f = order[k]
        /\ \A k \in 1 .. turn - 1 : Len(hired[order[k]]) <= Openings(order[k])
        /\ Len(hired[Firm]) + vacancies <= Openings(Firm)
    BY <1>1, <1>2 DEF Places
  <2>2. Len(hired[Firm]) \in Nat /\ vacancies \in Nat /\ Openings(Firm) \in Nat
    BY <1>1, <1>2, <1>4, <1>5, OpeningsAreNat DEF TypeOK, Firm
  <2>3. Len(hired[order[turn]]) <= Openings(order[turn])
    BY <2>1, <2>2 DEF Firm
  <2>4. \A k \in 1 .. turn : k = turn \/ k \in 1 .. turn - 1
    BY <1>4
  <2> QED
    BY <2>1, <2>3, <2>4
<1>10. Places'
  <2>1. CASE turn = Len(order)
    <3>1. pc' = "apply" /\ hired' = hired
      BY <1>1, <2>1 DEF results
    <3>2. ASSUME NEW f \in Firms, hired[f] # <<>> PROVE Len(hired[f]) <= Openings(f)'
      <4>1. Len(hired[f]) <= Openings(f)
        BY <1>9, <3>2
      <4> QED
        BY <1>3, <4>1
    <3> QED
      BY <3>1, <3>2 DEF Places
  <2>2. CASE turn # Len(order)
    <3>1. pc' = "hire" /\ hired' = hired /\ order' = order
      BY <1>1, <2>2 DEF results
    <3>2. turn + 1 \in 1 .. Len(order) /\ turn' = turn + 1
      <4>1. turn \in 1 .. Len(order) /\ Len(order) \in Nat
        BY <1>4
      <4>2. turn + 1 \in 1 .. Len(order)
        BY <2>2, <4>1
      <4> QED
        BY <1>1, <4>2
    <3>3. \A f \in Firms : hired[f] # <<>> => \E k \in 1 .. turn + 1 : f = order[k]
      <4>1. 1 .. turn \subseteq 1 .. turn + 1
        BY <1>4
      <4> QED
        BY <1>9, <4>1
    <3>4. \A k \in 1 .. (turn + 1) - 1 : Len(hired[order[k]]) <= Openings(order[k])
      <4>1. (turn + 1) - 1 = turn
        BY <1>4
      <4> QED
        BY <1>9, <4>1
    <3>5. Firm' = order[turn + 1]
      BY <3>1, <3>2 DEF Firm
    <3>6. hired[order[turn + 1]] = <<>>
      <4>1. \A k \in 1 .. turn : k \in 1 .. Len(order) /\ k # turn + 1
        BY <1>4, <3>2
      <4>2. order[turn + 1] \in Firms
        BY <1>5, <3>2
      <4> QED
        BY <1>4, <1>9, <3>2, <4>1, <4>2
    <3>7. Len(hired[order[turn + 1]]) + vacancies' <= Openings(order[turn + 1])
      <4>1. vacancies' = Openings(order[turn + 1])
        BY <1>1, <3>2 DEF OpeningsAt
      <4>2. Len(hired[order[turn + 1]]) = 0
        BY <3>6
      <4>3. Openings(order[turn + 1]) \in Nat
        BY <1>6, <4>1
      <4> QED
        BY <4>1, <4>2, <4>3
    <3>8. /\ Openings(Firm)' = Openings(order[turn + 1])
          /\ \A k \in 1 .. turn : Openings(order[k])' = Openings(order[k])
      BY <1>3, <3>1, <3>5
    <3>9. turn' - 1 = turn
      BY <1>4, <3>2
    <3> QED
      BY <1>3, <1>4, <1>9, <3>1, <3>2, <3>3, <3>5, <3>7, <3>8, <3>9 DEF Places
  <2> QED
    BY <2>1, <2>2
<1> QED
  BY <1>3, <1>7, <1>8, <1>10 DEF LInv

LEMMA OpenMarketKeeps ==
  ASSUME LInv, OpenMarket
  PROVE  LInv'
<1>1. /\ pc = "open"
      /\ assigned' = Incumbents(plan)
      /\ outcome' = [h \in Households |-> IF h \in Incumbents(plan) THEN employer[h] ELSE None]
      /\ hired' = [f \in Firms |-> <<>>]
      /\ leaving' = plan.layoffs
      /\ UNCHANGED <<live, employer, roster, plan, events, before>>
  BY DEF OpenMarket
<1>2. \/ pc' = "apply" /\ UNCHANGED <<order, turn, vacancies>>
      \/ /\ pc' = "hire" /\ HiringFirms(plan) # {}
         /\ order' \in SetToSeqs(HiringFirms(plan)) /\ turn' = 1
         /\ vacancies' = OpeningsAt(order', 1)
  BY DEF OpenMarket
<1>3. TypeOK /\ Plans /\ Linked
  BY DEF LInv
<1>4. /\ Plans' /\ Linked' /\ Morning' /\ Moved' /\ Rebuilt' /\ EventsAreMoves'
      /\ HiringFirms(plan)' = HiringFirms(plan) /\ Market' = Market
      /\ LaidOff(plan)' = LaidOff(plan)
      /\ \A f : Openings(f)' = Openings(f)
  <2>1. pc \in {"open", "hire"} /\ pc' \in {"hire", "apply"}
    BY <1>1, <1>2
  <2> QED
    BY <1>1, <2>1, AgentsStay
<1>5. HiringFirms(plan) \subseteq Firms /\ IsFiniteSet(HiringFirms(plan))
  <2>1. HiringFirms(plan) \subseteq Firms
    BY <1>3 DEF HiringFirms, SwitcherFirms, Market, TypeOK
  <2> QED
    BY <2>1, Constants, FS_Subset
<1>6. ASSUME pc' = "hire"
      PROVE  /\ order' \in SetToSeqs(HiringFirms(plan)) /\ turn' = 1 /\ 1 \in 1 .. Len(order')
             /\ order'[1] \in HiringFirms(plan)
             /\ vacancies' = Openings(order'[1]) /\ vacancies' \in Nat
  <2>1. order' \in SetToSeqs(HiringFirms(plan)) /\ turn' = 1 /\ vacancies' = OpeningsAt(order', 1)
        /\ HiringFirms(plan) # {}
    BY <1>2, <1>6
  <2>2. PICK n \in Nat : n = Cardinality(HiringFirms(plan))
    BY <1>5, FS_CardinalityType
  <2>3. order' \in [1 .. n -> HiringFirms(plan)]
    BY <2>1, <2>2 DEF SetToSeqs
  <2>4. n # 0
    BY <1>5, <2>1, <2>2, FS_EmptySet
  <2>5. Len(order') = n /\ 1 \in 1 .. n
    BY <2>2, <2>3, <2>4
  <2>6. order'[1] \in HiringFirms(plan) /\ 1 <= Len(order')
    BY <2>2, <2>3, <2>5
  <2>7. vacancies' = Openings(order'[1])
    BY <2>1, <2>6 DEF OpeningsAt
  <2>8. pc \in {"open", "hire"}
    BY <1>1
  <2>9. Openings(order'[1]) \in Nat
    BY <2>6, <2>8, OpeningsAreNat
  <2> QED
    BY <2>1, <2>5, <2>6, <2>7, <2>9
<1>7. \A f \in Firms : hired'[f] = <<>> /\ hired'[f] \in Seq(Households) /\ Len(hired'[f]) = 0 /\ ToSet(hired'[f]) = {}
  BY <1>1, Elements
<1>8. Incumbents(plan) \subseteq Households
  BY <1>1, <1>3 DEF Incumbents, Plans
<1>9. TypeOK'
  <2>1. hired' \in [Firms -> Seq(Households)]
    BY <1>1
  <2>2. outcome' \in [Households -> Firms \cup {None}]
    BY <1>1, <1>3 DEF TypeOK
  <2>3. leaving' \in [Firms -> SUBSET Households]
    BY <1>1, <1>3 DEF Plans
  <2>4. vacancies' \in Nat /\ pc' \in {"hire", "apply"}
    <3>1. CASE pc' = "apply"
      BY <1>2, <1>3, <3>1 DEF TypeOK
    <3>2. CASE pc' = "hire"
      BY <1>6, <3>2
    <3> QED
      BY <1>2, <3>1, <3>2
  <2> QED
    BY <1>1, <1>3, <1>8, <2>1, <2>2, <2>3, <2>4 DEF TypeOK
<1>10. Distinct'
  BY <1>7 DEF Distinct
<1>11. Matched'
  <2>1. \A h \in Households : outcome'[h] # None => h \in assigned' /\ outcome'[h] = employer[h]
    BY <1>1
  <2>2. \A f \in Firms : \A h \in leaving'[f] :
          employer[h] = f /\ outcome'[h] # f /\ (outcome'[h] = None => h \in LaidOff(plan))
    <3> SUFFICES ASSUME NEW f \in Firms, NEW h \in leaving'[f]
                 PROVE  employer[h] = f /\ outcome'[h] # f /\ (outcome'[h] = None => h \in LaidOff(plan))
      OBVIOUS
    <3>1. h \in plan.layoffs[f] /\ h \in roster[f]
      BY <1>1, <1>3 DEF Plans
    <3>2. h \in Households /\ employer[h] = f
      BY <1>1, <1>3, <3>1 DEF Linked
    <3>3. h \in LaidOff(plan)
      BY <3>1 DEF LaidOff
    <3>4. h \notin Incumbents(plan)
      BY <3>3 DEF Incumbents
    <3>5. outcome'[h] = None /\ None # f
      BY <1>1, <3>2, <3>4, Constants
    <3> QED
      BY <3>2, <3>3, <3>5
  <2> QED
    BY <1>1, <1>4, <1>7, <2>1, <2>2 DEF Matched
<1>12. Places'
  <2>1. CASE pc' = "apply"
    BY <1>7, <2>1 DEF Places
  <2>2. CASE pc' = "hire"
    <3>1. /\ order' \in SetToSeqs(HiringFirms(plan)) /\ turn' = 1 /\ 1 \in 1 .. Len(order')
          /\ vacancies' = Openings(order'[1]) /\ vacancies' \in Nat
      BY <1>6, <2>2
    <3>2. Firm' = order'[1]
      BY <3>1 DEF Firm
    <3>3. order'[1] \in Firms
      <4>1. order'[1] \in HiringFirms(plan)
        BY <1>6, <2>2
      <4> QED
        BY <1>5, <4>1
    <3>4. Openings(Firm)' = Openings(order'[1])
      BY <1>4, <3>2
    <3>5. Len(hired'[Firm']) + vacancies' <= Openings(Firm)'
      BY <1>7, <3>1, <3>2, <3>3, <3>4
    <3>6. 1 .. turn' - 1 = {}
      BY <3>1
    <3> QED
      BY <1>4, <1>7, <2>2, <3>1, <3>5, <3>6 DEF Places
  <2> QED
    BY <1>2, <2>1, <2>2
<1> QED
  BY <1>4, <1>9, <1>10, <1>11, <1>12 DEF LInv

\* The plans of a week.
LEMMA PlanKeeps ==
  ASSUME LInv, Plan
  PROVE  LInv'
<1>1. /\ pc = "plan" /\ pc' = "open" /\ before' = employer /\ events' = {}
      /\ UNCHANGED <<live, employer, roster, order, turn, index, vacancies, results>>
  BY DEF Plan
<1>2. PICK layoffs \in [Firms -> SUBSET Households], canWork \in {Households \ ill : ill \in SUBSET MayBeIll},
           hires \in [Market -> 0 .. MaxHires], project \in (GenericServices \cap live) \cup {None} :
        /\ Staffing(layoffs, hires, project)
        /\ \E switching \in SUBSET MayShop(canWork),
              short \in SUBSET (canWork \cap UNION {layoffs[f] : f \in Firms}) :
             LET p == [NoPlan EXCEPT !.canWork = canWork, !.switching = switching, !.hires = hires,
                         !.layoffs = layoffs, !.searching = Searchers(canWork, switching, short)]
             IN \E offer \in [HiringFirms(p) -> Offers],
                   asks \in [IF HiringFirms(p) = {} THEN {} ELSE Pool(p) -> Asks] :
                  plan' = [p EXCEPT !.offer = offer, !.asks = asks]
  BY DEF Plan
<1>3. PICK switching \in SUBSET MayShop(canWork) :
        plan'.canWork = canWork /\ plan'.switching = switching /\ plan'.hires = hires /\ plan'.layoffs = layoffs
  BY <1>2 DEF NoPlan
<1>4. TypeOK /\ Linked /\ Distinct
  BY DEF LInv
<1>5. Plans'
  <2>1. canWork \subseteq Households
    BY <1>2
  <2>2. switching \subseteq Employed \ Doctors
    BY <1>3 DEF MayShop
  <2>3. Employed \subseteq Households /\ Employed' = Employed /\ Market' = Market
    BY <1>1 DEF Employed, Market
  <2>4. \A f \in Firms : layoffs[f] \subseteq roster[f]
    BY <1>2 DEF Staffing
  <2>5. hires \in [Market -> Nat]
    <3>1. 0 .. MaxHires \subseteq Nat
      OBVIOUS
    <3> QED
      BY <1>2, <3>1
  <2> QED
    BY <1>1, <1>2, <1>3, <2>1, <2>2, <2>3, <2>4, <2>5 DEF Plans
<1>6. TypeOK' /\ Distinct'
  BY <1>1, <1>4 DEF TypeOK, Distinct, results
<1>7. Linked'
  BY <1>1, <1>4 DEF Linked
<1> QED
  BY <1>1, <1>5, <1>6, <1>7 DEF LInv, Morning, Matched, Places, Moved, Rebuilt, EventsAreMoves

\* A set of numbers that is not empty has a smallest one.
LEMMA SmallestOfNats ==
  ASSUME NEW D \in SUBSET Nat, D # {}
  PROVE  \E x \in D : \A y \in D : x <= y
<1>1. IsWellFoundedOn(OpToRel(<, Nat), Nat)
  BY NatLessThanWellFounded
<1>2. PICK x \in D : \A y \in D : ~ (<<y, x>> \in OpToRel(<, Nat))
  BY <1>1, WFMin
<1>3. \A y \in D : <<y, x>> \in Nat \X Nat /\ <<y, x>>[1] = y /\ <<y, x>>[2] = x
  OBVIOUS
<1>4. \A y \in D : ~ (y < x)
  BY <1>2, <1>3 DEF OpToRel
<1>5. \A y \in D : y \in Nat /\ x \in Nat
  OBVIOUS
<1> QED
  BY <1>4, <1>5

-----------------------------------------------------------------------------
(* The outcome *)

LEMMA EventsAre ==
  \A kind, who, k, f, h : <<k, f, h>> \in Events(kind, who)
                            <=> k = kind /\ f \in Firms /\ h \in Households /\ h \in who[f]
BY DEF Events

LEMMA ApplyKeeps ==
  ASSUME LInv, Apply
  PROVE  LInv'
<1>1. /\ pc = "apply" /\ pc' = "sync"
      /\ events' = Events("hire", [f \in Firms |-> ToSet(hired[f])]) \cup Events("layoff", leaving)
      /\ roster' = [f \in Firms |-> (roster[f] \ leaving[f]) \cup ToSet(hired[f])]
      /\ employer' = FellBack
      /\ assigned' = {} /\ outcome' = [h \in Households |-> None] /\ leaving' = [f \in Firms |-> {}]
      /\ plan' = [NoPlan EXCEPT !.switching = plan.switching, !.layoffs = plan.layoffs]
      /\ UNCHANGED <<live, vacancies, hired, before>>
  BY DEF Apply, Forget
<1>2. /\ TypeOK /\ Plans /\ Linked /\ Distinct /\ Matched /\ before = employer
      /\ \A f \in Firms : ToSet(hired[f]) \subseteq Households
  BY <1>1, InTheMarket
<1>3. \A h \in Households :
        /\ employer'[h] \in {outcome[h], employer[h]}
        /\ outcome[h] # None => employer'[h] = outcome[h]
        /\ h \in LaidOff(plan) => employer'[h] = outcome[h]
  BY <1>1 DEF FellBack
<1>4. employer' \in [Households -> Firms \cup {None}]
  BY <1>1, <1>2 DEF FellBack, TypeOK
<1>5. \A f \in Firms, h \in Households :
        /\ <<"hire", f, h>> \in events' <=> h \in ToSet(hired[f])
        /\ <<"layoff", f, h>> \in events' <=> h \in leaving[f]
  <2> DEFINE who == [f \in Firms |-> ToSet(hired[f])]
  <2> SUFFICES ASSUME NEW f \in Firms, NEW h \in Households
               PROVE  /\ <<"hire", f, h>> \in events' <=> h \in ToSet(hired[f])
                      /\ <<"layoff", f, h>> \in events' <=> h \in leaving[f]
    OBVIOUS
  <2>1. who[f] = ToSet(hired[f])
    OBVIOUS
  <2>2. events' = Events("hire", who) \cup Events("layoff", leaving)
    BY <1>1
  <2> HIDE DEF who
  <2>3. <<"hire", f, h>> \in Events("hire", who) <=> h \in who[f]
    BY EventsAre
  <2>4. ~ (<<"hire", f, h>> \in Events("layoff", leaving)) /\ ~ (<<"layoff", f, h>> \in Events("hire", who))
    <3>1. "hire" # "layoff"
      OBVIOUS
    <3> QED
      BY <3>1, EventsAre
  <2>5. <<"layoff", f, h>> \in Events("layoff", leaving) <=> h \in leaving[f]
    BY EventsAre
  <2> QED
    BY <2>1, <2>2, <2>3, <2>4, <2>5
<1>6. TypeOK'
  <2>1. roster' \in [Firms -> SUBSET Households]
    BY <1>1, <1>2 DEF TypeOK
  <2>2. events' \subseteq {"hire", "layoff"} \X Firms \X Households
    BY <1>1 DEF Events
  <2>3. outcome' \in [Households -> Firms \cup {None}] /\ leaving' \in [Firms -> SUBSET Households]
    BY <1>1
  <2> QED
    BY <1>1, <1>2, <1>4, <2>1, <2>2, <2>3 DEF TypeOK
<1>7. Plans'
  <2>1. plan'.switching = plan.switching /\ plan'.layoffs = plan.layoffs
    BY <1>1 DEF NoPlan
  <2> QED
    BY <1>1, <1>2, <2>1 DEF Plans
<1>8. Linked' /\ Distinct'
  BY <1>1, <1>2 DEF Linked, Distinct
<1>9. Moved'
  <2>1. \A f \in Firms, h \in Households : <<"layoff", f, h>> \in events' => before[h] = f /\ employer'[h] # f
    <3> SUFFICES ASSUME NEW f \in Firms, NEW h \in Households, <<"layoff", f, h>> \in events'
                 PROVE  before[h] = f /\ employer'[h] # f
      OBVIOUS
    <3>1. employer[h] = f /\ outcome[h] # f /\ (outcome[h] = None => h \in LaidOff(plan))
      BY <1>1, <1>2, <1>5 DEF Matched
    <3>2. employer'[h] = outcome[h]
      BY <1>3, <3>1
    <3> QED
      BY <1>2, <3>1, <3>2
  <2>2. \A f \in Firms : \A h \in ToSet(hired[f]) :
          employer'[h] = f /\ before[h] # f /\ h \notin Doctors /\ f \notin Healthcare
    <3> SUFFICES ASSUME NEW f \in Firms, NEW h \in ToSet(hired[f])
                 PROVE  employer'[h] = f /\ before[h] # f /\ h \notin Doctors /\ f \notin Healthcare
      OBVIOUS
    <3>1. h \in Households /\ outcome[h] = f /\ employer[h] # f /\ h \notin Doctors /\ f \in Market
      BY <1>1, <1>2 DEF Matched
    <3>2. employer'[h] = f
      BY <1>3, <3>1, Constants
    <3> QED
      BY <1>2, <3>1, <3>2 DEF Market
  <2>3. \A h \in Households : employer'[h] # None =>
          employer'[h] \in live /\ (employer'[h] = before[h] \/ h \in ToSet(hired[employer'[h]]))
    <3> SUFFICES ASSUME NEW h \in Households, employer'[h] # None
                 PROVE  employer'[h] \in live /\ (employer'[h] = before[h] \/ h \in ToSet(hired[employer'[h]]))
      OBVIOUS
    <3>1. CASE employer'[h] = employer[h]
      BY <1>1, <1>2, <3>1 DEF Linked
    <3>2. CASE employer'[h] # employer[h]
      <4>1. employer'[h] = outcome[h] /\ outcome[h] # None
        BY <1>3, <3>2
      <4>2. h \in ToSet(hired[outcome[h]]) /\ outcome[h] \in Firms
        BY <1>1, <1>2, <3>2, <4>1 DEF Matched, TypeOK
      <4>3. outcome[h] \in Market
        BY <1>1, <1>2, <4>2 DEF Matched
      <4> QED
        BY <4>1, <4>2, <4>3 DEF Market
    <3> QED
      BY <3>1, <3>2
  <2>4. hired' = hired /\ before' = before /\ live' = live
    BY <1>1
  <2>5. Announced(Firms)'
    BY <1>5, <2>1, <2>4 DEF Announced
  <2> QED
    BY <2>2, <2>3, <2>4, <2>5 DEF Moved
<1> QED
  BY <1>1, <1>6, <1>7, <1>8, <1>9 DEF LInv, Morning, Matched, Places, Rebuilt, EventsAreMoves

\* The firm with the fewest of the staff placed so far is a hospital.
LEMMA FewestIsHospital ==
  ASSUME Healthcare # {}
  PROVE  \A link, h : FewestStaff(link, h) \in Healthcare
<1> SUFFICES ASSUME NEW link, NEW h PROVE FewestStaff(link, h) \in Healthcare
  OBVIOUS
<1> DEFINE Staff(f) == Cardinality({g \in Doctors : g < h /\ link[g] = f})
           Sizes == {Staff(f) : f \in Healthcare}
           least == Min(Sizes)
           Smallest == {f \in Healthcare : Staff(f) = least}
           first == Min(Smallest)
<1>1. \A f \in Healthcare : Staff(f) \in Nat /\ f \in Nat
  <2>1. IsFiniteSet(Doctors)
    BY Constants, FS_Subset
  <2>2. \A f : IsFiniteSet({g \in Doctors : g < h /\ link[g] = f})
    BY <2>1, FS_Subset
  <2>3. \A f : Staff(f) \in Nat
    BY <2>2, FS_CardinalityType
  <2>4. \A f \in Healthcare : f \in Nat
    BY Constants
  <2> HIDE DEF Staff
  <2> QED
    BY <2>3, <2>4
<1> HIDE DEF Staff
<1>2. least \in Sizes /\ \A m \in Sizes : least <= m
  <2>1. Sizes \in SUBSET Nat /\ Sizes # {}
    BY <1>1
  <2>2. \E x \in Sizes : \A y \in Sizes : x <= y
    <3> HIDE DEF Sizes
    <3> QED
      BY <2>1, SmallestOfNats
  <2> HIDE DEF Sizes
  <2> QED
    BY <2>2 DEF Min
<1>3. first \in Smallest /\ \A f \in Smallest : first <= f
  <2>1. Smallest \in SUBSET Nat /\ Smallest # {}
    BY <1>1, <1>2
  <2>2. \E x \in Smallest : \A y \in Smallest : x <= y
    <3> HIDE DEF Smallest
    <3> QED
      BY <2>1, SmallestOfNats
  <2> HIDE DEF Smallest
  <2> QED
    BY <2>2 DEF Min
<1>4. /\ first \in Healthcare
      /\ \A g \in Healthcare : Staff(first) < Staff(g) \/ (Staff(first) = Staff(g) /\ first <= g)
  <2> SUFFICES ASSUME NEW g \in Healthcare
               PROVE  /\ first \in Healthcare
                      /\ Staff(first) < Staff(g) \/ (Staff(first) = Staff(g) /\ first <= g)
    BY <1>3
  <2>1. first \in Healthcare /\ Staff(first) = least
    BY <1>3
  <2>2. least <= Staff(g) /\ Staff(g) \in Nat /\ least \in Nat
    BY <1>1, <1>2
  <2>3. CASE Staff(g) = least
    BY <1>3, <2>1, <2>3
  <2>4. CASE Staff(g) # least
    <3> HIDE DEF first, least
    <3> QED
      BY <2>1, <2>2, <2>4
  <2> QED
    BY <2>3, <2>4
<1>5. \E f \in Healthcare : \A g \in Healthcare :
        \/ Cardinality({x \in Doctors : x < h /\ link[x] = f}) < Cardinality({x \in Doctors : x < h /\ link[x] = g})
        \/ /\ Cardinality({x \in Doctors : x < h /\ link[x] = f}) = Cardinality({x \in Doctors : x < h /\ link[x] = g})
           /\ f <= g
  <2> HIDE DEF first
  <2> QED
    BY <1>4 DEF Staff
<1> QED
  BY <1>5 DEF FewestStaff

\* Where the rebuilding of the rosters puts a household.
LEMMA Placed ==
  \A link : \A h \in Households :
    /\ h \in Doctors => Place(link, h) \in Healthcare
    /\ h \notin Doctors => Place(link, h) \notin Healthcare /\ Place(link, h) \in {employer[h], None}
    /\ h \notin Doctors /\ employer[h] \notin Healthcare => Place(link, h) = employer[h]
<1> SUFFICES ASSUME NEW link, NEW h \in Households
             PROVE  /\ h \in Doctors => Place(link, h) \in Healthcare
                    /\ h \notin Doctors => Place(link, h) \notin Healthcare /\ Place(link, h) \in {employer[h], None}
                    /\ h \notin Doctors /\ employer[h] \notin Healthcare => Place(link, h) = employer[h]
  OBVIOUS
<1>1. Healthcare # {} => FewestStaff(link, h) \in Healthcare
  BY FewestIsHospital
<1>2. (h \in Doctors => Healthcare # {}) /\ None \notin Healthcare
  BY Constants
<1>3. CASE h \in Doctors
  BY <1>1, <1>2, <1>3 DEF Place
<1>4. CASE h \notin Doctors
  BY <1>2, <1>4 DEF Place
<1> QED
  BY <1>3, <1>4

LEMMA SyncKeeps ==
  ASSUME LInv, Sync
  PROVE  LInv'
<1>1. /\ pc = "sync" /\ pc' = "payroll"
      /\ UNCHANGED <<live, plan, order, turn, index, vacancies, results, events, before>>
  BY DEF Sync
<1>2. PICK link \in [Households -> Firms \cup {None}] :
        /\ \A h \in Households : link[h] = Place(link, h)
        /\ employer' = link
        /\ roster' = [f \in Firms |-> {h \in Households : link[h] = f}]
  BY DEF Sync
<1>3. /\ TypeOK /\ Plans /\ Distinct /\ Baseline \subseteq live
      /\ Announced(Firms)
      /\ \A f \in Firms : \A h \in ToSet(hired[f]) :
           employer[h] = f /\ before[h] # f /\ h \notin Doctors /\ f \notin Healthcare
      /\ \A h \in Households : employer[h] # None =>
           employer[h] \in live /\ (employer[h] = before[h] \/ h \in ToSet(hired[employer[h]]))
      /\ \A f \in Firms : ToSet(hired[f]) \subseteq Households
  <2>1. TypeOK /\ Plans /\ Distinct /\ Baseline \subseteq live
    BY DEF LInv, Linked
  <2>2. \A f \in Firms : ToSet(hired[f]) \subseteq Households
    BY <2>1, Elements DEF TypeOK
  <2> QED
    BY <1>1, <2>1, <2>2 DEF LInv, Moved
<1>4. \A h \in Households :
        /\ h \in Doctors => link[h] \in Healthcare
        /\ h \notin Doctors => link[h] \notin Healthcare /\ link[h] \in {employer[h], None}
        /\ h \notin Doctors /\ employer[h] \notin Healthcare => link[h] = employer[h]
  BY <1>2, Placed
<1>5. TypeOK'
  BY <1>1, <1>2, <1>3 DEF TypeOK, results
<1>6. Plans' /\ Distinct'
  BY <1>1, <1>3 DEF Plans, Distinct, results
<1>7. Linked'
  <2>1. \A h \in Households : link[h] # None => link[h] \in live
    BY <1>3, <1>4, Constants
  <2>2. \A f \in Firms : roster'[f] = {h \in Households : link[h] = f}
    BY <1>2
  <2>3. \A h \in Households : h \in Doctors <=> link[h] \in Healthcare
    BY <1>4
  <2> QED
    BY <1>1, <1>2, <1>3, <2>1, <2>2, <2>3 DEF Linked
<1>8. Rebuilt'
  <2>1. ASSUME NEW f \in Firms \ Healthcare, NEW h \in Households
        PROVE  /\ h \in ToSet(hired[f]) <=> link[h] = f /\ before[h] # f
               /\ <<"hire", f, h>> \in events <=> h \in ToSet(hired[f])
               /\ <<"layoff", f, h>> \in events => before[h] = f /\ link[h] # f
    <3>1. ASSUME h \in ToSet(hired[f]) PROVE link[h] = f /\ before[h] # f
      BY <1>3, <1>4, <3>1
    <3>2. link[h] = f => employer[h] = f
      BY <1>4, Constants
    <3>3. ASSUME link[h] = f, before[h] # f PROVE h \in ToSet(hired[f])
      BY <1>3, <3>2, <3>3, Constants
    <3>4. <<"hire", f, h>> \in events <=> h \in ToSet(hired[f])
      BY <1>3 DEF Announced
    <3>5. <<"layoff", f, h>> \in events => before[h] = f /\ link[h] # f
      BY <1>3, <3>2 DEF Announced
    <3> QED
      BY <3>1, <3>3, <3>4, <3>5
  <2>2. hired' = hired /\ before' = before /\ events' = events /\ employer' = link
    BY <1>1, <1>2 DEF results
  <2> QED
    BY <2>1, <2>2 DEF Rebuilt, Announced
<1> QED
  BY <1>1, <1>5, <1>6, <1>7, <1>8 DEF LInv, Morning, Matched, Places, Moved, EventsAreMoves

-----------------------------------------------------------------------------
(* The payroll *)

\* The order of retention: the hires of the week, the last first, then the incumbents.
LEMMA RetentionIs ==
  ASSUME TypeOK, NEW f \in Firms
  PROVE  /\ Retention(f) \in Seq(Households)
         /\ Len(Retention(f)) \in Nat /\ Len(hired[f]) \in Nat /\ Len(hired[f]) <= Len(Retention(f))
         /\ \A i \in 1 .. Len(Retention(f)) :
              IF i <= Len(hired[f]) THEN Retention(f)[i] = hired[f][Len(hired[f]) - i + 1]
              ELSE Retention(f)[i] \in roster[f] \ ToSet(hired[f])
<1> DEFINE old == roster[f] \ ToSet(hired[f])
           s == Reverse(hired[f])
           t == Rising(old)
           n == Len(hired[f])
<1>1. hired[f] \in Seq(Households) /\ n \in Nat /\ roster[f] \subseteq Households
  BY DEF TypeOK
<1>2. old \in SUBSET Nat /\ IsFiniteSet(old)
  <2>1. old \in SUBSET Households
    BY <1>1
  <2>2. old \in SUBSET Nat
    BY <2>1, Constants
  <2>3. IsFiniteSet(old)
    BY <2>1, Constants, FS_Subset
  <2> QED
    BY <2>2, <2>3
<1>3. t \in SetToSeqs(old)
  <2> HIDE DEF old
  <2> QED
    BY <1>2, RisingIsOrder
<1>4. PICK m \in Nat : m = Cardinality(old)
  BY <1>2, FS_CardinalityType
<1>5. t \in [1 .. m -> old]
  <2> HIDE DEF old, t
  <2> QED
    BY <1>3, <1>4 DEF SetToSeqs
<1>6. t \in Seq(Households) /\ Len(t) = m /\ \A i \in 1 .. m : t[i] \in old
  <2>1. old \subseteq Households
    BY <1>1
  <2> HIDE DEF t, old
  <2>2. t \in [1 .. m -> Households]
    BY <1>5, <2>1
  <2> QED
    BY <1>4, <1>5, <2>2
<1>7. s \in Seq(Households) /\ Len(s) = n /\ \A i \in 1 .. n : s[i] = hired[f][n - i + 1]
  <2>1. \A i \in 1 .. n : n - i + 1 \in 1 .. n
    BY <1>1
  <2>2. s = [i \in 1 .. n |-> hired[f][(n - i) + 1]]
    BY DEF Reverse
  <2>3. \A i \in 1 .. n : hired[f][(n - i) + 1] \in Households
    BY <1>1, <2>1
  <2>4. s \in [1 .. n -> Households]
    BY <2>2, <2>3
  <2> HIDE DEF s
  <2>5. s \in Seq(Households) /\ Len(s) = n
    BY <1>1, <2>4
  <2> QED
    BY <2>2, <2>5
<1>8. Retention(f) = s \o t
  BY DEF Retention
<1> HIDE DEF s, t
<1>9. /\ s \o t \in Seq(Households) /\ Len(s \o t) = n + m
      /\ \A i \in 1 .. n + m : (s \o t)[i] = IF i <= n THEN s[i] ELSE t[i - n]
  <2>1. s \in Seq(Households) /\ t \in Seq(Households)
    BY <1>6, <1>7
  <2>2. /\ s \o t \in Seq(Households)
        /\ Len(s \o t) = Len(s) + Len(t)
        /\ \A i \in 1 .. Len(s) + Len(t) : (s \o t)[i] = IF i <= Len(s) THEN s[i] ELSE t[i - Len(s)]
    BY <2>1, ConcatProperties
  <2>3. Len(s) = n /\ Len(t) = m
    BY <1>6, <1>7
  <2> HIDE DEF n
  <2> QED
    BY <2>2, <2>3
<1>10. ASSUME NEW i \in 1 .. n + m
       PROVE  IF i <= n THEN (s \o t)[i] = hired[f][n - i + 1] ELSE (s \o t)[i] \in old
  <2>1. CASE i <= n
    <3>1. i \in 1 .. n
      BY <1>1, <1>4, <2>1
    <3> QED
      BY <1>7, <1>9, <2>1, <3>1
  <2>2. CASE ~ (i <= n)
    <3>1. i - n \in 1 .. m
      BY <1>1, <1>4, <2>2
    <3> QED
      BY <1>6, <1>9, <2>2, <3>1
  <2> QED
    BY <2>1, <2>2
<1>11. n <= n + m /\ n + m \in Nat
  BY <1>1, <1>4
<1> HIDE DEF n
<1>12. PICK r, k : r = s \o t /\ k = n + m
  OBVIOUS
<1>13. /\ r \in Seq(Households) /\ Len(r) = k /\ n <= k /\ k \in Nat
       /\ \A i \in 1 .. k : IF i <= n THEN r[i] = hired[f][n - i + 1] ELSE r[i] \in old
  BY <1>9, <1>10, <1>11, <1>12
<1>14. Retention(f) = r /\ n \in Nat
  BY <1>1, <1>8, <1>12
<1> QED
  BY <1>13, <1>14 DEF n

\* What is cut is on the roster, and an incumbent is cut only when all hires are.
LEMMA CutIs ==
  ASSUME TypeOK, NEW f \in Firms, NEW kept \in Nat, ToSet(hired[f]) \subseteq roster[f]
  PROVE  /\ CutAt(f, kept) \subseteq roster[f]
         /\ ~ (CutAt(f, kept) \subseteq ToSet(hired[f])) => ToSet(hired[f]) \subseteq CutAt(f, kept)
<1> DEFINE r == Retention(f)
           n == Len(hired[f])
           m == Len(r) - kept
           cut == SubSeq(r, 1, m)
<1>1. /\ r \in Seq(Households) /\ Len(r) \in Nat /\ n \in Nat /\ n <= Len(r)
      /\ \A i \in 1 .. Len(r) :
           IF i <= n THEN r[i] = hired[f][n - i + 1] ELSE r[i] \in roster[f] \ ToSet(hired[f])
  BY RetentionIs
<1>2. hired[f] \in Seq(Households)
  BY DEF TypeOK
<1>3. \A h : h \in ToSet(hired[f]) <=> \E i \in 1 .. n : hired[f][i] = h
  BY <1>2, Elements
<1>4. CutAt(f, kept) = ToSet(cut)
  BY DEF CutAt
<1> HIDE DEF r
<1>5. m \in Int /\ m <= Len(r)
  BY <1>1
<1>6. /\ cut \in Seq(Households) /\ Len(cut) = (IF 1 <= m THEN m ELSE 0)
      /\ \A i \in 1 .. m : cut[i] = r[i]
  <2>1. \A i \in 1 .. m : i \in 1 .. Len(r)
    BY <1>1, <1>5
  <2>2. \A i \in 1 .. m : r[i] \in Households
    BY <1>1, <2>1
  <2> HIDE DEF m
  <2>3. 1 \in Int /\ m \in Int
    BY <1>5
  <2>4. /\ SubSeq(r, 1, m) \in Seq(Households)
        /\ Len(SubSeq(r, 1, m)) = IF 1 <= m THEN m - 1 + 1 ELSE 0
        /\ \A i \in 1 .. m - 1 + 1 : SubSeq(r, 1, m)[i] = r[1 + i - 1]
    BY <2>2, <2>3, SubSeqProperties
  <2>5. m - 1 + 1 = m /\ \A i \in 1 .. m : 1 + i - 1 = i
    BY <2>3
  <2> QED
    BY <2>4, <2>5
<1>7. \A h : h \in ToSet(cut) <=> \E i \in 1 .. m : r[i] = h
  <2>1. \A h : h \in ToSet(cut) <=> \E i \in 1 .. Len(cut) : cut[i] = h
    BY <1>6, Elements
  <2>2. 1 .. Len(cut) = 1 .. m
    <3> HIDE DEF cut, m
    <3> QED
      BY <1>5, <1>6
  <2> HIDE DEF cut, m
  <2> QED
    BY <1>6, <2>1, <2>2
<1> HIDE DEF cut
<1>8. \A i \in 1 .. m : i \in 1 .. Len(r)
  BY <1>1, <1>5
<1>9. \A i \in 1 .. m : i <= n => r[i] \in ToSet(hired[f])
  <2> SUFFICES ASSUME NEW i \in 1 .. m, i <= n PROVE r[i] \in ToSet(hired[f])
    OBVIOUS
  <2>1. r[i] = hired[f][n - i + 1]
    BY <1>1, <1>8
  <2>2. n - i + 1 \in 1 .. n
    <3> HIDE DEF m, n
    <3> QED
      BY <1>1, <1>5
  <2> QED
    BY <1>3, <2>1, <2>2
<1>10. ToSet(cut) \subseteq roster[f]
  <2> SUFFICES ASSUME NEW h \in ToSet(cut) PROVE h \in roster[f]
    OBVIOUS
  <2>1. PICK i \in 1 .. m : r[i] = h
    BY <1>7
  <2>2. CASE i <= n
    BY <1>9, <2>1, <2>2
  <2>3. CASE ~ (i <= n)
    BY <1>1, <1>8, <2>1, <2>3
  <2> QED
    BY <2>2, <2>3
<1>11. ASSUME ~ (ToSet(cut) \subseteq ToSet(hired[f])), NEW h \in ToSet(hired[f])
       PROVE  h \in ToSet(cut)
  <2>1. PICK i \in 1 .. m : r[i] \notin ToSet(hired[f])
    BY <1>7, <1>11
  <2>2. ~ (i <= n)
    BY <1>9, <2>1
  <2>3. PICK j \in 1 .. n : hired[f][j] = h
    BY <1>3
  <2>4. /\ n - j + 1 \in 1 .. m /\ n - j + 1 \in 1 .. Len(r) /\ n - j + 1 <= n
        /\ n - (n - j + 1) + 1 = j
    <3> HIDE DEF n, m
    <3> QED
      BY <1>1, <1>5, <2>2
  <2>5. r[n - j + 1] = hired[f][n - (n - j + 1) + 1]
    BY <1>1, <2>4
  <2>6. r[n - j + 1] = h
    BY <2>3, <2>4, <2>5
  <2> QED
    BY <1>7, <2>4, <2>6
<1> QED
  BY <1>4, <1>10, <1>11

\* What payroll finds: this week's hires are on the rosters.
LEMMA AtPayroll ==
  ASSUME LInv, pc = "payroll"
  PROVE  /\ TypeOK /\ Plans /\ Linked /\ Distinct /\ Rebuilt
         /\ \A f \in Firms : roster[f] = {h \in Households : employer[h] = f}
         /\ \A f \in Firms \ Healthcare : ToSet(hired[f]) \subseteq roster[f]
<1>1. TypeOK /\ Plans /\ Linked /\ Distinct /\ Rebuilt
  BY DEF LInv
<1>2. \A f \in Firms : roster[f] = {h \in Households : employer[h] = f}
  BY <1>1 DEF Linked
<1>3. ASSUME NEW f \in Firms \ Healthcare PROVE ToSet(hired[f]) \subseteq roster[f]
  <2>1. hired[f] \in Seq(Households)
    BY <1>1 DEF TypeOK
  <2>2. ToSet(hired[f]) \subseteq Households
    BY <2>1, Elements
  <2>3. \A h \in ToSet(hired[f]) : employer[h] = f
    BY <1>1, <2>2 DEF Rebuilt
  <2> QED
    BY <1>2, <2>2, <2>3
<1> QED
  BY <1>1, <1>2, <1>3

LEMMA FundPayrollKeeps ==
  ASSUME LInv, FundPayroll
  PROVE  LInv'
<1>1. /\ pc = "payroll" /\ pc' = "done"
      /\ UNCHANGED <<live, plan, order, turn, index, vacancies, results, before>>
  BY DEF FundPayroll
<1>2. PICK kept \in [PayrollFirms -> 0 .. Cardinality(Households)] :
        LET cut == [f \in Firms |-> IF f \in PayrollFirms THEN CutAt(f, kept[f]) ELSE {}]
        IN /\ \A f \in PayrollFirms : kept[f] <= Cardinality(roster[f])
           /\ roster' = [f \in Firms |-> roster[f] \ cut[f]]
           /\ employer' = [h \in Households |->
                             IF \E f \in Firms : h \in cut[f] THEN None ELSE employer[h]]
           /\ events' = EventsAfter(cut)
  BY DEF FundPayroll
<1> DEFINE cut == [f \in Firms |-> IF f \in PayrollFirms THEN CutAt(f, kept[f]) ELSE {}]
<1>3. /\ TypeOK /\ Plans /\ Linked /\ Distinct /\ Rebuilt
      /\ \A f \in Firms : roster[f] = {h \in Households : employer[h] = f}
      /\ \A f \in Firms \ Healthcare : ToSet(hired[f]) \subseteq roster[f]
  BY <1>1, AtPayroll
<1>4. \A f \in Firms : cut[f] \subseteq roster[f]
  <2> SUFFICES ASSUME NEW f \in PayrollFirms PROVE CutAt(f, kept[f]) \subseteq roster[f]
    OBVIOUS
  <2>1. f \in Firms \ Healthcare /\ kept[f] \in Nat
    <3>1. f \in Firms \ Healthcare
      BY PayrollOutsideHealthcare
    <3>2. kept[f] \in 0 .. Cardinality(Households)
      BY <1>2
    <3> QED
      BY <3>1, <3>2
  <2> QED
    BY <1>3, <2>1, CutIs
<1>5. /\ roster' = [f \in Firms |-> roster[f] \ cut[f]]
      /\ employer' = [h \in Households |-> IF \E f \in Firms : h \in cut[f] THEN None ELSE employer[h]]
      /\ events' = EventsAfter(cut)
  BY <1>2
<1>6. cut = [f \in Firms |-> cut[f]]
  OBVIOUS
<1>7. \A f \in Healthcare : cut[f] = {}
  BY PayrollOutsideHealthcare, Constants
<1> HIDE DEF cut
<1>8. \A h \in Households : \A f \in Firms : employer'[h] = f <=> employer[h] = f /\ h \notin cut[f]
  BY <1>3, <1>4, <1>5, Constants
<1>9. TypeOK'
  <2>1. roster' \in [Firms -> SUBSET Households]
    BY <1>3, <1>5 DEF TypeOK
  <2>2. employer' \in [Households -> Firms \cup {None}]
    BY <1>3, <1>5 DEF TypeOK
  <2>3. events' \subseteq {"hire", "layoff"} \X Firms \X Households
    BY <1>3, <1>5 DEF TypeOK, EventsAfter, Events
  <2> QED
    BY <1>1, <1>3, <2>1, <2>2, <2>3 DEF TypeOK, results
<1>10. Plans' /\ Distinct'
  BY <1>1, <1>3 DEF Plans, Distinct, results
<1>11. Linked'
  <2>1. \A f \in Firms : roster'[f] = {h \in Households : employer'[h] = f}
    BY <1>3, <1>5, <1>8
  <2>2. \A h \in Households : employer'[h] # None => employer'[h] \in live
    BY <1>1, <1>3, <1>5 DEF Linked
  <2>3. \A h \in Households : h \in Doctors <=> employer'[h] \in Healthcare
    <3> SUFFICES ASSUME NEW h \in Households PROVE h \in Doctors <=> employer'[h] \in Healthcare
      OBVIOUS
    <3>1. Healthcare \subseteq Firms
      BY Constants
    <3>2. h \in Doctors <=> employer[h] \in Healthcare
      BY <1>1, <1>3 DEF Linked
    <3>3. \A f \in Healthcare : employer'[h] = f <=> employer[h] = f
      BY <1>7, <1>8, <3>1
    <3> QED
      BY <3>2, <3>3
  <2> QED
    BY <1>1, <1>3, <2>1, <2>2, <2>3 DEF Linked
<1>12. EventsAreMoves'
  <2>1. \A f \in Firms, h \in Households :
          /\ <<"hire", f, h>> \in events' <=> <<"hire", f, h>> \in events /\ h \notin cut[f]
          /\ <<"layoff", f, h>> \in events'
               <=> <<"layoff", f, h>> \in events \/ h \in cut[f] \ ToSet(hired[f])
    <3> DEFINE who == [f \in Firms |-> cut[f] \ ToSet(hired[f])]
               left == {e \in events : ~ (e[1] = "hire" /\ e[3] \in cut[e[2]])}
    <3> SUFFICES ASSUME NEW f \in Firms, NEW h \in Households
                 PROVE  /\ <<"hire", f, h>> \in events' <=> <<"hire", f, h>> \in events /\ h \notin cut[f]
                        /\ <<"layoff", f, h>> \in events'
                             <=> <<"layoff", f, h>> \in events \/ h \in cut[f] \ ToSet(hired[f])
      OBVIOUS
    <3>1. who[f] = cut[f] \ ToSet(hired[f])
      OBVIOUS
    <3>2. events' = left \cup Events("layoff", who)
      BY <1>5 DEF EventsAfter
    <3>3. /\ <<"hire", f, h>> \in left <=> <<"hire", f, h>> \in events /\ h \notin cut[f]
          /\ <<"layoff", f, h>> \in left <=> <<"layoff", f, h>> \in events
      <4>1. \A k : <<k, f, h>>[1] = k /\ <<k, f, h>>[2] = f /\ <<k, f, h>>[3] = h
        OBVIOUS
      <4>2. "hire" # "layoff"
        OBVIOUS
      <4> QED
        BY <4>1, <4>2
    <3> HIDE DEF who, left
    <3>4. <<"layoff", f, h>> \in Events("layoff", who) <=> h \in who[f]
      BY EventsAre
    <3>5. ~ (<<"hire", f, h>> \in Events("layoff", who))
      <4>1. "hire" # "layoff"
        OBVIOUS
      <4> QED
        BY <4>1, EventsAre
    <3> QED
      BY <3>1, <3>2, <3>3, <3>4, <3>5
  <2>2. before' = before
    BY <1>1
  <2>3. ASSUME NEW f \in Firms \ Healthcare, NEW h \in Households
        PROVE  /\ <<"hire", f, h>> \in events' <=> employer'[h] = f /\ before[h] # f
               /\ <<"layoff", f, h>> \in events' => before[h] = f /\ employer'[h] # f
    <3>1. /\ <<"hire", f, h>> \in events <=> h \in ToSet(hired[f])
          /\ <<"layoff", f, h>> \in events => before[h] = f /\ employer[h] # f
          /\ h \in ToSet(hired[f]) <=> employer[h] = f /\ before[h] # f
      BY <1>1, <1>3 DEF Rebuilt, Announced
    <3>2. h \in cut[f] => employer[h] = f
      BY <1>3, <1>4
    <3>3. employer'[h] = f <=> employer[h] = f /\ h \notin cut[f]
      BY <1>8
    <3> QED
      BY <2>1, <3>1, <3>2, <3>3
  <2> QED
    BY <2>2, <2>3 DEF EventsAreMoves
<1> QED
  BY <1>1, <1>9, <1>10, <1>11, <1>12 DEF LInv, Morning, Matched, Places, Moved, Rebuilt

-----------------------------------------------------------------------------
(* The rest of the week *)

LEMMA RestKeeps ==
  ASSUME LInv, Rest
  PROVE  LInv'
<1>1. /\ pc = "done" /\ pc' = "plan" /\ plan' = NoPlan
      /\ hired' = [f \in Firms |-> <<>>] /\ events' = {} /\ before' = employer'
      /\ UNCHANGED <<order, turn, index, vacancies, assigned, outcome, leaving>>
  BY DEF Rest
<1>2. PICK gone \in SUBSET (live \ Baseline) : \E new \in Entrants(gone) :
        live' = (live \ gone) \cup new /\ Exits(gone)
  BY DEF Rest
<1>3. PICK new \in Entrants(gone) : live' = (live \ gone) \cup new
  BY <1>2
<1>4. TypeOK /\ Linked
  BY DEF LInv
<1>5. /\ \A f \in Firms : roster[f] = {h \in Households : employer[h] = f}
      /\ \A h \in Households : employer[h] # None => employer[h] \in live
      /\ \A h \in Households : h \in Doctors <=> employer[h] \in Healthcare
      /\ Baseline \subseteq live /\ live \subseteq Firms
      /\ employer \in [Households -> Firms \cup {None}]
  BY <1>1, <1>4 DEF Linked, TypeOK
<1>6. /\ employer' = [h \in Households |-> IF \E f \in gone : h \in roster[f] THEN None ELSE employer[h]]
      /\ roster' = [f \in Firms |-> IF f \in gone THEN {} ELSE roster[f]]
  BY <1>2 DEF Exits
<1>7. gone \subseteq Firms /\ gone \cap Baseline = {} /\ new \subseteq Firms
  BY <1>3, <1>5 DEF Entrants
<1>8. \A h \in Households : employer'[h] = IF employer[h] \in gone THEN None ELSE employer[h]
  <2> SUFFICES ASSUME NEW h \in Households
               PROVE  employer'[h] = IF employer[h] \in gone THEN None ELSE employer[h]
    OBVIOUS
  <2>1. (\E f \in gone : h \in roster[f]) <=> employer[h] \in gone
    BY <1>5, <1>7
  <2> QED
    BY <1>6, <2>1
<1>9. Linked'
  <2>1. Baseline \subseteq live'
    BY <1>3, <1>5, <1>7
  <2>2. ASSUME NEW f \in Firms PROVE roster'[f] = {h \in Households : employer'[h] = f}
    <3>1. roster'[f] = IF f \in gone THEN {} ELSE roster[f]
      BY <1>6
    <3>2. \A h \in Households : employer'[h] = f <=> f \notin gone /\ employer[h] = f
      BY <1>8, Constants
    <3>3. roster[f] = {h \in Households : employer[h] = f}
      BY <1>5
    <3> QED
      BY <3>1, <3>2, <3>3
  <2>3. \A h \in Households : employer'[h] # None => employer'[h] \in live'
    BY <1>3, <1>5, <1>8
  <2>4. \A h \in Households : h \in Doctors <=> employer'[h] \in Healthcare
    BY <1>5, <1>7, <1>8, Constants
  <2> QED
    BY <2>1, <2>2, <2>3, <2>4 DEF Linked
<1>10. \A f \in Firms : hired'[f] = <<>> /\ Len(hired'[f]) = 0 /\ hired'[f] \in Seq(Households)
  BY <1>1
<1>11. TypeOK'
  <2>1. employer' \in [Households -> Firms \cup {None}]
    BY <1>5, <1>6
  <2>2. roster' \in [Firms -> SUBSET Households]
    BY <1>4, <1>6 DEF TypeOK
  <2>3. hired' \in [Firms -> Seq(Households)]
    BY <1>1
  <2>4. live' \subseteq Firms
    BY <1>3, <1>5, <1>7
  <2> QED
    BY <1>1, <1>4, <2>1, <2>2, <2>3, <2>4 DEF TypeOK
<1>12. Plans'
  BY <1>1, NoPlanIsPlan DEF Plans
<1>13. Distinct'
  BY <1>10 DEF Distinct
<1> QED
  BY <1>1, <1>9, <1>11, <1>12, <1>13 DEF LInv, Morning, Matched, Places, Moved, Rebuilt, EventsAreMoves

LEMMA StutterKeeps ==
  ASSUME LInv, UNCHANGED vars
  PROVE  LInv'
<1> USE DEF vars, index, results
<1>1. /\ TypeOK /\ Plans /\ Linked /\ Morning /\ Distinct /\ Matched /\ Places /\ Moved /\ Rebuilt
      /\ EventsAreMoves
  BY DEF LInv
<1>2. TypeOK'
  BY <1>1 DEF TypeOK
<1>3. Plans' /\ Linked' /\ Morning'
  BY <1>1 DEF Plans, Linked, Morning, Employed, Market
<1>4. Distinct' /\ Matched'
  BY <1>1 DEF Distinct, Matched, Market, LaidOff
<1>5. Places'
  <2>1. /\ HiringFirms(plan)' = HiringFirms(plan) /\ Firm' = Firm
        /\ \A f : Openings(f)' = Openings(f)
    BY DEF HiringFirms, SwitcherFirms, Market, Openings, Firm
  <2>2. Openings(Firm)' = Openings(Firm) /\ \A k : Openings(order[k])' = Openings(order[k])
    BY <2>1
  <2> QED
    BY <1>1, <2>1, <2>2 DEF Places
<1>6. Moved' /\ Rebuilt' /\ EventsAreMoves'
  BY <1>1 DEF Moved, Rebuilt, EventsAreMoves, Announced
<1> QED
  BY <1>2, <1>3, <1>4, <1>5, <1>6 DEF LInv

LEMMA NextInv == LInv /\ [Next]_vars => LInv'
<1> SUFFICES ASSUME LInv, [Next]_vars PROVE LInv'
  OBVIOUS
<1>1. CASE Plan
  BY <1>1, PlanKeeps
<1>2. CASE OpenMarket
  BY <1>2, OpenMarketKeeps
<1>3. CASE HireSwitcher
  BY <1>3, HireSwitcherKeeps
<1>4. CASE PopHead
  BY <1>4, PopHeadKeeps
<1>5. CASE CloseFirm
  BY <1>5, CloseFirmKeeps
<1>6. CASE Apply
  BY <1>6, ApplyKeeps
<1>7. CASE Sync
  BY <1>7, SyncKeeps
<1>8. CASE FundPayroll
  BY <1>8, FundPayrollKeeps
<1>9. CASE Rest
  BY <1>9, RestKeeps
<1>10. CASE UNCHANGED vars
  BY <1>10, StutterKeeps
<1> QED
  BY <1>1, <1>2, <1>3, <1>4, <1>5, <1>6, <1>7, <1>8, <1>9, <1>10 DEF Next, Week

LEMMA SpecInv == Spec => []LInv
BY InitInv, NextInv, PTL DEF Spec

\* Once the rosters are rebuilt, and through payroll cuts, bankruptcies and reused ids, a firm's
\* roster and the households' links say the same, and doctors and hospitals go together.
THEOREM RostersStayInStep == Spec => []RostersAgree
<1>1. LInv => RostersAgree
  <2> SUFFICES ASSUME LInv PROVE RostersAgree
    OBVIOUS
  <2>1. TypeOK /\ Linked
    BY DEF LInv
  <2> QED
    BY <2>1 DEF RostersAgree, Linked, Employed
<1> QED
  BY <1>1, SpecInv, PTL

\* Nobody is hired twice in a week, by two firms or by one, and no firm hires more than its openings.
THEOREM NobodyIsHiredTwice == Spec => []OneJobPerWorker
<1>1. LInv => OneJobPerWorker
  <2> SUFFICES ASSUME LInv PROVE OneJobPerWorker
    OBVIOUS
  <2>1. TypeOK /\ Distinct /\ Matched /\ Places
    BY DEF LInv
  <2>2. ASSUME NEW f \in Firms, NEW i \in 1 .. Len(hired[f])
        PROVE  pc \in {"hire", "apply"} => outcome[hired[f][i]] = f
    <3>1. hired[f] \in Seq(Households)
      BY <2>1 DEF TypeOK
    <3>2. hired[f][i] \in ToSet(hired[f])
      BY <3>1, Elements
    <3> QED
      BY <2>1, <3>2 DEF Matched
  <2>3. \A f \in Firms : \A i, j \in 1 .. Len(hired[f]) : hired[f][i] = hired[f][j] => i = j
    BY <2>1 DEF Distinct
  <2>4. pc = "apply" => \A f \in Firms : hired[f] # <<>> => Len(hired[f]) <= Openings(f)
    BY <2>1 DEF Places
  <2> QED
    BY <2>2, <2>3, <2>4 DEF OneJobPerWorker
<1> QED
  BY <1>1, SpecInv, PTL

\* At the end of the week the hire events of the labor market are exactly the moves that lasted,
\* and a layoff event outside healthcare is of a job lost.
THEOREM EventsTellTheMoves == Spec => []EventsAreMoves
<1>1. LInv => EventsAreMoves
  BY DEF LInv
<1> QED
  BY <1>1, SpecInv, PTL

\* No incumbent loses the job to payroll while the firm keeps one of this week's hires.
THEOREM HiresGoFirst == Spec => IncumbentsBeforeHires
<1> DEFINE GoFirst == \A f \in PayrollFirms :
             pc = "payroll" /\ ~ (roster[f] \subseteq roster'[f] \cup ToSet(hired[f]))
               => roster'[f] \cap ToSet(hired[f]) = {}
<1>1. LInv /\ Next => GoFirst
  <2> SUFFICES ASSUME LInv, Next, pc = "payroll", NEW f \in PayrollFirms,
                      ~ (roster[f] \subseteq roster'[f] \cup ToSet(hired[f]))
               PROVE  roster'[f] \cap ToSet(hired[f]) = {}
    OBVIOUS
  <2>1. FundPayroll
    BY DEF Next, Week, Plan, OpenMarket, HireSwitcher, PopHead, CloseFirm, Apply, Sync, Rest
  <2>2. PICK kept \in [PayrollFirms -> 0 .. Cardinality(Households)] :
          LET cut == [g \in Firms |-> IF g \in PayrollFirms THEN CutAt(g, kept[g]) ELSE {}]
          IN roster' = [g \in Firms |-> roster[g] \ cut[g]]
    BY <2>1 DEF FundPayroll
  <2>3. f \in Firms \ Healthcare /\ kept[f] \in Nat
    <3>1. f \in Firms \ Healthcare
      BY PayrollOutsideHealthcare
    <3>2. kept[f] \in 0 .. Cardinality(Households)
      BY <2>2
    <3> QED
      BY <3>1, <3>2
  <2>4. roster'[f] = roster[f] \ CutAt(f, kept[f])
    BY <2>2, <2>3
  <2>5. TypeOK /\ ToSet(hired[f]) \subseteq roster[f]
    BY <2>3, AtPayroll
  <2>6. ~ (CutAt(f, kept[f]) \subseteq ToSet(hired[f])) => ToSet(hired[f]) \subseteq CutAt(f, kept[f])
    BY <2>3, <2>5, CutIs
  <2>7. ~ (CutAt(f, kept[f]) \subseteq ToSet(hired[f]))
    BY <2>4
  <2> QED
    BY <2>4, <2>6, <2>7
<1>2. LInv /\ [Next]_vars => [GoFirst]_vars
  BY <1>1
<1> QED
  BY <1>2, SpecInv, PTL DEF Spec, IncumbentsBeforeHires

-----------------------------------------------------------------------------
(* Recursion *)

\* A row of values, each made from the one before.
Follows(A, n, V, base, step) ==
  A \in [0 .. n -> V] /\ A[0] = base /\ \A k \in 1 .. n : A[k] = step[<<k, A[k - 1]>>]

\* Such a row exists when every step stays within V.
LEMMA RowExists ==
  ASSUME NEW n \in Nat, NEW V, NEW base \in V, NEW step, \A k \in 1 .. n, v \in V : step[<<k, v>>] \in V
  PROVE  \E A : Follows(A, n, V, base, step)
<1> DEFINE Upto(k) == \E A \in [0 .. n -> V] : A[0] = base /\ \A i \in 1 .. k : A[i] = step[<<i, A[i - 1]>>]
           P == {k \in 0 .. n : Upto(k)}
<1>1. 0 \in P
  <2>1. PICK A : A = [i \in 0 .. n |-> base]
    OBVIOUS
  <2>2. A \in [0 .. n -> V] /\ A[0] = base /\ 1 .. 0 = {}
    BY <2>1
  <2>3. Upto(0)
    BY <2>2
  <2> QED
    BY <2>3
<1>2. ASSUME NEW k \in 1 .. n, k - 1 \in P PROVE k \in P
  <2>1. PICK A \in [0 .. n -> V] : A[0] = base /\ \A i \in 1 .. (k - 1) : A[i] = step[<<i, A[i - 1]>>]
    BY <1>2
  <2>2. k \in 0 .. n /\ k - 1 \in 0 .. n /\ k # 0
    OBVIOUS
  <2> DEFINE v == step[<<k, A[k - 1]>>]
             B == [A EXCEPT ![k] = v]
  <2>3. v \in V
    BY <2>1, <2>2
  <2>4. B \in [0 .. n -> V] /\ B[k] = v /\ \A i \in 0 .. n : i # k => B[i] = A[i]
    <3> HIDE DEF v
    <3> QED
      BY <2>2, <2>3
  <2>5. ASSUME NEW i \in 1 .. k PROVE B[i] = step[<<i, B[i - 1]>>]
    <3>1. i \in 0 .. n /\ i - 1 \in 0 .. n /\ i - 1 # k
      OBVIOUS
    <3>2. CASE i = k
      <4>1. B[k - 1] = A[k - 1]
        BY <2>2, <2>4
      <4> QED
        BY <2>4, <3>2, <4>1
    <3>3. CASE i # k
      <4>1. i \in 1 .. (k - 1)
        BY <3>3
      <4>2. B[i] = A[i] /\ B[i - 1] = A[i - 1]
        BY <2>4, <3>1, <3>3
      <4> QED
        BY <2>1, <4>1, <4>2
    <3> QED
      BY <3>2, <3>3
  <2>6. B[0] = base
    BY <2>1, <2>2, <2>4
  <2> HIDE DEF B
  <2> QED
    BY <2>2, <2>4, <2>5, <2>6
<1>3. P \in SUBSET (0 .. n)
  OBVIOUS
<1>4. P = 0 .. n
  <2> HIDE DEF P
  <2> QED
    BY <1>1, <1>2, <1>3, UpTo
<1>5. n \in P
  <2> HIDE DEF P
  <2> QED
    BY <1>4
<1> QED
  BY <1>5 DEF Follows

-----------------------------------------------------------------------------
(* The order of candidates *)

\* Candidates are ranked strictly, and no two of them alike.
LEMMA BetterIsOrder ==
  /\ \A g \in Households : ~Better(g, g)
  /\ \A f, g, h \in Households : Better(f, g) /\ Better(g, h) => Better(f, h)
  /\ \A g, h \in Households : g = h \/ Better(g, h) \/ Better(h, g)
  /\ \A g, h \in Households : Better(g, h) => ~Better(h, g)
<1>1. \A h \in Households : Skill[h] \in Nat /\ h \in Nat
  BY LaborAssumption
<1> QED
  BY <1>1 DEF Better

\* Among finitely many candidates one is the worst.
LEMMA WorstExists ==
  ASSUME NEW S \in SUBSET Households, S # {}
  PROVE  \E w \in S : \A g \in S \ {w} : Better(g, w)
<1> DEFINE P == {T \in SUBSET Households : T = {} \/ \E w \in T : \A g \in T \ {w} : Better(g, w)}
<1>1. {} \in P
  OBVIOUS
<1>2. ASSUME NEW T \in P, NEW x \in Households \ T PROVE T \cup {x} \in P
  <2>1. CASE T = {}
    BY <2>1
  <2>2. CASE T # {}
    <3>1. PICK w \in T : \A g \in T \ {w} : Better(g, w)
      BY <2>2
    <3>2. w \in Households /\ T \in SUBSET Households
      OBVIOUS
    <3>3. CASE Better(x, w)
      <4>1. w \in T \cup {x} /\ \A g \in (T \cup {x}) \ {w} : Better(g, w)
        BY <3>1, <3>3
      <4> QED
        BY <3>2, <4>1
    <3>4. CASE ~Better(x, w)
      <4>1. Better(w, x)
        BY <3>2, <3>4, BetterIsOrder
      <4>2. \A g \in T : Better(g, x)
        BY <3>1, <3>2, <4>1, BetterIsOrder
      <4>3. x \in T \cup {x} /\ \A g \in (T \cup {x}) \ {x} : Better(g, x)
        BY <4>2
      <4> QED
        BY <3>2, <4>3
    <3> QED
      BY <3>3, <3>4
  <2> QED
    BY <2>1, <2>2
<1>3. P = SUBSET Households
  <2>1. P \in SUBSET (SUBSET Households) /\ IsFiniteSet(Households)
    BY Constants
  <2> HIDE DEF P
  <2> QED
    BY <1>1, <1>2, <2>1, FiniteInduction
<1>4. S \in P
  <2> HIDE DEF P
  <2> QED
    BY <1>3
<1> QED
  BY <1>4

\* s lists S, the best first.
Ranks(s, S) ==
  /\ s \in [1 .. Cardinality(S) -> S]
  /\ \A i, j \in 1 .. Cardinality(S) : i < j => Better(s[i], s[j])
  /\ \A h \in S : \E i \in 1 .. Cardinality(S) : s[i] = h

\* Job seekers can be listed by rank.
LEMMA RankingExists == ASSUME NEW S \in SUBSET Households PROVE \E s : Ranks(s, S)
<1> DEFINE P == {T \in SUBSET Households : \E s : Ranks(s, T)}
<1>1. ASSUME NEW T \in SUBSET Households, \A U \in SUBSET T : U # T => U \in P
      PROVE  T \in P
  <2>1. CASE T = {}
    <3>1. Cardinality(T) = 0 /\ 1 .. 0 = {}
      BY <2>1, FS_EmptySet
    <3>2. Ranks(<<>>, T)
      BY <2>1, <3>1 DEF Ranks
    <3> QED
      BY <3>2
  <2>2. CASE T # {}
    <3>1. PICK w \in T : \A g \in T \ {w} : Better(g, w)
      BY <2>2, WorstExists
    <3>2. IsFiniteSet(T)
      BY Constants, FS_Subset
    <3>3. PICK U : U = T \ {w}
      OBVIOUS
    <3>4. U \in SUBSET T /\ U # T /\ T = U \cup {w} /\ w \notin U
      BY <3>3
    <3>5. IsFiniteSet(U) /\ Cardinality(U) = Cardinality(T) - 1
      BY <3>2, <3>3, FS_RemoveElement
    <3>6. PICK n \in Nat : n = Cardinality(U) /\ Cardinality(T) = n + 1
      <4>1. Cardinality(U) \in Nat /\ Cardinality(T) \in Nat
        BY <3>2, <3>5, FS_CardinalityType
      <4> QED
        BY <3>5, <4>1
    <3>7. PICK s : Ranks(s, U)
      BY <1>1, <3>4
    <3>8. /\ s \in [1 .. n -> U] /\ \A i, j \in 1 .. n : i < j => Better(s[i], s[j])
          /\ \A h \in U : \E i \in 1 .. n : s[i] = h
      BY <3>6, <3>7 DEF Ranks
    <3>9. PICK t : t = [i \in 1 .. n + 1 |-> IF i = n + 1 THEN w ELSE s[i]]
      OBVIOUS
    <3>10. \A i \in 1 .. n + 1 : i = n + 1 \/ i \in 1 .. n
      OBVIOUS
    <3>11. t[n + 1] = w /\ n + 1 \in 1 .. n + 1 /\ \A i \in 1 .. n : i \in 1 .. n + 1 /\ i # n + 1 /\ t[i] = s[i]
      BY <3>9
    <3>12. t \in [1 .. n + 1 -> T]
      BY <3>4, <3>8, <3>9, <3>10
    <3>13. ASSUME NEW i \in 1 .. n + 1, NEW j \in 1 .. n + 1, i < j PROVE Better(t[i], t[j])
      <4>1. i \in 1 .. n /\ t[i] = s[i] /\ t[i] \in U
        BY <3>8, <3>10, <3>11, <3>13
      <4>2. CASE j = n + 1
        BY <3>1, <3>3, <3>11, <4>1, <4>2
      <4>3. CASE j \in 1 .. n
        BY <3>8, <3>11, <3>13, <4>1, <4>3
      <4> QED
        BY <3>10, <4>2, <4>3
    <3>14. ASSUME NEW h \in T PROVE \E i \in 1 .. n + 1 : t[i] = h
      BY <3>4, <3>8, <3>11
    <3>15. Ranks(t, T)
      BY <3>6, <3>12, <3>13, <3>14 DEF Ranks
    <3> QED
      BY <3>15
  <2> QED
    BY <2>1, <2>2
<1>2. P = SUBSET Households
  <2>1. P \in SUBSET (SUBSET Households) /\ IsFiniteSet(Households)
    BY Constants
  <2> HIDE DEF P
  <2> QED
    BY <1>1, <2>1, StrongInduction
<1>3. S \in P
  <2> HIDE DEF P
  <2> QED
    BY <1>2
<1> QED
  BY <1>3

\* A list without repetition, as long as the set, holds all of it.
LEMMA FullList ==
  ASSUME NEW S, IsFiniteSet(S), NEW s \in SetToSeqs(S)
  PROVE  /\ s \in [1 .. Cardinality(S) -> S] /\ Cardinality(S) \in Nat
         /\ Len(s) = Cardinality(S) /\ DOMAIN s = 1 .. Len(s) /\ s \in Seq(S) /\ ToSet(s) = S
         /\ \A i, j \in 1 .. Len(s) : i # j => s[i] # s[j]
         /\ \A h \in S : \E i \in 1 .. Len(s) : s[i] = h
<1>1. PICK n \in Nat : n = Cardinality(S)
  BY FS_CardinalityType
<1>2. s \in [1 .. n -> S] /\ \A i, j \in 1 .. n : i # j => s[i] # s[j]
  BY <1>1 DEF SetToSeqs
<1>3. s \in Injection(1 .. n, S)
  BY <1>2 DEF Injection, IsInjective
<1>4. Cardinality(1 .. n) = n
  BY FS_Interval
<1>5. s \in Surjection(1 .. n, S)
  BY <1>1, <1>3, <1>4, FS_Injection
<1>6. \A h \in S : \E i \in 1 .. n : s[i] = h
  BY <1>5 DEF Surjection
<1>7. Len(s) = n /\ DOMAIN s = 1 .. n /\ s \in Seq(S)
  BY <1>2
<1>8. ToSet(s) = S
  BY <1>2, <1>6, <1>7 DEF ToSet
<1> QED
  BY <1>1, <1>2, <1>6, <1>7, <1>8

\* The list that Ranked picks is one.
LEMMA RankedLaw ==
  ASSUME NEW S \in SUBSET Households
  PROVE  /\ IsFiniteSet(S) /\ Ranked(S) \in SetToSeqs(S)
         /\ \A i, j \in 1 .. Len(Ranked(S)) : i < j => Better(Ranked(S)[i], Ranked(S)[j])
<1>1. IsFiniteSet(S)
  BY Constants, FS_Subset
<1>2. PICK n \in Nat : n = Cardinality(S)
  BY <1>1, FS_CardinalityType
<1>3. PICK s : Ranks(s, S)
  BY RankingExists
<1>4. s \in [1 .. n -> S] /\ \A i, j \in 1 .. n : i < j => Better(s[i], s[j])
  BY <1>2, <1>3 DEF Ranks
<1>5. \A i, j \in 1 .. n : i # j => s[i] # s[j]
  <2> SUFFICES ASSUME NEW i \in 1 .. n, NEW j \in 1 .. n, i # j PROVE s[i] # s[j]
    OBVIOUS
  <2>1. i < j \/ j < i
    OBVIOUS
  <2>2. s[i] \in Households /\ s[j] \in Households
    BY <1>4
  <2> QED
    BY <1>4, <2>1, <2>2, BetterIsOrder
<1>6. s \in SetToSeqs(S)
  BY <1>2, <1>4, <1>5 DEF SetToSeqs
<1>7. DOMAIN s = 1 .. n
  BY <1>4
<1>8. Ranked(S) \in SetToSeqs(S) /\ \A i, j \in DOMAIN Ranked(S) : i < j => Better(Ranked(S)[i], Ranked(S)[j])
  BY <1>4, <1>6, <1>7 DEF Ranked
<1>9. DOMAIN Ranked(S) = 1 .. Len(Ranked(S))
  BY <1>1, <1>8, FullList
<1> QED
  BY <1>1, <1>8, <1>9

-----------------------------------------------------------------------------
(* The segment tree *)

Candidates == Households \cup {None}

\* x comes before y or is the same; None comes last.
NoWorse(x, y) == y = None \/ (x # None /\ (x = y \/ Better(x, y)))

\* Best picks the one that comes first, and coming first is an order.
LEMMA BestLaw ==
  /\ \A x, y \in Candidates : /\ Best(x, y) \in {x, y} /\ Best(x, y) \in Candidates
                              /\ NoWorse(Best(x, y), x) /\ NoWorse(Best(x, y), y)
  /\ \A x, y, z \in Candidates : NoWorse(x, y) /\ NoWorse(y, z) => NoWorse(x, z)
  /\ \A x, y \in Candidates : NoWorse(x, y) /\ NoWorse(y, x) => x = y
  /\ \A x \in Candidates : NoWorse(x, x) /\ NoWorse(x, None) /\ (NoWorse(None, x) => x = None)
<1>1. ASSUME NEW x \in Candidates, NEW y \in Candidates
      PROVE  /\ Best(x, y) \in {x, y} /\ Best(x, y) \in Candidates
             /\ NoWorse(Best(x, y), x) /\ NoWorse(Best(x, y), y)
  <2>1. x = None \/ x \in Households
    BY DEF Candidates
  <2>2. y = None \/ y \in Households
    BY DEF Candidates
  <2>3. x \in Households /\ y \in Households => x = y \/ Better(x, y) \/ Better(y, x)
    BY BetterIsOrder
  <2> QED
    BY <2>1, <2>2, <2>3, Constants DEF Best, NoWorse
<1>2. ASSUME NEW x \in Candidates, NEW y \in Candidates, NEW z \in Candidates, NoWorse(x, y), NoWorse(y, z)
      PROVE  NoWorse(x, z)
  <2>1. CASE z = None \/ y = None
    BY <1>2, <2>1 DEF NoWorse
  <2>2. CASE z # None /\ y # None
    <3>1. x # None /\ x \in Households /\ y \in Households /\ z \in Households
      BY <1>2, <2>2 DEF NoWorse, Candidates
    <3>2. (x = y \/ Better(x, y)) /\ (y = z \/ Better(y, z))
      BY <1>2, <2>2 DEF NoWorse
    <3> QED
      BY <3>1, <3>2, BetterIsOrder DEF NoWorse
  <2> QED
    BY <2>1, <2>2
<1>3. ASSUME NEW x \in Candidates, NEW y \in Candidates, NoWorse(x, y), NoWorse(y, x)
      PROVE  x = y
  <2>1. x \in Households /\ y \in Households => ~(Better(x, y) /\ Better(y, x))
    BY BetterIsOrder
  <2> QED
    BY <1>3, <2>1 DEF NoWorse, Candidates
<1>4. \A x \in Candidates : NoWorse(x, x) /\ NoWorse(x, None) /\ (NoWorse(None, x) => x = None)
  BY DEF NoWorse
<1> QED
  BY <1>1, <1>2, <1>3, <1>4

\* x is the best of the entries lo .. hi of F.
IsTop(x, F, lo, hi) ==
  /\ x \in Candidates
  /\ x = None \/ \E i \in lo .. hi : F[i] = x
  /\ \A i \in lo .. hi : NoWorse(x, F[i])

\* Nodes of M are made of their two children, which come later; the others are given.
Grown(F, N, M, given) ==
  F = [i \in 1 .. N |-> IF i \in M THEN Best(F[2 * i], F[2 * i + 1]) ELSE given[i]]

\* The nodes can be filled in, from the last to the first.
LEMMA NodesExist ==
  ASSUME NEW N \in Nat, NEW M \in SUBSET (1 .. N), \A i \in M : 2 * i + 1 <= N,
         NEW given \in [1 .. N -> Candidates]
  PROVE  \E F : Grown(F, N, M, given)
<1> DEFINE Node(F, i) == IF i \in M THEN Best(F[2 * i], F[2 * i + 1]) ELSE given[i]
           From(k) == \E F \in [1 .. N -> Candidates] : \A i \in 1 .. N : i > N - k => F[i] = Node(F, i)
           P == {k \in 0 .. N : From(k)}
<1>1. 0 \in P
  <2>1. given \in [1 .. N -> Candidates] /\ \A i \in 1 .. N : ~(i > N - 0)
    OBVIOUS
  <2> HIDE DEF Node
  <2> QED
    BY <2>1
<1>2. ASSUME NEW k \in 1 .. N, k - 1 \in P PROVE k \in P
  <2>1. PICK F \in [1 .. N -> Candidates] : \A i \in 1 .. N : i > N - (k - 1) => F[i] = Node(F, i)
    BY <1>2
  <2>2. PICK m \in 1 .. N : m = N - k + 1
    OBVIOUS
  <2>3. \A i \in M : 2 * i \in 1 .. N /\ 2 * i + 1 \in 1 .. N /\ 2 * i > i /\ 2 * i + 1 > i
    OBVIOUS
  <2>4. Node(F, m) \in Candidates
    <3>1. CASE m \in M
      BY <2>3, <3>1, BestLaw
    <3>2. CASE m \notin M
      BY <3>2
    <3> QED
      BY <3>1, <3>2
  <2>5. PICK v \in Candidates : v = Node(F, m)
    BY <2>4
  <2>6. PICK G \in [1 .. N -> Candidates] : G[m] = v /\ \A i \in 1 .. N : i # m => G[i] = F[i]
    <3>1. [F EXCEPT ![m] = v] \in [1 .. N -> Candidates]
      OBVIOUS
    <3> QED
      BY <3>1
  <2>7. ASSUME NEW i \in 1 .. N, i > N - k PROVE G[i] = Node(G, i)
    <3>1. i >= m /\ m \in Nat
      BY <2>2, <2>7
    <3>2. Node(G, i) = Node(F, i)
      <4>1. CASE i \in M
        <5>1. 2 * i # m /\ 2 * i + 1 # m
          BY <2>3, <3>1, <4>1
        <5>2. G[2 * i] = F[2 * i] /\ G[2 * i + 1] = F[2 * i + 1]
          BY <2>3, <2>6, <4>1, <5>1
        <5> QED
          BY <4>1, <5>2
      <4>2. CASE i \notin M
        BY <4>2
      <4> QED
        BY <4>1, <4>2
    <3>3. CASE i = m
      BY <2>5, <2>6, <3>2, <3>3
    <3>4. CASE i # m
      <4>1. i > N - (k - 1)
        BY <2>2, <3>1, <3>4
      <4>2. G[i] = F[i] /\ F[i] = Node(F, i)
        BY <2>1, <2>6, <3>4, <4>1
      <4> QED
        BY <3>2, <4>2
    <3> QED
      BY <3>3, <3>4
  <2>8. k \in 0 .. N
    OBVIOUS
  <2> HIDE DEF Node
  <2> QED
    BY <2>7, <2>8
<1>3. P \in SUBSET (0 .. N)
  OBVIOUS
<1>4. P = 0 .. N
  <2> HIDE DEF P
  <2> QED
    BY <1>1, <1>2, <1>3, UpTo
<1>5. From(N)
  <2> HIDE DEF From
  <2> QED
    BY <1>4
<1>6. \A i \in 1 .. N : i > N - N
  OBVIOUS
<1> HIDE DEF Node
<1>7. \E F \in [1 .. N -> Candidates] : \A i \in 1 .. N : F[i] = Node(F, i)
  BY <1>5, <1>6
<1>8. PICK F \in [1 .. N -> Candidates] :
         \A i \in 1 .. N : F[i] = IF i \in M THEN Best(F[2 * i], F[2 * i + 1]) ELSE given[i]
  BY <1>7 DEF Node
<1>9. Grown(F, N, M, given)
  BY <1>8 DEF Grown
<1> QED
  BY <1>9

\* The number of leaves is a positive number, and there are enough of them.
LEMMA SizeLaw ==
  ASSUME NEW n \in Nat
  PROVE  TreeSize(n) \in Nat /\ TreeSize(n) >= 1 /\ TreeSize(n) >= n
<1> DEFINE Doubling(D) == [k \in 0 .. n |-> IF k = 0 THEN 1 ELSE 2 * D[k - 1]]
           D == CHOOSE E : E = Doubling(E)
           far == CHOOSE k \in 0 .. n : D[k] >= n /\ \A j \in 0 .. n : D[j] >= n => k <= j
           step == [p \in (1 .. n) \X Nat |-> 2 * p[2]]
<1>1. TreeSize(n) = D[far]
  BY DEF TreeSize
<1>2. \A k \in 1 .. n, v \in Nat : step[<<k, v>>] = 2 * v /\ step[<<k, v>>] \in Nat
  OBVIOUS
<1>3. PICK A \in [0 .. n -> Nat] : A[0] = 1 /\ \A k \in 1 .. n : A[k] = step[<<k, A[k - 1]>>]
  <2>1. PICK f, V, one : f = step /\ V = Nat /\ one = 1
    OBVIOUS
  <2>2. one \in V /\ \A k \in 1 .. n, v \in V : f[<<k, v>>] \in V
    BY <1>2, <2>1
  <2> HIDE DEF step
  <2>3. \E A : Follows(A, n, V, one, f)
    BY <2>2, RowExists
  <2> QED
    BY <2>1, <2>3 DEF Follows
<1>4. \A k \in 1 .. n : A[k] = 2 * A[k - 1] /\ k - 1 \in 0 .. n
  <2> SUFFICES ASSUME NEW k \in 1 .. n PROVE A[k] = 2 * A[k - 1] /\ k - 1 \in 0 .. n
    OBVIOUS
  <2>1. k - 1 \in 0 .. n
    OBVIOUS
  <2>2. A[k - 1] \in Nat
    BY <2>1
  <2> HIDE DEF step
  <2> QED
    BY <1>2, <1>3, <2>1, <2>2
<1>5. A = Doubling(A)
  <2>1. \A k \in 0 .. n : A[k] = IF k = 0 THEN 1 ELSE 2 * A[k - 1]
    <3> SUFFICES ASSUME NEW k \in 0 .. n PROVE A[k] = IF k = 0 THEN 1 ELSE 2 * A[k - 1]
      OBVIOUS
    <3>1. k = 0 \/ k \in 1 .. n
      OBVIOUS
    <3> QED
      BY <1>3, <1>4, <3>1
  <2> QED
    BY <2>1
<1>6. D = Doubling(D)
  <2> HIDE DEF Doubling
  <2> QED
    BY <1>5
<1> HIDE DEF D, far, step
<1>7. D[0] = 1 /\ \A k \in 1 .. n : D[k] = 2 * D[k - 1]
  BY <1>6
<1>8. \A k \in 0 .. n : D[k] \in Nat /\ D[k] >= k + 1
  <2> DEFINE P == {k \in 0 .. n : D[k] \in Nat /\ D[k] >= k + 1}
  <2>1. 0 \in P
    BY <1>7
  <2>2. ASSUME NEW k \in 1 .. n, k - 1 \in P PROVE k \in P
    <3>1. D[k - 1] \in Nat /\ D[k - 1] >= (k - 1) + 1 /\ D[k] = 2 * D[k - 1]
      BY <1>7, <2>2
    <3> QED
      BY <3>1
  <2>3. P \in SUBSET (0 .. n)
    OBVIOUS
  <2> HIDE DEF P
  <2>4. P = 0 .. n
    BY <2>1, <2>2, <2>3, UpTo
  <2> QED
    BY <2>4 DEF P
<1>9. \E k \in 0 .. n : D[k] >= n /\ \A j \in 0 .. n : D[j] >= n => k <= j
  <2>1. PICK T : T = {k \in 0 .. n : D[k] >= n}
    OBVIOUS
  <2>2. n \in T /\ T \in SUBSET Nat
    BY <1>8, <2>1
  <2>3. PICK k \in T : \A j \in T : k <= j
    BY <2>2, SmallestOfNats
  <2> QED
    BY <2>1, <2>3
<1>10. far \in 0 .. n /\ D[far] >= n
  BY <1>9 DEF far
<1> QED
  BY <1>1, <1>8, <1>10

\* Such nodes are candidates.
LEMMA NodesTyped ==
  ASSUME NEW N \in Nat, NEW M \in SUBSET (1 .. N), \A i \in M : 2 * i + 1 <= N,
         NEW given \in [1 .. N -> Candidates],
         NEW t, Grown(t, N, M, given)
  PROVE  t \in [1 .. N -> Candidates]
<1>0. t = [i \in 1 .. N |-> IF i \in M THEN Best(t[2 * i], t[2 * i + 1]) ELSE given[i]]
  BY DEF Grown
<1> DEFINE From(k) == \A i \in 1 .. N : i > N - k => t[i] \in Candidates
           P == {k \in 0 .. N : From(k)}
<1>1. 0 \in P
  OBVIOUS
<1>2. ASSUME NEW k \in 1 .. N, k - 1 \in P PROVE k \in P
  <2>1. \A i \in 1 .. N : i > N - (k - 1) => t[i] \in Candidates
    BY <1>2
  <2>2. PICK m \in 1 .. N : m = N - k + 1
    OBVIOUS
  <2>3. t[m] \in Candidates
    <3>1. CASE m \in M
      <4>1. /\ 2 * m \in 1 .. N /\ 2 * m + 1 \in 1 .. N
            /\ 2 * m > N - (k - 1) /\ 2 * m + 1 > N - (k - 1)
        BY <2>2, <3>1
      <4>2. t[2 * m] \in Candidates /\ t[2 * m + 1] \in Candidates
        BY <2>1, <4>1
      <4>3. t[m] = Best(t[2 * m], t[2 * m + 1])
        BY <1>0, <3>1
      <4> QED
        BY <4>2, <4>3, BestLaw
    <3>2. CASE m \notin M
      BY <1>0, <3>2
    <3> QED
      BY <3>1, <3>2
  <2>4. \A i \in 1 .. N : i > N - k => i = m \/ i > N - (k - 1)
    BY <2>2
  <2>5. k \in 0 .. N
    OBVIOUS
  <2>6. From(k)
    BY <2>1, <2>3, <2>4
  <2> QED
    BY <2>5, <2>6
<1>3. P \in SUBSET (0 .. N)
  OBVIOUS
<1>4. P = 0 .. N
  <2> HIDE DEF P
  <2> QED
    BY <1>1, <1>2, <1>3, UpTo
<1>5. From(N)
  <2> HIDE DEF From
  <2> QED
    BY <1>4
<1>6. \A i \in 1 .. N : t[i] \in Candidates
  BY <1>5
<1> QED
  BY <1>0, <1>6

\* A segment tree over heads: the leaves are the heads, and each node above is the better of its two.
IsTree(t, heads) ==
  LET size == TreeSize(Len(heads))
  IN /\ t \in [1 .. 2 * size - 1 -> Candidates]
     /\ \A i \in 1 .. size - 1 : t[i] = Best(t[2 * i], t[2 * i + 1])
     /\ \A b \in 1 .. Len(heads) : t[size + b - 1] = heads[b]

\* The tree built over full buckets is a segment tree over their heads.
LEMMA BuiltLaw ==
  ASSUME NEW bs, Len(bs) \in Nat, NEW heads \in Seq(Candidates), Len(heads) = Len(bs),
         \A b \in 1 .. Len(bs) : bs[b][1] = heads[b]
  PROVE  IsTree(BuiltTree(bs), heads)
<1> DEFINE n == Len(bs)
           size == TreeSize(n)
           N == 2 * size - 1
           Nodes(F) == [i \in 1 .. N |->
             IF i < size THEN Best(F[2 * i], F[2 * i + 1])
             ELSE IF i - size < n THEN bs[i - size + 1][1] ELSE None]
           t == CHOOSE F : F = Nodes(F)
           M == 1 .. (size - 1)
           leaf(i) == IF size <= i /\ i - size < n THEN bs[i - size + 1][1] ELSE None
           given == [i \in 1 .. N |-> leaf(i)]
<1>1. BuiltTree(bs) = t
  BY DEF BuiltTree
<1>2. size \in Nat /\ size >= 1 /\ size >= n /\ n \in Nat
  BY SizeLaw
<1> HIDE DEF size, n
<1>3. N \in Nat /\ M \in SUBSET (1 .. N) /\ \A i \in M : 2 * i + 1 <= N
  BY <1>2
<1>4. given \in [1 .. N -> Candidates]
  <2> SUFFICES ASSUME NEW i \in 1 .. N PROVE leaf(i) \in Candidates
    OBVIOUS
  <2>1. CASE size <= i /\ i - size < n
    <3>1. i - size + 1 \in 1 .. n
      BY <1>2, <2>1
    <3>2. heads[i - size + 1] \in Candidates /\ bs[i - size + 1][1] = heads[i - size + 1]
      BY <3>1 DEF n
    <3> QED
      BY <2>1, <3>2
  <2>2. CASE ~(size <= i /\ i - size < n)
    BY <2>2 DEF Candidates
  <2> QED
    BY <2>1, <2>2
<1>5. PICK g \in [1 .. N -> Candidates] : g = given
  BY <1>4
<1>6. \A F : F = Nodes(F) <=> Grown(F, N, M, g)
  <2>1. \A i \in 1 .. N : i \in M <=> i < size
    BY <1>2
  <2>2. \A i \in 1 .. N : i \notin M => g[i] = IF i - size < n THEN bs[i - size + 1][1] ELSE None
    BY <1>2, <1>5, <2>1
  <2> HIDE DEF M, N
  <2>3. \A F : Nodes(F) = [i \in 1 .. N |-> IF i \in M THEN Best(F[2 * i], F[2 * i + 1]) ELSE g[i]]
    BY <2>1, <2>2
  <2> QED
    BY <2>3 DEF Grown
<1> HIDE DEF Nodes, given
<1>7. \E F : F = Nodes(F)
  <2> HIDE DEF N, M
  <2> QED
    BY <1>3, <1>6, NodesExist
<1>8. t = Nodes(t)
  BY <1>7
<1> HIDE DEF t
<1>9. Grown(t, N, M, g)
  BY <1>6, <1>8
<1>10. t \in [1 .. N -> Candidates]
  <2> HIDE DEF N, M
  <2> QED
    BY <1>3, <1>9, NodesTyped
<1>11. ASSUME NEW i \in 1 .. size - 1 PROVE t[i] = Best(t[2 * i], t[2 * i + 1])
  <2>1. i \in 1 .. N /\ i \in M
    BY <1>2
  <2> HIDE DEF N, M
  <2> QED
    BY <1>9, <2>1 DEF Grown
<1>12. ASSUME NEW b \in 1 .. n PROVE t[size + b - 1] = heads[b]
  <2>1. PICK i \in 1 .. N : i = size + b - 1
    BY <1>2
  <2>2. i \notin M /\ size <= i /\ i - size < n /\ i - size + 1 = b
    BY <1>2, <2>1
  <2>3. bs[b][1] = heads[b]
    BY DEF n
  <2>4. g[i] = bs[b][1]
    BY <1>5, <2>2 DEF given
  <2>5. t[i] = g[i]
    <3> HIDE DEF N, M
    <3> QED
      BY <1>9, <2>1, <2>2 DEF Grown
  <2> QED
    BY <2>1, <2>3, <2>4, <2>5
<1>13. Len(heads) = n /\ TreeSize(Len(heads)) = size
  BY DEF n, size
<1> QED
  BY <1>1, <1>10, <1>11, <1>12, <1>13 DEF IsTree

\* The nodes above a leaf, from its parent up to the root and 0.
LEMMA AboveLaw ==
  ASSUME NEW leaf \in Nat \ {0}, NEW above,
         above = CHOOSE A : A = [k \in 0 .. leaf |-> IF k = 0 THEN leaf ELSE A[k - 1] \div 2]
  PROVE  /\ above[0] = leaf
         /\ \A k \in 1 .. leaf : above[k] = above[k - 1] \div 2
         /\ \A k \in 0 .. leaf : above[k] \in Nat /\ (above[k] > 0 => above[k] + k <= leaf)
         /\ \A k \in 1 .. leaf : above[k] <= leaf \div 2
<1> DEFINE Halving(A) == [k \in 0 .. leaf |-> IF k = 0 THEN leaf ELSE A[k - 1] \div 2]
           step == [p \in (1 .. leaf) \X Nat |-> p[2] \div 2]
<1>1. \A v \in Nat : v \div 2 \in Nat /\ v \div 2 <= v /\ (v > 0 => v \div 2 < v)
  OBVIOUS
<1>2. \A k \in 1 .. leaf, v \in Nat : step[<<k, v>>] = v \div 2
  OBVIOUS
<1>3. PICK A : Follows(A, leaf, Nat, leaf, step)
  <2>1. \A k \in 1 .. leaf, v \in Nat : step[<<k, v>>] \in Nat
    <3> HIDE DEF step
    <3> QED
      BY <1>1, <1>2
  <2>2. leaf \in Nat
    OBVIOUS
  <2> HIDE DEF step
  <2> QED
    BY <2>1, <2>2, RowExists
<1>4. A = Halving(A)
  <2>1. A \in [0 .. leaf -> Nat] /\ A[0] = leaf /\ \A k \in 1 .. leaf : A[k] = step[<<k, A[k - 1]>>]
    BY <1>3 DEF Follows
  <2>2. ASSUME NEW k \in 0 .. leaf PROVE A[k] = IF k = 0 THEN leaf ELSE A[k - 1] \div 2
    <3>1. CASE k = 0
      BY <2>1, <3>1
    <3>2. CASE k # 0
      <4>1. k \in 1 .. leaf /\ k - 1 \in 0 .. leaf
        BY <3>2
      <4>2. A[k - 1] \in Nat /\ A[k] = step[<<k, A[k - 1]>>]
        BY <2>1, <4>1
      <4> HIDE DEF step
      <4> QED
        BY <1>2, <3>2, <4>1, <4>2
    <3> QED
      BY <3>1, <3>2
  <2> QED
    BY <2>1, <2>2
<1>5. above = Halving(above)
  <2>1. above = CHOOSE F : F = Halving(F)
    OBVIOUS
  <2> HIDE DEF Halving
  <2> QED
    BY <1>4, <2>1
<1>6. above[0] = leaf /\ \A k \in 1 .. leaf : above[k] = above[k - 1] \div 2
  <2>1. \A F : F = Halving(F) => F[0] = leaf /\ \A k \in 1 .. leaf : F[k] = F[k - 1] \div 2
    <3> SUFFICES ASSUME NEW F, F = Halving(F), NEW k \in 1 .. leaf
                 PROVE  F[0] = leaf /\ F[k] = F[k - 1] \div 2
      BY DEF Follows
    <3>1. k \in 0 .. leaf /\ 0 \in 0 .. leaf /\ k # 0
      OBVIOUS
    <3>2. \A i \in 0 .. leaf : F[i] = IF i = 0 THEN leaf ELSE F[i - 1] \div 2
      OBVIOUS
    <3> HIDE DEF Halving
    <3> QED
      BY <3>1, <3>2
  <2> HIDE DEF Halving
  <2> QED
    BY <1>5, <2>1
<1> DEFINE P == {k \in 0 .. leaf : /\ above[k] \in Nat /\ (above[k] > 0 => above[k] + k <= leaf)
                                   /\ (k > 0 => above[k] <= leaf \div 2)}
<1> HIDE DEF Halving, step
<1>7. 0 \in P
  BY <1>6
<1>8. ASSUME NEW k \in 1 .. leaf, k - 1 \in P PROVE k \in P
  <2>1. PICK a \in Nat : a = above[k - 1] /\ (a > 0 => a + (k - 1) <= leaf) /\ (k - 1 > 0 => a <= leaf \div 2)
    BY <1>8
  <2>2. PICK b \in Nat : b = a \div 2 /\ b = above[k]
    BY <1>1, <1>6, <2>1
  <2>3. b > 0 => b + k <= leaf
    BY <1>1, <2>1, <2>2
  <2>4. b <= leaf \div 2
    <3>1. CASE k = 1
      BY <1>6, <2>2, <3>1
    <3>2. CASE k # 1
      <4>1. a <= leaf \div 2 /\ leaf \div 2 \in Nat
        BY <1>1, <2>1, <3>2
      <4> QED
        BY <1>1, <2>2, <4>1
    <3> QED
      BY <3>1, <3>2
  <2> QED
    BY <2>2, <2>3, <2>4
<1>9. P \in SUBSET (0 .. leaf)
  OBVIOUS
<1>10. P = 0 .. leaf
  <2> HIDE DEF P
  <2> QED
    BY <1>7, <1>8, <1>9, UpTo
<1>11. \A k \in 0 .. leaf : /\ above[k] \in Nat /\ (above[k] > 0 => above[k] + k <= leaf)
                            /\ (k > 0 => above[k] <= leaf \div 2)
  BY <1>10
<1>12. \A k \in 1 .. leaf : above[k] <= leaf \div 2
  <2> SUFFICES ASSUME NEW k \in 1 .. leaf PROVE above[k] <= leaf \div 2
    OBVIOUS
  <2>1. k \in 0 .. leaf /\ k > 0
    OBVIOUS
  <2> QED
    BY <1>11, <2>1
<1> QED
  BY <1>6, <1>11, <1>12

\* Changing one leaf and what is above it gives the tree of the changed heads.
LEMMA UpdatedLaw ==
  ASSUME NEW t, NEW heads \in Seq(Candidates), IsTree(t, heads), NBuckets = Len(heads),
         NEW b \in 1 .. Len(heads), NEW x \in Candidates
  PROVE  IsTree(Updated(t, b, x), [heads EXCEPT ![b] = x])
<1> DEFINE n == Len(heads)
           size == TreeSize(n)
           N == 2 * size - 1
           leaf == size + b - 1
           above == CHOOSE A : A = [k \in 0 .. leaf |-> IF k = 0 THEN leaf ELSE A[k - 1] \div 2]
           Nodes(F) == [i \in 1 .. N |->
             IF i = leaf THEN x
             ELSE IF \E k \in 1 .. leaf : above[k] = i THEN Best(F[2 * i], F[2 * i + 1]) ELSE t[i]]
           u == CHOOSE F : F = Nodes(F)
           M == {i \in 1 .. N : i # leaf /\ \E k \in 1 .. leaf : above[k] = i}
           given == [i \in 1 .. N |-> IF i = leaf THEN x ELSE t[i]]
           new == [heads EXCEPT ![b] = x]
<1>1. Updated(t, b, x) = u
  BY DEF Updated
<1>2. /\ t \in [1 .. N -> Candidates] /\ (\A i \in 1 .. size - 1 : t[i] = Best(t[2 * i], t[2 * i + 1]))
      /\ \A d \in 1 .. n : t[size + d - 1] = heads[d]
  BY DEF IsTree
<1>3. size \in Nat /\ size >= 1 /\ size >= n /\ n \in Nat /\ b \in 1 .. n
  BY SizeLaw
<1> HIDE DEF size, n
<1>4. leaf \in Nat \ {0} /\ leaf \in 1 .. N /\ N \in Nat /\ leaf >= size /\ leaf \div 2 < size
  BY <1>3
<1>5. /\ above[0] = leaf
      /\ \A k \in 1 .. leaf : above[k] = above[k - 1] \div 2
      /\ \A k \in 0 .. leaf : above[k] \in Nat /\ (above[k] > 0 => above[k] + k <= leaf)
      /\ \A k \in 1 .. leaf : above[k] <= leaf \div 2
  <2> HIDE DEF leaf
  <2> QED
    BY <1>4, AboveLaw
<1> HIDE DEF leaf, above
<1>6. \A i \in M : i < size /\ 2 * i + 1 <= N /\ i \in 1 .. N
  <2> SUFFICES ASSUME NEW i \in M PROVE i < size /\ 2 * i + 1 <= N /\ i \in 1 .. N
    OBVIOUS
  <2>1. PICK k \in 1 .. leaf : above[k] = i
    OBVIOUS
  <2>2. i <= leaf \div 2 /\ i \in Nat /\ leaf \div 2 \in Nat
    BY <1>4, <1>5, <2>1
  <2> QED
    BY <1>3, <1>4, <2>2
<1>7. PICK g \in [1 .. N -> Candidates] : g = given
  BY <1>2
<1>8. \A F : F = Nodes(F) <=> Grown(F, N, M, g)
  <2>1. ASSUME NEW F PROVE Nodes(F) = [i \in 1 .. N |-> IF i \in M THEN Best(F[2 * i], F[2 * i + 1]) ELSE g[i]]
    <3>1. \A i \in 1 .. N : i \in M <=> i # leaf /\ \E k \in 1 .. leaf : above[k] = i
      OBVIOUS
    <3>2. \A i \in 1 .. N : g[i] = IF i = leaf THEN x ELSE t[i]
      BY <1>7
    <3> HIDE DEF M, N, given
    <3> QED
      BY <3>1, <3>2
  <2> HIDE DEF M, N, Nodes
  <2> QED
    BY <2>1 DEF Grown
<1> HIDE DEF Nodes
<1>9. M \in SUBSET (1 .. N) /\ \A i \in M : 2 * i + 1 <= N
  BY <1>6
<1>10. \E F : F = Nodes(F)
  <2> HIDE DEF N, M, given
  <2> QED
    BY <1>4, <1>8, <1>9, NodesExist
<1>11. u = Nodes(u)
  BY <1>10
<1> HIDE DEF u
<1>12. Grown(u, N, M, g)
  BY <1>8, <1>11
<1>13. u \in [1 .. N -> Candidates]
  <2> HIDE DEF N, M, given
  <2> QED
    BY <1>4, <1>9, <1>12, NodesTyped
<1>14. \A i \in 1 .. N : u[i] = IF i \in M THEN Best(u[2 * i], u[2 * i + 1]) ELSE IF i = leaf THEN x ELSE t[i]
  <2> SUFFICES ASSUME NEW i \in 1 .. N
               PROVE  u[i] = IF i \in M THEN Best(u[2 * i], u[2 * i + 1]) ELSE IF i = leaf THEN x ELSE t[i]
    OBVIOUS
  <2>1. g[i] = IF i = leaf THEN x ELSE t[i]
    BY <1>7
  <2> HIDE DEF N, M, given
  <2> QED
    BY <1>12, <2>1 DEF Grown
\* The children of a node that stays as it was are not above the leaf, nor the leaf.
<1>15. ASSUME NEW i \in 1 .. size - 1, i \notin M, NEW j \in {2 * i, 2 * i + 1}
       PROVE  j \in 1 .. N /\ u[j] = t[j]
  <2>1. j \in 1 .. N /\ j \div 2 = i /\ i \in 1 .. N /\ i # leaf /\ j \in Nat /\ j > 0
    BY <1>3, <1>4
  <2>2. ASSUME NEW k \in 0 .. leaf, k + 1 \in 1 .. leaf, above[k] = j PROVE FALSE
    <3>1. above[k + 1] = j \div 2
      <4>1. (k + 1) - 1 = k
        OBVIOUS
      <4> QED
        BY <1>5, <2>2, <4>1
    <3>2. i \in M
      BY <2>1, <2>2, <3>1
    <3> QED
      BY <1>15, <3>2
  <2>3. j # leaf
    <3>1. 0 \in 0 .. leaf /\ 0 + 1 \in 1 .. leaf
      BY <1>4
    <3> QED
      BY <1>5, <2>2, <3>1
  <2>4. j \notin M
    <3> SUFFICES ASSUME NEW k \in 1 .. leaf, above[k] = j PROVE FALSE
      OBVIOUS
    <3>1. k \in 0 .. leaf
      BY <1>4
    <3>2. above[k] + k <= leaf
      BY <1>5, <2>1, <3>1
    <3>3. k + 1 \in 1 .. leaf
      BY <1>4, <2>1, <3>2
    <3> QED
      BY <2>2, <3>1, <3>3
  <2> QED
    BY <1>14, <2>1, <2>3, <2>4
<1>16. ASSUME NEW i \in 1 .. size - 1 PROVE u[i] = Best(u[2 * i], u[2 * i + 1])
  <2>1. i \in 1 .. N /\ i # leaf
    BY <1>3, <1>4
  <2>2. CASE i \in M
    BY <1>14, <2>1, <2>2
  <2>3. CASE i \notin M
    <3>1. u[2 * i] = t[2 * i] /\ u[2 * i + 1] = t[2 * i + 1]
      BY <1>15, <2>3
    <3>2. u[i] = t[i]
      BY <1>14, <2>1, <2>3
    <3> QED
      BY <1>2, <3>1, <3>2
  <2> QED
    BY <2>2, <2>3
<1>17. ASSUME NEW d \in 1 .. n PROVE u[size + d - 1] = new[d]
  <2>1. PICK i \in 1 .. N : i = size + d - 1
    BY <1>3
  <2>2. ~(i < size) /\ (i = leaf <=> d = b)
    BY <1>3, <2>1 DEF leaf
  <2>3. i \notin M
    BY <1>6, <2>2
  <2>4. u[i] = IF i = leaf THEN x ELSE t[i]
    BY <1>14, <2>3
  <2>5. new[d] = IF d = b THEN x ELSE heads[d]
    BY <1>3 DEF n
  <2>6. t[i] = heads[d]
    BY <1>2, <2>1
  <2> QED
    BY <2>1, <2>2, <2>4, <2>5, <2>6
<1>18. Len(new) = n /\ TreeSize(Len(new)) = size
  BY DEF n, size
<1> QED
  BY <1>1, <1>13, <1>16, <1>17, <1>18 DEF IsTree

-----------------------------------------------------------------------------
(* The best head of a prefix *)

\* The interval of parents whose children are all within the interval w, and what it leaves out.
Inward(w)  == <<(w[1] + 1) \div 2, w[2] \div 2>>
Edge(t, w) == Best(IF w[1] % 2 = 1 THEN t[w[1]] ELSE None, IF w[2] % 2 = 1 THEN t[w[2] - 1] ELSE None)

Walked(F, N, edge) ==
  F = [w \in (1 .. N) \X (1 .. N) |-> IF w[1] >= w[2] THEN None ELSE Best(edge[w], F[Inward(w)])]

\* The parents further in are an interval of nodes, and end earlier.
LEMMA InwardLaw ==
  ASSUME NEW N \in Nat, NEW w \in (1 .. N) \X (1 .. N), w[1] < w[2]
  PROVE  /\ Inward(w) \in (1 .. N) \X (1 .. N) /\ Inward(w)[2] < w[2]
         /\ Inward(w)[1] = (w[1] + 1) \div 2 /\ Inward(w)[2] = w[2] \div 2
<1>1. PICK l \in 1 .. N, r \in 1 .. N : w = <<l, r>>
  OBVIOUS
<1>2. l < r /\ w[1] = l /\ w[2] = r
  BY <1>1
<1>3. PICK a, b : a = (l + 1) \div 2 /\ b = r \div 2
  OBVIOUS
<1>4. a \in 1 .. N /\ b \in 1 .. N /\ b < r
  BY <1>2, <1>3
<1>5. Inward(w) = <<a, b>>
  BY <1>2, <1>3 DEF Inward
<1> QED
  BY <1>2, <1>3, <1>4, <1>5

\* The walk can be filled in, from the intervals that end early.
LEMMA WalkExists ==
  ASSUME NEW N \in Nat, NEW edge \in [(1 .. N) \X (1 .. N) -> Candidates]
  PROVE  \E F : Walked(F, N, edge)
<1> DEFINE D == (1 .. N) \X (1 .. N)
           Body(F, w) == IF w[1] >= w[2] THEN None ELSE Best(edge[w], F[Inward(w)])
           Upto(k) == \E F \in [D -> Candidates] : \A w \in D : w[2] <= k => F[w] = Body(F, w)
           P == {k \in 0 .. N : Upto(k)}
<1>0. \A w \in D : w[1] \in Nat /\ w[2] \in 1 .. N
  OBVIOUS
<1>1. 0 \in P
  <2>1. PICK F : F = [w \in D |-> None]
    OBVIOUS
  <2>2. F \in [D -> Candidates]
    BY <2>1 DEF Candidates
  <2>3. \A w \in D : ~(w[2] <= 0)
    BY <1>0
  <2> HIDE DEF D, Body
  <2>4. Upto(0)
    BY <2>2, <2>3
  <2> QED
    BY <2>4
<1>2. ASSUME NEW k \in 1 .. N, k - 1 \in P PROVE k \in P
  <2>1. PICK F \in [D -> Candidates] : \A w \in D : w[2] <= k - 1 => F[w] = Body(F, w)
    BY <1>2
  <2>2. \A w \in D : w[1] < w[2] => Inward(w) \in D /\ Inward(w)[2] < w[2]
    BY InwardLaw
  <2>3. \A w \in D : Body(F, w) \in Candidates
    <3> SUFFICES ASSUME NEW w \in D PROVE Body(F, w) \in Candidates
      OBVIOUS
    <3>1. CASE w[1] >= w[2]
      BY <3>1 DEF Candidates
    <3>2. CASE ~(w[1] >= w[2])
      <4>1. F[Inward(w)] \in Candidates
        BY <1>0, <2>2, <3>2
      <4>2. edge[w] \in Candidates
        OBVIOUS
      <4> QED
        BY <3>2, <4>1, <4>2, BestLaw
    <3> QED
      BY <3>1, <3>2
  <2>4. PICK G : G = [w \in D |-> IF w[2] = k THEN Body(F, w) ELSE F[w]]
    OBVIOUS
  <2>5. G \in [D -> Candidates] /\ \A w \in D : G[w] = IF w[2] = k THEN Body(F, w) ELSE F[w]
    <3> HIDE DEF D, Body
    <3> QED
      BY <2>3, <2>4
  <2>6. ASSUME NEW w \in D, w[2] <= k PROVE G[w] = Body(G, w)
    <3>1. Body(G, w) = Body(F, w)
      <4>1. CASE w[1] >= w[2]
        BY <4>1
      <4>2. CASE ~(w[1] >= w[2])
        <5>1. PICK v \in D : v = Inward(w) /\ v[2] < w[2]
          BY <1>0, <2>2, <4>2
        <5>2. v[2] # k
          BY <1>0, <2>6, <5>1
        <5>3. G[v] = F[v]
          BY <2>5, <5>2
        <5> QED
          BY <5>1, <5>3
      <4> QED
        BY <4>1, <4>2
    <3>2. CASE w[2] = k
      BY <2>5, <3>1, <3>2
    <3>3. CASE w[2] # k
      <4>1. w[2] <= k - 1
        BY <1>0, <2>6, <3>3
      <4> QED
        BY <2>1, <2>5, <3>1, <3>3, <4>1
    <3> QED
      BY <3>2, <3>3
  <2>7. k \in 0 .. N
    OBVIOUS
  <2> HIDE DEF D, Body
  <2> QED
    BY <2>5, <2>6, <2>7
<1>3. P \in SUBSET (0 .. N)
  OBVIOUS
<1>4. P = 0 .. N
  <2> HIDE DEF P
  <2> QED
    BY <1>1, <1>2, <1>3, UpTo
<1>5. Upto(N)
  <2> HIDE DEF Upto
  <2> QED
    BY <1>4
<1>6. \A w \in D : w[2] <= N
  BY <1>0
<1>7. PICK F \in [D -> Candidates] : \A w \in D : F[w] = Body(F, w)
  <2> HIDE DEF D, Body
  <2> QED
    BY <1>5, <1>6
<1>8. F = [w \in D |-> Body(F, w)]
  <2> HIDE DEF D, Body
  <2> QED
    BY <1>7
<1>9. Walked(F, N, edge)
  BY <1>8 DEF Walked
<1> QED
  BY <1>9

\* The children of a parent further in are within the interval.
LEMMA ChildrenWithin ==
  ASSUME NEW s \in Nat, NEW l \in Nat, NEW r \in Nat, NEW a \in Nat, NEW b \in Nat, NEW j \in Nat,
         l <= 2 * a, 2 * b <= r, r <= 2 * s, a <= j, j + 1 <= b, 1 <= a
  PROVE  j \in 1 .. s - 1 /\ 2 * j \in l .. r - 1 /\ 2 * j + 1 \in l .. r - 1
OBVIOUS

\* The best of an interval of nodes is the best of what its edge and the parents further in say.
LEMMA WalkLaw ==
  ASSUME NEW s \in Nat, s >= 1, NEW t \in [1 .. 2 * s - 1 -> Candidates],
         \A i \in 1 .. s - 1 : t[i] = Best(t[2 * i], t[2 * i + 1]),
         NEW edge, \A w \in (1 .. 2 * s) \X (1 .. 2 * s) : w[1] < w[2] => edge[w] = Edge(t, w),
         NEW F, Walked(F, 2 * s, edge),
         NEW w0 \in (1 .. 2 * s) \X (1 .. 2 * s)
  PROVE  IsTop(F[w0], t, w0[1], w0[2] - 1)
<1> DEFINE N == 2 * s
           D == (1 .. N) \X (1 .. N)
           Good(k) == \A w \in D : w[2] <= k => IsTop(F[w], t, w[1], w[2] - 1)
           P == {k \in 0 .. N : Good(k)}
<1>0. N \in Nat /\ \A w \in D : w[1] \in 1 .. N /\ w[2] \in 1 .. N
  OBVIOUS
<1>1. 0 \in P
  BY <1>0
<1>2. ASSUME NEW k \in 1 .. N, k - 1 \in P PROVE k \in P
  <2>1. \A w \in D : w[2] <= k - 1 => IsTop(F[w], t, w[1], w[2] - 1)
    BY <1>2
  <2>2. ASSUME NEW w \in D, w[2] <= k PROVE IsTop(F[w], t, w[1], w[2] - 1)
    <3>1. F[w] = IF w[1] >= w[2] THEN None ELSE Best(edge[w], F[Inward(w)])
      BY DEF Walked
    <3>2. PICK l \in 1 .. N, r \in 1 .. N : l = w[1] /\ r = w[2]
      BY <1>0
    <3>3. CASE l >= r
      <4>1. \A i \in l .. r - 1 : FALSE
        BY <3>3
      <4> QED
        BY <3>1, <3>2, <3>3, <4>1 DEF IsTop, Candidates
    <3>4. CASE l < r
      <4>1. PICK v \in D : v = Inward(w)
        BY <1>0, <3>2, <3>4, InwardLaw
      <4>2. v[1] = (l + 1) \div 2 /\ v[2] = r \div 2 /\ v[2] < r
        BY <1>0, <3>2, <3>4, <4>1, InwardLaw
      <4>3. PICK a \in 1 .. N, b \in 1 .. N : a = (l + 1) \div 2 /\ b = r \div 2 /\ v[1] = a /\ v[2] = b
        BY <1>0, <4>2
      <4>4. b <= k - 1
        BY <2>2, <3>2, <4>2, <4>3
      <4>5. PICK x : x = F[v] /\ IsTop(x, t, a, b - 1)
        BY <2>1, <4>3, <4>4
      <4>6. PICK y, z : /\ y = IF l % 2 = 1 THEN t[l] ELSE None
                        /\ z = IF r % 2 = 1 THEN t[r - 1] ELSE None
        OBVIOUS
      <4>7. F[w] = Best(Best(y, z), x)
        <5>1. edge[w] = Edge(t, w)
          BY <3>2, <3>4
        <5>2. Edge(t, w) = Best(y, z)
          BY <3>2, <4>6 DEF Edge
        <5> QED
          BY <3>1, <3>2, <3>4, <4>1, <4>5, <5>1, <5>2
      <4>8. \A i \in l .. r - 1 : i \in 1 .. 2 * s - 1 /\ t[i] \in Candidates
        BY SMTT(40)
      <4>9. l \in l .. r - 1 /\ r - 1 \in l .. r - 1
        BY <3>4
      <4>10. y \in Candidates /\ z \in Candidates /\ x \in Candidates
        BY <4>5, <4>6, <4>8, <4>9 DEF IsTop, Candidates
      <4>11. PICK u : u = Best(y, z) /\ u \in Candidates /\ u \in {y, z} /\ NoWorse(u, y) /\ NoWorse(u, z)
        BY <4>10, BestLaw
      <4>12. PICK m : m = Best(u, x) /\ m \in Candidates /\ m \in {u, x} /\ NoWorse(m, u) /\ NoWorse(m, x)
        BY <4>10, <4>11, BestLaw
      <4>13. NoWorse(m, y) /\ NoWorse(m, z)
        BY <4>10, <4>11, <4>12, BestLaw
      <4>14. \A j \in a .. b - 1 : /\ j \in 1 .. s - 1
                                   /\ 2 * j \in l .. r - 1 /\ 2 * j + 1 \in l .. r - 1
        <5> SUFFICES ASSUME NEW j \in a .. b - 1
                     PROVE  /\ j \in 1 .. s - 1
                            /\ 2 * j \in l .. r - 1 /\ 2 * j + 1 \in l .. r - 1
          OBVIOUS
        <5>1. l <= 2 * a /\ 2 * b <= r /\ r <= 2 * s
          BY <4>3
        <5>2. j \in Nat /\ a <= j /\ j + 1 <= b /\ 1 <= a
          OBVIOUS
        <5>3. s \in Nat /\ l \in Nat /\ r \in Nat /\ a \in Nat /\ b \in Nat
          OBVIOUS
        <5> HIDE DEF D, N, P, Good
        <5> QED
          BY <5>1, <5>2, <5>3, ChildrenWithin
      <4>15. ASSUME NEW i \in l .. r - 1 PROVE NoWorse(m, t[i])
        <5>1. CASE i = l /\ l % 2 = 1
          BY <4>6, <4>13, <5>1
        <5>2. CASE i = r - 1 /\ r % 2 = 1
          BY <4>6, <4>13, <5>2
        <5>3. CASE ~(i = l /\ l % 2 = 1) /\ ~(i = r - 1 /\ r % 2 = 1)
          <6>1. PICK j \in Nat : j = i \div 2
            OBVIOUS
          <6>2. j \in a .. b - 1 /\ (i = 2 * j \/ i = 2 * j + 1)
            BY <4>3, <5>3, <6>1
          <6>3. t[j] = Best(t[2 * j], t[2 * j + 1]) /\ t[2 * j] \in Candidates /\ t[2 * j + 1] \in Candidates
            BY <4>8, <4>14, <6>2
          <6>4. NoWorse(t[j], t[2 * j]) /\ NoWorse(t[j], t[2 * j + 1]) /\ t[j] \in Candidates
            BY <6>3, BestLaw
          <6>5. NoWorse(x, t[j])
            BY <4>5, <6>2 DEF IsTop
          <6>6. NoWorse(m, t[j])
            BY <4>10, <4>12, <6>4, <6>5, BestLaw
          <6>7. NoWorse(t[j], t[i]) /\ t[i] \in Candidates
            BY <6>2, <6>3, <6>4
          <6> QED
            BY <4>12, <6>4, <6>6, <6>7, BestLaw
        <5> QED
          BY <5>1, <5>2, <5>3
      <4>16. m = None \/ \E i \in l .. r - 1 : t[i] = m
        <5>1. CASE m = y \/ m = z
          BY <4>6, <4>9, <5>1
        <5>2. CASE m = x
          <6>1. x = None \/ \E j \in a .. b - 1 : t[j] = x
            BY <4>5 DEF IsTop
          <6>2. CASE \E j \in a .. b - 1 : t[j] = x
            <7>1. PICK j \in a .. b - 1 : t[j] = x
              BY <6>2
            <7>2. j \in 1 .. s - 1 /\ 2 * j \in l .. r - 1 /\ 2 * j + 1 \in l .. r - 1
              BY <4>14
            <7>3. t[j] = Best(t[2 * j], t[2 * j + 1]) /\ t[2 * j] \in Candidates /\ t[2 * j + 1] \in Candidates
              BY <4>8, <7>2
            <7>4. t[j] \in {t[2 * j], t[2 * j + 1]}
              BY <7>3, BestLaw
            <7> QED
              BY <5>2, <7>1, <7>2, <7>4
          <6> QED
            BY <5>2, <6>1, <6>2
        <5> QED
          BY <4>11, <4>12, <5>1, <5>2
      <4>17. F[w] = m
        BY <4>7, <4>11, <4>12
      <4>18. IsTop(m, t, l, r - 1)
        BY <4>12, <4>15, <4>16 DEF IsTop
      <4> QED
        BY <3>2, <4>17, <4>18
    <3> QED
      BY <3>3, <3>4
  <2>3. k \in 0 .. N
    OBVIOUS
  <2> QED
    BY <2>2, <2>3
<1>3. P \in SUBSET (0 .. N)
  OBVIOUS
<1>4. P = 0 .. N
  <2> HIDE DEF P
  <2> QED
    BY <1>0, <1>1, <1>2, <1>3, UpTo
<1>5. Good(N)
  <2>1. N \in 0 .. N
    BY <1>0
  <2> HIDE DEF Good
  <2> QED
    BY <1>4, <2>1
<1> QED
  BY <1>0, <1>5

\* The query gives the best head of the buckets 1 .. b.
LEMMA BestUpToLaw ==
  ASSUME NEW heads \in Seq(Candidates), IsTree(tree, heads), NBuckets = Len(heads),
         NEW b \in 0 .. Len(heads)
  PROVE  IsTop(BestUpTo(b), heads, 1, b)
<1> DEFINE n == Len(heads)
           s == TreeSize(n)
           N == 2 * s
           Walks(F) == [w \in (1 .. N) \X (1 .. N) |->
             LET l == w[1]
                 r == w[2]
                 fromLeft  == IF l % 2 = 1 THEN tree[l] ELSE None
                 fromRight == IF r % 2 = 1 THEN tree[r - 1] ELSE None
             IN IF l >= r THEN None
                ELSE Best(Best(fromLeft, fromRight), F[<<(l + 1) \div 2, r \div 2>>])]
           W == CHOOSE F : F = Walks(F)
           edge == [w \in (1 .. N) \X (1 .. N) |-> IF w[1] < w[2] THEN Edge(tree, w) ELSE None]
<1>1. BestUpTo(b) = IF b = 0 THEN None ELSE W[<<s, s + b>>]
  BY DEF BestUpTo
<1>2. /\ tree \in [1 .. N - 1 -> Candidates] /\ (\A i \in 1 .. s - 1 : tree[i] = Best(tree[2 * i], tree[2 * i + 1]))
      /\ \A d \in 1 .. n : tree[s + d - 1] = heads[d]
  BY DEF IsTree
<1>3. s \in Nat /\ s >= 1 /\ s >= n /\ n \in Nat /\ b \in 0 .. n
  BY SizeLaw
<1> HIDE DEF s, n
<1>4. CASE b = 0
  <2>1. \A i \in 1 .. b : FALSE
    BY <1>4
  <2> QED
    BY <1>1, <1>4, <2>1 DEF IsTop, Candidates
<1>5. CASE b # 0
  <2>1. edge \in [(1 .. N) \X (1 .. N) -> Candidates]
    <3> SUFFICES ASSUME NEW w \in (1 .. N) \X (1 .. N), w[1] < w[2] PROVE Edge(tree, w) \in Candidates
      BY DEF Candidates
    <3>1. w[1] \in 1 .. N - 1 /\ w[2] - 1 \in 1 .. N - 1
      BY <1>3
    <3>2. tree[w[1]] \in Candidates /\ tree[w[2] - 1] \in Candidates /\ None \in Candidates
      BY <1>2, <3>1 DEF Candidates
    <3> QED
      BY <3>2, BestLaw DEF Edge
  <2>2. PICK e \in [(1 .. N) \X (1 .. N) -> Candidates] : e = edge
    BY <2>1
  <2>3. \A w \in (1 .. N) \X (1 .. N) : w[1] < w[2] => e[w] = Edge(tree, w)
    BY <2>2
  <2>4. \A F : F = Walks(F) <=> Walked(F, N, e)
    <3> SUFFICES ASSUME NEW F
                 PROVE  Walks(F) = [w \in (1 .. N) \X (1 .. N) |->
                                      IF w[1] >= w[2] THEN None ELSE Best(e[w], F[Inward(w)])]
      BY DEF Walked
    <3> SUFFICES ASSUME NEW w \in (1 .. N) \X (1 .. N)
                 PROVE  Walks(F)[w] = IF w[1] >= w[2] THEN None ELSE Best(e[w], F[Inward(w)])
      OBVIOUS
    <3>1. w[1] \in Nat /\ w[2] \in Nat
      BY <1>3
    <3>2. Walks(F)[w] = IF w[1] >= w[2] THEN None ELSE Best(Edge(tree, w), F[Inward(w)])
      <4> HIDE DEF edge, N, W
      <4> QED
        BY DEF Edge, Inward
    <3>3. CASE w[1] >= w[2]
      BY <3>2, <3>3
    <3>4. CASE ~(w[1] >= w[2])
      <4>1. w[1] < w[2]
        BY <3>1, <3>4
      <4> HIDE DEF Walks, edge, W
      <4> QED
        BY <2>3, <3>2, <3>4, <4>1
    <3> QED
      BY <3>3, <3>4
  <2> HIDE DEF Walks, edge
  <2>5. N \in Nat
    BY <1>3
  <2>6. \E F : F = Walks(F)
    <3> HIDE DEF N
    <3> QED
      BY <2>4, <2>5, WalkExists
  <2>7. W = Walks(W)
    BY <2>6
  <2>8. PICK F : F = W /\ Walked(F, N, e)
    BY <2>4, <2>7
  <2> HIDE DEF W
  <2>9. PICK w \in (1 .. N) \X (1 .. N) : w = <<s, s + b>> /\ w[1] = s /\ w[2] = s + b
    <3>1. PICK l \in 1 .. N, r \in 1 .. N : l = s /\ r = s + b
      BY <1>3, <1>5
    <3>2. <<l, r>> \in (1 .. N) \X (1 .. N) /\ <<l, r>>[1] = l /\ <<l, r>>[2] = r
      OBVIOUS
    <3> QED
      BY <3>1, <3>2
  <2>10. IsTop(F[w], tree, s, (s + b) - 1)
    <3>1. IsTop(F[w], tree, w[1], w[2] - 1)
      BY <1>2, <1>3, <2>3, <2>8, WalkLaw
    <3> QED
      BY <2>9, <3>1
  <2>11. PICK x : x = BestUpTo(b) /\ IsTop(x, tree, s, (s + b) - 1)
    BY <1>1, <1>5, <2>8, <2>9, <2>10
  <2>12. \A d \in 1 .. b : d \in 1 .. n /\ s + d - 1 \in s .. (s + b) - 1
    BY <1>3
  <2>13. \A i \in s .. (s + b) - 1 : \E d \in 1 .. b : i = s + d - 1
    <3> SUFFICES ASSUME NEW i \in s .. (s + b) - 1 PROVE \E d \in 1 .. b : i = s + d - 1
      OBVIOUS
    <3>1. PICK d \in 1 .. b : d = i - s + 1
      BY <1>3
    <3> QED
      BY <1>3, <3>1
  <2>14. \A d \in 1 .. b : NoWorse(x, heads[d])
    BY <1>2, <2>11, <2>12 DEF IsTop
  <2>15. x = None \/ \E d \in 1 .. b : heads[d] = x
    <3> SUFFICES ASSUME NEW i \in s .. (s + b) - 1, tree[i] = x PROVE \E d \in 1 .. b : heads[d] = x
      BY <2>11 DEF IsTop
    <3>1. PICK d \in 1 .. b : i = s + d - 1
      BY <2>13
    <3>2. d \in 1 .. n
      BY <2>12
    <3> QED
      BY <1>2, <3>1, <3>2
  <2> QED
    BY <2>11, <2>14, <2>15 DEF IsTop
<1> QED
  BY <1>4, <1>5

-----------------------------------------------------------------------------
(* The buckets *)

\* A prefix of the places 1 .. n.
LEMMA PrefixLaw ==
  ASSUME NEW n \in Nat, NEW T \in SUBSET (1 .. n), \A i \in T, j \in 1 .. n : j < i => j \in T
  PROVE  Cardinality(T) \in 0 .. n /\ T = 1 .. Cardinality(T)
<1>1. PICK U : U = (1 .. n + 1) \ T
  OBVIOUS
<1>2. n + 1 \in U /\ U \in SUBSET Nat
  BY <1>1
<1>3. PICK m \in U : \A j \in U : m <= j
  BY <1>2, SmallestOfNats
<1>4. PICK k \in 0 .. n : k = m - 1
  BY <1>1, <1>2, <1>3
<1>5. T = 1 .. k
  <2>1. ASSUME NEW i \in 1 .. k PROVE i \in T
    <3>1. i \in 1 .. n + 1 /\ ~(m <= i)
      BY <1>1, <1>4
    <3> QED
      BY <1>1, <1>3, <3>1
  <2>2. ASSUME NEW i \in T PROVE i \in 1 .. k
    <3>1. i \in 1 .. n /\ m \in 1 .. n + 1 /\ m \notin T
      BY <1>1
    <3>2. m = i \/ m < i \/ i < m
      BY <3>1
    <3>3. ~(m < i)
      BY <3>1
    <3> QED
      BY <1>4, <3>1, <3>2, <3>3
  <2> QED
    BY <2>1, <2>2
<1>6. Cardinality(1 .. k) = k
  BY FS_Interval
<1> QED
  BY <1>5, <1>6

\* Rising lists a finite set of numbers from the smallest.
LEMMA RisingLaw ==
  ASSUME NEW D \in SUBSET Nat, IsFiniteSet(D)
  PROVE  /\ Rising(D) \in Seq(D) /\ Len(Rising(D)) \in Nat
         /\ \A i, j \in 1 .. Len(Rising(D)) : i < j => Rising(D)[i] < Rising(D)[j]
         /\ \A d \in D : \E i \in 1 .. Len(Rising(D)) : Rising(D)[i] = d
<1>1. \E s \in SetToSeqs(D) : \A i, j \in DOMAIN s : i < j => s[i] < s[j]
  BY OrderExists
<1>2. Rising(D) \in SetToSeqs(D) /\ \A i, j \in DOMAIN Rising(D) : i < j => Rising(D)[i] < Rising(D)[j]
  BY <1>1 DEF Rising
<1>3. /\ DOMAIN Rising(D) = 1 .. Len(Rising(D)) /\ Rising(D) \in Seq(D)
      /\ \A d \in D : \E i \in 1 .. Len(Rising(D)) : Rising(D)[i] = d
  BY <1>2, FullList
<1>4. Len(Rising(D)) \in Nat
  BY <1>3
<1> QED
  BY <1>2, <1>3, <1>4

\* The wages asked, from the lowest.
LEMMA LevelsLaw ==
  ASSUME Pool(plan) \subseteq Households, plan.asks \in [Pool(plan) -> Wages]
  PROVE  /\ Len(Levels) \in Nat
         /\ \A b \in 1 .. Len(Levels) : Levels[b] \in Nat /\ \E h \in Pool(plan) : Asked(h) = Levels[b]
         /\ \A h \in Pool(plan) : \E b \in 1 .. Len(Levels) : Asked(h) = Levels[b]
         /\ \A b, c \in 1 .. Len(Levels) : b < c => Levels[b] < Levels[c]
<1>1. PICK D : D = {Asked(h) : h \in DOMAIN plan.asks}
  OBVIOUS
<1>2. DOMAIN plan.asks = Pool(plan)
  OBVIOUS
<1>3. PICK R : R = {Single[w] : w \in Wages}
  OBVIOUS
<1>4. D \in SUBSET Nat /\ IsFiniteSet(D)
  <2>1. IsFiniteSet(Wages) /\ R \subseteq Nat
    BY <1>3, LaborAssumption
  <2>2. IsFiniteSet(R)
    <3>1. Single \in Surjection(Wages, R)
      BY <1>3, LaborAssumption DEF Surjection
    <3> QED
      BY <2>1, <3>1, FS_Surjection
  <2>3. D \subseteq R
    BY <1>1, <1>2, <1>3 DEF Asked
  <2> QED
    BY <2>1, <2>2, <2>3, FS_Subset
<1>5. /\ Levels \in Seq(D) /\ Len(Levels) \in Nat
      /\ \A i, j \in 1 .. Len(Levels) : i < j => Levels[i] < Levels[j]
      /\ \A d \in D : \E i \in 1 .. Len(Levels) : Levels[i] = d
  BY <1>1, <1>4, RisingLaw DEF Levels
<1>6. \A b \in 1 .. Len(Levels) : Levels[b] \in D
  BY <1>5
<1>7. \A h \in Pool(plan) : Asked(h) \in D
  BY <1>1, <1>2
<1>8. \A d \in D : d \in Nat /\ \E h \in Pool(plan) : Asked(h) = d
  BY <1>1, <1>2, <1>4
<1> QED
  BY <1>5, <1>6, <1>7, <1>8

\* The job seekers who ask for the b-th wage.
Asking(b) == {h \in Pool(plan) : Asked(h) = Levels[b]}
Filled(bs) == bs = [b \in 1 .. Len(Levels) |-> Ranked(Asking(b))]

\* A bucket is not empty, and lists who asks for its wage, the best first.
LEMMA BucketsLaw ==
  ASSUME Pool(plan) \subseteq Households, plan.asks \in [Pool(plan) -> Wages], NEW bs, Filled(bs)
  PROVE  /\ Len(bs) = Len(Levels) /\ Len(bs) \in Nat /\ DOMAIN bs = 1 .. Len(bs)
         /\ \A b \in 1 .. Len(bs) :
              /\ Len(bs[b]) \in Nat /\ Len(bs[b]) >= 1
              /\ \A i \in 1 .. Len(bs[b]) : /\ bs[b][i] \in Pool(plan) /\ bs[b][i] \in Households
                                            /\ Asked(bs[b][i]) = Levels[b]
              /\ \A i, j \in 1 .. Len(bs[b]) : i < j => Better(bs[b][i], bs[b][j])
              /\ \A i, j \in 1 .. Len(bs[b]) : i # j => bs[b][i] # bs[b][j]
              /\ \A h \in Pool(plan) : Asked(h) = Levels[b] => \E i \in 1 .. Len(bs[b]) : bs[b][i] = h
<1>1. Len(Levels) \in Nat
  BY LevelsLaw
<1>2. Len(bs) = Len(Levels) /\ DOMAIN bs = 1 .. Len(bs) /\ \A b \in 1 .. Len(bs) : bs[b] = Ranked(Asking(b))
  BY <1>1 DEF Filled
<1>3. ASSUME NEW b \in 1 .. Len(bs)
      PROVE  /\ Len(bs[b]) \in Nat /\ Len(bs[b]) >= 1
             /\ \A i \in 1 .. Len(bs[b]) : /\ bs[b][i] \in Pool(plan) /\ bs[b][i] \in Households
                                           /\ Asked(bs[b][i]) = Levels[b]
             /\ \A i, j \in 1 .. Len(bs[b]) : i < j => Better(bs[b][i], bs[b][j])
             /\ \A i, j \in 1 .. Len(bs[b]) : i # j => bs[b][i] # bs[b][j]
             /\ \A h \in Pool(plan) : Asked(h) = Levels[b] => \E i \in 1 .. Len(bs[b]) : bs[b][i] = h
  <2>1. PICK S : S = Asking(b)
    OBVIOUS
  <2>2. S \in SUBSET Households
    BY <2>1 DEF Asking
  <2>3. PICK s : s = bs[b] /\ s = Ranked(S)
    BY <1>2, <2>1
  <2>4. /\ IsFiniteSet(S) /\ s \in SetToSeqs(S)
        /\ \A i, j \in 1 .. Len(s) : i < j => Better(s[i], s[j])
    BY <2>2, <2>3, RankedLaw
  <2>5. /\ s \in Seq(S)
        /\ \A i, j \in 1 .. Len(s) : i # j => s[i] # s[j]
        /\ \A h \in S : \E i \in 1 .. Len(s) : s[i] = h
    BY <2>4, FullList
  <2>6. Len(s) \in Nat /\ \A i \in 1 .. Len(s) : s[i] \in S
    BY <2>5
  <2>7. \A h : h \in S <=> h \in Pool(plan) /\ Asked(h) = Levels[b]
    BY <2>1 DEF Asking
  <2>8. \E h \in S : TRUE
    BY <1>2, <2>7, LevelsLaw
  <2>9. Len(s) >= 1
    BY <2>5, <2>6, <2>8
  <2> HIDE <2>1
  <2> QED
    BY <2>2, <2>3, <2>4, <2>5, <2>6, <2>7, <2>9
<1> QED
  BY <1>1, <1>2, <1>3

\* The bucket of a job seeker, and the buckets up to an offer.
LEMMA AffordableLaw ==
  ASSUME Pool(plan) \subseteq Households, plan.asks \in [Pool(plan) -> Wages], Filled(buckets),
         plan.offer[Firm] \in Nat
  PROVE  /\ Affordable \in 0 .. NBuckets
         /\ \A b \in 1 .. NBuckets : b \in 1 .. Affordable <=> Levels[b] <= plan.offer[Firm]
         /\ \A h \in Pool(plan) : BucketOf(h) \in 1 .. NBuckets /\ Asked(h) = Levels[BucketOf(h)]
<1>1. /\ NBuckets = Len(Levels) /\ NBuckets \in Nat
      /\ \A b \in 1 .. NBuckets : Asked(buckets[b][1]) = Levels[b]
  <2>1. Len(buckets) = Len(Levels) /\ Len(buckets) \in Nat
    BY BucketsLaw
  <2>2. ASSUME NEW b \in 1 .. Len(buckets) PROVE Asked(buckets[b][1]) = Levels[b]
    <3>1. 1 \in 1 .. Len(buckets[b])
      BY BucketsLaw
    <3> QED
      BY <3>1, BucketsLaw
  <2> QED
    BY <2>1, <2>2 DEF NBuckets
<1>2. \A b \in 1 .. NBuckets : Levels[b] \in Nat
  BY <1>1, LevelsLaw
<1>3. \A b, c \in 1 .. NBuckets : b < c => Levels[b] < Levels[c]
  BY <1>1, LevelsLaw
<1>4. PICK T : T = {i \in 1 .. NBuckets : Asked(buckets[i][1]) <= plan.offer[Firm]}
  OBVIOUS
<1>5. \A i : i \in T <=> i \in 1 .. NBuckets /\ Levels[i] <= plan.offer[Firm]
  BY <1>1, <1>4
<1>6. \A i \in T, j \in 1 .. NBuckets : j < i => j \in T
  <2> SUFFICES ASSUME NEW i \in T, NEW j \in 1 .. NBuckets, j < i PROVE j \in T
    OBVIOUS
  <2>1. Levels[j] < Levels[i] /\ Levels[i] <= plan.offer[Firm] /\ Levels[i] \in Nat /\ Levels[j] \in Nat
    BY <1>2, <1>3, <1>5
  <2>2. Levels[j] <= plan.offer[Firm]
    BY <2>1
  <2> QED
    BY <1>5, <2>2
<1>7. Affordable = Cardinality(T)
  BY <1>4 DEF Affordable
<1>8. T \in SUBSET (1 .. NBuckets)
  BY <1>4
<1>9. Affordable \in 0 .. NBuckets /\ T = 1 .. Affordable
  BY <1>1, <1>6, <1>7, <1>8, PrefixLaw
<1>10. ASSUME NEW h \in Pool(plan) PROVE BucketOf(h) \in 1 .. NBuckets /\ Asked(h) = Levels[BucketOf(h)]
  <2>1. \E b \in 1 .. NBuckets : Asked(buckets[b][1]) = Asked(h)
    BY <1>1, LevelsLaw
  <2>2. PICK c : c = BucketOf(h) /\ c \in 1 .. NBuckets /\ Asked(buckets[c][1]) = Asked(h)
    BY <2>1 DEF BucketOf
  <2> QED
    BY <1>1, <2>2
<1> QED
  BY <1>5, <1>9, <1>10

-----------------------------------------------------------------------------
(* The direct search *)

\* The first n of a list.
LEMMA FirstOfList ==
  ASSUME NEW D, NEW s \in Seq(D), NEW n \in 0 .. Len(s)
  PROVE  /\ SubSeq(s, 1, n) \in Seq(D) /\ Len(SubSeq(s, 1, n)) = n
         /\ \A i \in 1 .. n : SubSeq(s, 1, n)[i] = s[i]
         /\ \A h : h \in ToSet(SubSeq(s, 1, n)) <=> \E i \in 1 .. n : s[i] = h
         /\ n < Len(s) => SubSeq(s, 1, n + 1) = Append(SubSeq(s, 1, n), s[n + 1])
<1>1. Len(s) \in Nat /\ n \in Nat
  OBVIOUS
<1>2. ASSUME NEW m \in 0 .. Len(s)
      PROVE  /\ SubSeq(s, 1, m) \in Seq(D) /\ Len(SubSeq(s, 1, m)) = m
             /\ \A i \in 1 .. m : SubSeq(s, 1, m)[i] = s[i]
  <2>1. 1 \in Int /\ m \in Int /\ \A i \in 1 .. m : s[i] \in D
    OBVIOUS
  <2>2. /\ SubSeq(s, 1, m) \in Seq(D)
        /\ Len(SubSeq(s, 1, m)) = IF 1 <= m THEN m - 1 + 1 ELSE 0
        /\ \A i \in 1 .. m - 1 + 1 : SubSeq(s, 1, m)[i] = s[1 + i - 1]
    BY <2>1, SubSeqProperties
  <2>3. (IF 1 <= m THEN m - 1 + 1 ELSE 0) = m /\ m - 1 + 1 = m /\ \A i \in 1 .. m : 1 + i - 1 = i
    BY <1>1
  <2> QED
    BY <2>2, <2>3
<1>3. PICK t : t = SubSeq(s, 1, n) /\ t \in Seq(D) /\ Len(t) = n /\ \A i \in 1 .. n : t[i] = s[i]
  BY <1>2
<1>4. ASSUME NEW h PROVE h \in ToSet(t) <=> \E i \in 1 .. n : s[i] = h
  <2>1. t \in Seq(D) /\ Len(t) = n
    BY <1>3
  <2>2. h \in ToSet(t) <=> \E i \in 1 .. Len(t) : t[i] = h
    BY <2>1, Elements
  <2>3. \A i \in 1 .. n : t[i] = s[i]
    BY <1>3
  <2> QED
    BY <2>1, <2>2, <2>3
<1>5. ASSUME n < Len(s) PROVE SubSeq(s, 1, n + 1) = Append(t, s[n + 1])
  <2>1. PICK m \in 0 .. Len(s) : m = n + 1 /\ m \in 1 .. Len(s)
    BY <1>1, <1>5
  <2>2. PICK u : u = SubSeq(s, 1, m) /\ u \in Seq(D) /\ Len(u) = m /\ \A i \in 1 .. m : u[i] = s[i]
    BY <1>2
  <2>3. PICK h : h = s[m] /\ h \in D
    BY <2>1
  <2>4. \A i \in 1 .. m : i \in 1 .. n \/ i = m
    BY <1>1, <2>1
  <2>5. /\ Append(t, h) \in Seq(D) /\ Len(Append(t, h)) = m
        /\ \A i \in 1 .. m : Append(t, h)[i] = IF i = m THEN h ELSE t[i]
    BY <1>3, <2>1, <2>3
  <2>6. \A i \in 1 .. m : u[i] = Append(t, h)[i]
    BY <1>3, <2>2, <2>3, <2>4, <2>5
  <2>7. u = Append(t, h)
    BY <2>2, <2>5, <2>6
  <2> QED
    BY <2>1, <2>2, <2>3, <2>7
<1> QED
  BY <1>3, <1>4, <1>5

Rows == [taken : SUBSET Households, hired : [Firms -> Seq(Households)]]

\* Whom the direct search gives the k-th firm, when was is what it had before.
Chosen(firms, k, was) ==
  LET eligible == Ranked(Willing(firms[k], was.taken))
  IN SubSeq(eligible, 1, Least(plan.hires[firms[k]], Len(eligible)))
Fresh == [taken |-> Incumbents(plan), hired |-> [f \in Firms |-> <<>>]]
Serve(firms, k, was) ==
  [taken |-> was.taken \cup ToSet(Chosen(firms, k, was)),
   hired |-> [was.hired EXCEPT ![firms[k]] = Chosen(firms, k, was)]]

\* The firms are served in a market of plans.
Hiring(firms) ==
  /\ firms \in Seq(Firms) /\ Len(firms) \in Nat
  /\ \A k \in 1 .. Len(firms) : plan.hires[firms[k]] \in Nat
  /\ Pool(plan) \subseteq Households /\ Incumbents(plan) \subseteq Households

\* Who would work for the offer and is free, the best first.
LEMMA WillingLaw ==
  ASSUME Pool(plan) \subseteq Households, NEW f, NEW taken, NEW s, s = Ranked(Willing(f, taken))
  PROVE  /\ s \in Seq(Households) /\ Len(s) \in Nat
         /\ \A h : (\E i \in 1 .. Len(s) : s[i] = h)
                     <=> h \in Pool(plan) /\ h \notin taken /\ Asked(h) <= Single[plan.offer[f]]
         /\ \A i, j \in 1 .. Len(s) : i < j => Better(s[i], s[j])
         /\ \A i, j \in 1 .. Len(s) : i # j => s[i] # s[j]
<1>1. PICK S : S = Willing(f, taken)
  OBVIOUS
<1>2. S \in SUBSET Households /\ \A h : h \in S <=> h \in Pool(plan) /\ h \notin taken /\ Asked(h) <= Single[plan.offer[f]]
  BY <1>1 DEF Willing
<1>3. IsFiniteSet(S) /\ s \in SetToSeqs(S) /\ \A i, j \in 1 .. Len(s) : i < j => Better(s[i], s[j])
  BY <1>1, <1>2, RankedLaw
<1>4. /\ s \in Seq(S) /\ \A i, j \in 1 .. Len(s) : i # j => s[i] # s[j]
      /\ \A h \in S : \E i \in 1 .. Len(s) : s[i] = h
  BY <1>3, FullList
<1>5. Len(s) \in Nat /\ (\A i \in 1 .. Len(s) : s[i] \in S) /\ s \in Seq(Households)
  BY <1>2, <1>4
<1> QED
  BY <1>2, <1>3, <1>4, <1>5

\* When rounding decides nothing, an offer compares with an ask in either precision.
LEMMA RoundedLaw ==
  ASSUME RoundingDecidesNothing,
         plan.asks \in [Pool(plan) -> Wages], plan.offer \in [HiringFirms(plan) -> Wages],
         NEW f \in HiringFirms(plan), NEW h \in Pool(plan)
  PROVE  Asked(h) <= Single[plan.offer[f]] <=> Asked(h) <= plan.offer[f]
<1>1. plan.asks[h] \in Wages /\ plan.offer[f] \in Wages /\ h \in DOMAIN plan.asks /\ f \in DOMAIN plan.offer
  OBVIOUS
<1>2. Asked(h) <= plan.offer[f] => Asked(h) <= Single[plan.offer[f]]
  BY <1>1, LaborAssumption DEF Asked
<1> QED
  BY <1>1, <1>2 DEF RoundingDecidesNothing

\* Serving a firm gives a row again.
LEMMA ServeTyped ==
  ASSUME NEW firms, Hiring(firms), NEW k \in 1 .. Len(firms), NEW was \in Rows
  PROVE  Serve(firms, k, was) \in Rows
<1>1. PICK s : s = Ranked(Willing(firms[k], was.taken))
  OBVIOUS
<1>2. s \in Seq(Households) /\ Len(s) \in Nat
  BY <1>1, WillingLaw DEF Hiring
<1>3. PICK n \in Nat : n = Least(plan.hires[firms[k]], Len(s)) /\ n <= Len(s)
  <2>1. plan.hires[firms[k]] \in Nat
    BY DEF Hiring
  <2> QED
    BY <1>2, <2>1 DEF Least
<1>4. PICK c : c = SubSeq(s, 1, n) /\ c \in Seq(Households)
  <2>1. n \in 0 .. Len(s)
    BY <1>2, <1>3
  <2> QED
    BY <1>2, <2>1, FirstOfList
<1>5. Chosen(firms, k, was) = c
  BY <1>1, <1>3, <1>4 DEF Chosen
<1>6. ToSet(c) \subseteq Households
  BY <1>4, Elements
<1>7. firms[k] \in Firms
  BY DEF Hiring
<1>8. was.taken \in SUBSET Households /\ was.hired \in [Firms -> Seq(Households)]
  BY DEF Rows
<1> QED
  BY <1>4, <1>5, <1>6, <1>7, <1>8 DEF Serve, Rows

\* The direct search serves the firms one after the other.
LEMMA LegacyLaw ==
  ASSUME NEW firms, Hiring(firms)
  PROVE  /\ LegacyRow(firms)[0] = Fresh
         /\ \A k \in 1 .. Len(firms) : LegacyRow(firms)[k] = Serve(firms, k, LegacyRow(firms)[k - 1])
         /\ \A k \in 0 .. Len(firms) : LegacyRow(firms)[k] \in Rows
<1> DEFINE n == Len(firms)
           Body(S) == [k \in 0 .. n |->
             IF k = 0 THEN [taken |-> Incumbents(plan), hired |-> [f \in Firms |-> <<>>]]
             ELSE LET was == S[k - 1]
                      eligible == Ranked(Willing(firms[k], was.taken))
                      new == SubSeq(eligible, 1, Least(plan.hires[firms[k]], Len(eligible)))
                  IN [taken |-> was.taken \cup ToSet(new), hired |-> [was.hired EXCEPT ![firms[k]] = new]]]
           step == [p \in (1 .. n) \X Rows |-> Serve(firms, p[1], p[2])]
<1>1. LegacyRow(firms) = CHOOSE S : S = Body(S)
  BY DEF LegacyRow
<1>2. n \in Nat
  BY DEF Hiring
<1>3. \A S : Body(S) = [k \in 0 .. n |-> IF k = 0 THEN Fresh ELSE Serve(firms, k, S[k - 1])]
  BY DEF Fresh, Serve, Chosen
<1>4. \A k \in 1 .. n, v \in Rows : step[<<k, v>>] = Serve(firms, k, v)
  OBVIOUS
<1> HIDE DEF n, Body
<1>5. Fresh \in Rows
  <2>1. [f \in Firms |-> <<>>] \in [Firms -> Seq(Households)]
    OBVIOUS
  <2> QED
    BY <2>1 DEF Fresh, Rows, Hiring
<1>6. \A k \in 1 .. n, v \in Rows : Serve(firms, k, v) \in Rows
  BY ServeTyped DEF n
<1>7. PICK V, base : V = Rows /\ base = Fresh
  OBVIOUS
<1>8. PICK A : A \in [0 .. n -> V] /\ A[0] = base /\ \A k \in 1 .. n : A[k] = step[<<k, A[k - 1]>>]
  <2>1. base \in V /\ \A k \in 1 .. n, v \in V : step[<<k, v>>] \in V
    <3> HIDE DEF step
    <3> QED
      BY <1>4, <1>5, <1>6, <1>7
  <2> HIDE DEF step
  <2>2. \E A : Follows(A, n, V, base, step)
    BY <1>2, <2>1, RowExists
  <2> QED
    BY <2>2 DEF Follows
<1> HIDE DEF step
<1>9. ASSUME NEW k \in 0 .. n PROVE A[k] = IF k = 0 THEN Fresh ELSE Serve(firms, k, A[k - 1])
  <2>1. CASE k = 0
    BY <1>7, <1>8, <2>1
  <2>2. CASE k # 0
    <3>1. k \in 1 .. n /\ k - 1 \in 0 .. n
      BY <1>2, <2>2
    <3>2. A[k - 1] \in Rows /\ A[k] = step[<<k, A[k - 1]>>]
      BY <1>7, <1>8, <3>1
    <3> QED
      BY <1>4, <2>2, <3>1, <3>2
  <2> QED
    BY <2>1, <2>2
<1>10. A = [k \in 0 .. n |-> IF k = 0 THEN Fresh ELSE Serve(firms, k, A[k - 1])]
  BY <1>8, <1>9
<1>11. A = Body(A)
  BY <1>3, <1>10
<1>12. PICK S : S = LegacyRow(firms) /\ S = Body(S)
  BY <1>1, <1>11
<1>13. S = [k \in 0 .. n |-> IF k = 0 THEN Fresh ELSE Serve(firms, k, S[k - 1])]
  BY <1>3, <1>12
<1>14. \A k \in 0 .. n : S[k] = IF k = 0 THEN Fresh ELSE Serve(firms, k, S[k - 1])
  BY <1>13
<1>15. S[0] = Fresh /\ \A k \in 1 .. n : S[k] = Serve(firms, k, S[k - 1])
  <2>1. 0 \in 0 .. n /\ \A k \in 1 .. n : k \in 0 .. n /\ k # 0
    BY <1>2
  <2> QED
    BY <1>14, <2>1
<1>16. \A k \in 0 .. n : S[k] \in Rows
  <2> DEFINE P == {k \in 0 .. n : S[k] \in Rows}
  <2>1. 0 \in P
    BY <1>2, <1>5, <1>15
  <2>2. ASSUME NEW k \in 1 .. n, k - 1 \in P PROVE k \in P
    <3>1. k \in 0 .. n
      BY <1>2
    <3>2. PICK v \in Rows : v = S[k - 1]
      BY <2>2
    <3>3. S[k] = Serve(firms, k, v)
      BY <1>15, <3>2
    <3> QED
      BY <1>6, <3>1, <3>2, <3>3
  <2>3. P \in SUBSET (0 .. n)
    OBVIOUS
  <2>4. P = 0 .. n
    <3> HIDE DEF P
    <3> QED
      BY <1>2, <2>1, <2>2, <2>3, UpTo
  <2> QED
    BY <2>4
<1> QED
  BY <1>12, <1>15, <1>16 DEF n

-----------------------------------------------------------------------------
(* A calm week *)

\* A week without switchers, without a firm that both hires and lays off, and without an ask that
\* rounding lifts over an offer.
Calm ==
  /\ plan.switching = {}
  /\ \A f \in Market : plan.hires[f] = 0 \/ plan.layoffs[f] = {}
  /\ RoundingDecidesNothing

\* The asks and offers of the week, while the matcher needs them.
Bids ==
  pc \in {"open", "hire", "apply"} /\ HiringFirms(plan) # {} =>
    plan.asks \in [Pool(plan) -> Wages] /\ plan.offer \in [HiringFirms(plan) -> Wages]

Heads == [b \in 1 .. NBuckets |-> HeadAt(b, pos[b])]

\* The buckets hold the pool, and have been popped as far as it has found jobs.
Popped ==
  /\ Filled(buckets)
  /\ pos \in [1 .. NBuckets -> Nat \ {0}]
  /\ \A b \in 1 .. NBuckets :
       /\ pos[b] <= Len(buckets[b]) + 1
       /\ \A i \in 1 .. Len(buckets[b]) : buckets[b][i] \in assigned <=> i < pos[b]
  /\ IsTree(tree, Heads)
  /\ aside = <<>>

\* The firm has hired the first of those the direct search would choose from.
Serving ==
  LET was    == LegacyRow(order)[turn - 1]
      ranked == Ranked(Willing(Firm, was.taken))
      m      == Len(hired[Firm])
  IN /\ m <= Len(ranked) /\ m + vacancies = plan.hires[Firm]
     /\ hired = [was.hired EXCEPT ![Firm] = SubSeq(ranked, 1, m)]
     /\ assigned = was.taken \cup ToSet(hired[Firm])

\* In a calm week nobody hires switchers, and no job seeker works at a firm that hires.
LEMMA CalmFirms ==
  ASSUME LInv, Bids, Calm, pc \in {"open", "hire"}, HiringFirms(plan) # {}
  PROVE  /\ Pool(plan) \subseteq Households /\ Incumbents(plan) \subseteq Households
         /\ plan.asks \in [Pool(plan) -> Wages] /\ Wages \subseteq Nat
         /\ plan.offer \in [HiringFirms(plan) -> Wages]
         /\ SwitcherFirms(plan) = {}
         /\ HiringFirms(plan) \subseteq Firms
         /\ \A f \in HiringFirms(plan) :
              /\ plan.offer[f] \in Nat /\ plan.hires[f] \in Nat /\ Openings(f) = plan.hires[f]
              /\ \A h \in Pool(plan) : employer[h] # f
         /\ \A firms \in SetToSeqs(HiringFirms(plan)) :
              /\ Hiring(firms)
              /\ \A k \in 1 .. Len(firms) : firms[k] \in HiringFirms(plan)
              /\ \A i, j \in 1 .. Len(firms) : i # j => firms[i] # firms[j]
<1>1. TypeOK /\ Plans /\ Linked
  BY DEF LInv
<1>2. /\ plan.canWork \subseteq Households /\ plan.hires \in [Market -> Nat]
      /\ plan.layoffs \in [Firms -> SUBSET Households]
      /\ \A f \in Firms : plan.layoffs[f] \subseteq roster[f]
      /\ \A f \in Firms : roster[f] = {h \in Households : employer[h] = f}
  BY <1>1 DEF Plans, Linked
<1>3. Pool(plan) \subseteq Households /\ Incumbents(plan) \subseteq Households
  BY <1>2 DEF Pool, Incumbents
<1>4. SwitcherFirms(plan) = {}
  BY DEF Calm, SwitcherFirms
<1>5. /\ plan.asks \in [Pool(plan) -> Wages] /\ Wages \subseteq Nat
      /\ plan.offer \in [HiringFirms(plan) -> Wages]
  BY LaborAssumption DEF Bids
<1>6. /\ HiringFirms(plan) \subseteq Market /\ Market \subseteq Firms
      /\ \A f \in HiringFirms(plan) : plan.hires[f] > 0
  BY <1>1, <1>4 DEF HiringFirms, Market, TypeOK
<1>7. ASSUME NEW f \in HiringFirms(plan), NEW h \in Pool(plan) PROVE employer[h] # f
  <2> SUFFICES ASSUME employer[h] = f PROVE FALSE
    OBVIOUS
  <2>1. f \in Firms /\ f \in Market /\ None \notin Firms /\ plan.hires[f] \in Nat /\ plan.hires[f] > 0
    BY <1>2, <1>6, Constants
  <2>2. h \in Households /\ h \in plan.canWork /\ h \notin Incumbents(plan)
    BY <1>3 DEF Pool
  <2>3. h \in plan.canWork \cap Employed
    BY <2>1, <2>2 DEF Employed
  <2>4. h \in LaidOff(plan)
    BY <2>2, <2>3 DEF Incumbents, Calm
  <2>5. PICK g \in Firms : h \in plan.layoffs[g]
    BY <2>4 DEF LaidOff
  <2>6. g = f
    BY <1>2, <2>2, <2>5
  <2>7. plan.layoffs[f] = {}
    BY <2>1 DEF Calm
  <2> QED
    BY <2>5, <2>6, <2>7
<1>8. \A f \in HiringFirms(plan) : plan.offer[f] \in Nat /\ plan.hires[f] \in Nat /\ Openings(f) = plan.hires[f]
  BY <1>2, <1>4, <1>5, <1>6 DEF Openings
<1>9. ASSUME NEW firms \in SetToSeqs(HiringFirms(plan))
      PROVE  /\ Hiring(firms)
             /\ \A k \in 1 .. Len(firms) : firms[k] \in HiringFirms(plan)
             /\ \A i, j \in 1 .. Len(firms) : i # j => firms[i] # firms[j]
  <2>1. IsFiniteSet(HiringFirms(plan))
    BY <1>6, Constants, FS_Subset
  <2>2. /\ firms \in Seq(HiringFirms(plan))
        /\ \A i, j \in 1 .. Len(firms) : i # j => firms[i] # firms[j]
    BY <2>1, FullList
  <2>3. Len(firms) \in Nat /\ firms \in Seq(Firms) /\ \A k \in 1 .. Len(firms) : firms[k] \in HiringFirms(plan)
    BY <1>6, <2>2
  <2> QED
    BY <1>3, <1>8, <2>2, <2>3 DEF Hiring
<1> QED
  BY <1>3, <1>4, <1>5, <1>6, <1>7, <1>8, <1>9

\* The best head the firm can afford is the next the direct search would hire.
LEMMA NextHire ==
  ASSUME LInv, Bids, Calm, pc = "hire", Popped, Serving,
         NEW x, x = BestUpTo(Affordable),
         NEW s, s = Ranked(Willing(Firm, LegacyRow(order)[turn - 1].taken)),
         NEW m, m = Len(hired[Firm])
  PROVE  /\ s \in Seq(Households) /\ m \in 0 .. Len(s)
         /\ x = None => m = Len(s)
         /\ x # None => /\ m < Len(s) /\ x = s[m + 1]
                        /\ x \in Pool(plan) /\ x \notin assigned
                        /\ pos[BucketOf(x)] \in 1 .. Len(buckets[BucketOf(x)])
                        /\ buckets[BucketOf(x)][pos[BucketOf(x)]] = x
<1> DEFINE taken == LegacyRow(order)[turn - 1].taken
<1>1. /\ Firm \in HiringFirms(plan) /\ Firm \in Firms /\ order \in SetToSeqs(HiringFirms(plan)) /\ turn \in 1 .. Len(order)
      /\ Len(order) \in Nat
  BY FirmsTurn
<1>2. /\ Pool(plan) \subseteq Households /\ plan.asks \in [Pool(plan) -> Wages] /\ Wages \subseteq Nat
      /\ plan.offer \in [HiringFirms(plan) -> Wages]
      /\ plan.offer[Firm] \in Nat /\ Hiring(order)
  BY <1>1, CalmFirms
<1>3. /\ s \in Seq(Households) /\ Len(s) \in Nat
      /\ \A h : (\E i \in 1 .. Len(s) : s[i] = h)
                  <=> h \in Pool(plan) /\ h \notin taken /\ Asked(h) <= plan.offer[Firm]
      /\ \A i, j \in 1 .. Len(s) : i < j => Better(s[i], s[j])
      /\ \A i, j \in 1 .. Len(s) : i # j => s[i] # s[j]
  <2>1. \A h \in Pool(plan) : Asked(h) <= Single[plan.offer[Firm]] <=> Asked(h) <= plan.offer[Firm]
    BY <1>1, <1>2, RoundedLaw DEF Calm
  <2> QED
    BY <1>2, <2>1, WillingLaw
<1>4. m \in Nat /\ m <= Len(s) /\ hired[Firm] \in Seq(Households) /\ assigned = taken \cup ToSet(hired[Firm])
  BY <1>1, InTheMarket DEF Serving
<1>5. hired[Firm] = SubSeq(s, 1, m)
  <2>1. turn - 1 \in 0 .. Len(order)
    BY <1>1
  <2>2. LegacyRow(order)[turn - 1] \in Rows
    BY <1>2, <2>1, LegacyLaw
  <2>3. PICK was : was = LegacyRow(order)[turn - 1] /\ was.hired \in [Firms -> Seq(Households)]
    BY <2>2 DEF Rows
  <2>4. hired = [was.hired EXCEPT ![Firm] = SubSeq(s, 1, m)]
    BY <2>3 DEF Serving
  <2> QED
    BY <1>1, <2>3, <2>4
<1> HIDE DEF taken
<1>6. m \in 0 .. Len(s)
  BY <1>3, <1>4
<1>7. \A h : h \in assigned <=> h \in taken \/ \E i \in 1 .. m : s[i] = h
  BY <1>3, <1>4, <1>5, <1>6, FirstOfList
<1>8. \A i \in 1 .. Len(s) : s[i] \in Households /\ (s[i] \in assigned <=> i \in 1 .. m)
  <2> SUFFICES ASSUME NEW i \in 1 .. Len(s) PROVE s[i] \in Households /\ (s[i] \in assigned <=> i \in 1 .. m)
    OBVIOUS
  <2>1. s[i] \notin taken
    BY <1>3
  <2>2. \A j \in 1 .. m : j \in 1 .. Len(s)
    BY <1>6
  <2> QED
    BY <1>3, <1>7, <2>1, <2>2
<1>9. /\ Filled(buckets) /\ IsTree(tree, Heads)
      /\ \A b \in 1 .. NBuckets :
           /\ pos[b] \in Nat /\ pos[b] >= 1 /\ pos[b] <= Len(buckets[b]) + 1
           /\ \A i \in 1 .. Len(buckets[b]) : buckets[b][i] \in assigned <=> i < pos[b]
  BY DEF Popped
<1>10. /\ NBuckets = Len(buckets) /\ NBuckets \in Nat
       /\ \A b \in 1 .. NBuckets :
            /\ Len(buckets[b]) \in Nat
            /\ \A i \in 1 .. Len(buckets[b]) : /\ buckets[b][i] \in Pool(plan) /\ buckets[b][i] \in Households
                                               /\ Asked(buckets[b][i]) = Levels[b]
            /\ \A i, j \in 1 .. Len(buckets[b]) : i < j => Better(buckets[b][i], buckets[b][j])
            /\ \A h \in Pool(plan) : Asked(h) = Levels[b] => \E i \in 1 .. Len(buckets[b]) : buckets[b][i] = h
  <2>1. PICK bs : bs = buckets /\ Filled(bs)
    BY <1>9
  <2>2. /\ Len(bs) \in Nat
        /\ \A b \in 1 .. Len(bs) :
             /\ Len(bs[b]) \in Nat
             /\ \A i \in 1 .. Len(bs[b]) : /\ bs[b][i] \in Pool(plan) /\ bs[b][i] \in Households
                                           /\ Asked(bs[b][i]) = Levels[b]
             /\ \A i, j \in 1 .. Len(bs[b]) : i < j => Better(bs[b][i], bs[b][j])
             /\ \A h \in Pool(plan) : Asked(h) = Levels[b] => \E i \in 1 .. Len(bs[b]) : bs[b][i] = h
    <3>1. Pool(plan) \subseteq Households /\ plan.asks \in [Pool(plan) -> Wages]
      BY <1>2
    <3>2. Len(bs) \in Nat
      BY <2>1, <3>1, BucketsLaw
    <3> SUFFICES ASSUME NEW b \in 1 .. Len(bs)
                 PROVE  /\ Len(bs[b]) \in Nat
                        /\ \A i \in 1 .. Len(bs[b]) : /\ bs[b][i] \in Pool(plan) /\ bs[b][i] \in Households
                                                      /\ Asked(bs[b][i]) = Levels[b]
                        /\ \A i, j \in 1 .. Len(bs[b]) : i < j => Better(bs[b][i], bs[b][j])
                        /\ \A h \in Pool(plan) : Asked(h) = Levels[b] => \E i \in 1 .. Len(bs[b]) : bs[b][i] = h
      BY <3>2
    <3> QED
      BY <2>1, <3>1, BucketsLaw
  <2> QED
    BY <2>1, <2>2 DEF NBuckets
<1>11. /\ Affordable \in 0 .. NBuckets
       /\ \A b \in 1 .. NBuckets : b \in 1 .. Affordable <=> Levels[b] <= plan.offer[Firm]
       /\ \A h \in Pool(plan) : BucketOf(h) \in 1 .. NBuckets /\ Asked(h) = Levels[BucketOf(h)]
  BY <1>2, <1>9, AffordableLaw
<1>12. \A b \in 1 .. NBuckets : Heads[b] = IF pos[b] <= Len(buckets[b]) THEN buckets[b][pos[b]] ELSE None
  BY DEF Heads, HeadAt
<1>13. ASSUME NEW b \in 1 .. NBuckets PROVE Heads[b] \in Candidates
  <2>1. CASE pos[b] <= Len(buckets[b])
    <3>1. pos[b] \in 1 .. Len(buckets[b])
      BY <1>9, <1>10, <2>1
    <3> QED
      BY <1>10, <1>12, <2>1, <3>1 DEF Candidates
  <2>2. CASE ~(pos[b] <= Len(buckets[b]))
    BY <1>12, <2>2 DEF Candidates
  <2> QED
    BY <2>1, <2>2
<1>14. Heads \in Seq(Candidates) /\ Len(Heads) = NBuckets
  <2>1. Heads \in [1 .. NBuckets -> Candidates]
    BY <1>13 DEF Heads
  <2> QED
    BY <1>10, <2>1
<1>15. PICK k \in 0 .. NBuckets : k = Affordable
  BY <1>11
<1>16. IsTop(x, Heads, 1, k)
  BY <1>9, <1>14, <1>15, BestUpToLaw
\* What is left of the list is behind some affordable head, and the best head is not worse.
<1>17. ASSUME NEW i \in 1 .. Len(s), i > m PROVE NoWorse(x, s[i])
  <2>1. PICK y : y = s[i] /\ y \in Pool(plan) /\ y \notin assigned /\ Asked(y) <= plan.offer[Firm] /\ y \in Households
    BY <1>3, <1>4, <1>8, <1>17
  <2>2. PICK b \in 1 .. NBuckets : Asked(y) = Levels[b]
    BY <1>11, <2>1
  <2>3. b \in 1 .. k
    BY <1>11, <1>15, <2>1, <2>2
  <2>4. PICK j \in 1 .. Len(buckets[b]) : buckets[b][j] = y
    BY <1>10, <2>1, <2>2
  <2>5. ~(j < pos[b]) /\ pos[b] \in Nat /\ pos[b] >= 1 /\ Len(buckets[b]) \in Nat
    BY <1>9, <1>10, <2>1, <2>4
  <2>6. pos[b] \in 1 .. Len(buckets[b]) /\ (pos[b] = j \/ pos[b] < j)
    BY <2>5
  <2>7. PICK z : z = Heads[b] /\ z = buckets[b][pos[b]] /\ z \in Households
    BY <1>10, <1>12, <2>6
  <2>8. z = y \/ Better(z, y)
    BY <1>10, <2>4, <2>6, <2>7
  <2>9. NoWorse(z, y)
    BY <2>1, <2>7, <2>8, Constants DEF NoWorse
  <2>10. NoWorse(x, z) /\ x \in Candidates
    BY <1>16, <2>3, <2>7 DEF IsTop
  <2>11. z \in Candidates /\ y \in Candidates
    BY <2>1, <2>7 DEF Candidates
  <2> QED
    BY <2>1, <2>9, <2>10, <2>11, BestLaw
<1>18. ASSUME x = None PROVE m = Len(s)
  <2> SUFFICES ASSUME m # Len(s) PROVE FALSE
    OBVIOUS
  <2>1. PICK i \in 1 .. Len(s) : i = m + 1 /\ i > m
    BY <1>3, <1>6
  <2>2. NoWorse(None, s[i])
    BY <1>17, <1>18, <2>1
  <2> QED
    BY <1>8, <2>2, Constants DEF NoWorse
<1>19. ASSUME x # None
       PROVE  /\ m < Len(s) /\ x = s[m + 1]
              /\ x \in Pool(plan) /\ x \notin assigned
              /\ pos[BucketOf(x)] \in 1 .. Len(buckets[BucketOf(x)])
              /\ buckets[BucketOf(x)][pos[BucketOf(x)]] = x
  <2>1. PICK b \in 1 .. k : Heads[b] = x
    BY <1>16, <1>19 DEF IsTop
  <2>2. b \in 1 .. NBuckets
    BY <1>10, <1>15
  <2>3. pos[b] \in 1 .. Len(buckets[b]) /\ buckets[b][pos[b]] = x
    BY <1>9, <1>10, <1>12, <1>19, <2>1, <2>2
  <2>4. PICK p \in 1 .. Len(buckets[b]) : p = pos[b] /\ ~(p < pos[b])
    BY <1>9, <2>2, <2>3
  <2>5. x \in Pool(plan) /\ x \in Households /\ x \notin assigned /\ Asked(x) = Levels[b]
    BY <1>9, <1>10, <2>2, <2>3, <2>4
  <2>6. Asked(x) <= plan.offer[Firm]
    BY <1>11, <1>15, <2>1, <2>2, <2>5
  <2>7. PICK i \in 1 .. Len(s) : s[i] = x
    BY <1>3, <1>7, <2>5, <2>6
  <2>8. i \notin 1 .. m
    BY <1>8, <2>5, <2>7
  <2>9. PICK n \in 1 .. Len(s) : n = m + 1 /\ n > m /\ (n = i \/ n < i)
    BY <1>3, <1>6, <2>8
  <2>10. n = i
    <3> SUFFICES ASSUME n < i PROVE FALSE
      BY <2>9
    <3>1. Better(s[n], x) /\ s[n] \in Households
      BY <1>3, <1>8, <2>7, <2>9
    <3>2. NoWorse(x, s[n])
      BY <1>17, <2>9
    <3>3. s[n] # None
      BY <3>1, Constants
    <3>4. x = s[n] \/ Better(x, s[n])
      BY <3>2, <3>3 DEF NoWorse
    <3> QED
      BY <2>5, <3>1, <3>4, BetterIsOrder
  <2>11. BucketOf(x) = b
    <3>1. PICK c : c = BucketOf(x) /\ c \in 1 .. NBuckets /\ Levels[c] = Levels[b]
      BY <1>11, <2>5
    <3>2. NBuckets = Len(Levels) /\ \A d \in 1 .. NBuckets : Levels[d] \in Nat
      BY <1>2, <1>9, <1>10, BucketsLaw, LevelsLaw
    <3>3. \A d, e \in 1 .. NBuckets : d < e => Levels[d] < Levels[e]
      BY <1>2, <3>2, LevelsLaw
    <3>4. c < b \/ b < c \/ c = b
      BY <2>2, <3>1
    <3>5. ~(Levels[b] < Levels[b])
      BY <2>2, <3>2
    <3> QED
      BY <2>2, <3>1, <3>3, <3>4, <3>5
  <2>12. m < Len(s) /\ x = s[m + 1]
    BY <1>3, <1>6, <2>7, <2>9, <2>10
  <2> QED
    BY <2>3, <2>5, <2>11, <2>12
<1> QED
  BY <1>3, <1>6, <1>18, <1>19

-----------------------------------------------------------------------------
(* The matcher and the direct search, step by step *)

\* While a market is open its orders are those of the hiring firms; a calm one is as far as the direct
\* search, and has come to the same when it is done.
MatchInv ==
  /\ Bids
  /\ pc \notin {"hire", "apply"} => order = <<>>
  /\ pc = "hire" /\ Calm => Popped /\ Serving
  /\ FastMatchesLegacy

\* What the matcher reads of the agents and of their plans stays while it runs.
LEMMA MarketStays ==
  ASSUME UNCHANGED <<live, employer, plan>>
  PROVE  /\ Pool(plan)' = Pool(plan) /\ Incumbents(plan)' = Incumbents(plan)
         /\ SwitcherFirms(plan)' = SwitcherFirms(plan)
         /\ HiringFirms(plan)' = HiringFirms(plan) /\ Calm' = Calm /\ Levels' = Levels
         /\ \A f, taken : Willing(f, taken)' = Willing(f, taken)
         /\ \A bs : Filled(bs)' = Filled(bs)
         /\ \A firms : LegacyRow(firms)' = LegacyRow(firms)
<1>0. live' = live /\ employer' = employer /\ plan' = plan
  OBVIOUS
<1>1. Market' = Market /\ Employed' = Employed /\ LaidOff(plan)' = LaidOff(plan)
  BY DEF Market, Employed, LaidOff
<1>2. Incumbents(plan)' = Incumbents(plan)
  BY <1>1 DEF Incumbents
<1>3. Pool(plan)' = Pool(plan)
  BY <1>2 DEF Pool
<1>4. SwitcherFirms(plan)' = SwitcherFirms(plan)
  BY <1>1 DEF SwitcherFirms
<1>5. HiringFirms(plan)' = HiringFirms(plan)
  BY <1>1, <1>4 DEF HiringFirms
<1>6. Calm' = Calm
  <2>1. RoundingDecidesNothing' = RoundingDecidesNothing
    BY DEF RoundingDecidesNothing, Asked
  <2> QED
    BY <1>1, <2>1 DEF Calm
<1>7. Levels' = Levels
  BY DEF Levels, Asked
<1>8. \A b : Asking(b)' = Asking(b)
  BY <1>3, <1>7 DEF Asking, Asked
<1>9. \A f, taken : Willing(f, taken)' = Willing(f, taken)
  BY <1>3 DEF Willing, Asked
<1>10. \A bs : Filled(bs)' = Filled(bs)
  BY <1>7, <1>8 DEF Filled
<1>11. ASSUME NEW firms PROVE LegacyRow(firms)' = LegacyRow(firms)
  BY SMT, <1>0 DEF LegacyRow, Incumbents, Pool, Willing, Asked, LaidOff, Employed
<1> QED
  BY <1>2, <1>3, <1>4, <1>5, <1>6, <1>7, <1>9, <1>10, <1>11

\* Nothing is open when the town starts.
LEMMA InitMatch == Init => MatchInv
BY DEF Init, MatchInv, Bids, FastMatchesLegacy

\* The plans name an ask for every job seeker and an offer for every firm that hires.
LEMMA PlanMatch ==
  ASSUME MatchInv, Plan
  PROVE  MatchInv'
<1>1. pc = "plan" /\ pc' = "open" /\ UNCHANGED <<live, employer, order>>
  BY DEF Plan
<1>2. PICK layoffs \in [Firms -> SUBSET Households], canWork \in {Households \ ill : ill \in SUBSET MayBeIll},
           hires \in [Market -> 0 .. MaxHires], project \in (GenericServices \cap live) \cup {None} :
        /\ Staffing(layoffs, hires, project)
        /\ \E switching \in SUBSET MayShop(canWork),
              short \in SUBSET (canWork \cap UNION {layoffs[f] : f \in Firms}) :
             LET p == [NoPlan EXCEPT !.canWork = canWork, !.switching = switching, !.hires = hires,
                         !.layoffs = layoffs, !.searching = Searchers(canWork, switching, short)]
             IN \E offer \in [HiringFirms(p) -> Offers],
                   asks \in [IF HiringFirms(p) = {} THEN {} ELSE Pool(p) -> Asks] :
                  plan' = [p EXCEPT !.offer = offer, !.asks = asks]
  BY DEF Plan
<1>3. PICK p, offer, asks :
        /\ offer \in [HiringFirms(p) -> Offers]
        /\ asks \in [IF HiringFirms(p) = {} THEN {} ELSE Pool(p) -> Asks]
        /\ plan'.offer = offer /\ plan'.asks = asks
        /\ plan'.canWork = p.canWork /\ plan'.switching = p.switching /\ plan'.hires = p.hires
        /\ plan'.layoffs = p.layoffs /\ plan'.searching = p.searching
  <2>1. PICK switching \in SUBSET MayShop(canWork),
             short \in SUBSET (canWork \cap UNION {layoffs[f] : f \in Firms}) :
             LET p == [NoPlan EXCEPT !.canWork = canWork, !.switching = switching, !.hires = hires,
                         !.layoffs = layoffs, !.searching = Searchers(canWork, switching, short)]
             IN \E offer \in [HiringFirms(p) -> Offers],
                   asks \in [IF HiringFirms(p) = {} THEN {} ELSE Pool(p) -> Asks] :
                  plan' = [p EXCEPT !.offer = offer, !.asks = asks]
    BY <1>2
  <2>2. PICK p : p = [NoPlan EXCEPT !.canWork = canWork, !.switching = switching, !.hires = hires,
                        !.layoffs = layoffs, !.searching = Searchers(canWork, switching, short)]
    OBVIOUS
  <2>3. PICK offer \in [HiringFirms(p) -> Offers],
             asks \in [IF HiringFirms(p) = {} THEN {} ELSE Pool(p) -> Asks] :
          plan' = [p EXCEPT !.offer = offer, !.asks = asks]
    BY <2>1, <2>2
  <2>4. /\ plan'.offer = offer /\ plan'.asks = asks
        /\ plan'.canWork = p.canWork /\ plan'.switching = p.switching /\ plan'.hires = p.hires
        /\ plan'.layoffs = p.layoffs /\ plan'.searching = p.searching
    BY <2>2, <2>3 DEF NoPlan
  <2> QED
    BY <2>3, <2>4
<1>4. HiringFirms(plan)' = HiringFirms(p)
  <2>1. Market' = Market
    BY <1>1 DEF Market
  <2>2. SwitcherFirms(plan)' = SwitcherFirms(p)
    BY <1>3, <2>1 DEF SwitcherFirms
  <2> QED
    BY <1>3, <2>1, <2>2 DEF HiringFirms
<1>5. Pool(plan)' = Pool(p)
  <2>1. Incumbents(plan)' = Incumbents(p)
    BY <1>1, <1>3 DEF Incumbents, Employed, LaidOff
  <2> QED
    BY <1>3, <2>1 DEF Pool
<1>6. Bids'
  <2> SUFFICES ASSUME HiringFirms(p) # {}
               PROVE  plan'.asks \in [Pool(p) -> Wages] /\ plan'.offer \in [HiringFirms(p) -> Wages]
    BY <1>4, <1>5 DEF Bids
  <2>1. Asks \subseteq Wages /\ Offers \subseteq Wages
    BY DEF Wages
  <2>2. asks \in [Pool(p) -> Asks] /\ offer \in [HiringFirms(p) -> Offers]
    BY <1>3
  <2> QED
    BY <1>3, <2>1, <2>2
<1> QED
  BY <1>1, <1>6 DEF MatchInv, FastMatchesLegacy

\* The market opens with full buckets, the tree over their heads, and nobody hired.
LEMMA OpenMatch ==
  ASSUME LInv, MatchInv, OpenMarket
  PROVE  MatchInv'
<1>1. /\ pc = "open" /\ order = <<>> /\ Bids
      /\ UNCHANGED <<live, employer, plan>>
      /\ assigned' = Incumbents(plan) /\ hired' = [f \in Firms |-> <<>>]
  BY DEF OpenMarket, MatchInv
<1>2. /\ HiringFirms(plan)' = HiringFirms(plan) /\ Calm' = Calm /\ Pool(plan)' = Pool(plan)
      /\ LegacyRow(order)' = LegacyRow(order') /\ Filled(buckets)' = Filled(buckets')
      /\ \A f, taken : Willing(f, taken)' = Willing(f, taken)
  BY <1>1, MarketStays
<1>3. CASE HiringFirms(plan) = {} \/ Pool(plan) = {}
  <2>1. pc' = "apply" /\ order' = <<>>
    BY <1>1, <1>3 DEF OpenMarket
  <2>2. Bids'
    BY <1>1, <1>2 DEF Bids
  <2> QED
    BY <2>1, <2>2 DEF MatchInv, FastMatchesLegacy
<1>4. CASE ~(HiringFirms(plan) = {} \/ Pool(plan) = {})
  <2>1. /\ order' \in SetToSeqs(HiringFirms(plan)) /\ turn' = 1 /\ vacancies' = OpeningsAt(order', 1)
        /\ buckets' = [i \in 1 .. Len(Levels) |-> Ranked({h \in Pool(plan) : Asked(h) = Levels[i]})]
        /\ pos' = [i \in 1 .. Len(Levels) |-> 1]
        /\ tree' = BuiltTree(buckets')
        /\ aside' = <<>> /\ pc' = "hire"
    BY <1>4 DEF OpenMarket
  <2>2. Bids'
    BY <1>1, <1>2 DEF Bids
  <2>3. ASSUME Calm PROVE Popped' /\ Serving'
    <3>1. /\ Pool(plan) \subseteq Households /\ Incumbents(plan) \subseteq Households
          /\ plan.asks \in [Pool(plan) -> Wages]
          /\ \A f \in HiringFirms(plan) : plan.hires[f] \in Nat /\ Openings(f) = plan.hires[f]
          /\ HiringFirms(plan) \subseteq Firms
          /\ Hiring(order') /\ \A k \in 1 .. Len(order') : order'[k] \in HiringFirms(plan)
      BY <1>1, <1>4, <2>1, <2>3, CalmFirms
    <3>2. PICK bs : bs = buckets' /\ Filled(bs)
      BY <2>1 DEF Filled, Asking
    <3>3. /\ Len(bs) = Len(Levels) /\ Len(bs) \in Nat
          /\ \A b \in 1 .. Len(bs) :
               /\ Len(bs[b]) \in Nat /\ Len(bs[b]) >= 1
               /\ \A i \in 1 .. Len(bs[b]) : bs[b][i] \in Pool(plan) /\ bs[b][i] \in Households
      BY <3>1, <3>2, BucketsLaw
    <3>4. NBuckets' = Len(bs) /\ pos' = [b \in 1 .. Len(bs) |-> 1]
      BY <2>1, <3>2, <3>3 DEF NBuckets
    <3>5. PICK heads : heads = [b \in 1 .. Len(bs) |-> bs[b][1]]
      OBVIOUS
    <3>6. Heads' = heads
      <4>1. \A b \in 1 .. Len(bs) : HeadAt(b, pos[b])' = bs[b][1]
        BY <3>2, <3>3, <3>4 DEF HeadAt
      <4>2. Heads' = [b \in 1 .. Len(bs) |-> HeadAt(b, pos[b])']
        BY <3>4 DEF Heads
      <4> QED
        BY <3>5, <4>1, <4>2
    <3>7. heads \in Seq(Candidates) /\ Len(heads) = Len(bs) /\ \A b \in 1 .. Len(bs) : bs[b][1] = heads[b]
      <4>1. \A b \in 1 .. Len(bs) : bs[b][1] \in Candidates
        <5> SUFFICES ASSUME NEW b \in 1 .. Len(bs) PROVE bs[b][1] \in Candidates
          OBVIOUS
        <5>1. 1 \in 1 .. Len(bs[b])
          BY <3>3
        <5> QED
          BY <3>3, <5>1 DEF Candidates
      <4>2. heads \in [1 .. Len(bs) -> Candidates] /\ \A b \in 1 .. Len(bs) : bs[b][1] = heads[b]
        BY <3>5, <4>1
      <4> QED
        BY <3>3, <4>2
    <3>8. IsTree(BuiltTree(bs), heads)
      BY <3>3, <3>7, BuiltLaw
    <3>9. IsTree(tree, Heads)'
      <4>1. tree' = BuiltTree(bs)
        BY <2>1, <3>2
      <4> QED
        BY <3>6, <3>8, <4>1 DEF IsTree
    <3>10. ASSUME NEW b \in 1 .. Len(bs)
           PROVE  /\ pos'[b] = 1 /\ pos'[b] <= Len(bs[b]) + 1
                  /\ \A i \in 1 .. Len(bs[b]) : bs[b][i] \in assigned' <=> i < pos'[b]
      <4>1. pos'[b] = 1
        BY <3>4
      <4>2. \A i \in 1 .. Len(bs[b]) : bs[b][i] \notin Incumbents(plan)
        BY <3>3 DEF Pool
      <4> QED
        BY <1>1, <3>3, <4>1, <4>2
    <3>11. pos' \in [1 .. Len(bs) -> Nat \ {0}]
      BY <3>4
    <3>12. Popped'
      <4>1. Filled(buckets)'
        BY <1>2, <3>2
      <4>2. pos' \in [1 .. NBuckets' -> Nat \ {0}]
        BY <3>4, <3>11
      <4>3. \A b \in 1 .. NBuckets' :
              /\ pos'[b] <= Len(buckets'[b]) + 1
              /\ \A i \in 1 .. Len(buckets'[b]) : buckets'[b][i] \in assigned' <=> i < pos'[b]
        BY <3>2, <3>4, <3>10
      <4>4. aside' = <<>>
        BY <2>1
      <4> QED
        BY <3>9, <4>1, <4>2, <4>3, <4>4 DEF Popped
    <3>13. 1 \in 1 .. Len(order')
      <4>1. PICK f : f \in HiringFirms(plan)
        BY <1>4
      <4>2. IsFiniteSet(HiringFirms(plan))
        BY <3>1, Constants, FS_Subset
      <4>3. \E i \in 1 .. Len(order') : order'[i] = f
        BY <2>1, <4>1, <4>2, FullList
      <4> QED
        BY <3>1, <4>3 DEF Hiring
    <3>14. PICK g : g = order'[1] /\ g \in HiringFirms(plan) /\ g \in Firms
      BY <3>1, <3>13
    <3>15. Firm' = g
      BY <2>1, <3>14 DEF Firm
    <3>16. LegacyRow(order)'[(turn - 1)'] = Fresh
      <4>1. (turn - 1)' = 0
        BY <2>1
      <4> QED
        BY <1>2, <3>1, <4>1, LegacyLaw
    <3>17. PICK s : s = Ranked(Willing(g, Incumbents(plan))) /\ s \in Seq(Households)
      BY <3>1, WillingLaw
    <3>18. Ranked(Willing(Firm, LegacyRow(order)[turn - 1].taken))' = s
      BY <1>2, <3>15, <3>16, <3>17 DEF Fresh
    <3>19. Len(s) \in Nat /\ SubSeq(s, 1, 0) = <<>>
      BY <3>17, SubSeqEmpty
    <3>20. hired'[g] = <<>> /\ Len(hired'[g]) = 0 /\ ToSet(hired'[g]) = {}
      BY <1>1, <3>14, Elements
    <3>21. vacancies' = plan.hires[g] /\ plan.hires[g] \in Nat
      BY <2>1, <3>1, <3>13, <3>14 DEF OpeningsAt
    <3>22. [f \in Firms |-> <<>>] = [[f \in Firms |-> <<>>] EXCEPT ![g] = <<>>]
      OBVIOUS
    <3>23. Serving'
      <4>1. Fresh.taken = Incumbents(plan) /\ Fresh.hired = [f \in Firms |-> <<>>]
        BY DEF Fresh
      <4>2. hired' = [Fresh.hired EXCEPT ![g] = SubSeq(s, 1, 0)]
        BY <1>1, <3>19, <3>22, <4>1
      <4>3. assigned' = Fresh.taken \cup ToSet(hired'[g])
        BY <1>1, <3>20, <4>1
      <4> QED
        BY <1>1, <3>15, <3>16, <3>18, <3>19, <3>20, <3>21, <4>2, <4>3 DEF Serving
    <3> QED
      BY <3>12, <3>23
  <2> QED
    BY <1>2, <2>1, <2>2, <2>3 DEF MatchInv, FastMatchesLegacy
<1> QED
  BY <1>3, <1>4

\* From a head that is not taken on, the peek comes to the next one at once when nobody ahead has a job.
LEMMA PeekLaw ==
  ASSUME NEW b, Len(buckets[b]) \in Nat, NEW from \in Nat \ {0}, from <= Len(buckets[b]) + 1,
         \A i \in from .. Len(buckets[b]) : buckets[b][i] \notin assigned
  PROVE  Peek(b, from) = from
<1>1. PICK n \in Nat : n = Len(buckets[b]) /\ from <= n + 1
  OBVIOUS
<1>2. PICK ahead : ahead = {i \in from .. n : buckets[b][i] \notin assigned}
  OBVIOUS
<1>3. ahead = from .. n
  BY <1>1, <1>2
<1>4. Peek(b, from) = IF ahead = {} THEN n + 1 ELSE CHOOSE i \in ahead : \A j \in ahead : i <= j
  BY <1>1, <1>2 DEF Peek
<1>5. CASE from = n + 1
  <2>1. ahead = {}
    BY <1>3, <1>5
  <2> QED
    BY <1>4, <1>5, <2>1
<1>6. CASE from # n + 1
  <2>1. from \in ahead /\ \A j \in ahead : from <= j
    BY <1>1, <1>3, <1>6
  <2>2. PICK i : i = Peek(b, from) /\ i \in ahead /\ \A j \in ahead : i <= j
    BY <1>4, <2>1
  <2>3. i <= from /\ from <= i /\ i \in Nat
    BY <1>1, <1>3, <2>1, <2>2
  <2> QED
    BY <2>2, <2>3
<1> QED
  BY <1>5, <1>6

\* The popped head is the next hire of the direct search, and its bucket moves on by one.
LEMMA PopMatch ==
  ASSUME LInv, MatchInv, PopHead
  PROVE  MatchInv'
<1>1. /\ pc = "hire" /\ pc' = "hire" /\ Firm \notin SwitcherFirms(plan) /\ vacancies > 0
      /\ UNCHANGED <<live, employer, plan>> /\ order' = order /\ turn' = turn /\ buckets' = buckets
  BY DEF PopHead
<1>2. PICK h \in Pool(plan) :
        /\ h = BestUpTo(Affordable)
        /\ pos' = [pos EXCEPT ![BucketOf(h)] = Peek(BucketOf(h), pos[BucketOf(h)] + 1)]
        /\ tree' = Updated(tree, BucketOf(h), HeadAt(BucketOf(h), Peek(BucketOf(h), pos[BucketOf(h)] + 1)))
        /\ \/ /\ h \in assigned
              /\ UNCHANGED <<aside, vacancies, results>>
           \/ /\ h \notin assigned /\ employer[h] = Firm
              /\ aside' = Append(aside, <<BucketOf(h), pos[BucketOf(h)]>>)
              /\ UNCHANGED <<vacancies, results>>
           \/ /\ h \notin assigned /\ employer[h] # Firm
              /\ Hire(Firm, h)
              /\ UNCHANGED aside
  BY DEF PopHead
<1>3. /\ HiringFirms(plan)' = HiringFirms(plan) /\ Calm' = Calm /\ Pool(plan)' = Pool(plan)
      /\ \A firms : LegacyRow(firms)' = LegacyRow(firms)
      /\ \A bs : Filled(bs)' = Filled(bs)
      /\ \A f, taken : Willing(f, taken)' = Willing(f, taken)
  BY <1>1, MarketStays
<1>4. Bids'
  BY <1>1, <1>3 DEF MatchInv, Bids
<1>5. ASSUME Calm PROVE Popped' /\ Serving'
  <2>1. Bids /\ Popped /\ Serving
    BY <1>1, <1>5 DEF MatchInv
  <2>2. /\ Firm \in HiringFirms(plan) /\ Firm \in Firms /\ order \in SetToSeqs(HiringFirms(plan))
        /\ turn \in 1 .. Len(order) /\ Len(order) \in Nat
    BY <1>1, FirmsTurn
  <2>3. /\ Pool(plan) \subseteq Households /\ plan.asks \in [Pool(plan) -> Wages] /\ Wages \subseteq Nat
        /\ plan.offer[Firm] \in Nat /\ Hiring(order) /\ employer[h] # Firm /\ plan.hires[Firm] \in Nat
    BY <1>1, <1>5, <2>1, <2>2, CalmFirms
  <2>4. h # None /\ h \in Households
    BY <2>3, Constants
  <2>5. PICK was : was = LegacyRow(order)[turn - 1]
    OBVIOUS
  <2>6. PICK s, m : s = Ranked(Willing(Firm, was.taken)) /\ m = Len(hired[Firm])
    OBVIOUS
  <2>7. PICK b : b = BucketOf(h)
    OBVIOUS
  <2>8. /\ s \in Seq(Households) /\ m \in 0 .. Len(s) /\ m < Len(s) /\ h = s[m + 1]
        /\ h \notin assigned /\ pos[b] \in 1 .. Len(buckets[b]) /\ buckets[b][pos[b]] = h
    BY <1>1, <1>2, <1>5, <2>1, <2>4, <2>5, <2>6, <2>7, NextHire
  <2>9. /\ Filled(buckets) /\ IsTree(tree, Heads) /\ aside = <<>>
        /\ pos \in [1 .. NBuckets -> Nat \ {0}]
        /\ \A d \in 1 .. NBuckets :
             /\ pos[d] <= Len(buckets[d]) + 1
             /\ \A i \in 1 .. Len(buckets[d]) : buckets[d][i] \in assigned <=> i < pos[d]
    BY <2>1 DEF Popped
  <2>10. /\ NBuckets = Len(buckets) /\ NBuckets \in Nat /\ b \in 1 .. NBuckets /\ NBuckets' = NBuckets
         /\ Asked(h) = Levels[b]
    BY <1>1, <2>3, <2>7, <2>9, BucketsLaw, AffordableLaw DEF NBuckets
  <2>11. /\ \A d \in 1 .. NBuckets :
              /\ Len(buckets[d]) \in Nat
              /\ \A i \in 1 .. Len(buckets[d]) : /\ buckets[d][i] \in Households
                                                 /\ Asked(buckets[d][i]) = Levels[d]
              /\ \A i, j \in 1 .. Len(buckets[d]) : i # j => buckets[d][i] # buckets[d][j]
    BY <2>3, <2>9, <2>10, BucketsLaw
  <2>12. \A d, e \in 1 .. NBuckets : Levels[d] = Levels[e] => d = e
    <3> SUFFICES ASSUME NEW d \in 1 .. NBuckets, NEW e \in 1 .. NBuckets, d # e PROVE Levels[d] # Levels[e]
      OBVIOUS
    <3>1. NBuckets = Len(Levels)
      BY <2>3, <2>9, <2>10, BucketsLaw
    <3>2. d < e \/ e < d
      OBVIOUS
    <3>3. Levels[d] \in Nat /\ Levels[e] \in Nat /\ (Levels[d] < Levels[e] \/ Levels[e] < Levels[d])
      BY <2>3, <3>1, <3>2, LevelsLaw
    <3> QED
      BY <3>3
  <2>13. Peek(b, pos[b] + 1) = pos[b] + 1
    <3>1. PICK p \in 1 .. Len(buckets[b]) : p = pos[b]
      BY <2>8
    <3>2. p + 1 \in Nat \ {0} /\ p + 1 <= Len(buckets[b]) + 1 /\ Len(buckets[b]) \in Nat
      BY <2>10, <2>11
    <3>3. \A i \in p + 1 .. Len(buckets[b]) : i \in 1 .. Len(buckets[b]) /\ ~(i < p)
      BY <3>2
    <3>4. \A i \in p + 1 .. Len(buckets[b]) : buckets[b][i] \notin assigned
      BY <2>9, <2>10, <3>1, <3>3
    <3> QED
      BY <3>1, <3>2, <3>4, PeekLaw
  <2>14. PICK q \in Nat \ {0} : q = pos[b] + 1 /\ q \in 2 .. Len(buckets[b]) + 1
    BY <2>8, <2>10, <2>11
  <2>15. /\ pos' = [pos EXCEPT ![b] = q] /\ tree' = Updated(tree, b, HeadAt(b, q))
         /\ Hire(Firm, h) /\ aside' = <<>>
    BY <1>2, <2>3, <2>7, <2>8, <2>9, <2>13, <2>14
  <2>16. /\ hired' = [hired EXCEPT ![Firm] = Append(@, h)]
         /\ assigned' = assigned \cup {h} /\ vacancies' = vacancies - 1
    BY <2>15 DEF Hire
  <2>17. \A d \in 1 .. NBuckets : pos'[d] = IF d = b THEN q ELSE pos[d]
    BY <2>9, <2>10, <2>15
  <2>18. pos' \in [1 .. NBuckets -> Nat \ {0}]
    BY <2>9, <2>10, <2>15
  <2>19. ASSUME NEW d \in 1 .. NBuckets
         PROVE  /\ pos'[d] <= Len(buckets[d]) + 1
                /\ \A i \in 1 .. Len(buckets[d]) : buckets[d][i] \in assigned' <=> i < pos'[d]
    <3>1. CASE d = b
      <4>1. ASSUME NEW i \in 1 .. Len(buckets[b]) PROVE buckets[b][i] \in assigned' <=> i < q
        <5>1. PICK p \in 1 .. Len(buckets[b]) : p = pos[b] /\ q = p + 1 /\ buckets[b][p] = h
          BY <2>8, <2>14
        <5>2. buckets[b][i] = h <=> i = p
          BY <2>10, <2>11, <5>1
        <5>3. buckets[b][i] \in assigned <=> i < p
          BY <2>9, <2>10, <5>1
        <5>4. i < q <=> i < p \/ i = p
          BY <5>1
        <5> QED
          BY <2>16, <5>2, <5>3, <5>4
      <4> QED
        BY <2>14, <2>17, <3>1, <4>1
    <3>2. CASE d # b
      <4>1. \A i \in 1 .. Len(buckets[d]) : buckets[d][i] # h
        BY <2>10, <2>11, <2>12, <3>2
      <4> QED
        BY <2>9, <2>16, <2>17, <3>2, <4>1
    <3> QED
      BY <3>1, <3>2
  <2>20. \A d \in 1 .. NBuckets : \A i \in 1 .. Len(buckets[d]) + 1 :
           HeadAt(d, i)' = HeadAt(d, i) /\ HeadAt(d, i) \in Candidates
    <3> SUFFICES ASSUME NEW d \in 1 .. NBuckets, NEW i \in 1 .. Len(buckets[d]) + 1
                 PROVE  HeadAt(d, i)' = HeadAt(d, i) /\ HeadAt(d, i) \in Candidates
      OBVIOUS
    <3>1. i <= Len(buckets[d]) => i \in 1 .. Len(buckets[d])
      BY <2>11
    <3>2. HeadAt(d, i)' = HeadAt(d, i)
      BY <1>1 DEF HeadAt
    <3>3. HeadAt(d, i) \in Candidates
      BY <2>11, <3>1 DEF HeadAt, Candidates
    <3> QED
      BY <3>2, <3>3
  <2>21. PICK heads : heads = Heads /\ heads \in Seq(Candidates) /\ Len(heads) = NBuckets
    <3>1. ASSUME NEW d \in 1 .. NBuckets PROVE HeadAt(d, pos[d]) \in Candidates
      <4>1. pos[d] \in 1 .. Len(buckets[d]) + 1
        BY <2>9, <2>11
      <4> QED
        BY <2>20, <4>1
    <3>2. Heads \in [1 .. NBuckets -> Candidates]
      BY <3>1 DEF Heads
    <3> QED
      BY <2>10, <3>2
  <2>22. PICK x \in Candidates : x = HeadAt(b, q)
    BY <2>10, <2>11, <2>14, <2>20
  <2>23. IsTree(tree', [heads EXCEPT ![b] = x])
    BY <2>9, <2>10, <2>15, <2>21, <2>22, UpdatedLaw
  <2>24. Heads' = [heads EXCEPT ![b] = x]
    <3>1. Heads' = [d \in 1 .. NBuckets |-> HeadAt(d, pos[d])']
      BY <2>10 DEF Heads
    <3>2. heads = [d \in 1 .. NBuckets |-> HeadAt(d, pos[d])]
      BY <2>21 DEF Heads
    <3>3. ASSUME NEW d \in 1 .. NBuckets PROVE HeadAt(d, pos[d])' = IF d = b THEN x ELSE HeadAt(d, pos[d])
      <4>1. HeadAt(d, pos[d])' = IF pos'[d] <= Len(buckets[d]) THEN buckets[d][pos'[d]] ELSE None
        BY <1>1 DEF HeadAt
      <4> QED
        BY <2>17, <2>22, <4>1 DEF HeadAt
    <3> QED
      BY <3>1, <3>2, <3>3
  <2>25. Popped'
    <3>1. Filled(buckets)'
      BY <1>1, <1>3, <2>9
    <3>2. IsTree(tree, Heads)'
      BY <2>23, <2>24 DEF IsTree
    <3> QED
      BY <1>1, <2>10, <2>15, <2>18, <2>19, <3>1, <3>2 DEF Popped
  <2>26. was \in Rows
    <3>1. turn - 1 \in 0 .. Len(order)
      BY <2>2
    <3> QED
      BY <2>3, <2>5, <3>1, LegacyLaw
  <2>27. Firm' = Firm /\ LegacyRow(order)'[(turn - 1)'] = was
    BY <1>1, <1>3, <2>5 DEF Firm
  <2>28. Ranked(Willing(Firm, LegacyRow(order)[turn - 1].taken))' = s
    BY <1>3, <2>6, <2>27
  <2>29. /\ hired = [was.hired EXCEPT ![Firm] = SubSeq(s, 1, m)] /\ m + vacancies = plan.hires[Firm]
         /\ assigned = was.taken \cup ToSet(hired[Firm])
    BY <2>1, <2>5, <2>6 DEF Serving
  <2>30. PICK g, old : g = Firm /\ old = was.hired /\ old \in [Firms -> Seq(Households)] /\ g \in Firms
    BY <2>2, <2>26 DEF Rows
  <2>31. PICK t : t = SubSeq(s, 1, m) /\ t \in Seq(Households) /\ Len(t) = m /\ SubSeq(s, 1, m + 1) = Append(t, h)
    <3>1. /\ SubSeq(s, 1, m) \in Seq(Households) /\ Len(SubSeq(s, 1, m)) = m
          /\ m < Len(s) => SubSeq(s, 1, m + 1) = Append(SubSeq(s, 1, m), s[m + 1])
      BY <2>8, FirstOfList
    <3> QED
      BY <2>8, <3>1
  <2>32. hired = [old EXCEPT ![g] = t] /\ hired[g] = t
    BY <2>29, <2>30, <2>31
  <2>33. hired' = [old EXCEPT ![g] = Append(t, h)] /\ hired'[g] = Append(t, h)
    BY <2>16, <2>30, <2>32
  <2>34. Len(Append(t, h)) = m + 1 /\ ToSet(Append(t, h)) = ToSet(t) \cup {h} /\ m \in Nat /\ Len(s) \in Nat
    <3>1. t \in Seq(Households) /\ Len(t) = m
      BY <2>31
    <3>2. Len(Append(t, h)) = Len(t) + 1 /\ ToSet(Append(t, h)) = ToSet(t) \cup {h}
      BY <2>4, <3>1, OneMore
    <3>3. Len(s) \in Nat /\ m \in Nat
      BY <2>8
    <3> QED
      BY <3>1, <3>2, <3>3
  <2>35. Serving'
    <3>1. m + 1 <= Len(s) /\ (m + 1) + vacancies' = plan.hires[g]
      <4>1. vacancies \in Nat
        BY InTheMarket, <1>1 DEF TypeOK
      <4> QED
        BY <2>8, <2>16, <2>29, <2>30, <2>34, <4>1
    <3>2. assigned' = was.taken \cup ToSet(hired'[g])
      BY <2>16, <2>29, <2>30, <2>32, <2>33, <2>34
    <3>3. Len(hired'[g]) = m + 1 /\ hired' = [was.hired EXCEPT ![g] = SubSeq(s, 1, m + 1)]
      BY <2>30, <2>31, <2>33, <2>34
    <3>4. Firm' = g /\ plan' = plan
      BY <1>1, <2>27, <2>30
    <3> QED
      BY <2>27, <2>28, <3>1, <3>2, <3>3, <3>4 DEF Serving
  <2> QED
    BY <2>25, <2>35
<1> QED
  BY <1>1, <1>3, <1>4, <1>5 DEF MatchInv, FastMatchesLegacy

\* With nothing set aside there is nothing to put back.
LEMMA NothingBack == ASSUME aside = <<>> PROVE PutBack.pos = pos /\ PutBack.tree = tree
<1> DEFINE Body(B) == [k \in 0 .. Len(aside) |->
        IF k = 0 THEN [pos |-> pos, tree |-> tree]
        ELSE LET b    == aside[k][1]
                 here == Peek(b, Least(B[k - 1].pos[b], aside[k][2]))
             IN [pos  |-> [B[k - 1].pos EXCEPT ![b] = here],
                 tree |-> Updated(B[k - 1].tree, b, HeadAt(b, here))]]
           Back == CHOOSE B : B = Body(B)
<1>1. PutBack = Back[Len(aside)]
  BY DEF PutBack
<1>2. Len(aside) = 0 /\ \A k \in 0 .. Len(aside) : k = 0
  OBVIOUS
<1>3. PICK B : B = [k \in 0 .. Len(aside) |-> [pos |-> pos, tree |-> tree]]
  OBVIOUS
<1>4. B = Body(B)
  BY <1>2, <1>3
<1>5. Back = Body(Back)
  <2> HIDE DEF Body
  <2> QED
    BY <1>4
<1>6. PICK C : C = Back /\ C = Body(C)
  BY <1>5
<1> HIDE DEF Back
<1>7. C[0] = [pos |-> pos, tree |-> tree]
  BY <1>2, <1>6
<1> QED
  BY <1>1, <1>2, <1>6, <1>7

\* The firm has hired whom the direct search gives it, and the next one, if any, starts with nobody.
LEMMA CloseMatch ==
  ASSUME LInv, MatchInv, CloseFirm
  PROVE  MatchInv'
<1>1. /\ pc = "hire" /\ pc' = IF turn = Len(order) THEN "apply" ELSE "hire"
      /\ \/ vacancies = 0
         \/ Firm \in SwitcherFirms(plan) /\ Movable = {}
         \/ Firm \notin SwitcherFirms(plan) /\ BestUpTo(Affordable) = None
      /\ pos' = PutBack.pos /\ tree' = PutBack.tree /\ aside' = <<>>
      /\ vacancies' = OpeningsAt(order, turn + 1) /\ turn' = turn + 1
      /\ UNCHANGED <<live, employer, plan>> /\ order' = order /\ buckets' = buckets
      /\ hired' = hired /\ assigned' = assigned
  BY DEF CloseFirm, results
<1>2. /\ HiringFirms(plan)' = HiringFirms(plan) /\ Calm' = Calm /\ Pool(plan)' = Pool(plan)
      /\ \A firms : LegacyRow(firms)' = LegacyRow(firms)
      /\ \A bs : Filled(bs)' = Filled(bs)
      /\ \A f, taken : Willing(f, taken)' = Willing(f, taken)
  BY <1>1, MarketStays
<1>3. Bids'
  BY <1>1, <1>2 DEF MatchInv, Bids
<1>4. ASSUME Calm
      PROVE  /\ turn = Len(order) => hired' = LegacyMatch(order)'
             /\ turn # Len(order) => Popped' /\ Serving'
  <2>1. Bids /\ Popped /\ Serving
    BY <1>1, <1>4 DEF MatchInv
  <2>2. /\ Firm \in HiringFirms(plan) /\ Firm \in Firms /\ order \in SetToSeqs(HiringFirms(plan))
        /\ turn \in 1 .. Len(order) /\ Len(order) \in Nat
    BY <1>1, FirmsTurn
  <2>3. /\ Pool(plan) \subseteq Households /\ SwitcherFirms(plan) = {}
        /\ HiringFirms(plan) \subseteq Firms
        /\ \A f \in HiringFirms(plan) : plan.hires[f] \in Nat /\ Openings(f) = plan.hires[f]
        /\ Hiring(order) /\ plan.hires[Firm] \in Nat
        /\ \A k \in 1 .. Len(order) : order[k] \in HiringFirms(plan)
        /\ \A i, j \in 1 .. Len(order) : i # j => order[i] # order[j]
    BY <1>1, <1>4, <2>1, <2>2, CalmFirms
  <2>4. PICK was : was = LegacyRow(order)[turn - 1]
    OBVIOUS
  <2>5. PICK s, m, x : s = Ranked(Willing(Firm, was.taken)) /\ m = Len(hired[Firm]) /\ x = BestUpTo(Affordable)
    OBVIOUS
  <2>6. s \in Seq(Households) /\ m \in 0 .. Len(s) /\ (x = None => m = Len(s))
    BY <1>1, <1>4, <2>1, <2>4, <2>5, NextHire
  <2>7. vacancies \in Nat /\ m \in Nat /\ Len(s) \in Nat
    BY <1>1, <2>6, InTheMarket DEF TypeOK
  <2>8. /\ hired = [was.hired EXCEPT ![Firm] = SubSeq(s, 1, m)] /\ m + vacancies = plan.hires[Firm]
        /\ assigned = was.taken \cup ToSet(hired[Firm])
    BY <2>1, <2>4, <2>5 DEF Serving
  <2>9. m = Least(plan.hires[Firm], Len(s))
    <3>1. vacancies = 0 \/ m = Len(s)
      BY <1>1, <2>3, <2>5, <2>6
    <3> QED
      BY <2>3, <2>6, <2>7, <2>8, <3>1 DEF Least
  <2>10. was \in Rows
    <3>1. turn - 1 \in 0 .. Len(order)
      BY <2>2
    <3> QED
      BY <2>3, <2>4, <3>1, LegacyLaw
  <2>11. PICK row : row = LegacyRow(order)[turn] /\ row \in Rows /\ row = Serve(order, turn, was)
    <3>1. turn \in 0 .. Len(order)
      BY <2>2
    <3> QED
      BY <2>2, <2>3, <2>4, <3>1, LegacyLaw
  <2>12. Chosen(order, turn, was) = SubSeq(s, 1, m)
    BY <2>5, <2>9 DEF Chosen, Firm
  <2>13. hired[Firm] = SubSeq(s, 1, m)
    <3>1. was.hired \in [Firms -> Seq(Households)]
      BY <2>10 DEF Rows
    <3> QED
      BY <2>2, <2>8, <3>1
  <2>14. row.hired = hired /\ row.taken = assigned
    <3>1. PICK g, new : g = Firm /\ g = order[turn] /\ new = SubSeq(s, 1, m)
      BY DEF Firm
    <3>2. row = [taken |-> was.taken \cup ToSet(new), hired |-> [was.hired EXCEPT ![g] = new]]
      BY <2>11, <2>12, <3>1 DEF Serve
    <3> QED
      BY <2>8, <2>13, <3>1, <3>2
  <2>15. ASSUME turn = Len(order) PROVE hired' = LegacyMatch(order)'
    <3>1. LegacyMatch(order)' = LegacyRow(order)'[Len(order)].hired
      BY <1>1 DEF LegacyMatch
    <3> QED
      BY <1>1, <1>2, <2>11, <2>14, <2>15, <3>1
  <2>16. ASSUME turn # Len(order) PROVE Popped' /\ Serving'
    <3>1. pos' = pos /\ tree' = tree /\ aside = <<>>
      BY <1>1, <2>1, NothingBack DEF Popped
    <3>2. NBuckets' = NBuckets /\ Heads' = Heads
      BY <1>1, <3>1 DEF NBuckets, Heads, HeadAt
    <3>3. Popped'
      <4>1. Filled(buckets)'
        BY <1>1, <1>2, <2>1 DEF Popped
      <4>2. IsTree(tree, Heads)'
        BY <2>1, <3>1, <3>2 DEF Popped, IsTree
      <4> QED
        BY <1>1, <2>1, <3>1, <3>2, <4>1, <4>2 DEF Popped
    <3>4. PICK next \in 1 .. Len(order) : next = turn + 1
      BY <2>2, <2>16
    <3>5. PICK g : g = order[next] /\ g \in HiringFirms(plan) /\ g \in Firms
      BY <2>3
    <3>6. Firm' = g /\ turn' = next /\ (turn - 1)' = turn
      BY <1>1, <2>2, <3>4, <3>5 DEF Firm
    <3>7. hired[g] = <<>>
      <4>1. \A k \in 1 .. turn : g # order[k]
        <5> SUFFICES ASSUME NEW k \in 1 .. turn PROVE g # order[k]
          OBVIOUS
        <5>1. k \in 1 .. Len(order) /\ k # next
          BY <2>2, <3>4
        <5> QED
          BY <2>3, <3>5, <5>1
      <4> QED
        BY <1>1, <3>5, <4>1 DEF LInv, Places
    <3>8. vacancies' = plan.hires[g] /\ plan.hires[g] \in Nat
      BY <1>1, <2>3, <3>4, <3>5 DEF OpeningsAt
    <3>9. LegacyRow(order)'[(turn - 1)'] = row
      BY <1>1, <1>2, <2>11, <3>6
    <3>10. PICK r : r = Ranked(Willing(g, row.taken)) /\ r \in Seq(Households)
      BY <2>3, WillingLaw
    <3>11. Ranked(Willing(Firm, LegacyRow(order)[turn - 1].taken))' = r
      BY <1>2, <3>6, <3>9, <3>10
    <3>12. Len(r) \in Nat /\ SubSeq(r, 1, 0) = <<>> /\ Len(hired'[g]) = 0 /\ ToSet(hired'[g]) = {}
      BY <1>1, <3>7, <3>10, SubSeqEmpty, Elements
    <3>13. hired' = [row.hired EXCEPT ![g] = SubSeq(r, 1, 0)]
      <4>1. hired \in [Firms -> Seq(Households)]
        BY DEF LInv, TypeOK
      <4> QED
        BY <1>1, <2>14, <3>5, <3>7, <3>12, <4>1
    <3>14. assigned' = row.taken \cup ToSet(hired'[g])
      BY <1>1, <2>14, <3>12
    <3>15. Serving'
      BY <1>1, <3>6, <3>8, <3>9, <3>11, <3>12, <3>13, <3>14 DEF Serving
    <3> QED
      BY <3>3, <3>15
  <2> QED
    BY <2>15, <2>16
<1>5. FastMatchesLegacy'
  <2> SUFFICES ASSUME pc' = "apply", Calm' PROVE hired' = LegacyMatch(order)'
    BY DEF FastMatchesLegacy, Calm
  <2> QED
    BY <1>1, <1>2, <1>4
<1> QED
  BY <1>1, <1>2, <1>3, <1>4, <1>5 DEF MatchInv

\* A switcher is not hired in a calm week.
LEMMA SwitcherMatch ==
  ASSUME LInv, MatchInv, HireSwitcher
  PROVE  MatchInv'
<1>1. /\ pc = "hire" /\ pc' = "hire" /\ Firm \in SwitcherFirms(plan)
      /\ UNCHANGED <<live, employer, plan>> /\ order' = order
  BY DEF HireSwitcher
<1>2. HiringFirms(plan)' = HiringFirms(plan) /\ Calm' = Calm /\ Pool(plan)' = Pool(plan)
  BY <1>1, MarketStays
<1>3. ~Calm
  BY <1>1 DEF Calm, SwitcherFirms
<1>4. Bids'
  BY <1>1, <1>2 DEF MatchInv, Bids
<1> QED
  BY <1>1, <1>2, <1>3, <1>4 DEF MatchInv, FastMatchesLegacy

\* Outside the market nothing is claimed.
LEMMA OutsideMatch ==
  ASSUME MatchInv, Apply \/ Sync \/ FundPayroll \/ Rest
  PROVE  MatchInv'
<1>1. order' = <<>> /\ pc' \in {"plan", "sync", "payroll", "done"}
  BY DEF MatchInv, Apply, Forget, Sync, FundPayroll, Rest
<1> QED
  BY <1>1 DEF MatchInv, Bids, FastMatchesLegacy

LEMMA StutterMatch ==
  ASSUME MatchInv, UNCHANGED vars
  PROVE  MatchInv'
<1>1. /\ UNCHANGED <<live, employer, plan>> /\ pc' = pc /\ order' = order /\ turn' = turn
      /\ buckets' = buckets /\ pos' = pos /\ tree' = tree /\ aside' = aside /\ vacancies' = vacancies
      /\ assigned' = assigned /\ hired' = hired
  BY DEF vars, index, results
<1>2. /\ HiringFirms(plan)' = HiringFirms(plan) /\ Calm' = Calm /\ Pool(plan)' = Pool(plan)
      /\ \A firms : LegacyRow(firms)' = LegacyRow(firms)
      /\ \A bs : Filled(bs)' = Filled(bs)
      /\ \A f, taken : Willing(f, taken)' = Willing(f, taken)
  BY <1>1, MarketStays
<1>3. Bids'
  BY <1>1, <1>2 DEF MatchInv, Bids
<1>4. ASSUME Popped, Serving PROVE Popped' /\ Serving'
  <2>1. NBuckets' = NBuckets /\ Heads' = Heads
    BY <1>1 DEF NBuckets, Heads, HeadAt
  <2>2. Filled(buckets)' /\ IsTree(tree, Heads)'
    BY <1>1, <1>2, <1>4, <2>1 DEF Popped, IsTree
  <2>3. Popped'
    BY <1>1, <1>4, <2>1, <2>2 DEF Popped
  <2>4. Firm' = Firm /\ (turn - 1)' = turn - 1
    BY <1>1 DEF Firm
  <2>5. LegacyRow(order)'[(turn - 1)'] = LegacyRow(order)[turn - 1]
    BY <1>1, <1>2, <2>4
  <2>6. Ranked(Willing(Firm, LegacyRow(order)[turn - 1].taken))' = Ranked(Willing(Firm, LegacyRow(order)[turn - 1].taken))
    BY <1>2, <2>4, <2>5
  <2>7. Serving'
    BY <1>1, <1>4, <2>4, <2>5, <2>6 DEF Serving
  <2> QED
    BY <2>3, <2>7
<1>5. FastMatchesLegacy'
  <2>1. LegacyMatch(order)' = LegacyMatch(order) /\ Market' = Market
    BY <1>1, <1>2 DEF LegacyMatch, Market
  <2>2. RoundingDecidesNothing' = RoundingDecidesNothing
    BY <1>1 DEF RoundingDecidesNothing, Asked
  <2> QED
    BY <1>1, <2>1, <2>2 DEF MatchInv, FastMatchesLegacy
<1> QED
  BY <1>1, <1>2, <1>3, <1>4, <1>5 DEF MatchInv

LEMMA NextMatch == LInv /\ MatchInv /\ [Next]_vars => MatchInv'
<1> SUFFICES ASSUME LInv, MatchInv, [Next]_vars PROVE MatchInv'
  OBVIOUS
<1>1. CASE Plan
  BY <1>1, PlanMatch
<1>2. CASE OpenMarket
  BY <1>2, OpenMatch
<1>3. CASE HireSwitcher
  BY <1>3, SwitcherMatch
<1>4. CASE PopHead
  BY <1>4, PopMatch
<1>5. CASE CloseFirm
  BY <1>5, CloseMatch
<1>6. CASE Apply \/ Sync \/ FundPayroll \/ Rest
  BY <1>6, OutsideMatch
<1>7. CASE UNCHANGED vars
  BY <1>7, StutterMatch
<1> QED
  BY <1>1, <1>2, <1>3, <1>4, <1>5, <1>6, <1>7 DEF Next, Week

\* Without switchers, and when no firm both hires and lays off, buckets, tree and lazy skipping hire
\* exactly whom the direct search hires, firm for firm and in the same order.
THEOREM SearchesAgree == Spec => []FastMatchesLegacy
<1>1. Spec => []MatchInv
  BY InitMatch, NextMatch, SpecInv, PTL DEF Spec
<1>2. MatchInv => FastMatchesLegacy
  BY DEF MatchInv
<1> QED
  BY <1>1, <1>2, PTL
==============================================================================
