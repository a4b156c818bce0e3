-------------------------------- MODULE Care --------------------------------
(***************************************************************************)
(* The queue of the hospital, one week per round: phase 1 puts the         *)
(* patients who ask for a visit in the queue, phase 6.8 treats the head of *)
(* the queue, rotated, as far as staff and money go.  Both sequences of    *)
(* the economy are modelled: "legacy" (economy.py, agents.py) and the      *)
(* payment arms (payment_sectors.py, payment_loans.py).  The setup has one *)
(* provider, the public hospital, which never closes.                      *)
(*                                                                         *)
(* Prices and cash are small integers.  The draws of the simulation (who   *)
(* falls ill, who puts a visit off at the price) are choices; health is    *)
(* left out but for the number of visits an episode takes.                 *)
(***************************************************************************)
EXTENDS Integers, Sequences, FiniteSets, SequencesExt, FiniteSetsExt

CONSTANTS
  Patients,   \* household ids, processed in the order of their ids
  Doctors,    \* those whose illness gives them priority
  Provider,   \* firm_id of the hospital
  Prices,     \* of a visit
  Means,      \* what a patient has at the till: cash and deposits, and who would lend the rest
  MinSlots,   \* bounds on the visits the staff can make in a week
  MaxSlots,
  MaxBudget,  \* bound on the public money for care in a week
  MaxCash,    \* legacy: bound on the treasury's free cash
  Subsidy,    \* legacy: the treasury's share of a visit, as an amount
  MaxVisits,  \* healthcare_episode_max_visits
  MaxGap,     \* healthcare_followup_gap_max_ticks
  Rotation,   \* the weeks are counted modulo this
  NoQuote     \* inf, of payment_care_accepted_quote

ASSUME CareAssumption ==
  /\ Patients \subseteq Nat /\ IsFiniteSet(Patients) /\ Doctors \subseteq Patients
  /\ Provider \in Nat /\ MinSlots \in Nat /\ MaxSlots \in Nat /\ MaxBudget \in Nat /\ Subsidy \in Nat
  /\ MaxCash \in Nat
  /\ Means \subseteq [cash : Nat, credit : {"none", "bank", "treasury"}] /\ Means # {}
  /\ Prices \subseteq Nat /\ NoQuote \notin Nat
  /\ MaxVisits \in Nat \ {0} /\ MaxGap \in Nat \ {0} /\ Rotation \in Nat \ {0}
  /\ \A n \in 1 .. Cardinality(Patients) : Rotation % n = 0

VARIABLES
  sequence,  \* payment_sequence: "legacy" or "payment"
  covered,   \* payment_care_mode = "covered"
  week,      \* current_tick, modulo Rotation
  phase,     \* "request" or "treat"
  price,     \* firm.price
  staff,     \* legacy: the slots known when the week's quotes are made, 0 before
  sick,      \* the doctors below the priority threshold during the treatment
  queue,     \* healthcare_queue
  patient,   \* the fields of the households
  budget,    \* legacy: sector_subsidy_remaining_this_tick; payment: restrictions["care"]
  cash,      \* legacy: the free cash of the treasury, as far as it is read
  remaining, \* payment_care_remaining, the arm's second count of that money
  bill,      \* observer: what each patient paid or owes for the visit of the week, or NoQuote
  refused    \* observer: a sale found funded was refused, its loan rolled back

vars == <<sequence, covered, week, phase, price, staff, sick, queue, patient, budget, cash, remaining, bill, refused>>

Healthy == [queued |-> FALSE, visits |-> 0, due |-> FALSE, retry |-> FALSE, quote |-> NoQuote, gap |-> 0]
Nobody  == [h \in Patients |-> NoQuote]
\* The members of S, in the order of their ids.
Sorted(S) == [i \in 1 .. Cardinality(S) |-> CHOOSE n \in S : Cardinality({m \in S : m <= n}) = i]

Init ==
  /\ sequence \in {"legacy", "payment"}
  /\ covered \in IF sequence = "payment" THEN BOOLEAN ELSE {FALSE}
  /\ week = 0 /\ phase = "request" /\ price \in Prices /\ staff = 0 /\ sick = {}
  /\ queue = <<>> /\ patient = [h \in Patients |-> Healthy]
  /\ budget = 0 /\ cash = 0 /\ remaining = 0
  /\ bill = Nobody /\ refused = FALSE

-----------------------------------------------------------------------------
\* Phase 1: who asks for a visit.

MayAsk(p) == ~p.queued /\ p.gap = 0

\* The draws of the week: the visits of each new illness, 0 for none.
Illnesses ==
  {ill \in [Patients -> 0 .. MaxVisits] : \A h \in Patients :
     ill[h] > 0 => MayAsk(patient[h]) /\ patient[h].visits = 0 /\ ~patient[h].due}

\* legacy: the visit is taken off the episode when it is asked for, and the next one spaced.
LegacyAsks(ill) == {h \in Patients : MayAsk(patient[h]) /\ (patient[h].visits > 0 \/ ill[h] > 0)}
LegacyAsked(p, size, gap) ==
  [p EXCEPT !.queued = TRUE, !.gap = gap, !.visits = (IF p.visits = 0 THEN size ELSE p.visits) - 1]

EnqueueLegacy(ill, gap) ==
  LET asks == LegacyAsks(ill)
  IN /\ queue' = queue \o Sorted(asks)
     /\ patient' = [h \in Patients |->
          IF h \in asks THEN LegacyAsked(patient[h], ill[h], gap) ELSE patient[h]]

\* payment: whoever was turned away comes back by itself at the price accepted before.
Accepts(p) == p.quote # NoQuote /\ price <= p.quote
Returning  == {h \in Patients : patient[h].retry /\ ~patient[h].queued /\ Accepts(patient[h])}
\* Mutant of Returned: the patient who comes back is not marked as queued.
ReturnedUnmarked(h) ==
  IF h \in Returning THEN [patient[h] EXCEPT !.retry = FALSE] ELSE patient[h]
Returned(h) ==
  IF h \in Returning THEN [patient[h] EXCEPT !.queued = TRUE, !.retry = FALSE] ELSE patient[h]

\* payment: a visit falls due, for a new illness or as the next one of an episode, and stays so.
FallsDue(p, size) ==
  IF ~MayAsk(p) THEN p
  ELSE IF p.visits = 0 /\ ~p.due
       THEN [p EXCEPT !.visits = size, !.due = size > 0]
       ELSE [p EXCEPT !.due = TRUE]

\* Some of those who may ask put the request off at the price; not if they are critical, or come
\* back at a price accepted, and a visit that costs the patient nothing is never put off.
EnqueuePayment(ill) ==
  LET asked(h) == FallsDue(Returned(h), ill[h])
      asking   == {h \in Patients : MayAsk(asked(h)) /\ asked(h).due}
      deciding == {h \in asking : ~covered /\ ~(asked(h).retry /\ Accepts(asked(h)))}
  IN \E putOff \in SUBSET deciding :
       /\ queue' = queue \o Sorted(Returning) \o Sorted(asking \ (putOff \cup ToSet(queue)))
       /\ patient' = [h \in Patients |->
            IF h \in asking \ putOff
            THEN [asked(h) EXCEPT !.queued = TRUE, !.quote = price, !.retry = FALSE] ELSE asked(h)]

\* The week's public money for care is known by then, and read into the arm's own count.  legacy: the
\* treasury may have less free cash than the cap on its subsidies.
Request ==
  /\ phase = "request"
  /\ \E ill \in Illnesses :
       \/ sequence = "legacy" /\ \E gap \in 1 .. MaxGap : EnqueueLegacy(ill, gap)
       \/ sequence = "payment" /\ EnqueuePayment(ill)
  /\ budget' \in IF sequence = "legacy" \/ covered THEN 0 .. MaxBudget ELSE {0}
  /\ cash' \in IF sequence = "legacy" THEN 0 .. MaxCash ELSE {0}
  /\ remaining' = IF sequence = "payment" THEN budget' ELSE 0
  /\ staff' \in IF sequence = "legacy" THEN MinSlots .. MaxSlots ELSE {0}
  /\ sick' \in SUBSET Doctors
  /\ bill' = Nobody
  /\ phase' = "treat"
  /\ UNCHANGED <<sequence, covered, week, price, refused>>

-----------------------------------------------------------------------------
\* Phase 6.8: the order of treatment.

\* The patients of S, as they stand in the queue.
Among(S) ==
  LET places == Sorted({i \in DOMAIN queue : queue[i] \in S})
  IN [i \in DOMAIN places |-> queue[places[i]]]

Prioritized == Among(sick) \o Among(Patients \ sick)

Rotated(q) ==
  LET start == (week + Provider) % Len(q)
  IN SubSeq(q, start + 1, Len(q)) \o SubSeq(q, 1, start)

Ordered ==
  LET q == Prioritized
  IN IF Len(q) > 1 /\ q[1] \notin sick THEN Rotated(q) ELSE q

\* The money of a treatment: what is charged to public funds, and what is left to find.
\* legacy: sector_subsidy_budget_left, the smaller of the cap left and the free cash, and the subsidy
\* of a visit out of it.
BudgetLeft(cap, free) == IF cap <= free THEN cap ELSE free
Granted(money) == Min({Subsidy, price, money})

\* _healthcare_quote_walk: legacy's estimate of what each queued patient will pay.
QuoteWalk ==
  LET q == Ordered
      step(acc, h) ==
        [left  |-> IF acc.seen < staff THEN acc.left - Granted(acc.left) ELSE acc.left,
         seen  |-> acc.seen + 1,
         quote |-> [acc.quote EXCEPT ![h] = price - Granted(acc.left)]]
  IN FoldLeft(step, [left |-> BudgetLeft(budget, cash), seen |-> 0, quote |-> Nobody], q).quote

\* One state of the pass over the queue, which finds as much free cash as the week has left.
Start(free) == [left |-> <<>>, done |-> 0, patient |-> patient, budget |-> budget, cash |-> free,
                remaining |-> remaining, bill |-> Nobody, refused |-> refused]

Waits(acc, h) == [acc EXCEPT !.left = Append(@, h)]
Leaves(acc, h) == [acc EXCEPT !.patient[h].queued = FALSE]

\* legacy: cash, deposits, then a loan pay: the bank's, or when the bank cannot lend, one the treasury
\* funds out of what is left after the subsidy.  Whoever has none of them leaves the queue, and the
\* subsidy is refunded.
TreatLegacy(acc, h, slots, means) ==
  LET paid  == Granted(BudgetLeft(acc.budget, acc.cash))
      lacks == price - paid - means[h].cash
      backed == IF lacks > 0 /\ means[h].credit = "treasury" THEN lacks ELSE 0
  IN IF acc.done >= slots THEN Waits(acc, h)
     ELSE IF (lacks > 0 /\ means[h].credit = "none") \/ backed > acc.cash - paid THEN Leaves(acc, h)
     ELSE [Leaves(acc, h) EXCEPT !.done = @ + 1, !.bill[h] = price - paid,
                                 !.budget = @ - paid, !.cash = @ - paid - backed]

\* payment: commit_sale checks the household's cash and the restriction itself.
Public  == IF covered THEN price ELSE 0
Private(means, h) == IF covered THEN 0 ELSE Min({price, means[h].cash})
Shortfall(means, h) == price - Public - Private(means, h)
\* Mutant of Funded: any money left will do.
FundedInPart(acc, h, means) ==
  IF covered THEN acc.remaining > 0 ELSE Shortfall(means, h) = 0 \/ means[h].credit = "bank"
Funded(acc, h, means) ==
  IF covered THEN acc.remaining >= price ELSE Shortfall(means, h) = 0 \/ means[h].credit = "bank"
\* medical_funding_pending: what fund_medical_loan has just lent for the visit.
Pending(h, means) == IF Shortfall(means, h) > 0 THEN Shortfall(means, h) ELSE 0
Commits(acc, h, means) ==
  /\ price - Public - Shortfall(means, h) <= means[h].cash
  /\ Public <= acc.budget
  /\ Shortfall(means, h) <= Pending(h, means)

\* Mutant of TurnedAway: the episode is dropped, as in the legacy sequence.
TurnedAwayForGood(acc, h) == [Leaves(acc, h) EXCEPT !.patient[h].due = FALSE]
TurnedAway(acc, h) == [Leaves(acc, h) EXCEPT !.patient[h].retry = TRUE]
Treated(acc, h, gap) ==
  LET visits == IF acc.patient[h].visits > 0 THEN acc.patient[h].visits - 1 ELSE 0
  IN [acc EXCEPT !.patient[h] = [@ EXCEPT !.queued = FALSE, !.retry = FALSE, !.due = FALSE,
                                          !.visits = visits, !.gap = IF visits > 0 THEN gap ELSE 1]]

\* The price moved above the one accepted: it needs a new decision.
Overpriced(acc, h) == ~covered /\ price > acc.patient[h].quote

TreatPayment(acc, h, slots, means, gap) ==
  IF ~acc.patient[h].queued THEN acc
  ELSE IF acc.done >= slots THEN Waits(acc, h)
  ELSE IF Overpriced(acc, h)
       THEN [TurnedAway(acc, h) EXCEPT !.patient[h].quote = NoQuote]
  ELSE IF ~Funded(acc, h, means) THEN TurnedAway(acc, h)
  ELSE IF ~Commits(acc, h, means)
       THEN [TurnedAway(acc, h) EXCEPT !.refused = TRUE]
  ELSE [Treated(acc, h, gap) EXCEPT !.done = @ + 1, !.bill[h] = price - Public,
          !.budget = @ - Public, !.remaining = @ - Public]

\* The whole pass.  Without staff the queue is only sorted.
\* Mutant of Pass: served in another order than the quotes were walked.
PassUnrotated(slots, means, gap, free) ==
  LET step(acc, h) == IF sequence = "legacy" THEN TreatLegacy(acc, h, slots, means)
                      ELSE TreatPayment(acc, h, slots, means, gap)
  IN IF slots = 0 THEN [Start(free) EXCEPT !.left = Prioritized]
     ELSE FoldLeft(step, Start(free), Prioritized)
Pass(slots, means, gap, free) ==
  LET step(acc, h) == IF sequence = "legacy" THEN TreatLegacy(acc, h, slots, means)
                      ELSE TreatPayment(acc, h, slots, means, gap)
  IN IF slots = 0 THEN [Start(free) EXCEPT !.left = Prioritized]
     ELSE FoldLeft(step, Start(free), Ordered)

\* A covered visit asks nothing of the patient, whatever it has.
MeansThatMatter ==
  IF covered THEN {CHOOSE m \in Means : TRUE}
  ELSE IF sequence = "payment" THEN {m \in Means : m.credit # "treasury"} ELSE Means

\* Phases 6.8 and 9: the visits, then the price of the coming week.  legacy: since the quotes were made
\* the treasury took its share of what firms built (_collect_misc_revenue), and paid nothing.
Treat ==
  /\ phase = "treat"
  /\ \E slots \in MinSlots .. MaxSlots, means \in [ToSet(queue) -> MeansThatMatter], gap \in 1 .. MaxGap,
        free \in IF sequence = "legacy" THEN cash .. MaxCash ELSE {0} :
       LET pass == Pass(slots, means, gap, free)
       IN /\ queue' = pass.left
          /\ patient' = [h \in Patients |->
               [pass.patient[h] EXCEPT !.gap = IF @ > 0 THEN @ - 1 ELSE 0]]
          /\ budget' = pass.budget /\ cash' = pass.cash /\ remaining' = pass.remaining
          /\ bill' = pass.bill /\ refused' = pass.refused
  /\ price' \in Prices
  /\ week' = (week + 1) % Rotation
  /\ phase' = "request" /\ staff' = 0 /\ sick' = {}
  /\ UNCHANGED <<sequence, covered>>

Next == Request \/ Treat

Spec == Init /\ [][Next]_vars

-----------------------------------------------------------------------------
\* The variables have their types.
TypeOK ==
  /\ sequence \in {"legacy", "payment"} /\ covered \in BOOLEAN /\ refused \in BOOLEAN
  /\ week \in 0 .. Rotation - 1 /\ phase \in {"request", "treat"}
  /\ price \in Prices /\ staff \in 0 .. MaxSlots /\ sick \subseteq Doctors
  /\ queue \in Seq(Patients)
  /\ patient \in [Patients -> [queued : BOOLEAN, visits : 0 .. MaxVisits, due : BOOLEAN, retry : BOOLEAN,
                              quote : Prices \cup {NoQuote}, gap : 0 .. MaxGap]]
  /\ budget \in 0 .. MaxBudget /\ cash \in 0 .. MaxCash /\ remaining \in 0 .. MaxBudget
  /\ bill \in [Patients -> Nat \cup {NoQuote}]

\* The queue of the provider and the patients' own fields agree: a patient is in the queue, once,
\* exactly when it is marked as queued, and then (payment) it has a visit due at a price it accepted;
\* whoever was turned away still has its visit due and is not queued at the same time.  Two sequences,
\* a returning pass and an asking pass write both; a patient marked but not queued would never ask again.
QueueMatchesPatients ==
  /\ TypeOK
  /\ IsInjective(queue)
  /\ ToSet(queue) = {h \in Patients : patient[h].queued}
  /\ \A h \in Patients :
       /\ patient[h].due => sequence = "payment" /\ patient[h].visits > 0
       /\ patient[h].retry => patient[h].due /\ ~patient[h].queued
       /\ sequence = "payment" /\ patient[h].queued => patient[h].due /\ patient[h].quote \in Prices

\* A visit found funded is sold: the arm's own count of the care money and the restriction that
\* commit_sale checks never disagree, and the loan is what the cash lacks.  The rollback of a
\* medical loan is never needed.
CommitNeverRefused == ~refused

\* payment: a due visit ends only by being made.  Being turned away for the price, the
\* money or the place never ends it.
EpisodeKept ==
  [][\A h \in Patients : patient[h].due /\ ~patient'[h].due =>
        bill'[h] # NoQuote /\ patient'[h].visits = patient[h].visits - 1]_vars

\* Nobody is charged more than it was told, but for what the treasury has lent to other patients.
\* payment: the price can move between the request and the visit, and the price accepted survives
\* waiting and being turned away.  legacy: the walk over the queue promised a subsidy out of the cap and
\* the free cash of the moment; refusals since and a staff that shrinks only leave more of both, loans
\* out of the same cash take at most their amount from it, less what the treasury has received.  As
\* long as no more are treated than the staff of the quotes could.
ChargesKeepToQuotes ==
  [][phase = "treat" /\ (sequence = "payment" \/ Cardinality({h \in Patients : bill'[h] # NoQuote}) <= staff) =>
     LET told == IF sequence = "legacy" THEN QuoteWalk ELSE [h \in Patients |-> patient[h].quote]
         lent == Max({0, (cash - cash') - (budget - budget')})
     IN \A h \in Patients : bill'[h] # NoQuote => bill'[h] <= told[h] + lent]_vars
=============================================================================
