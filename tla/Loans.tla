------------------------------- MODULE Loans -------------------------------
(***************************************************************************)
(* The loans of the payment arms through a week: the bank's ledger of      *)
(* registered claims on households and firms, the mortgages of the housing *)
(* firms, the treasury's direct claims, and the copies of what is owed     *)
(* that borrowers carry.                                                   *)
(*                                                                         *)
(* Money is in whole units.  Credit scores, reserve requirements and what  *)
(* a borrower asks for are choices; the rest of the economy, the treasury  *)
(* included, is one pocket.  An action is a phase of the week, or one loan *)
(* in it.  The claims stand in the order of their ids.                     *)
(***************************************************************************)
EXTENDS Integers, Sequences, FiniteSets, SequencesExt, FiniteSetsExt, Totals

CONSTANTS
  Households, Firms,  \* ids; of the firms, those that may enter too
  Housing,       \* the housing firms
  Baseline,      \* the registered baseline firms, which never exit
  Installment,   \* v2_payment of each principal that is lent
  Bearing,       \* the principal that bears a unit of interest in a week
  Quote,         \* the price of a visit to the hospital
  Capacities,    \* the debt service a borrower's settled income may allow
  Misses,        \* payment_*_default_misses
  Cooldown,      \* payment_default_cooldown_ticks
  MaxClaims,     \* bound on the claims in the ledger
  MaxDirect,     \* bound on the installments a firm owes the treasury
  MaxIncome,     \* bound on what one borrower earns or spends at a time
  OpeningCash, OpeningReserve, OpeningRest,
  NoIndex

Borrowers == Households \cup Firms
Principals == DOMAIN Installment
Interest(principal) == principal \div Bearing

ASSUME LoansAssumption ==
  /\ IsFiniteSet(Borrowers) /\ Households \cap Firms = {}
  /\ Housing \subseteq Firms /\ Baseline \subseteq Firms
  /\ Principals \subseteq Nat \ {0} /\ Bearing \in Nat \ {0}
  /\ Installment \in [Principals -> Nat] /\ \A p \in Principals : Installment[p] > Interest(p)
  /\ {Cooldown, Quote, MaxDirect, MaxIncome, OpeningCash, OpeningReserve, OpeningRest} \subseteq Nat
  /\ Capacities \subseteq Nat /\ {Misses, MaxClaims} \subseteq Nat \ {0}

VARIABLES
  phase,     \* the phase that comes next
  ledger,    \* the bank's book: the claims, their booked total, the reserves, the week's cached
             \* index for underwriting, and the mirrors of what is owed on the borrowers
  purse,     \* cash_balance of the borrowers
  rest,      \* the treasury and everybody else
  mortgage,  \* housing_active_loans
  direct,    \* government_loan_remaining and loan_payment_per_tick
  capacity,  \* the share of the settled income that may serve debt
  cooldown,  \* weeks until loan_credit_cooldown_until
  live       \* the firms there are

vars == <<phase, ledger, purse, rest, mortgage, direct, capacity, cooldown, live>>

Kinds    == {"medical", "consumption", "business"}
Nothing  == [b \in Borrowers |-> 0]

Remaining(c) == c.principal + c.interest
Open(claims) == {i \in 1 .. Len(claims) : Remaining(claims[i]) > 0}
Of(claims, b, kinds) == {i \in Open(claims) : claims[i].who = b /\ claims[i].kind \in kinds}
Owed(claims, b, kinds) == Total([i \in Of(claims, b, kinds) |-> Remaining(claims[i])])
DueOf(c) == IF c.fresh THEN 0 ELSE Min({c.pay, Remaining(c)})

\* The claims at some places, in their order.
Kept(claims, places) ==
  LET at == CHOOSE a \in SetToSeqs(places) : \A i, j \in DOMAIN a : i < j => a[i] < a[j]
  IN [i \in 1 .. Len(at) |-> claims[at[i]]]

NoDirect   == [owed |-> 0, pay |-> 0]
NoMortgage == [owed |-> 0, pay |-> 0, missed |-> FALSE]

Init ==
  /\ phase = "open" /\ live = Firms
  /\ ledger = [claims |-> <<>>, booked |-> 0, reserve |-> OpeningReserve, index |-> NoIndex,
               mirror |-> [x \in Borrowers \X Kinds |-> 0]]
  /\ purse = [b \in Borrowers |-> OpeningCash] /\ rest = OpeningRest
  /\ mortgage = [f \in Firms |-> NoMortgage] /\ direct = [f \in Firms |-> NoDirect]
  /\ capacity = Nothing /\ cooldown = Nothing

Moves(from, to) == phase \in from /\ phase' = to

-----------------------------------------------------------------------------
\* Interest on the live principal, none on interest.
Accrued(c, who) ==
  IF c.who \in who /\ ~c.fresh THEN [c EXCEPT !.interest = @ + Interest(c.principal)] ELSE c
Accrual(claims, who) ==
  Total([i \in {j \in Open(claims) : claims[j].who \in who /\ ~claims[j].fresh} |-> Interest(claims[i].principal)])

\* The installments each borrower has already, once a week, at the first application.
Dues(claims) ==
  [b \in Borrowers |->
     Total([i \in Of(claims, b, Kinds) |-> Min({claims[i].pay, Remaining(claims[i])})])
     + IF b \in live THEN Min({direct[b].pay, direct[b].owed})
                          + (IF mortgage[b].owed > 0 THEN mortgage[b].pay ELSE 0) ELSE 0]
Delinquent(claims) == {b \in Borrowers : \E i \in Of(claims, b, Kinds) : claims[i].missed > 0}
Index(l) == IF l.index = NoIndex THEN [dues |-> Dues(l.claims), delinquent |-> Delinquent(l.claims)] ELSE l.index

Indexed(l) == [l EXCEPT !.index = Index(l)]

\* can_underwrite, of a borrower there is.
MayOwe(l, b, p) ==
  /\ cooldown[b] = 0 /\ capacity[b] > 0
  /\ b \in Households => b \notin Index(l).delinquent
  /\ Installment[p] + Index(l).dues[b] <= capacity[b]

Fresh(b, kind, p) ==
  [who |-> b, kind |-> kind, principal |-> p, interest |-> 0, pay |-> Installment[p],
   missed |-> 0, fresh |-> TRUE, due |-> 0]

\* Mutant of Granted: the new installment is not added to the cached ones.
GrantedUncounted(l, b, kind, p) ==
  [claims  |-> Append(l.claims, Fresh(b, kind, p)),
   booked  |-> l.booked + p,
   reserve |-> l.reserve - p,
   index   |-> Index(l),
   mirror  |-> [l.mirror EXCEPT ![<<b, kind>>] = @ + p]]
\* originate_v2, once nothing stands against it.
Granted(l, b, kind, p) ==
  [claims  |-> Append(l.claims, Fresh(b, kind, p)),
   booked  |-> l.booked + p,
   reserve |-> l.reserve - p,
   index   |-> [Index(l) EXCEPT !.dues[b] = @ + Installment[p]],
   mirror  |-> [l.mirror EXCEPT ![<<b, kind>>] = @ + p]]

Fundable(p) == p \in Principals /\ p <= ledger.reserve /\ Len(ledger.claims) < MaxClaims

\* _sync_mirrors of some borrowers.
MirrorOf(claims, b, kind) ==
  Owed(claims, b, {kind}) + IF b \in Firms /\ kind = "business" THEN mortgage[b].owed ELSE 0
Synced(mirror, claims, who) ==
  [x \in DOMAIN mirror |-> IF x[1] \in who THEN MirrorOf(claims, x[1], x[2]) ELSE mirror[x]]

-----------------------------------------------------------------------------
\* Phase 1 and prepare_household_dues: the household claims accrue, and what falls due this week is
\* noted on them, long before it is collected.
OpenWeek ==
  /\ Moves({"open"}, "lend")
  /\ LET aged  == [i \in 1 .. Len(ledger.claims) |-> [ledger.claims[i] EXCEPT !.fresh = FALSE]]
         grown == [i \in 1 .. Len(aged) |-> Accrued(aged[i], Households)]
     IN ledger' = [ledger EXCEPT
          !.claims = [i \in 1 .. Len(grown) |->
                        [grown[i] EXCEPT !.due = IF grown[i].who \in Households THEN DueOf(grown[i]) ELSE 0]],
          !.booked = @ + Accrual(aged, Households),
          !.index  = NoIndex]
  /\ capacity' \in [Borrowers -> Capacities]
  /\ cooldown' = [b \in Borrowers |-> Max({0, cooldown[b] - 1})]
  /\ mortgage' = [f \in Firms |-> [mortgage[f] EXCEPT !.missed = FALSE]]
  /\ UNCHANGED <<purse, rest, direct, live>>

Lending == phase \in {"lend", "late"} /\ UNCHANGED phase

\* An application that fails: the week's index is there from then on.
Refuse ==
  /\ Lending /\ ledger' = Indexed(ledger)
  /\ UNCHANGED <<purse, rest, mortgage, direct, capacity, cooldown, live>>

\* The bank lends to a firm, for its payroll or for capital that is bought at once; in the late
\* phase (6.8, service infrastructure) only the latter.  The trade of the firm is left open.
LendToFirm ==
  /\ Lending
  /\ \E f \in live, p \in Principals, spent \in BOOLEAN :
       /\ phase = "late" => spent
       /\ Fundable(p) /\ MayOwe(ledger, f, p)
       /\ ledger' = Granted(ledger, f, "business", p)
       /\ purse' = IF spent THEN purse ELSE [purse EXCEPT ![f] = @ + p]
       /\ rest' = IF spent THEN rest + p ELSE rest
  /\ UNCHANGED <<mortgage, direct, capacity, cooldown, live>>

\* Refused by the bank, whether or not it came to the books, a firm may borrow of the treasury, whose
\* claim bears its interest from the start.  One such claim at a time is a bound.
LendDirectly ==
  /\ phase = "lend" /\ UNCHANGED phase
  /\ \E f \in live, p \in Principals, spent, asked \in BOOLEAN :
       /\ p <= rest /\ direct[f].owed = 0 /\ direct[f].pay + Installment[p] <= MaxDirect
       /\ direct' = [direct EXCEPT ![f] = [owed |-> p + Interest(p), pay |-> @.pay + Installment[p]]]
       /\ purse' = IF spent THEN purse ELSE [purse EXCEPT ![f] = @ + p]
       /\ rest' = IF spent THEN rest ELSE rest - p
       /\ ledger' = IF asked THEN Indexed(ledger) ELSE ledger
  /\ UNCHANGED <<mortgage, capacity, cooldown, live>>

\* Phase 2a.
LendForConsumption ==
  /\ phase = "lend" /\ UNCHANGED phase
  /\ \E h \in Households, p \in Principals :
       /\ Fundable(p) /\ MayOwe(ledger, h, p)
       /\ ledger' = Granted(ledger, h, "consumption", p)
       /\ purse' = [purse EXCEPT ![h] = @ + p]
  /\ UNCHANGED <<rest, mortgage, direct, capacity, cooldown, live>>

\* Wages, sales, rents, taxes: money moves between a borrower and the others.
Trade ==
  /\ Moves({"lend", "trade"}, "trade")
  /\ \E b \in Households \cup live, amount \in (-MaxIncome .. MaxIncome) \ {0} :
       /\ purse[b] + amount >= 0 /\ rest - amount >= 0
       /\ purse' = [purse EXCEPT ![b] = @ + amount] /\ rest' = rest - amount
  /\ UNCHANGED <<ledger, mortgage, direct, capacity, cooldown, live>>

-----------------------------------------------------------------------------
\* Phase 6.6b: every mortgage is served whole, or not at all this week; then new ones are granted,
\* by rules of their own, for construction that is paid at once.  One per firm is a bound.
MortgageInterest(f) == Min({Interest(mortgage[f].owed), mortgage[f].pay})
MortgageDue(f) == Min({mortgage[f].pay, mortgage[f].owed + MortgageInterest(f)})
ServiceMortgages ==
  /\ Moves({"lend", "trade"}, "homes")
  /\ LET debtors == {f \in live : mortgage[f].owed > 0}
         served  == {f \in debtors : purse[f] >= MortgageDue(f)}
         after   == [f \in Firms |-> IF f \in served
                       THEN mortgage[f].owed - (MortgageDue(f) - MortgageInterest(f)) ELSE mortgage[f].owed]
     IN /\ mortgage' = [f \in Firms |-> IF after[f] = 0 THEN NoMortgage
                          ELSE [mortgage[f] EXCEPT !.owed = after[f], !.missed = f \in debtors \ served]]
        /\ purse' = [b \in Borrowers |-> IF b \in served THEN purse[b] - MortgageDue(b) ELSE purse[b]]
        /\ ledger' = [ledger EXCEPT
             !.reserve = @ + Total([f \in served |-> MortgageDue(f)]),
             !.mirror = [x \in DOMAIN @ |-> IF x[1] \in debtors /\ x[2] = "business"
                           THEN after[x[1]] + Owed(ledger.claims, x[1], {"business"}) ELSE @[x]]]
  /\ UNCHANGED <<rest, direct, capacity, cooldown, live>>

StartMortgage ==
  /\ phase = "homes" /\ UNCHANGED phase
  /\ \E f \in live \cap Housing, p \in Principals :
       /\ p <= ledger.reserve /\ cooldown[f] = 0 /\ mortgage[f].owed = 0
       /\ mortgage' = [mortgage EXCEPT ![f] = [owed |-> p, pay |-> Installment[p], missed |-> FALSE]]
       /\ ledger' = [ledger EXCEPT !.reserve = @ - p, !.mirror[<<f, "business">>] = @ + p]
       /\ rest' = rest + p
  /\ UNCHANGED <<purse, direct, capacity, cooldown, live>>

-----------------------------------------------------------------------------
\* Phase 6.8: a visit the patient cannot pay alone.  The loan is quoted, then granted, then the
\* sale is committed, or refused and the loan taken back.
MayBorrowForCare(h, p) ==
  /\ Fundable(p) /\ ledger.mirror[<<h, "medical">>] = 0 /\ MayOwe(ledger, h, p)

\* Mutants of RolledBack: the claim is removed from the list, and stays booked; the money that was
\* lent for it is not given back.
RolledBackBooked(l, h, p) ==
  LET claims == SubSeq(l.claims, 1, Len(l.claims) - 1)
  IN [claims |-> claims, booked |-> l.booked, reserve |-> l.reserve + p,
      index |-> [l.index EXCEPT !.dues[h] = @ - Installment[p]], mirror |-> Synced(l.mirror, claims, {h})]
RolledBackUnpaid(l, h, p) ==
  LET claims == SubSeq(l.claims, 1, Len(l.claims) - 1)
  IN [claims |-> claims, booked |-> l.booked - p, reserve |-> l.reserve,
      index |-> [l.index EXCEPT !.dues[h] = @ - Installment[p]], mirror |-> Synced(l.mirror, claims, {h})]
\* rollback_medical_loan, of the claim that was granted last.
RolledBack(l, h, p) ==
  LET claims == SubSeq(l.claims, 1, Len(l.claims) - 1)
  IN [claims |-> claims, booked |-> l.booked - p, reserve |-> l.reserve + p,
      index |-> [l.index EXCEPT !.dues[h] = @ - Installment[p]], mirror |-> Synced(l.mirror, claims, {h})]

Visit ==
  /\ Moves({"homes", "care"}, "care")
  /\ \E h \in Households :
       LET short   == Quote - Min({Quote, purse[h]})
           granted == Granted(ledger, h, "medical", short)
       IN /\ short > 0
          /\ \/ /\ MayBorrowForCare(h, short)
                /\ \/ ledger' = granted /\ purse' = [purse EXCEPT ![h] = 0] /\ rest' = rest + Quote
                   \/ ledger' = RolledBack(granted, h, short) /\ UNCHANGED <<purse, rest>>
             \/ ledger' = Indexed(ledger) /\ UNCHANGED <<purse, rest>>
  /\ UNCHANGED <<mortgage, direct, capacity, cooldown, live>>

-----------------------------------------------------------------------------
\* Mutant of Allocation: the units that the division leaves are not collected.
AllocationFloored(due, cash) ==
  [i \in DOMAIN due |-> IF Total(due) = 0 THEN 0 ELSE (Min({cash, Total(due)}) * due[i]) \div Total(due)]
\* _allocate: pro rata of what each claim is due; the units the division leaves go to the first.
Allocation(due, cash) ==
  LET budget   == Min({cash, Total(due)})
      base     == [i \in DOMAIN due |-> IF budget = 0 THEN 0 ELSE (budget * due[i]) \div Total(due)]
      spare(i) == due[i] - base[i]
      residue(i) == budget - Total(base) - Total([j \in {k \in DOMAIN due : k < i} |-> spare(j)])
  IN [i \in DOMAIN due |-> base[i] + Max({0, Min({spare(i), residue(i)})})]

\* Interest first; a claim that misses too often is written off.
Defaults(c, due, paid) == paid < due /\ c.missed + 1 >= Misses
Settled(c, due, paid) ==
  LET interest == Min({paid, c.interest})
  IN IF Defaults(c, due, paid)
     THEN [c EXCEPT !.principal = 0, !.interest = 0, !.missed = @ + 1, !.due = 0]
     ELSE [c EXCEPT !.interest = @ - interest, !.principal = @ - (paid - interest), !.due = 0,
                    !.missed = IF paid < due THEN @ + 1 ELSE IF due > 0 THEN 0 ELSE @]

\* The claims of the borrowers that have something due are served out of their cash.
Collection(l, who, due) ==
  LET indexed(b) == {i \in DOMAIN due : l.claims[i].who = b /\ due[i] > 0}
      debtors    == {b \in who : indexed(b) # {}}
      payments   == [b \in debtors |-> Allocation([i \in indexed(b) |-> due[i]], purse[b])]
      paid       == [i \in DOMAIN due |->
                       IF due[i] > 0 /\ l.claims[i].who \in debtors THEN payments[l.claims[i].who][i] ELSE 0]
      claims     == [i \in DOMAIN due |-> Settled(l.claims[i], due[i], paid[i])]
      taken      == [b \in Borrowers |-> IF b \in debtors THEN Total(payments[b]) ELSE 0]
  IN [ledger |-> [l EXCEPT
        !.claims  = claims,
        !.booked  = @ - Total(taken) - Total([i \in {j \in DOMAIN due : Defaults(l.claims[j], due[j], paid[j])} |->
                                                Remaining(l.claims[i]) - paid[i]]),
        !.reserve = @ + Total(taken),
        !.mirror  = Synced(@, claims, debtors)],
      taken |-> taken,
      defaulted |-> {b \in debtors : \E i \in indexed(b) : Defaults(l.claims[i], due[i], paid[i])}]

Barred(S) == [b \in Borrowers |-> IF b \in S THEN Cooldown ELSE cooldown[b]]

\* Phase 6.9: collect_household_dues.
CollectHouseholdDues ==
  /\ Moves({"homes", "care"}, "late")
  /\ LET c == Collection(ledger, Households, [i \in 1 .. Len(ledger.claims) |-> ledger.claims[i].due])
     IN /\ ledger' = c.ledger
        /\ purse' = [b \in Borrowers |-> purse[b] - c.taken[b]]
        /\ cooldown' = Barred(c.defaulted)
  /\ UNCHANGED <<rest, mortgage, direct, capacity, live>>

\* Phases 9.5 to 11.4: the firms' claims accrue, fall due and are collected; what cash is left
\* serves the direct claims; settled claims are dropped.
FirmDue(claims) == [i \in 1 .. Len(claims) |-> IF claims[i].who \in Firms THEN DueOf(claims[i]) ELSE 0]
CollectFirmDues ==
  /\ Moves({"late"}, "exits")
  /\ LET grown == [i \in 1 .. Len(ledger.claims) |-> Accrued(ledger.claims[i], Firms)]
         c     == Collection([ledger EXCEPT !.claims = grown, !.booked = @ + Accrual(ledger.claims, Firms)],
                             Firms, FirmDue(grown))
         left(b) == purse[b] - c.taken[b]
         paid(f) == IF f \in live THEN Min({left(f), direct[f].pay, direct[f].owed}) ELSE 0
     IN /\ ledger' = [c.ledger EXCEPT !.claims = Kept(@, Open(@))]
        /\ purse' = [b \in Borrowers |-> left(b) - IF b \in Firms THEN paid(b) ELSE 0]
        /\ direct' = [f \in Firms |-> [direct[f] EXCEPT !.owed = @ - paid(f)]]
        /\ rest' = rest + Total([f \in Firms |-> paid(f)])
        /\ cooldown' = Barred(c.defaulted)
  /\ UNCHANGED <<mortgage, capacity, live>>

-----------------------------------------------------------------------------
\* Phase 12: what the workers of a closing firm leave is shared among its creditors in proportion:
\* the registered claims, the mortgage (with the week's interest if it was missed) and the
\* treasury.  The rest of each claim is a loss, the rest of the cash goes to the owner or the pool.
ExitDues(f) ==
  LET treasury == Len(ledger.claims) + 2
  IN [i \in Of(ledger.claims, f, Kinds) \cup {treasury - 1, treasury} |->
        IF i = treasury THEN direct[f].owed
        ELSE IF i = treasury - 1 THEN mortgage[f].owed + (IF mortgage[f].missed THEN MortgageInterest(f) ELSE 0)
        ELSE Remaining(ledger.claims[i])]

Exits ==
  /\ Moves({"exits"}, "entry")
  /\ \E closing \in SUBSET (live \ Baseline) : \E wages \in [closing -> 0 .. MaxIncome], owned \in SUBSET closing :
     \E owner \in [owned -> Households] :
       LET worker   == [f \in closing |-> Min({wages[f], purse[f]})]
           shared   == [f \in closing |-> Allocation(ExitDues(f), purse[f] - worker[f])]
           left     == [f \in closing |-> purse[f] - worker[f] - Total(shared[f])]
           treasury == Len(ledger.claims) + 2
           lossy(f) == \E i \in Of(ledger.claims, f, Kinds) : shared[f][i] < Remaining(ledger.claims[i])
       IN /\ ledger' = [ledger EXCEPT
               !.claims  = Kept(@, {i \in 1 .. Len(@) : @[i].who \notin closing}),
               !.booked  = @ - Total([f \in closing |-> Owed(ledger.claims, f, Kinds)]),
               !.reserve = @ + Total([f \in closing |-> Total(shared[f]) - shared[f][treasury]]),
               !.mirror  = [x \in DOMAIN @ |-> IF x[1] \in closing THEN 0 ELSE @[x]]]
          /\ purse' = [b \in Borrowers |->
               IF b \in closing THEN 0 ELSE purse[b] + Total([f \in {g \in owned : owner[g] = b} |-> left[f]])]
          /\ rest' = rest + Total([f \in closing |-> worker[f] + shared[f][treasury]])
                          + Total([f \in closing \ owned |-> left[f]])
          /\ mortgage' = [f \in Firms |-> IF f \in closing THEN NoMortgage ELSE mortgage[f]]
          /\ direct' = [f \in Firms |-> IF f \in closing THEN NoDirect ELSE direct[f]]
          /\ cooldown' = Barred({f \in closing : lossy(f)})
          /\ live' = live \ closing
  /\ UNCHANGED capacity

\* Phase 13: at most one firm enters.  Where the bank's startup loans are enabled its id is new, and
\* the bank or a founder pays; elsewhere an id may come back, with all that is known of it, and the
\* treasury or a founder pays.  Which setting it is may be chosen again at every entry.
Entry ==
  /\ Moves({"entry"}, "open")
  /\ \/ UNCHANGED <<ledger, purse, rest, direct, cooldown, live>>
     \/ \E f \in Firms \ live, p \in Principals, startups \in BOOLEAN :
          /\ live' = live \cup {f}
          /\ cooldown' = IF startups THEN [cooldown EXCEPT ![f] = 0] ELSE cooldown
          /\ \/ /\ startups /\ Fundable(p)
                /\ ledger' = Granted(ledger, f, "business", p)
                /\ purse' = [purse EXCEPT ![f] = p] /\ UNCHANGED <<rest, direct>>
             \/ /\ ~startups /\ p <= rest /\ rest' = rest - p
                /\ direct' = [direct EXCEPT ![f] = [owed |-> p + Interest(p), pay |-> Installment[p]]]
                /\ purse' = [purse EXCEPT ![f] = p] /\ UNCHANGED ledger
             \/ /\ \E h \in Households : purse[h] >= p /\ purse' = [purse EXCEPT ![f] = p, ![h] = @ - p]
                /\ UNCHANGED <<ledger, rest, direct>>
  /\ UNCHANGED <<mortgage, capacity>>

Next ==
  \/ OpenWeek \/ Refuse \/ LendToFirm \/ LendDirectly \/ LendForConsumption \/ Trade
  \/ ServiceMortgages \/ StartMortgage \/ Visit \/ CollectHouseholdDues \/ CollectFirmDues
  \/ Exits \/ Entry

Spec == Init /\ [][Next]_vars

-----------------------------------------------------------------------------
Claim == [who : Borrowers, kind : Kinds, principal : Nat, interest : Nat, pay : Nat,
          missed : 0 .. Misses, fresh : BOOLEAN, due : Nat]

TypeOK ==
  /\ phase \in {"open", "lend", "trade", "homes", "care", "late", "exits", "entry"}
  /\ Baseline \subseteq live /\ live \subseteq Firms
  /\ DOMAIN ledger = {"claims", "booked", "reserve", "index", "mirror"}
  /\ ledger.claims \in Seq(Claim) /\ ledger.booked \in Nat /\ ledger.reserve \in Nat
  /\ ledger.index # NoIndex =>
       ledger.index \in [dues : [Borrowers -> Nat], delinquent : SUBSET Borrowers]
  /\ ledger.mirror \in [Borrowers \X Kinds -> Nat]
  /\ purse \in [Borrowers -> Nat] /\ rest \in Nat
  /\ mortgage \in [Firms -> [owed : Nat, pay : Nat, missed : BOOLEAN]]
  /\ direct \in [Firms -> [owed : Nat, pay : Nat]]
  /\ capacity \in [Borrowers -> Nat] /\ cooldown \in [Borrowers -> 0 .. Cooldown]

\* No pocket is overdrawn and no money is lost or made: a loan, a payment, a loan taken back, a
\* write-off and a closing firm's settlement each move what they book.
MoneyConserved ==
  /\ TypeOK
  /\ Total(purse) + ledger.reserve + rest = OpeningCash * Cardinality(Borrowers) + OpeningReserve + OpeningRest

\* What preflight_loans demands of the state a run starts from holds ever after: the booked total
\* is what the open claims add up to, each has a borrower there is, and the copies of the borrowers
\* agree with them (a household's lag behind from the accrual to the collection); and a
\* household has one medical loan at most.
LedgerMatchesMirrors ==
  /\ ledger.booked = Total([i \in Open(ledger.claims) |-> Remaining(ledger.claims[i])])
  /\ \A i \in Open(ledger.claims) : ledger.claims[i].who \in Households \cup live
  /\ \A h \in Households : /\ Cardinality(Of(ledger.claims, h, {"medical"})) <= 1
                           /\ phase \in {"open", "late", "exits", "entry"} =>
                                \A k \in Kinds : ledger.mirror[<<h, k>>] = Owed(ledger.claims, h, {k})
  /\ \A f \in Firms : ledger.mirror[<<f, "business">>] = MirrorOf(ledger.claims, f, "business")

\* Whatever was cached, lent, refused and taken back earlier in the week, a registered
\* loan is granted only if the settled income of the borrower serves it with the registered claims
\* that it has already.  Mortgages and treasury loans granted in the same week are not counted.
\* (A startup, at the entry, has no income yet.)
Serving(b) ==
  Total([i \in Of(ledger.claims, b, Kinds) |-> Min({ledger.claims[i].pay, Remaining(ledger.claims[i])})])
Granting(b) == phase # "entry" /\ Len(ledger'.claims) > Len(ledger.claims) /\ Last(ledger'.claims).who = b
ServiceWithinIncome ==
  [][\A b \in Borrowers : Granting(b) => Serving(b)' <= capacity[b]]_vars

\* The collection takes from each household what its claims are due at that moment, or all it has,
\* though the dues were noted at the beginning of the week, and no claim more than it is due.
CollectionIsExact ==
  [][(phase # "late" /\ phase' = "late") =>
       \A h \in Households :
         LET mine == {i \in Of(ledger.claims, h, Kinds) : ~ledger.claims[i].fresh}
             due  == [i \in mine |-> Min({ledger.claims[i].pay, Remaining(ledger.claims[i])})]
         IN /\ purse[h] - purse'[h] = Min({purse[h], Total(due)})
            /\ \A i \in mine : \/ Remaining(ledger'.claims[i]) >= Remaining(ledger.claims[i]) - due[i]
                               \/ ledger'.claims[i].missed = Misses]_vars
=============================================================================
