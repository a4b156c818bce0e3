------------------------------ MODULE Payments ------------------------------
(***************************************************************************)
(* Money through a week of the payment arms (income_first, income_late):   *)
(* PaymentBook and the phases of economy.py that move cash around it.      *)
(* Cash is in small whole units; the arm's tolerance MONEY_EPS is 0 here.  *)
(* "rest" is the bank's reserves and the Misc pool, whose inner workings   *)
(* are left out: it lends, receives and hands out again.                   *)
(*                                                                         *)
(* The week is one thread: an action is a phase, or one sale in the        *)
(* market.  Who works where, what is bought, spent and taxed is chosen.    *)
(***************************************************************************)
EXTENDS Totals, Folds, FiniteSetsExt

CONSTANTS
  Households,   \* household ids
  Firms,        \* firm ids, of the live firms and of those that may enter
  Baseline,     \* the registered baseline firms, which never exit
  Funded,       \* private food and services firms: payroll funded before work
  Providers,    \* the firms of the category Services
  Wage,         \* the frozen wage of each household
  Owner,        \* the owners of each firm: one household, or NoOne
  Ceo,          \* ceo_household_id, or NoOne
  CeoCap,       \* 3 times the median wage
  Benefit,      \* unemployment benefit level
  Quote,        \* payment_services_project_cost
  Seed,         \* cash of an entering firm
  ZeroCashMax,  \* zero_cash_max_streak
  MaxClaim,     \* bound: nobody works on where it may be owed more than this
  MaxOutlay,    \* bound on each amount the policy chooses
  OpeningCash, OpeningTreasury, OpeningRest,  \* cash of the live agents at the start
  NoOne, NoProject

ASSUME PaymentsAssumption ==
  /\ Households \subseteq Nat /\ IsFiniteSet(Households) /\ IsFiniteSet(Firms)
  /\ Baseline \subseteq Firms /\ Funded \subseteq Firms \ Baseline /\ Providers \subseteq Firms
  /\ Wage \in [Households -> Nat \ {0}]
  /\ NoOne \notin Households \cup Firms /\ NoProject \notin Firms
  /\ Owner \in [Firms -> Households \cup {NoOne}] /\ Ceo \in [Firms -> Households \cup {NoOne}]
  /\ {CeoCap, Benefit, MaxClaim, MaxOutlay, OpeningCash, OpeningTreasury, OpeningRest} \subseteq Nat
  /\ {Quote, Seed, ZeroCashMax} \subseteq Nat \ {0}

VARIABLES
  timing,      \* payment_sequence
  phase,       \* the phase that comes next
  live,        \* economy.firms
  employer,    \* employer_id of each household, and the rosters
  cash,        \* cash_balance of the firms
  purse,       \* cash_balance of the households
  treasury,    \* government.cash_balance
  rest,        \* the bank and the Misc pool
  clearing,    \* clearing_payables; clearing_cash is their sum
  claims,      \* wage_claims: what each firm owes each household from earlier weeks
  holds,       \* recovery_holds: recovered from a closed firm, paid as next week's gross
  ceoHolds,    \* ceo_holds
  late,        \* late_income
  restricted,  \* restrictions
  project,     \* services_project
  fullyPaid,   \* the households whose due of the week was paid in full
  pending,     \* services_pending_receipts: project receipts not yet assessed for tax
  slots,       \* services_future_slots: the firms with a slot to open
  streak,      \* zero_cash_streak
  raised       \* a ValueError of the payment book or the fiscal close

book  == <<clearing, claims, holds, ceoHolds, late>>
state == <<restricted, project, pending, slots>>
money == <<cash, purse, treasury, rest>>
vars  == <<timing, phase, live, employer, money, book, state, fullyPaid, streak, raised>>

Names == {"B", "G", "assistance", "withholding", "project"}
Status == {"authorized", "assigned", "completed", "cancelled"}

Reserved    == Total(restricted)
\* Mutant of Free: reserved money is spent again.
FreeAndReserved == treasury
Free        == Max({0, treasury - Reserved})
Staff(f)    == {h \in Households : employer[h] = f}
Owed(f)     == Total(claims[f])
WageBill(S) == Total([h \in S |-> Wage[h]])
None(S)     == [x \in S |-> 0]

\* proportional: shares in the order of the keys, the last one gets what is left.  A share is
\* rounded up to a whole unit, so that the pool is paid out as it is in the code.
Share(due, available, h, left, last) ==
  IF h = last THEN Min({due[h], left}) ELSE Min({due[h], left, (available * due[h] + Total(due) - 1) \div Total(due)})
\* The fold calls pay on the greatest key last.
Proportional(due, available) ==
  LET claimants == {h \in DOMAIN due : due[h] > 0}
      pool      == Min({available, Total(due)})
      pay(h, acc) ==
        LET paid == Share(due, pool, h, acc.left, Max(claimants))
        IN [left |-> acc.left - paid, paid |-> [acc.paid EXCEPT ![h] = paid]]
  IN IF pool = 0 THEN None(DOMAIN due)
     ELSE MapThenFoldSet(pay, [left |-> pool, paid |-> None(DOMAIN due)], LAMBDA h : h, Max, claimants).paid

Init ==
  /\ timing \in {"income_first", "income_late"}
  /\ phase = "fiscal" /\ live = Firms   \* a run opens with a fiscal close
  /\ employer = [h \in Households |-> NoOne]
  /\ cash = [f \in Firms |-> OpeningCash] /\ purse = [h \in Households |-> OpeningCash]
  /\ treasury = OpeningTreasury /\ rest = OpeningRest
  /\ clearing = None(Firms) /\ claims = [f \in Firms |-> None(Households)]
  /\ holds = None(Households) /\ ceoHolds = None(Households) /\ late = None(Households)
  /\ restricted = None(Names) /\ project = NoProject /\ pending = None(Firms) /\ slots = {}
  /\ fullyPaid = {} /\ streak = None(Firms) /\ raised = FALSE

\* From phase p to phase q, unless an earlier phase has raised.
Moves(p, q) == phase = p /\ phase' = q /\ ~raised /\ UNCHANGED timing

-----------------------------------------------------------------------------
\* Phase 1: paid slots open, the subsidy envelope is reserved, then free public money goes to a
\* household (stimulus, shock) or, as a bailout or a direct loan, to a firm, or a shock collects
\* from a household.

OpenWeek ==
  /\ Moves("open", "labor")
  /\ slots' = {}
  /\ \E g \in 0 .. Min({Free, MaxOutlay}) :
       /\ restricted' = [restricted EXCEPT !["G"] = g]
       /\ \E amount \in -MaxOutlay .. MaxOutlay :
            /\ amount <= Max({0, treasury - Total(restricted')})
            /\ treasury' = treasury - amount
            /\ \/ /\ \E h \in Households : -amount <= purse[h] /\ purse' = [purse EXCEPT ![h] = @ + amount]
                  /\ UNCHANGED cash
               \/ /\ amount > 0 /\ \E f \in live : cash' = [cash EXCEPT ![f] = @ + amount]
                  /\ UNCHANGED purse
  /\ UNCHANGED <<live, employer, rest, book, project, pending, fullyPaid, streak, raised>>

\* Phases 3 and 4: the labor market; private firms then keep the workers they can pay, each
\* with a loan of the bank for its gap or a part of it (its caps).  Any affordable part of the
\* staff may be the part that stays.

Gap(f, staff) == Max({0, WageBill(staff) - cash[f]})
Affords(f, staff, loan) == WageBill(staff) <= cash[f] + loan

\* Only workers of a live firm that are not owed too much yet.
MayWork(h, f) == f \in live /\ claims[f][h] + Wage[h] <= MaxClaim

Assigned(hired) ==
  IF project # NoProject /\ project.status = "authorized"
  THEN \/ /\ project.firm \in live
          /\ \E h \in hired : employer'[h] = project.firm
                              /\ project' = [project EXCEPT !.status = "assigned", !.worker = h]
       \/ UNCHANGED project
  ELSE UNCHANGED project

FundPayroll ==
  /\ Moves("labor", "income")
  /\ \E plan \in [Households -> live \cup {NoOne}], kept \in SUBSET Households, loan \in [live \cap Funded -> 0 .. rest] :
       LET staff(f) == {h \in Households : plan[h] = f}
       IN /\ \A h \in Households : plan[h] # NoOne => MayWork(h, plan[h])
          /\ Total(loan) <= rest /\ \A f \in live \cap Funded : loan[f] <= Gap(f, staff(f))
          /\ \A h \in Households : h \notin kept => plan[h] \in Funded /\ ~Affords(plan[h], staff(plan[h]), loan[plan[h]])
          /\ \A f \in live \cap Funded : Affords(f, staff(f) \cap kept, loan[f])
          /\ employer' = [h \in Households |-> IF h \in kept THEN plan[h] ELSE NoOne]
          /\ cash' = [f \in Firms |-> IF f \in live \cap Funded THEN cash[f] + loan[f] ELSE cash[f]]
          /\ rest' = rest - Total(loan)
  /\ Assigned({h \in Households : employer'[h] # employer[h]})
  /\ UNCHANGED <<live, purse, treasury, book, restricted, pending, slots, fullyPaid, streak, raised>>
-----------------------------------------------------------------------------
\* Phase 5b: settle_income and settle_benefits.

Due(f)      == [h \in Households |-> IF h \in Staff(f) /\ f \in live THEN Wage[h] ELSE 0]
Current(f)  == Proportional(Due(f), cash[f])
Arrears(f)  == Proportional(claims[f], cash[f] - Total(Current(f)))
\* Mutant of CeoPay: the head is paid before the arrears.
CeoPayFirst(f) == IF Ceo[f] = NoOne \/ Staff(f) = {} THEN 0 ELSE Min({CeoCap, cash[f] - Total(Current(f))})
CeoPay(f)   == IF Ceo[f] = NoOne \/ Staff(f) = {} \/ f \notin live THEN 0
               ELSE Min({CeoCap, cash[f] - Total(Current(f)) - Total(Arrears(f))})
Paid(f)     == Total(Current(f)) + Total(Arrears(f)) + CeoPay(f)
Gross(h)    == Total([f \in Firms |-> Current(f)[h] + Arrears(f)[h]]) + holds[h]
CeoIncome(h) == Total([f \in {g \in Firms : Ceo[g] = h} |-> CeoPay(f)])

\* A private firm that was funded before work cannot be short of its own payroll.
PayrollShort == \E f \in live \cap Funded : Total(Current(f)) < WageBill(Staff(f))

Jobless     == {h \in Households : employer[h] = NoOne}
Benefits    == Proportional([h \in Households |-> IF h \in Jobless THEN Benefit ELSE 0], restricted["B"])

Tax(rate, h) == IF rate = 0 THEN 0 ELSE Gross(h) \div rate
Net(rate, h) == Gross(h) - Tax(rate, h) + Benefits[h]

SettleIncome ==
  /\ Moves("income", "market")
  /\ raised' = PayrollShort
  /\ \E rate \in {0, 2} :
       LET taxes == Total([h \in Households |-> Tax(rate, h)])
       IN /\ treasury' = treasury + taxes - Total(Benefits)
          /\ restricted' = [restricted EXCEPT !["withholding"] = @ + taxes, !["B"] = @ - Total(Benefits)]
          /\ purse' = [h \in Households |-> purse[h] + IF timing = "income_first" THEN Net(rate, h) ELSE 0]
          /\ late' = [h \in Households |-> late[h] + IF timing = "income_late" THEN Net(rate, h) ELSE 0]
  /\ cash' = [f \in Firms |-> cash[f] - Paid(f)]
  /\ claims' = [f \in Firms |-> [h \in Households |->
                  claims[f][h] + Due(f)[h] - Current(f)[h] - Arrears(f)[h]]]
  /\ holds' = None(Households)
  /\ ceoHolds' = [h \in Households |-> ceoHolds[h] + CeoIncome(h)]
  /\ fullyPaid' = {h \in Households : \E f \in live : h \in Staff(f) /\ Current(f)[h] = Wage[h]}
  /\ UNCHANGED <<live, employer, rest, clearing, project, pending, slots, streak>>

-----------------------------------------------------------------------------
\* Phases 6 to 6.8: one sale into clearing, partly out of the subsidy or the assistance money.

Sale ==
  /\ Moves("market", "market")
  /\ \E h \in Households, f \in live, private \in 0 .. 1, name \in {"G", "assistance"}, public \in 0 .. MaxOutlay :
       /\ private <= purse[h] /\ public <= restricted[name] /\ private + public > 0
       /\ purse' = [purse EXCEPT ![h] = @ - private]
       /\ restricted' = [restricted EXCEPT ![name] = @ - public]
       /\ treasury' = treasury - public
       /\ clearing' = [clearing EXCEPT ![f] = @ + private + public]
  /\ UNCHANGED <<live, employer, cash, rest, claims, holds, ceoHolds, late, project, pending, slots, fullyPaid, streak, raised>>

\* The Misc pool is handed out to a beneficiary, or nothing of it.
EndMarket ==
  /\ Moves("market", "firms")
  /\ \E h \in Households, amount \in 0 .. Min({rest, MaxOutlay}) :
       purse' = [purse EXCEPT ![h] = @ + amount] /\ rest' = rest - amount
  /\ UNCHANGED <<live, employer, cash, treasury, book, state, fullyPaid, streak, raised>>

-----------------------------------------------------------------------------
\* Phases 7 to 11: project receipts are assessed, clearing is released to the sellers, taxes are
\* cut to the cash there is, late income arrives, and the withheld tax is free.
SettleFirms ==
  /\ Moves("firms", "close")
  /\ pending' = None(Firms) /\ clearing' = None(Firms)
  /\ late' = None(Households) /\ ceoHolds' = None(Households)
  /\ \E taxed \in SUBSET live :
       LET tax(f) == IF f \in taxed THEN Min({MaxOutlay, cash[f] + clearing[f]}) ELSE 0
       IN /\ cash' = [f \in Firms |-> cash[f] + clearing[f] - tax(f)]
          /\ treasury' = treasury + Total([f \in Firms |-> tax(f)])
          /\ streak' = [f \in Firms |-> IF f \in live /\ cash[f] + clearing[f] - tax(f) = 0
                                        THEN Min({streak[f] + 1, ZeroCashMax}) ELSE 0]
  /\ purse' = [h \in Households |-> purse[h] + late[h] + ceoHolds[h]]
  /\ restricted' = [restricted EXCEPT !["withholding"] = 0]
  /\ UNCHANGED <<live, employer, rest, claims, holds, project, slots, fullyPaid, raised>>

\* Phase 11.5: public spending out of free money, then the project: paid only if its worker was
\* paid in full and is still there.
Completes ==
  /\ project.worker \in Staff(project.firm) /\ project.firm \in live /\ project.worker \in fullyPaid

InstitutionalClose ==
  /\ Moves("close", "exits")
  /\ \E spent \in 0 .. Min({Free, MaxOutlay}) :
       LET toPay   == project # NoProject /\ project.status = "assigned"
           payable == toPay /\ Completes
           funded  == payable /\ restricted["project"] >= Quote
       IN /\ rest' = rest + spent
          /\ treasury' = treasury - spent - (IF funded THEN Quote ELSE 0)
          /\ restricted' = IF funded THEN [restricted EXCEPT !["project"] = @ - Quote] ELSE restricted
          /\ cash' = IF funded THEN [cash EXCEPT ![project.firm] = @ + Quote] ELSE cash
          /\ pending' = IF funded THEN [pending EXCEPT ![project.firm] = @ + Quote] ELSE pending
          /\ slots' = IF funded THEN slots \cup {project.firm} ELSE slots
          /\ project' = IF toPay THEN [project EXCEPT !.status = IF funded THEN "completed" ELSE "cancelled"]
                        ELSE project
          \* an unfunded payable raises at the fiscal close
          /\ raised' = (payable /\ ~funded)
  /\ UNCHANGED <<live, employer, purse, book, fullyPaid, streak>>

-----------------------------------------------------------------------------
\* Phase 12: a closing firm's pending receipt is taxed, its workers recover what they can of their
\* claims, then its creditors, then its owner or the Misc pool.

Closing == {f \in live \ Baseline : streak[f] >= ZeroCashMax}
ExitTax(f)   == IF pending[f] > 0 THEN Min({MaxOutlay, cash[f]}) ELSE 0
Recovered(f) == Proportional(claims[f], cash[f] - ExitTax(f))
\* Mutant of Residual: what was taken in tax is paid out again.
ResidualUntaxed(f) == cash[f] - Total(Recovered(f))
Residual(f)  == cash[f] - ExitTax(f) - Total(Recovered(f))
\* Mutant of SlotsAfterExits: the slot of a closed firm stays.
SlotsOfAll == slots
SlotsAfterExits == slots \ Closing
OwnedBy(h)   == {f \in Closing : Owner[f] = h}

Exits ==
  /\ Moves("exits", "entry")
  /\ \E repaid \in [Closing -> 0 .. MaxOutlay] :
       LET creditors(f) == Min({repaid[f], Residual(f)})
           leftover(f)  == Residual(f) - creditors(f)
       IN /\ rest' = rest + Total([f \in Closing |-> creditors(f)])
                          + Total([f \in OwnedBy(NoOne) |-> leftover(f)])
          /\ purse' = [h \in Households |-> purse[h] + Total([f \in OwnedBy(h) |-> leftover(f)])]
  /\ treasury' = treasury + Total([f \in Closing |-> ExitTax(f)])
  /\ holds' = [h \in Households |-> holds[h] + Total([f \in Closing |-> Recovered(f)[h]])]
  /\ claims' = [f \in Firms |-> IF f \in Closing THEN None(Households) ELSE claims[f]]
  /\ cash' = [f \in Firms |-> IF f \in Closing THEN 0 ELSE cash[f]]
  /\ pending' = [f \in Firms |-> IF f \in Closing THEN 0 ELSE pending[f]]
  /\ slots' = SlotsAfterExits
  /\ project' = IF project # NoProject /\ project.firm \in Closing /\ project.status \in {"authorized", "assigned"}
                THEN [project EXCEPT !.status = "cancelled"] ELSE project
  /\ live' = live \ Closing
  /\ employer' = [h \in Households |-> IF employer[h] \in Closing THEN NoOne ELSE employer[h]]
  /\ streak' = [f \in Firms |-> IF f \in Closing THEN 0 ELSE streak[f]]
  /\ UNCHANGED <<clearing, ceoHolds, late, restricted, fullyPaid, raised>>

\* Phase 13: at most one firm enters, under an id that may have been used before, with a seed of
\* free public money or of a founder.
Entry ==
  /\ Moves("entry", "fiscal")
  /\ \/ UNCHANGED <<live, cash, treasury, purse>>
     \/ \E f \in Firms \ live :
          /\ live' = live \cup {f} /\ cash' = [cash EXCEPT ![f] = Seed]
          /\ \/ Free >= Seed /\ treasury' = treasury - Seed /\ UNCHANGED purse
             \/ \E h \in Households : /\ purse[h] >= Seed
                                      /\ purse' = [purse EXCEPT ![h] = @ - Seed] /\ UNCHANGED treasury
  /\ UNCHANGED <<employer, rest, book, state, fullyPaid, streak, raised>>

-----------------------------------------------------------------------------
\* Phase 16: dividends of firms that owe no wages, then the fiscal close: every envelope is
\* released and the next week's are cut out of what is free, in this order.

DividendOf(f) == IF Owed(f) = 0 /\ Owner[f] # NoOne THEN Min({MaxOutlay, cash[f]}) ELSE 0

BenefitEnvelope(free) == Min({free, Benefit * Cardinality(Jobless)})

FiscalClose ==
  /\ Moves("fiscal", "open")
  /\ \E payers \in SUBSET live :
       /\ cash' = [f \in Firms |-> IF f \in payers THEN cash[f] - DividendOf(f) ELSE cash[f]]
       /\ purse' = [h \in Households |-> purse[h] + Total([f \in {g \in payers : Owner[g] = h} |-> DividendOf(f)])]
  /\ LET b == BenefitEnvelope(treasury)
     IN \E a \in 0 .. Min({treasury - b, MaxOutlay}) :
          LET candidates == IF treasury - b - a >= Quote THEN Providers \cap live ELSE {}
              envelopes(p) == [None(Names) EXCEPT !["B"] = b, !["assistance"] = a, !["project"] = p]
          IN IF candidates = {}
             THEN project' = NoProject /\ restricted' = envelopes(0)
             ELSE \E f \in candidates :
                    /\ project' = [firm |-> f, status |-> "authorized", worker |-> NoOne]
                    /\ restricted' = envelopes(Quote)
  /\ fullyPaid' = {}
  /\ UNCHANGED <<live, employer, treasury, rest, book, pending, slots, streak, raised>>

Next ==
  \/ OpenWeek \/ FundPayroll \/ SettleIncome \/ Sale \/ EndMarket
  \/ SettleFirms \/ InstitutionalClose \/ Exits \/ Entry \/ FiscalClose

Spec == Init /\ [][Next]_vars

-----------------------------------------------------------------------------
\* The variables have their types: no pocket is ever overdrawn.
TypeOK ==
  /\ timing \in {"income_first", "income_late"} /\ raised \in BOOLEAN
  /\ phase \in {"open", "labor", "income", "market", "firms", "close", "exits", "entry", "fiscal"}
  /\ live \subseteq Firms /\ employer \in [Households -> Firms \cup {NoOne}]
  /\ cash \in [Firms -> Nat] /\ purse \in [Households -> Nat] /\ treasury \in Nat /\ rest \in Nat
  /\ clearing \in [Firms -> Nat] /\ claims \in [Firms -> [Households -> 0 .. MaxClaim]]
  /\ holds \in [Households -> Nat] /\ ceoHolds \in [Households -> Nat] /\ late \in [Households -> Nat]
  /\ restricted \in [Names -> Nat] /\ pending \in [Firms -> Nat] /\ slots \subseteq Firms
  /\ project \in {NoProject} \cup [firm : Firms, status : Status, worker : Households \cup {NoOne}]
  /\ fullyPaid \subseteq Households /\ streak \in [Firms -> 0 .. ZeroCashMax]

\* No pocket is overdrawn, and every unit of money is in one: no phase mints, loses or books it twice, whatever is cut
\* short, recovered from a closed firm, deferred, reserved or assessed.
Everything == Total(cash) + Total(purse) + treasury + rest + Total(clearing)
              + Total(holds) + Total(ceoHolds) + Total(late)
MoneyConserved ==
  /\ TypeOK
  /\ Everything = OpeningCash * (Cardinality(Firms) + Cardinality(Households)) + OpeningTreasury + OpeningRest

\* The treasury holds what it has promised at every moment of the week, so no guard of the book
\* fires: a funded payroll stays funded, an authorized project is paid, no deficit arises.
PromisesCovered == Reserved <= treasury /\ ~raised

\* Income settlement books exactly what it pays: the firms' cash, less the pay of their heads,
\* settles the week's dues and the claims, and what is short is claimed; nobody's head is paid
\* and no cash is left while a worker of the firm is still owed.
SettlementIsExact ==
  [][phase = "income" =>
       \A f \in Firms :
         /\ Owed(f)' = Owed(f) + Total(Due(f)) - (cash[f] - cash'[f] - CeoPay(f))
         /\ Owed(f)' > 0 => cash'[f] = 0 /\ CeoPay(f) = 0]_vars

\* Nothing is owed by, or on its way to, a firm that is gone, so that an id used again starts
\* clean; and nothing is left in clearing or deferred when a week ends.
NothingStranded ==
  /\ \A f \in Firms \ live : /\ Owed(f) = 0 /\ cash[f] = 0 /\ pending[f] = 0
                             /\ clearing[f] = 0 /\ f \notin slots /\ Staff(f) = {}
  /\ project # NoProject /\ project.status = "authorized" => project.firm \in live
  /\ phase \in {"open", "labor", "income"} => Total(clearing) + Total(late) + Total(ceoHolds) = 0
=============================================================================
