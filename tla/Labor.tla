------------------------------- MODULE Labor -------------------------------
(***************************************************************************)
(* One week of the labor market (economy.py, phases 2 to 4): firms and     *)
(* households plan, the indexed matcher fills the vacancies firm by firm,  *)
(* both sides apply the outcome, the rosters are rebuilt from the          *)
(* households' links, and on a payment arm the jobs that a private payroll *)
(* cannot fund are cancelled before any work is done.                      *)
(*                                                                         *)
(* The matcher sorts the job seekers into buckets, one per asked wage, and *)
(* keeps the best head of each bucket in a segment tree.  It is modelled   *)
(* pop by pop; a bucket is a sequence and the tree a function on its       *)
(* nodes.  Wages paid are left out: a payroll that falls short keeps some  *)
(* suffix of its order of retention, which is all that amounts decide.     *)
(* Wages asked and offered are doubles; the matcher keeps the asks in a    *)
(* float32 array, which rounds them, and numpy compares the array with an  *)
(* offer in double in one place and in float32 in the others.              *)
(*                                                                         *)
(*   pc  "plan"     phases 1 and 2, the plans of firms and households      *)
(*       "open"     the matcher builds its pool, buckets and tree          *)
(*       "hire"     the firm whose turn it is pops candidates              *)
(*       "apply"    both sides take the outcome over                       *)
(*       "sync"     rosters are rebuilt                                    *)
(*       "payroll"  unfunded private jobs are cancelled                    *)
(*       "done"     the rest of the week                                   *)
(***************************************************************************)
EXTENDS Integers, Sequences, FiniteSets, SequencesExt

CONSTANTS
  Households, Firms,  \* ids; both are processed in the order of their ids
  Healthcare,         \* firms of the healthcare sector
  GenericServices,    \* firms of the services sector
  Housing,            \* firms of the housing sector
  Baseline,           \* firms of the public baseline, which never close
  Doctors,            \* households trained for healthcare, from the start
  Skill,              \* skills_level
  Asks, Offers,       \* wages asked and wages offered, as doubles
  Single,             \* the float32 nearest to a wage, on the same scale
  MayBeIll,           \* bound on who may be unable to work in a week
  MaxHires,           \* bound on planned_hires_count
  SwitcherCap,        \* switcher_vacancy_cap_per_firm
  None

Wages == Asks \cup Offers

ASSUME LaborAssumption ==
  /\ Households \subseteq Nat \ {0} /\ IsFiniteSet(Households)
  /\ Firms \subseteq Nat \ {0} /\ IsFiniteSet(Firms)
  /\ Healthcare \subseteq Firms /\ GenericServices \subseteq Firms \ Healthcare
  /\ Housing \subseteq Firms \ (Healthcare \cup GenericServices)
  /\ Healthcare \cup Housing \subseteq Baseline /\ Baseline \subseteq Firms
  /\ Doctors \subseteq Households /\ (Doctors # {} => Healthcare # {})
  /\ Skill \in [Households -> Nat]
  /\ Wages \subseteq Nat \ {0} /\ IsFiniteSet(Wages) /\ Asks # {} /\ Offers # {}
  /\ Single \in [Wages -> Nat]
  /\ \A v, w \in Wages : Single[v] <= w => Single[v] <= Single[w]
  /\ MayBeIll \subseteq Households
  /\ MaxHires \in Nat /\ SwitcherCap \in Nat
  /\ None \notin Households \cup Firms

VARIABLES
  pc,
  live,       \* the firms; the others have not been founded, or have closed
  employer,   \* household.employer_id
  roster,     \* firm.employees
  plan,       \* the plans of the week
  order,      \* active_hiring_firm_ids, shuffled
  turn,       \* the place in order
  buckets,    \* job seekers by asked wage, best first
  pos,        \* bucket_positions
  tree,       \* segment_tree
  aside,      \* own_worker_heads
  vacancies,  \* left at the current firm
  assigned,   \* households that have a job for the week
  outcome,    \* household_labor_outcomes: the employer
  hired,      \* firm_labor_outcomes: hired_households_ids
  leaving,    \* firm_labor_outcomes: confirmed_layoffs_ids
  events,     \* last_labor_events
  before      \* observer: employer at the start of the week

index   == <<buckets, pos, tree, aside>>
results == <<assigned, outcome, hired, leaving>>
vars    == <<pc, live, employer, roster, plan, order, turn, index, vacancies, results, events, before>>

\* is_private_payroll_firm: of the food and services sectors, outside the baseline.
PayrollFirms == Firms \ (Baseline \cup Healthcare \cup Housing)

\* Candidates rank by skill, then by the lower id; None ranks last.
Better(g, h) == Skill[g] > Skill[h] \/ (Skill[g] = Skill[h] /\ g < h)
Best(x, y) == IF x = None \/ (y # None /\ Better(y, x)) THEN y ELSE x
Ranked(S)  == CHOOSE s \in SetToSeqs(S) : \A i, j \in DOMAIN s : i < j => Better(s[i], s[j])
Rising(S)  == CHOOSE s \in SetToSeqs(S) : \A i, j \in DOMAIN s : i < j => s[i] < s[j]

-----------------------------------------------------------------------------
\* The plans of a week.

NoPlan == [canWork |-> {}, searching |-> {}, switching |-> {}, asks |-> [h \in {} |-> 0],
           hires |-> [f \in {} |-> 0], layoffs |-> [f \in Firms |-> {}], offer |-> [f \in {} |-> 0]]

\* Healthcare is staffed outside the market.
Market     == live \ Healthcare
LaidOff(p) == UNION {p.layoffs[f] : f \in Firms}
Employed   == {h \in Households : employer[h] # None}

\* Incumbents keep their job unless laid off, shopping for a better one, or too ill.
Incumbents(p) == {h \in p.canWork \cap Employed : h \notin LaidOff(p) \cup p.switching}
Pool(p)       == ((p.searching \cap p.canWork) \ Doctors) \ Incumbents(p)

\* Private firms that plan no hires open vacancies for switchers only.
SwitcherFirms(p) ==
  {f \in Market \ (Baseline \cup GenericServices) :
     p.hires[f] = 0 /\ p.layoffs[f] = {} /\ p.switching # {} /\ SwitcherCap > 0}
HiringFirms(p) == {f \in Market : p.hires[f] > 0} \cup SwitcherFirms(p)

\* Layoffs come from the head of the roster, and from no firm that hires: but the services
\* project adds a hire to its firm, whatever that one plans.  (_plan_*_labor)
Staffing(layoffs, hires, project) ==
  /\ \A f \in Firms, g \in Households, h \in Households :
       g \in layoffs[f] => g \in roster[f] /\ (h \in roster[f] \ layoffs[f] => g < h)
  /\ \A f \in Market :
       hires[f] > (IF f = project THEN 1 ELSE 0) => layoffs[f] = {}
  /\ project # None => hires[project] > 0

\* Who has a job and can work may shop for a better one (plan_labor_supply).
MayShop(canWork) == (canWork \cap Employed) \ Doctors

\* Whoever can work and has no job is made to search.  Those in work search when short of
\* cash, too, which matters for the laid off.  (_normalize_household_labor_plans)
Searchers(canWork, switching, short) == (canWork \ Employed) \cup switching \cup short

\* Asks and offers that nobody reads are left out.
Plan ==
  /\ pc = "plan"
  /\ \E layoffs \in [Firms -> SUBSET Households], canWork \in {Households \ ill : ill \in SUBSET MayBeIll},
        hires \in [Market -> 0 .. MaxHires], project \in (GenericServices \cap live) \cup {None} :
       /\ Staffing(layoffs, hires, project)
       /\ \E switching \in SUBSET MayShop(canWork),
             short \in SUBSET (canWork \cap UNION {layoffs[f] : f \in Firms}) :
            LET p == [NoPlan EXCEPT !.canWork = canWork, !.switching = switching, !.hires = hires,
                        !.layoffs = layoffs, !.searching = Searchers(canWork, switching, short)]
            IN \E offer \in [HiringFirms(p) -> Offers],
                  asks \in [IF HiringFirms(p) = {} THEN {} ELSE Pool(p) -> Asks] :
                 plan' = [p EXCEPT !.offer = offer, !.asks = asks]
  /\ before' = employer
  /\ events' = {}
  /\ pc' = "open"
  /\ UNCHANGED <<live, employer, roster, order, turn, index, vacancies, results>>

-----------------------------------------------------------------------------
\* The buckets and the segment tree over their heads.

\* reservation_wages: the asks, in float32.
Asked(h) == Single[plan.asks[h]]
Levels == Rising({Asked(h) : h \in DOMAIN plan.asks})
NBuckets == Len(buckets)

\* Leaves TreeSize .. TreeSize + n - 1 hold the heads of the n buckets, node i is the
\* better of 2i and 2i + 1.
TreeSize(n) ==
  LET Doubled[k \in 0 .. n] == IF k = 0 THEN 1 ELSE 2 * Doubled[k - 1]
  IN Doubled[CHOOSE k \in 0 .. n : Doubled[k] >= n /\ \A j \in 0 .. n : Doubled[j] >= n => k <= j]

\* _peek_bucket: skips the candidates that found a job meanwhile.
Peek(b, from) ==
  LET ahead == {i \in from .. Len(buckets[b]) : buckets[b][i] \notin assigned}
  IN IF ahead = {} THEN Len(buckets[b]) + 1 ELSE CHOOSE i \in ahead : \A j \in ahead : i <= j
HeadAt(b, i) == IF i <= Len(buckets[b]) THEN buckets[b][i] ELSE None

BuiltTree(bs) ==
  LET size == TreeSize(Len(bs))
      node[i \in 1 .. 2 * size - 1] ==
        IF i < size THEN Best(node[2 * i], node[2 * i + 1])
        ELSE IF i - size < Len(bs) THEN bs[i - size + 1][1] ELSE None
  IN node

\* _update_bucket: one leaf, then its ancestors, bottom up.
Updated(t, b, head) ==
  LET size == TreeSize(NBuckets)
      leaf == size + b - 1
      Above[k \in 0 .. leaf] == IF k = 0 THEN leaf ELSE Above[k - 1] \div 2
      Up[i \in 1 .. 2 * size - 1] ==
        IF i = leaf THEN head
        ELSE IF \E k \in 1 .. leaf : Above[k] = i THEN Best(Up[2 * i], Up[2 * i + 1]) ELSE t[i]
  IN Up

\* _query_best_up_to_bucket: the canonical nodes of the prefix, from both ends.
BestUpTo(b) ==
  LET size == TreeSize(NBuckets)
      Walk[w \in (1 .. 2 * size) \X (1 .. 2 * size)] ==
        LET l == w[1]
            r == w[2]
            fromLeft  == IF l % 2 = 1 THEN tree[l] ELSE None
            fromRight == IF r % 2 = 1 THEN tree[r - 1] ELSE None
        IN IF l >= r THEN None
           ELSE Best(Best(fromLeft, fromRight), Walk[<<(l + 1) \div 2, r \div 2>>])
  IN IF b = 0 THEN None ELSE Walk[<<size, size + b>>]

Firm == order[turn]
\* Mutant of Affordable: a seeker who asks for just the offer is passed over.
AffordableBelow ==
  Cardinality({i \in 1 .. NBuckets : Asked(buckets[i][1]) < plan.offer[Firm]})

\* max_bucket: the buckets up to the offer, which searchsorted compares in double.
Affordable == Cardinality({i \in 1 .. NBuckets : Asked(buckets[i][1]) <= plan.offer[Firm]})
BucketOf(h) == CHOOSE b \in 1 .. NBuckets : Asked(buckets[b][1]) = Asked(h)

-----------------------------------------------------------------------------
\* Matching (_match_labor_fast, with fix_switcher_vacancies on).  A firm whose offer nobody accepts
\* has nobody to pop: it closes at once.

Least(m, n) == IF m <= n THEN m ELSE n
Openings(f) == IF f \in SwitcherFirms(plan) THEN Least(Cardinality(plan.switching), SwitcherCap) ELSE plan.hires[f]
OpeningsAt(firms, t) == IF t <= Len(firms) THEN Openings(firms[t]) ELSE 0

OpenMarket ==
  /\ pc = "open"
  /\ assigned' = Incumbents(plan)
  /\ outcome' = [h \in Households |-> IF h \in Incumbents(plan) THEN employer[h] ELSE None]
  /\ hired' = [f \in Firms |-> <<>>]
  /\ leaving' = plan.layoffs
  /\ IF HiringFirms(plan) = {} \/ Pool(plan) = {}
     THEN /\ pc' = "apply"
          /\ UNCHANGED <<order, turn, index, vacancies>>
     ELSE /\ order' \in SetToSeqs(HiringFirms(plan))
          /\ turn' = 1
          /\ vacancies' = OpeningsAt(order', 1)
          /\ buckets' = [i \in 1 .. Len(Levels) |-> Ranked({h \in Pool(plan) : Asked(h) = Levels[i]})]
          /\ pos' = [i \in 1 .. Len(Levels) |-> 1]
          /\ tree' = BuiltTree(buckets')
          /\ aside' = <<>>
          /\ pc' = "hire"
  /\ UNCHANGED <<live, employer, roster, plan, events, before>>

\* Mutant of Hire: the hired household stays in the pool.
HireUnassigned(f, h) ==
  /\ hired' = [hired EXCEPT ![f] = Append(@, h)]
  /\ outcome' = [outcome EXCEPT ![h] = f]
  /\ leaving' = IF h \in plan.switching
                THEN [leaving EXCEPT ![employer[h]] = @ \cup {h}] ELSE leaving
  /\ vacancies' = vacancies - 1
  /\ UNCHANGED assigned

\* The household leaves its old firm when it was shopping for a better job.
Hire(f, h) ==
  /\ hired' = [hired EXCEPT ![f] = Append(@, h)]
  /\ outcome' = [outcome EXCEPT ![h] = f]
  /\ assigned' = assigned \cup {h}
  /\ leaving' = IF h \in plan.switching
                THEN [leaving EXCEPT ![employer[h]] = @ \cup {h}] ELSE leaving
  /\ vacancies' = vacancies - 1

\* Switchers a vacancy for switchers may go to, in the order they are scanned: one ask and the
\* offer compare in float32, but no firm without an affordable bucket gets as far.
Movable ==
  {h \in plan.switching \ assigned :
     employer[h] # Firm /\ Asked(h) <= Single[plan.offer[Firm]] /\ Affordable > 0}

HireSwitcher ==
  /\ pc = "hire" /\ Firm \in SwitcherFirms(plan) /\ vacancies > 0
  /\ \E h \in Movable : (\A g \in Movable \ {h} : Better(h, g)) /\ Hire(Firm, h)
  /\ UNCHANGED <<pc, live, employer, roster, plan, order, turn, index, events, before>>

\* The popped head may have a job by now, or be a worker of this very firm: it is set
\* aside, to be put back when the firm is done.  A head that is not of the pool would leave the
\* firm stuck: PopHead and CloseFirm both disabled.
PopHead ==
  /\ pc = "hire" /\ Firm \notin SwitcherFirms(plan) /\ vacancies > 0
  /\ \E h \in Pool(plan) :
     LET b == BucketOf(h)
         next == Peek(b, pos[b] + 1)
     IN /\ h = BestUpTo(Affordable)
        /\ pos' = [pos EXCEPT ![b] = next]
        /\ tree' = Updated(tree, b, HeadAt(b, next))
        /\ \/ /\ h \in assigned
              /\ UNCHANGED <<aside, vacancies, results>>
           \/ /\ h \notin assigned /\ employer[h] = Firm
              /\ aside' = Append(aside, <<b, pos[b]>>)
              /\ UNCHANGED <<vacancies, results>>
           \/ /\ h \notin assigned /\ employer[h] # Firm
              /\ Hire(Firm, h)
              /\ UNCHANGED aside
  /\ UNCHANGED <<pc, live, employer, roster, plan, order, turn, buckets, events, before>>

\* The heads set aside go back, one bucket after the other.
PutBack ==
  LET Back[k \in 0 .. Len(aside)] ==
        IF k = 0 THEN [pos |-> pos, tree |-> tree]
        ELSE LET b    == aside[k][1]
                 here == Peek(b, Least(Back[k - 1].pos[b], aside[k][2]))
             IN [pos  |-> [Back[k - 1].pos EXCEPT ![b] = here],
                 tree |-> Updated(Back[k - 1].tree, b, HeadAt(b, here))]
  IN Back[Len(aside)]

CloseFirm ==
  /\ pc = "hire"
  /\ \/ vacancies = 0
     \/ Firm \in SwitcherFirms(plan) /\ Movable = {}
     \/ Firm \notin SwitcherFirms(plan) /\ BestUpTo(Affordable) = None
  /\ pos' = PutBack.pos
  /\ tree' = PutBack.tree
  /\ aside' = <<>>
  /\ vacancies' = OpeningsAt(order, turn + 1)
  /\ turn' = turn + 1
  /\ pc' = IF turn = Len(order) THEN "apply" ELSE "hire"
  /\ UNCHANGED <<live, employer, roster, plan, order, buckets, results, events, before>>

-----------------------------------------------------------------------------
\* What the outcome does to both sides.

\* What the matcher leaves behind when it returns.
Forget ==
  /\ order' = <<>> /\ turn' = 1
  /\ buckets' = <<>> /\ pos' = <<>> /\ tree' = <<>> /\ aside' = <<>>
  /\ assigned' = {} /\ outcome' = [h \in Households |-> None]
  /\ leaving' = [f \in Firms |-> {}]

\* A switcher without a new job keeps the old one, unless it was laid off; but a week that has no
\* market returns before.
FellBack ==
  [h \in Households |->
     IF order # <<>> /\ outcome[h] = None /\ h \in plan.switching \ LaidOff(plan)
     THEN employer[h] ELSE outcome[h]]

Events(kind, who) == {e \in {kind} \X Firms \X Households : e[3] \in who[e[2]]}

Apply ==
  /\ pc = "apply"
  /\ events' = Events("hire", [f \in Firms |-> ToSet(hired[f])]) \cup Events("layoff", leaving)
  /\ roster' = [f \in Firms |-> (roster[f] \ leaving[f]) \cup ToSet(hired[f])]
  /\ employer' = FellBack
  /\ pc' = "sync"
  /\ Forget
  /\ plan' = [NoPlan EXCEPT !.switching = plan.switching, !.layoffs = plan.layoffs]
  /\ UNCHANGED <<live, vacancies, hired, before>>

\* _sync_firm_employee_rosters walks the households by id: residents and doctors work in
\* healthcare, the newly trained in the firm with the fewest so far, and nobody else does.
FewestStaff(link, h) ==
  LET Staff(f) == Cardinality({g \in Doctors : g < h /\ link[g] = f})
  IN CHOOSE f \in Healthcare : \A g \in Healthcare :
       Staff(f) < Staff(g) \/ (Staff(f) = Staff(g) /\ f <= g)
Place(link, h) ==
  IF h \in Doctors
  THEN IF Healthcare = {} THEN None
       ELSE IF employer[h] \in Healthcare THEN employer[h] ELSE FewestStaff(link, h)
  ELSE IF employer[h] \in Healthcare THEN None ELSE employer[h]

Sync ==
  /\ pc = "sync"
  /\ \E link \in [Households -> Firms \cup {None}] :
       /\ \A h \in Households : link[h] = Place(link, h)
       /\ employer' = link
       /\ roster' = [f \in Firms |-> {h \in Households : link[h] = f}]
  /\ pc' = "payroll"
  /\ UNCHANGED <<live, plan, order, turn, index, vacancies, results, events, before>>

\* enforce_private_payroll: what the cash of a firm and its credit cannot pay is cut, this
\* week's hires first and the last of them foremost, then incumbents from the roster's head.
\* Mutant of Retention: incumbents are cut first.
RetentionOfHires(f) == Rising(roster[f] \ ToSet(hired[f])) \o Reverse(hired[f])

Retention(f) == Reverse(hired[f]) \o Rising(roster[f] \ ToSet(hired[f]))
CutAt(f, kept) == ToSet(SubSeq(Retention(f), 1, Len(Retention(f)) - kept))

\* Mutant of EventsAfter: the event of a cancelled hire stays.
EventsWithCancelled(cut) ==
  events \cup Events("layoff", [f \in Firms |-> cut[f] \ ToSet(hired[f])])

\* A cut hire was never hired; a cut incumbent is laid off.
EventsAfter(cut) ==
  {e \in events : ~ (e[1] = "hire" /\ e[3] \in cut[e[2]])}
    \cup Events("layoff", [f \in Firms |-> cut[f] \ ToSet(hired[f])])

FundPayroll ==
  /\ pc = "payroll"
  /\ \E kept \in [PayrollFirms -> 0 .. Cardinality(Households)] :
       LET cut == [f \in Firms |-> IF f \in PayrollFirms THEN CutAt(f, kept[f]) ELSE {}]
       IN /\ \A f \in PayrollFirms : kept[f] <= Cardinality(roster[f])
          /\ roster' = [f \in Firms |-> roster[f] \ cut[f]]
          /\ employer' = [h \in Households |->
                            IF \E f \in Firms : h \in cut[f] THEN None ELSE employer[h]]
          /\ events' = EventsAfter(cut)
  /\ pc' = "done"
  /\ UNCHANGED <<live, plan, order, turn, index, vacancies, results, before>>

\* Mutant of Exits: the workers stay linked to the closed firm.
ExitsKeepLinks(gone) ==
  /\ employer' = employer
  /\ roster' = [f \in Firms |-> IF f \in gone THEN {} ELSE roster[f]]

\* _handle_firm_exits lays off the whole roster of a bankrupt firm, whose id may be used
\* again: a new firm takes the next id behind the largest.
Exits(gone) ==
  /\ employer' = [h \in Households |->
                    IF \E f \in gone : h \in roster[f] THEN None ELSE employer[h]]
  /\ roster' = [f \in Firms |-> IF f \in gone THEN {} ELSE roster[f]]
Entrants(gone) == SUBSET (Firms \ (live \ gone))

\* The rest of the week.
Rest ==
  /\ pc = "done"
  /\ \E gone \in SUBSET (live \ Baseline) : \E new \in Entrants(gone) :
       /\ live' = (live \ gone) \cup new
       /\ Exits(gone)
  /\ plan' = NoPlan
  /\ hired' = [f \in Firms |-> <<>>]
  /\ events' = {} /\ before' = employer'
  /\ pc' = "plan"
  /\ UNCHANGED <<order, turn, index, vacancies, assigned, outcome, leaving>>

\* The town starts with its public firms; the hospitals share the doctors.
Init ==
  /\ pc = "plan" /\ live = Baseline
  /\ employer \in {link \in [Households -> Healthcare \cup {None}] :
                    \A h \in Households : h \in Doctors <=> link[h] # None}
  /\ roster = [f \in Firms |-> {h \in Households : employer[h] = f}]
  /\ plan = NoPlan
  /\ order = <<>> /\ turn = 1 /\ vacancies = 0
  /\ buckets = <<>> /\ pos = <<>> /\ tree = <<>> /\ aside = <<>>
  /\ assigned = {} /\ outcome = [h \in Households |-> None]
  /\ hired = [f \in Firms |-> <<>>] /\ leaving = [f \in Firms |-> {}]
  /\ events = {} /\ before = employer

Week == OpenMarket \/ HireSwitcher \/ PopHead \/ CloseFirm \/ Apply \/ Sync \/ FundPayroll \/ Rest
Next == Plan \/ Week
Spec == Init /\ [][Next]_vars

-----------------------------------------------------------------------------
\* Properties.

TypeOK ==
  /\ pc \in {"plan", "open", "hire", "apply", "sync", "payroll", "done"}
  /\ employer \in [Households -> Firms \cup {None}]
  /\ outcome \in [Households -> Firms \cup {None}]
  /\ before \in [Households -> Firms \cup {None}]
  /\ roster \in [Firms -> SUBSET Households] /\ leaving \in [Firms -> SUBSET Households]
  /\ live \subseteq Firms /\ assigned \subseteq Households
  /\ hired \in [Firms -> Seq(Households)]
  /\ vacancies \in Nat
  /\ events \subseteq {"hire", "layoff"} \X Firms \X Households

\* Once the rosters are rebuilt, and through payroll cuts, a firm's roster and the
\* households' links say the same, also over bankruptcies and reused ids, and doctors and
\* hospitals go together.  (_sync_firm_employee_rosters, enforce_private_payroll,
\* _handle_firm_exits)
RostersAgree ==
  /\ TypeOK
  /\ pc \in {"payroll", "done", "plan"} =>
       /\ \A f \in Firms : roster[f] = {h \in Households : employer[h] = f}
       /\ \A h \in Employed : employer[h] \in live
       /\ \A h \in Households : h \in Doctors <=> employer[h] \in Healthcare

\* Nobody is hired twice in a week, by two firms or by one, and who is hired by a firm is
\* assigned to it; a firm hires no more than its openings.  (_match_labor_fast)
OneJobPerWorker ==
  /\ \A f \in Firms : \A i \in 1 .. Len(hired[f]) :
       /\ pc \in {"hire", "apply"} => outcome[hired[f][i]] = f
       /\ \A j \in 1 .. Len(hired[f]) : hired[f][i] = hired[f][j] => i = j
  /\ pc = "apply" => \A f \in Firms : hired[f] # <<>> => Len(hired[f]) <= Openings(f)

\* The direct search of _match_labor: every firm in turn takes the best of all who would
\* work for its offer, which it compares with the asks in float32.
Willing(f, taken) == {h \in Pool(plan) \ taken : Asked(h) <= Single[plan.offer[f]]}
LegacyRow(firms) ==
  LET Served[k \in 0 .. Len(firms)] ==
        IF k = 0 THEN [taken |-> Incumbents(plan), hired |-> [f \in Firms |-> <<>>]]
        ELSE LET was == Served[k - 1]
                 eligible == Ranked(Willing(firms[k], was.taken))
                 new == SubSeq(eligible, 1, Least(plan.hires[firms[k]], Len(eligible)))
             IN [taken |-> was.taken \cup ToSet(new), hired |-> [was.hired EXCEPT ![firms[k]] = new]]
  IN Served
LegacyMatch(firms) == LegacyRow(firms)[Len(firms)].hired

\* No ask that float32 rounds lies above an offer that float32 rounds to the same wage, or higher.
RoundingDecidesNothing ==
  \A h \in DOMAIN plan.asks, f \in DOMAIN plan.offer :
    Asked(h) <= Single[plan.offer[f]] => Asked(h) <= plan.offer[f]

\* Without switchers, when no firm both hires and lays off and rounding decides nothing, buckets,
\* tree and lazy skipping hire exactly whom the direct search hires, firm for firm and in the same
\* order.  (_compare_labor_match_outcomes)
FastMatchesLegacy ==
  /\ pc = "apply" /\ order # <<>> /\ plan.switching = {}
  /\ \A f \in Market : plan.hires[f] = 0 \/ plan.layoffs[f] = {}
  /\ RoundingDecidesNothing
  => hired = LegacyMatch(order)

\* At the end of the week the hire events of the labor market are exactly the moves that
\* lasted, whatever payroll cut, and a layoff event outside healthcare is of a job lost.
\* (_record_labor_events, enforce_private_payroll)
EventsAreMoves ==
  pc = "done" =>
    /\ \A f \in Firms \ Healthcare, h \in Households :
         <<"hire", f, h>> \in events <=> employer[h] = f /\ before[h] # f
    /\ \A f \in Firms \ Healthcare, h \in Households :
         <<"layoff", f, h>> \in events => before[h] = f /\ employer[h] # f

\* No incumbent loses the job to payroll while the firm keeps one of this week's hires.
\* (enforce_private_payroll)
IncumbentsBeforeHires ==
  [][\A f \in PayrollFirms :
       pc = "payroll" /\ ~ (roster[f] \subseteq roster'[f] \cup ToSet(hired[f]))
         => roster'[f] \cap ToSet(hired[f]) = {}]_vars

\* What docs/SIMULATION.md:153 says of incumbents and _match_labor_fast of switchers: who
\* was shopping for a better job and was not laid off still has one.
SwitchersKeepAJob ==
  pc = "done" => \A h \in plan.switching \ LaidOff(plan) : employer[h] # None
=============================================================================
