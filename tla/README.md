# EcoSim, specified

TLA+ specifications of EcoSim's simulation server, model-checked with TLC and, where the statement is a safety
property, proved with TLAPS for every value of the constants.

EcoSim is a simulation of a town's economy. A browser opens a WebSocket, sets a town up, starts it and watches it
tick, one week per tick; policy levers can be changed while it runs; runs may be persisted to a warehouse and several
sessions may be the arms of one experiment. Most of the code is floating-point economics. The specifications cover the
two places where the order of events decides what is right: the session server with what it persists, and, inside the
week, the bookkeeping that many phases share: who works where, who waits for a visit, who owes what to whom, and where
every unit of money is.

## The system

| Component | State | Operations | Interacts with |
|---|---|---|---|
| **Session: command handler** (`websocket_endpoint`) | the command being handled | SETUP, START, STOP, RESET, CONFIG, STABILIZERS, FINISH, EXTEND, TRACK, disconnect | the loop, through `SimulationManager`'s fields and the loop task |
| **Session: tick loop** (`run_loop`) | its place in the loop, receipts to send | apply queued CONFIG, step, buffer rows, send frames, stop at the horizon, fail | the handler; the economy; the warehouse |
| **Warehouse** (`_open/_flush/_close/_finalize/_reopen_warehouse_run`, `db_manager.py`) | batches, run id, watermark in memory; rows, status, watermark on disk | open, buffer, flush, finalize, reopen, close | called by both tasks |
| **Session registry, experiment registry** (`SessionRegistry`, `experiments.py`) | admitted sessions; arms reserved per experiment | open, close; reserve, release | called by every session |
| **LLM government** (`_ensure/_schedule/_collect/_apply_llm…`) | switch, advisor, snapshot task, latest decision | connect, schedule, collect, apply at a boundary, switch off | the loop, CONFIG, SETUP, the provider |
| **Policy schema** (`policy_schema.py`, `_normalize_runtime_policy_updates`) | none | validate, normalise, group rules | CONFIG, SETUP |
| **Labor market, firm lifecycle** (`economy.py` phases 2–4, `payment_payroll.py`) | employer links, rosters, plans, buckets and segment tree | plan, match, fall back, apply, rebuild rosters, cancel unfunded jobs, close and open firms | payments (payroll), the hospital's staffing |
| **Hospital queue** (`agents.py`, `economy.py` phases 1 and 6.8, `payment_sectors.py`) | queue, the patients' own fields, public money for care | ask, put off, return, order, quote, treat, turn away | loans (a visit), payments (restrictions) |
| **Payments** (`payments.py`, `payment_payroll.py`, `payment_government.py`, `payment_projects.py`) | cash, clearing, claims, holds, late income, restrictions, a services project | fund payroll, settle income and benefits, sell, settle firms, pay a project, close firms, close the fiscal week | every phase that moves money |
| **Loans** (`payment_loans.py`, mortgages, treasury loans) | ledger, booked total, reserves, underwriting index, mirrors, mortgages | accrue, underwrite, originate, roll back, collect, write off, settle exits | hospital, payments, entry |
| **Rest of the economy and agents** (`economy.py`, `agents.py`) | prices, goods, skills, well-being | one `step()` | the loop |
| **Frame events, tracked sample** | event log, sampled households | collect, pin, replace | the loop, TRACK |
| HTTP read API, forecasting, dashboard, cloud runner | – | read-only, offline or outside the server | – |

What is hard here, and what each part has to get right:

* *Interleaving.* Handler and loop are asyncio tasks over shared fields. Whatever one of them tested may have changed
  at its next `await`: a STOP arrives between the receipts of a boundary and the tick, an EXTEND during the horizon
  notice, a RESET under a loop that is only asked to cancel. A session must never tick past its horizon, after FINISH
  or between a STOP and its answer, and a running session must have a loop.
* *Ordering.* CONFIG is queued while the loop runs and applied at once while it is paused. The two paths must not
  overtake each other, and no queued action may wait for a tick that never comes.
* *Failure.* A tick may raise, a send may raise, a flush or a status update may fail and is only logged, a loop may
  outlive a wait. The run must then be neither lost nor taken for complete.
* *Two copies of one fact.* `run_finished`, `run_finalized` and the durable status; the in-memory watermark and the
  durable one; the experiment's record, the index by session and the session's own arm; a firm's roster and its
  workers' links; the queue and the patients' flags; the bank's ledger, its booked total, its underwriting index and
  the borrowers' copies; the care money's two counters.
* *Stale readings inside a week.* Dues noted at the beginning of a week are collected near its end; a loan is granted
  on a sum computed at the first application; a price quoted in phase 1 is charged in phase 6.8; the head of a bucket
  may have found a job since it was put in the tree.
* *Partial success.* Payroll that covers some workers, claims paid in part, a visit refused after its loan was granted,
  a project whose worker was not paid, a firm that closes with claims open and whose id is used again.
* *Limits.* The horizon, the batch thresholds, the household budget and the arm count, the number of sessions, cash.

## Modules

| Module | What it is |
|---|---|
| `Lifecycle` | What a session promises its client: a clock that advances only while running, up to its horizon, and a FINISH that only a resume, a RESET or a SETUP undoes. The abstract specification. |
| `Warehouse` | The batches and the durable run rows, as operators on one record; on its own it is driven by a manager that keeps its contract (`WarehouseNext`). It is also the abstract specification of what Session may do to a run. |
| `Session` | One session: handler and loop, over Warehouse. |
| `Experiments` | The two process-wide registries, over several sessions. |
| `LlmGovernment` | The background decisions of one session, over a reduced loop and handler. |
| `Labor` | A week of the labor market, pop by pop, then rosters, payroll cuts, closing and opening firms. |
| `Care` | The hospital's queue, in the legacy sequence and on the payment arms. |
| `Payments` | The money of a week on the payment arms, phase by phase. |
| `Loans` | The loans of a week on the payment arms: bank ledger, mortgages, treasury claims, mirrors. |
| `MCWarehouse`, `MCSession`, `MCExperiments`, `MCLlmGovernment`, `MCLabor`, `MCCare`, `MCPayments`, `MCLoans` | Instances for TLC. |
| `Totals` | The sum of a function over a finite set, for the models that add up money and caps. |
| `TotalsProofs` | The laws of sums and folds, for every finite set. |
| `SessionProofs`, `LlmGovernmentProofs`, `ExperimentsProofs`, `PaymentsProofs`, `LaborProofs`, `CareProofs`, `LoansProofs` | Theorems about the module each is named after; those about `Warehouse` are in `SessionProofs`. |

`Session` extends `Warehouse` and refines it and `Lifecycle`. The four modules of the week stand side by side: each
leaves open what the others decide (`Payments` who is hired, `Loans` what is traded, `Care` who has credit), so what it
shows holds whatever those decide.

### Session

An action of `Session` is the code a task runs from one `await` to the next; `loop.pc` and `hpc` name the awaits. The
loop's `await`s are the sends of receipts (`"receipts"` at a tick boundary, `"hreceipts"` at the horizon), of the
notice, of the frame (with the sleep behind it) and of the error; the handler's are the two waits of
`halt_background_loop`. `LoopTop` is the loop condition and what follows it, so the actions that come back to it (a
frame sent, a notice sent, the last horizon receipt) end in it. `LoopUnwinds` is `CancelledError`: not an `Exception`,
so only the `finally` block runs and `is_running` stays as it is.

`economy`, `isRunning`, `horizon`, `notified`, `finished`, `pending` and `cancelled` are the manager's fields and the
task's cancel request. A CONFIG is its number, all of them setting the same lever, so `policy` is the number applied
last. `paused` and `stale` are observers: no action reads them.

Left out: the contents of frames and receipts, the LLM government (a module of its own), TRACK and STABILIZERS (they change nothing the
properties read), payload checks, and replies that refuse a command, which change nothing. A STOP's sends between its
drain and its flush are part of its step: a send that fails there is a disconnect, which flushes as well. Two commands
are never handled at once, as in the code, where one coroutine reads and handles them in turn.

`LoopMayFail`, `CancelMayStall` and `Pipelined` switch on what may go wrong: exceptions in a tick or a send; a loop
that outlives STOP's second wait; a client that does not wait for an answer. Without `Pipelined`, a command reaches
the handler only after a cancelled task was resumed, because the answer to the previous command, the client's message
and its reception all pass through the same event loop, behind the task's wake-up.

### Warehouse

`wh` is one record. Operators return the set of outcomes of an operation, so that a flush that fails, a status update
that fails and both failing are all there, and Session composes them. Rows are abstracted to the tick they are of:
per-tick rows (`ticks`), event rows (`events`) and policy actions with their batch position, which is what makes up
their event key. A flush may happen earlier than `BatchSize` demands, since several tables have rows of their own and
snapshots a threshold of their own. Left out: LLM decision rows, warmup boundaries, and the policy rows that are not
a client's (`government_auto`, `government_llm`), which are of other levers and only make a flush due earlier.

`WarehouseNext` keeps the contract that Session is checked against: no tick and no policy action between a FINISH and
a reopen.

### Experiments

SETUP, the default SETUP of START and `close_session` run without an `await`, so each is one action over the registry.
`GreetingFails` is the one place where a session is registered and its handler's `try` has not begun. An id is used
once in the code; after `CloseSession` it stands for a fresh one, nothing of the old session being left, which
`ReservedIffRunning` checks.

### LlmGovernment

At a due week the loop copies the economy and starts a task; a later boundary collects the task's result and applies
it before the queued CONFIGs. `task` is `llm_task` and its progress; `pending_llm_decision` is filled by `_collect` and
emptied by `_apply` in the same segment, so it needs no variable. The lever is the name of whoever set it last.
`Connects` is `_ensure_llm_government`: it suspends only to create a provider, before the first tick or at a due week,
and switches the government off when there is none. The provider is external: a task ends when it ends, with a result
or an error, and a cancelled one unwinds.

Loop and handler are those of Session, reduced to what this code sees: a cancelled loop runs none of it again
(`StaleIsInert` and `HaltIsBoundary` of Session), so cancelling makes it `"off"`, and the receipts of a boundary are one
send. `cut` marks a task that was thinking when the government was switched off and is read by properties only. A
result that had arrived by then is not cut: `_apply_config_updates` cancels only a task that is not done, so an off and
an on sent while the session is paused leave it to be applied. RESET keeps the task as well. The model has both
behaviours and no property forbids them, the repository being silent on them.

### Labor

`pc` walks through the phases of a week. `Plan` makes the plans of firms and households: what a firm wants to hire or
lay off and what anybody asks is free, within what the planners guarantee (`Staffing`, `Searchers`, `MayShop`).
`OpenMarket` to `CloseFirm` are `_match_labor_fast` with its real data structures: one bucket of job seekers per asked
wage, a position in each, a segment tree over the heads, heads set aside and put back when a firm's own workers come
up. Each pop is an action. `Apply` is the matcher's
fallback for switchers and what firms and households take over from the outcome, `Sync` the rebuilding of
the rosters from the links (with the doctors' assignment to hospitals), `FundPayroll` the cancellation of jobs that
cash and credit cannot pay, `Rest` the bankruptcies and entrants of the week, which may reuse an id. Wages paid are
left out: a payroll that falls short keeps some suffix of its order of retention, and every suffix is tried. Skills
and wages are small numbers; doctors are trained from the start. `Single` says what float32 makes of a wage: asks are
kept so, offers are not, and each comparison is modelled in the width it is made in (`Affordable` in float64, `Movable`
and `Willing` in float32).

### Care

Two steps a week: `Request` is phase 1 (new illnesses, returning patients, new requests at the price of the day),
`Treat` is phase 6.8 (the order by priority and rotation, then one pass with a fold over the queue) and the new price.
The initial state chooses the sequence: `legacy`, where a request takes a visit off the episode and a patient without
means leaves, or `payment`, where a visit stays due until it is made, a patient turned away returns by itself at the
price accepted, and a visit is either `covered` by public money or paid by cash and a loan. In `legacy` a subsidy is
the smaller of the cap left (`budget`) and the treasury's free cash (`cash`), read again at each visit; when the bank
cannot lend, the treasury funds a patient's loan out of the same cash. Between the quotes and the visits that cash only
rises: the phases in between pay nothing from it (mortgages and service expansions are the bank's; direct loans to
firms come in phases 1, 1.5 and 13). Prices, means, staff and
budgets are small numbers chosen each week; health is left out but for the number of visits.

### Payments

One action per phase of the week, or per sale (`Sale`), of the arms `income_first` and `income_late`. The variables are
the pockets money can be in: cash of firms and households, the treasury, `rest` (the bank and the Misc pool), clearing,
holds, deferred income; and what is owed or promised: wage claims, restrictions, the services project. `Proportional`
is `proportional` of `payments.py`, in whole units. Who is hired, bought from, taxed and spent on is chosen, within the
money there is, so the model does not depend on prices. `raised` stands for the `ValueError`s of the payment book.
Rent, deposits, R&D and reporting are left out.

### Loans

One action per phase or per loan. `ledger` is the bank's book with everything that must agree with it: claims, booked
total, reserves, the cached underwriting index and the borrowers' mirrors. `Granted`, `RolledBack`, `Collection`,
`Allocation` and `Settled` are the operators the code is made of; the actions compose them in the order of the week.
Interest is a whole number per principal; a firm has one mortgage and one direct treasury claim at a time; the firm's
own trade and the rest of the economy are one open pocket; whether startup loans are enabled may be chosen again at
every entry; the units a division leaves at a closing firm go to the first creditor, where the code divides reals.
Contracts of version 1 and registered loans funded by the treasury are left out.

## Runs

| Run | Instance | Shows |
|---|---|---|
| `session` | every fault on, warehouse on | type invariant, horizon, halting boundaries, no tick of a stale loop, no queue behind a pause; Session implements Lifecycle and Warehouse; a row that FINISH completed stays so, through close, crash and later runs, until its own loop is resumed |
| `session_orderly` | no fault, client waits; fairness | STOP and FINISH are answered; a running session progresses; policy never rolls back; the queue drains |
| `warehouse` | two runs, every order of operations | ready runs are complete, the watermark covers what is claimed, ended runs are frozen |
| `experiments` | three sessions, two experiments | reservations match running arms, every promised arm has room, arms are comparable |
| `llm` | five weeks, decisions due in weeks 1, 3 and 5 | no call for a government that is off, cut decisions never applied, a queued CONFIG has the last word at its boundary, a call under way is never replaced |
| `labor` | services firm, private food firm, hospital; three workers, a doctor | rosters and links agree, nobody has two jobs, the indexed matcher hires whom the direct search hires, events are the moves that lasted, hires are cut before incumbents |
| `care` | two patients, one a doctor; both sequences; a treasury with 0 to 3 units that may lend to a patient | queue and patients agree, a due visit ends only by being made, a funded visit is never refused, nobody is charged above what it accepted or was quoted but for what the treasury lent in the same pass |
| `payments` | baseline, private funded and owned firm, two workers; both arms | money is conserved, promises stay covered, income settles exactly, a closed firm leaves nothing behind |
| `loans` | a household and a housing firm that may close and return | money is conserved, ledger and mirrors agree, loans stay within the income that serves them, collection is exact |
| `session_pipelined` | a client that does not wait | *violation*: `is_running` with no loop |
| `llm_results` | as `llm` | *violation*: a finished decision overwritten before it was collected |
| `labor_switchers` | as `labor` | *violation*: a worker who shopped for a better job and found none lost the old one |

In `experiments`, `labor`, `care`, `payments` and `loans` the type invariant (`TypeOK`) is the first conjunct of one
invariant of the run, which then also says that no pocket is overdrawn.

**Bounds.** `session`: two ticks, horizon none or 2, EXTEND by 1, two CONFIGs, a batch of two, one run: a run reaches
its horizon before and after FINISH, two CONFIGs are queued together so that one receipt is sent and one is not, and a
flush falls due with rows of two ticks. A second run is covered in all orders by `warehouse`. `session_orderly`: three
ticks, so that a run passes the horizon it is extended at. `experiments`: a budget of 5 makes `5 div 2` and `5 div 3`
inexact, sizes 1..3 lie below, at and above the caps, and arm count 4 exceeds `MaxArms`. `llm`: an interval of two
weeks lets a call last over a due week and end before, at or behind it, with up to three CONFIGs queued at a boundary.
`labor`: asks of 2 and 3 make two buckets and a tree with inner nodes, offers of 2, 3 and 5 lie at and above them, and 3
is rounded up by float32, which makes an ask of 3 equal to that offer in one width and higher in the other; two hires per firm and three workers make firms
compete; two private firms can close and come
back; `MayBeIll` keeps the doctor able to work, since one who is laid off is unlinked in the same way. `care`: two prices, one above the means, staff for none, one or both
of two patients, episodes of one or two visits, one or two weeks apart; a cap and a treasury that hold the subsidies of
both visits, of one or of none, and a treasury that also holds the loan to the one who has no cash. Two places are what
the properties tell apart (first refused or lent to, second charged); longer queues are proved, not run. Weeks are
counted modulo 2, a multiple of every queue length, so rotation is exact. `payments`: amounts of one or two units, which makes every payment that can be partial partial; the claim bound
`MaxClaim` stops a worker from working on where it is owed two weeks. `loans`: two claims at a time, a bank that opens
with two units, which two small loans exhaust, two misses to default, a cooldown of one week. `MaxTick`, `MaxRuns`, `MaxWeek`, `MaxQueue`, `MaxActions`, `MayBeIll`, `MaxHires`, `MaxVisits`,
`MaxGap`, `MaxBudget`, `MaxCash`, `MaxClaim`, `MaxOutlay`, `MaxClaims`, `MaxDirect`, `MaxIncome` and `Rotation` are bounds of the
models only. `RunningProgresses` therefore leaves out the last tick, and `QueueDrains` runs without a horizon, where
the bound, not the code, would stop the loop.

**Fairness.** `FairSpec` of Session, used by `session_orderly`, asks of the event loop only that a loop task that can
run does (its sends and its sleep complete) and that a wait of the handler ends, by the task's end or by its timeout.
Nothing is asked of the client, and no failure is ever forced. `asyncio` schedules every ready task, and `wait_for` has
a timeout, which justifies both. The other modules state safety only: a week of the economy is one call on one thread.

**Deadlock** is checked everywhere but in `experiments`: with every slot taken by a session that lost its client before
its handler began, that server really stops admitting anyone. A session whose connection is closed and whose loop is
gone stutters explicitly (`Ended`). In `payments` a raised error would stop the week and show as a deadlock as well.

## What the violations mean

Each contradicts a statement of the repository, quoted in `PROJECT.json`.

1. *No loop behind STARTED* (`start_background_loop`, `session_pipelined`). It takes any task that is not done for a
   running one. Right behind a RESET the task is being cancelled: START sets `is_running`, answers STARTED, and nothing
   ticks. A loop that failed and is still sending its error is about to end in the same way, with a client that does
   wait (the invariant is violated as well with `Pipelined = FALSE` and `LoopMayFail = TRUE`).
2. *Lost decision* (`_schedule_llm_government_if_due`, `llm_results`). The slot counts as free when its task is done,
   collected or not. A provider that answers while the receipts of a boundary are sent is overtaken by the task of the
   due week that follows, and its decision is neither applied nor recorded.
3. *Switcher without a job* (`_match_labor_fast`, `labor_switchers`). The fallback to the old employer comes behind the
   early return for a week without hiring firms, and payroll may cancel the new job when the old one is gone already.

The models show more behaviour that a reader of the code may not expect and that no run is spent on:

* *Rollback* (`except` of the loop, server.py:3149). Horizon, STOP and FINISH drain the queue so that an older CONFIG
  cannot be applied over a newer one; the failure path does not. `PolicyNeverRollsBack` is checked without failures.
* *Lost receipt* (server.py:631). STOP's cancel can cut the loop between two receipts of actions already applied.
* *Dropped policy action* (server.py:1849). The event key holds the position in the batch, which restarts with every
  flush, so a later action of the same tick may be dropped by its key.
* *Session leak* (server.py:3765). SESSION is sent before the `try` whose handlers close the session.
* *Ask equal to the offer* (`_match_labor_fast`, economy.py:5044). The asks are float32, the offer is a Python float,
  and `searchsorted` compares in float64: an ask that float32 rounds up (40.7) is not within an equal offer, against the
  comment one line above ("only reservation_wage <= wage_offer"). The direct search compares in float32 (4652) and
  hires; the comment at 5157 names the difference. Labor has both comparisons, its wage 3 is such a wage, and
  `FastMatchesLegacy` is stated for the weeks in which no ask and offer fall between them (`RoundingDecidesNothing`).
* *Quote below the charge* (`_healthcare_quote_walk`, economy.py:9242). The walk quotes the subsidy against the cash of
  the moment; at the visits a loan the treasury makes to an earlier patient has taken from it, and the next is charged
  more than its quote. The docstring (1790) knows only gaps "toward reserving too much". `ChargesKeepToQuotes` bounds
  the excess by what was lent; without that term it fails.
* *Quotes and staff* (economy.py:1790). Staff that grows between the quotes and the visits raises what a patient pays as
  well: the walk reckons with fewer subsidised visits before it. `ChargesKeepToQuotes` sets these weeks aside.
* *Rotation* (economy.py:8733). The queue is scanned from another origin each week and rewritten in that order; with
  one visit a week and others arriving, a patient can be passed over for ever.
* *Underwriting index* (economy.py:7009, payment_projects.py:140). `can_underwrite` says it deducts "each existing PMT
  once"; treasury loans and mortgages granted later in the same week are missing from the week's sum.
  `ServiceWithinIncome` therefore speaks of the bank's registered claims.

## Proofs

Each theorem holds for every value of the constants that the module's named assumption allows: any number of households,
firms, sessions and experiments, any amounts, any bounds. An action property is drawn from the same invariant as the
state it depends on. A proof has one lemma per action, and below it one step per part of the invariant it can disturb.

### Sums and folds (`TotalsProofs`)

Money is a sum over a set, a share-out is a fold over a sequence. Both are folds of the community modules, so each is
by definition a `CHOOSE` of a recursive function, of which nothing is known until such a function is shown to exist
(`FoldExists`, `SumsExist`). The library's induction theorems take an operator as a parameter, which the provers cannot
instantiate; they are replaced by induction on finite sets stated over families of sets, which are first-order
(`FiniteInduction`, `StrongInduction`): what is to be proved of all subsets is given as the set of those it holds of.
From them come the laws the models need: what a sum becomes when one term changes, when a term is added or removed,
when it is split or mapped one to one, that it is monotone and non-negative; and that finitely many ids can be put in
order (`InOrder`).

### Warehouse and Session

The first part of `SessionProofs` is about `Warehouse` alone. It takes each operator in turn: what it does to the record's
domain and to the invariant `WInv`. This says that every row is sound and that rows exist only of runs that were opened, that each tick of the open
run so far is stored or buffered, that nothing stored lies above the mark and nothing buffered above the tick reached,
and that completed, ready and finalized go together, with nothing left in memory. `ReadyIsComplete`, `NothingBelowWatermarkMissing` and `EndedRunsKeepRows` follow. The tick a flush
computes is a `CHOOSE` over a finite set, shown to exist in `LargestTick`.

The second part is about `Session`, from `WarehouseAssumption` and `SessionAssumption` (natural bounds, horizons within `MaxTick`):

* `TypeCorrect`: `Spec => []TypeOK`. The step splits into control and warehouse, loop and handler.
* `NeverPastHorizon`, `HaltIsBoundary`, `FinishedIsFinal`, `StaleIsInert`. None of these is inductive. A tick follows
  the last receipt one `await` after the horizon test, so one has to know that a live loop with receipts to send is
  below the horizon, whatever the handler did meanwhile: it can only move the horizon up, cancel, or clear
  `is_running`, which is tested again. `ControlInv` says this, and that a task left from a replaced run is cancelled,
  that a halting handler has cleared `is_running`, and that a finished run has it set only at its horizon, where the
  loop does not tick. `TicksAllowed` draws from it all that a tick needs; the theorems are its corollaries.
* `SessionImplementsLifecycle` and `SessionImplementsWarehouse`: initial states map to initial states and every step,
  faults included, to a step of the abstract specification or a stutter. For the warehouse one has to show that
  Session calls it only as its contract allows, which needs `QueueInv`: the queue is no longer than the CONFIGs taken,
  a finalized run is finished, and a finished run has an empty queue or no economy. `SessionRunsReady` carries the
  warehouse's theorems over. `FinishedStaysCompleted` is about every row, not only the session's own: no close, crash,
  failed flush or later run takes back what FINISH completed. It needs that rows other than the current one are never
  written, and that the current one is completed only while it is finalized, which closing looks at.
* `PauseLeavesNoBacklog` (`BacklogInv`): whatever is still to be sent or applied belongs to a loop that is not halted.
* `PolicyKeepsOrder` (`OrderInv`): what is applied is older than what is queued, and the queue ascends. It assumes
  `Orderly`, no failing tick and no stalled cancel: the failure path is the one that rolls back (see *Rollback*).

### LLM government and experiments

`LlmGovernmentProofs`, from `LlmAssumption`:

* `LlmTypeCorrect` and `SwitchedOffIsOff`: no call is under way for a government that is off, and a cut decision is
  never applied. The second needs that a cut task has no result (`CutHasNoResult`); the first that the loop waits for a
  provider only without an advisor, hence without a task, and that no CONFIG is applied while a loop lives (`LoopInv`).
  CONFIG acts on the slot by `TaskAfter` and `EnabledAfter` over a whole batch; `ConfigKeepsSlot` says what a batch
  preserves.
* `AdvisorOnlyWhileOn`, `ConfigHasTheLastWord` and `CallsAreKept`: the three action properties, from the same
  invariants; the batch of a boundary is followed action by action.

`ExperimentsProofs`, from `ExperimentsAssumption`:

* `ReservationsMatchSessions` and `RunningArmsMatch`. The invariant (`ExperimentsInv`) has three parts: the two indexes
  of the registry are inverse to each other (`RegistryOK`), a session that is greeting or open is registered
  (`SessionsOK`), and a session's reservation has the terms its SETUP asked for (`LinkedTo`). The last is what
  `ArmsMatched` needs, and it is inductive only because an experiment keeps its terms as long as it has an arm
  (`Otherwise`). `release` and `reserve` are shown to keep the indexes inverse once, as lemmas about any registry
  (`ReleaseKeeps`, `JoinKeeps`); a failed SETUP is a `reserve` followed by a `release`.
* `RoomIsKept` (`RoomInv`): what is reserved and the caps of the arms not started yet stay within the budget, for any
  budget and any sizes. Each arm's cap is the budget divided and rounded down, so the last arm's room depends on all
  the others having kept to theirs (`AllCapped`).

### Labor

`LaborProofs`, from `LaborAssumption`. `LInv` describes the week phase by phase: what the plans may contain, how
households and rosters are linked in the morning, what the matcher keeps true at every pop (no household matched twice,
no firm over its plan, every match of a household the matcher counts as unassigned or willing to switch), what has been
moved once the outcomes are applied, and how the rosters rebuilt from the households relate to both.

* `RostersStayInStep`: at the end of a week a firm's roster is exactly the households whose employer it is. The matcher
  and the outcomes change only the households; that the rebuilt rosters are right again after cuts, closures and
  returns is what the later parts are for.
* `NobodyIsHiredTwice`, `EventsTellTheMoves`, `HiresGoFirst`: one job per worker and week, events that are the moves
  which lasted, incumbents cut only when no hire of the week is left. The events are compared with the households as
  they were in the morning, through hires, cancelled hires and layoffs.
* `SearchesAgree`: in a week without switchers, without firms that hire and lay off at once, and in which the widths of
  the comparisons decide nothing (`RoundingDecidesNothing`), the matcher's tree finds
  whom the direct search over all households would have found. The ranks, the tree and the row of the direct search are
  each a `CHOOSE`, of which nothing is known until one is shown to exist (`RowExists`, `NodesExist`, `WalkExists`). A
  node of the tree is the better of its two children, after the building and after every update (`BuiltLaw`,
  `UpdatedLaw`), so a query over a prefix gives the best head in it (`BestUpToLaw`), and the buckets a firm can afford
  are a prefix, since they are sorted by wage (`AffordableLaw`), the same that the direct search is willing to take. `MatchInv` says that a bucket is assigned exactly up to
  its position (`Popped`) and that the firm being served has hired the first of the direct search's list (`Serving`);
  the next pop is then the next on that list (`NextHire`). Weeks with switchers are outside the property and the proof.

### Care

`CareProofs`, from `CareAssumption` (finitely many patients with natural ids; natural prices, means and bounds; weeks
counted modulo a multiple of every length of the queue). The invariant `CInv` says that the queue lists exactly those
who are waiting, once each, what the fields of a patient may be together (`Agrees`), that on the payment arms the arm's
own count of the care money is what the restriction holds, and that no sale was refused.

The queue is sorted, split by priority, rotated and rewritten every week, so it is first shown that none of these loses
or doubles a patient (`SortedLaw`, `AmongLaw`, `PrioritizedLaw`, `RotatedLaw`, for any set and any origin). The pass and
the walk of the quotes are folds, of which again nothing is known until they are shown to exist: each is the last of a
row of states, one per prefix of the queue (`PassRow`, `WalkIsARow`). What one visit does to one patient is one lemma
over all outcomes in both sequences (`StepOutcome`), and `Known` carries it along the row: the patients seen so far who
stay are listed in order, the others are untouched.

* `QueueStaysInStep`, `FundedVisitsAreSold`, `EpisodesAreKept`: queue and patients agree, `commit_sale` never refuses
  what the pass found funded, and a due visit ends only by being made.
* `ChargesAreAsTold`: on the payment arms the bill is at most the price accepted, since the guard against a risen
  price stands before every sale. In the legacy sequence walk and pass are compared row by row (`Priced`): after d visits
  the pass has the money the walk had after d patients, and d is at most the number of patients passed, so whoever is
  refused leaves the others more. The walk stops counting subsidies at the staff known then, hence the hypothesis that
  the visits made are no more than that. A treasury loan takes cash that the walk counted on; what the loans of the
  whole pass have taken bounds what they have taken at any place of it (`RowKeepsUp`), and less money makes a subsidy
  smaller by no more than what is missing (`GrantedGrows`), so that amount bounds what anyone pays above the quote.

### Payments

`PaymentsProofs`, from `PaymentsAssumption`. Conservation is not inductive alone: a payment of more than a pocket holds
conserves the sum and overdraws the pocket. `PInv` joins the type invariant, that everything adds up to the opening
money, that the treasury holds what it has reserved, that nothing is on its way between phases and that firms that are
gone are clean, that an authorized project is covered and that a payroll marked ready is. `Proportional`, a fold over
the ids in order, is shown never to give anyone more than their claim and to hand out the budget exactly when the
claims reach it. Then:

* `MoneyIsConserved`, `PromisesAreCovered`: no overdraft, nothing minted or lost, reserved money is there when it is
  paid out, and `raised`, the payment book's `ValueError`, is unreachable.
* `NothingIsStranded`: clearing, holds and deferred income are empty when the week ends, and nothing is owed by, or due
  to, a firm that is gone.
* `SettlementIsBalanced`: what income settlement books is what it pays, and no head is paid while a worker is owed.

### Loans

`LoansProofs`, from `LoansAssumption`. A claim's weight (its principal, its open dues, its weekly service) summed over
the book gives the booked total, a household's debt and its service; each action's effect on a book is proved once per
weight (`SumOf`).

* `NoMoneyIsLost` (`MInv`, and `Gone` for firms that left): the sum of pockets, of the interest earned and of what was
  lent and not yet paid back or written off. A closing firm's cash is shared among its creditors (`SharedOut`).
* `CollectionTakesWhatIsDue`: the collection takes what the claims are due at that time, or all there is. A payment is
  shared over the claims by rounded shares and a second round that fills them up; `AllocationLaw` says that it gives
  each claim at most what it is due, and in all exactly the smaller of payment and dues.
* `LedgerStaysInStep` (`MirrorInv`): booked total, open claims and mirrors agree whenever a run may start. Inside the
  week the mirrors lag behind by the interest of the week; the invariant says exactly which of them, and that a mirror
  shows nothing only where nothing is owed, since that is what the cleanup of settled loans acts on.
* `LoansAreServed` (`IndexInv`): a registered loan of the bank is granted within what the income serves along with the
  borrower's registered claims; mortgages and treasury loans of the same week are not counted (see *Underwriting
  index*). The cached index holds at least the service of all registered claims of a borrower, from the beginning of a week to its end, through grants, refusals and rollbacks. It may hold more.

### What is only model-checked

* Liveness (`session_orderly`): ENABLED, which fairness is made of, is out of the prover's reach.

`ControlInv`, `CutHasNoResult` and `LoopInv` were also run as invariants on the instances above before they were proved,
and the properties themselves are what the runs check.

## Plan

1. Payments: rent, deposits, R&D, and the composition with `Loans` (one ledger, one purse) in place of the open pockets.
2. `FrameEvents` and `TrackedSample` (event log per tick; pin, unpin, replace within the sample size).
3. `PolicyVectors` and the group rules of CONFIG and SETUP as operators; the bailout cycle.
4. The dashboard's experiment driver as a client of several Sessions; the cloud runner's lifecycle.

## Not modelled

* Prices, the goods market, households' choices, well-being and skills: floating-point behaviour of thousands of
  agents, which no small instance represents. They make up most of `economy.py` and `agents.py`, so most lines of the
  repository stay outside the models.
* Read-only queries, response shaping, forecasting and the audit and evidence runners: no state of the system.
* The PostgreSQL manager, which repeats the SQLite one method by method.
* Policy validation, frame events, the tracked sample, the dashboard and the cloud runner: planned, see above.
