------------------------------ MODULE Warehouse ------------------------------
(***************************************************************************)
(* The run persistence of a session: the rows SimulationManager buffers in *)
(* memory and the rows, status and watermark a warehouse manager holds     *)
(* durably.  One record, wh, is the whole of it:                           *)
(*                                                                         *)
(*   run        warehouse_run_id: the run written to, NoRun for None       *)
(*   opened     how many runs were opened so far (ids are never reused)    *)
(*   ticks      ticks whose per-tick rows (metrics, features, diagnostics, *)
(*              snapshots) are buffered                                    *)
(*   events     ticks whose labor, healthcare and regime rows are buffered *)
(*   actions    buffered policy_actions rows, in append order              *)
(*   mark       last_fully_persisted_tick                                  *)
(*   finalized  run_finalized: FINISH completed the run                    *)
(*   db         the durable rows, one record per run                       *)
(*                                                                         *)
(* A policy action is named by the number of the CONFIG that took it; 0 is *)
(* the setup row.  Every CONFIG sets the same lever.  The policy rows of   *)
(* automatic adjustments and of the LLM government are left out: they only *)
(* make a flush due earlier.  Every operation that talks to the database   *)
(* is the set of its outcomes: a flush or a status update may fail, and    *)
(* the manager swallows the exception.  Session composes these operations. *)
(***************************************************************************)
EXTENDS Integers, Sequences, FiniteSets

CONSTANTS
  MaxTick,      \* bound on the ticks a run executes
  MaxRuns,      \* bound on the runs opened
  MaxActions,   \* bound on the policy actions taken
  BatchSize,    \* ECOSIM_TICK_BATCH_SIZE, the flush threshold
  WarehouseOn   \* ECOSIM_ENABLE_WAREHOUSE

ASSUME WarehouseAssumption ==
  /\ MaxTick \in Nat
  /\ MaxRuns \in Nat
  /\ MaxActions \in Nat
  /\ BatchSize \in Nat \ {0}
  /\ WarehouseOn \in BOOLEAN

VARIABLES
  tick,     \* SimulationManager.tick
  policy,   \* the policy in force: the number of the CONFIG applied last, 0 after SETUP
  wh        \* the record above

whVars == <<tick, policy, wh>>

NoRun   == 0
Runs    == 1 .. MaxRuns
Ticks   == 1 .. MaxTick
Actions == 0 .. MaxActions

Statuses == {"none", "running", "completed", "stopped", "failed"}

\* One buffered policy action.
BufferedAction == [tick : 0 .. MaxTick, id : Actions]

\* One policy_actions row: its event key is made of the tick and of its position in the batch.
ActionRow == [tick : 0 .. MaxTick, idx : Nat, id : Actions]

RunRow == [status : Statuses, ready : BOOLEAN, mark : 0 .. MaxTick, total : 0 .. MaxTick,
           ticks : SUBSET Ticks, events : SUBSET Ticks, actions : SUBSET ActionRow]

NoRow == [status |-> "none", ready |-> FALSE, mark |-> 0, total |-> 0,
          ticks |-> {}, events |-> {}, actions |-> {}]

WarehouseState ==
  [run : Runs \cup {NoRun}, opened : 0 .. MaxRuns, ticks : SUBSET Ticks, events : SUBSET Ticks,
   actions : Seq(BufferedAction), mark : 0 .. MaxTick,
   finalized : BOOLEAN, db : [Runs -> RunRow]]

EmptyWarehouse ==
  [run |-> NoRun, opened |-> 0, ticks |-> {}, events |-> {}, actions |-> <<>>,
   mark |-> 0, finalized |-> FALSE, db |-> [r \in Runs |-> NoRow]]

\* The row of the open run, and its replacement.
Row(w) == w.db[w.run]
WithRow(w, row) == [w EXCEPT !.db[w.run] = row]

\* The batches, emptied.
Emptied(w) == [w EXCEPT !.ticks = {}, !.events = {}, !.actions = <<>>]

-----------------------------------------------------------------------------
(* Buffering: nothing is kept while no run is open. *)

\* _buffer_policy_action: the rows of one or more actions, in order.
Logged(w, t, ids) ==
  IF w.run = NoRun THEN w
  ELSE [w EXCEPT !.actions = @ \o [i \in 1 .. Len(ids) |-> [tick |-> t, id |-> ids[i]]]]

\* _buffer_simulation_events, then the per-tick rows of the loop.
WithEvents(w, t) == IF w.run = NoRun THEN w ELSE [w EXCEPT !.events = @ \cup {t}]
WithTick(w, t)   == IF w.run = NoRun THEN w ELSE [w EXCEPT !.ticks = @ \cup {t}]

-----------------------------------------------------------------------------
(* Flushing *)

HasRows(w) ==
  w.run # NoRun /\ (w.ticks # {} \/ w.events # {} \/ w.actions # <<>>)

BufferedTicks(w) ==
  w.ticks \cup w.events \cup {w.actions[i].tick : i \in DOMAIN w.actions}

\* _max_buffered_tick
MaxBufferedTick(w) ==
  CHOOSE m \in BufferedTicks(w) \cup {w.mark} : \A t \in BufferedTicks(w) \cup {w.mark} : t <= m

BufferedActions(w) ==
  {[tick |-> w.actions[i].tick, idx |-> i - 1, id |-> w.actions[i].id] : i \in DOMAIN w.actions}

\* The event key: tick and position in the batch, then actor and lever.
SameKey(o, n) == o.tick = n.tick /\ o.idx = n.idx /\ (o.id = 0 <=> n.id = 0)

\* INSERT OR IGNORE: a row whose event key the run already holds is dropped.
Inserted(rows, new) == rows \cup {n \in new : ~ \E o \in rows : SameKey(o, n)}

\* _update_run_flush_metadata never lowers the stored watermark.
Raised(mark, t) == IF t > mark THEN t ELSE mark

\* persist_flush_bundle: one transaction for the rows and the watermark.
Committed(row, w) ==
  [row EXCEPT !.ticks = @ \cup w.ticks, !.events = @ \cup w.events,
              !.actions = Inserted(@, BufferedActions(w)),
              !.mark = Raised(@, MaxBufferedTick(w))]

\* A flush that commits empties the batches; one that fails keeps them for a retry.
Persisted(w) ==
  [Emptied(WithRow(w, Committed(Row(w), w))) EXCEPT !.mark = MaxBufferedTick(w)]

\* Mutant of Flushes: a flush that fails loses the batches it should keep.
LossyFlushes(w) ==
  IF HasRows(w)
  THEN {[ok |-> TRUE, w |-> Persisted(w)], [ok |-> FALSE, w |-> Emptied(w)]}
  ELSE {[ok |-> TRUE, w |-> w]}

\* The outcomes of _flush_warehouse_batches, with the boolean it returns.
Flushes(w) ==
  IF HasRows(w)
  THEN {[ok |-> TRUE, w |-> Persisted(w)], [ok |-> FALSE, w |-> w]}
  ELSE {[ok |-> TRUE, w |-> w]}

\* A flush is due at the latest when a batch holds BatchSize ticks or actions.  Several rows per
\* tick and the snapshot threshold may make it due earlier.
FlushDue(w) ==
  \/ Cardinality(w.ticks) >= BatchSize
  \/ Cardinality(w.events) >= BatchSize
  \/ Len(w.actions) >= BatchSize

\* What one completed tick leaves: its rows are buffered, event rows only if the tick had events.
TickOutcomes(w, t) ==
  UNION {(IF FlushDue(b) THEN {} ELSE {b}) \cup {f.w : f \in Flushes(b)} :
           b \in {WithTick(w, t), WithTick(WithEvents(w, t), t)}}

-----------------------------------------------------------------------------
(* Run status *)

\* update_run_status; ok = FALSE is a database error, logged and swallowed.
Updated(w, ok, status, ready, t) ==
  IF ok
  THEN WithRow(w, [Row(w) EXCEPT !.status = status, !.ready = ready, !.total = t, !.mark = w.mark])
  ELSE w

\* Mutant of Cleared: the session goes on writing to the run it closed.
ClearedButRun(w) == [Emptied(w) EXCEPT !.mark = 0]

\* The finally block of _close_warehouse_run.
Cleared(w) == [Emptied(w) EXCEPT !.run = NoRun, !.mark = 0]

\* Mutant of Closes: run_finalized is not tested, a disconnect after FINISH downgrades the run.
ClosesDowngraded(w, t, status) ==
  IF w.run = NoRun THEN {w}
  ELSE {Cleared(Updated(f.w, ok, IF f.ok THEN status ELSE "failed", FALSE, t)) :
          f \in Flushes(w), ok \in BOOLEAN}

\* _close_warehouse_run: a finished run stays completed unless its last flush fails.
Closes(w, t, status) ==
  IF w.run = NoRun THEN {w}
  ELSE LET wanted == IF w.finalized THEN "completed" ELSE status
       IN  {Cleared(Updated(f.w, ok, IF f.ok THEN wanted ELSE "failed",
                            f.ok /\ wanted = "completed", t)) :
              f \in Flushes(w), ok \in BOOLEAN}

\* _open_warehouse_run, after SETUP closed the previous run: the row is created and the setup
\* action buffered, or the row is missing, marked failed or, when marking it raises too, left running,
\* and the session writes to no run.
Opens(w) ==
  IF ~WarehouseOn THEN {w}
  ELSE LET new          == w.opened + 1
           bare         == [Cleared(w) EXCEPT !.opened = new]
           made(status) == WithRow([bare EXCEPT !.run = new], [NoRow EXCEPT !.status = status])
       IN  {[made("running") EXCEPT !.actions = <<[tick |-> 0, id |-> 0]>>],
            [made("failed") EXCEPT !.run = NoRun],
            [made("running") EXCEPT !.run = NoRun],
            bare}

\* Mutant of Finalizes: the run is completed whether or not its last flush committed.
FinalizesUnflushed(w, t) ==
  IF w.run = NoRun THEN {w}
  ELSE {LET u == Updated(f.w, ok, "completed", TRUE, t)
        IN  IF ok THEN [u EXCEPT !.finalized = TRUE] ELSE u :
          f \in Flushes(w), ok \in BOOLEAN}

\* _finalize_warehouse_run: FINISH marks the run completed and keeps it open.
Finalizes(w, t) ==
  IF w.run = NoRun THEN {w}
  ELSE {LET u == Updated(f.w, ok, IF f.ok THEN "completed" ELSE "failed", f.ok, t)
        IN  IF ok THEN [u EXCEPT !.finalized = f.ok] ELSE u :
          f \in Flushes(w), ok \in BOOLEAN}

\* _reopen_warehouse_run, when it returns True; otherwise nothing changes.
Reopened(w) ==
  IF ~w.finalized \/ w.run = NoRun THEN [w EXCEPT !.finalized = FALSE]
  ELSE [WithRow(w, [Row(w) EXCEPT !.status = "running", !.ready = FALSE]) EXCEPT !.finalized = FALSE]

-----------------------------------------------------------------------------
(* The component on its own, driven by a manager that keeps its contract:  *)
(* between FINISH and a reopen no tick is executed and no policy changes.  *)

InForce(p, ids) == IF ids = <<>> THEN p ELSE ids[Len(ids)]

\* Policy actions that take effect now: the lever changes and its rows are buffered.
Acted(ids) ==
  /\ wh.finalized => ids = <<>>
  /\ policy' = InForce(policy, ids)

WSetup ==
  /\ WarehouseOn => wh.opened < MaxRuns
  /\ tick' = 0 /\ policy' = 0
  /\ \E c \in Closes(wh, tick, "stopped") : wh' \in Opens([c EXCEPT !.finalized = FALSE])

WClose(status) == wh' \in Closes(wh, tick, status) /\ UNCHANGED <<tick, policy>>

\* RESET, or a SETUP that fails after it cleared run_finalized.
WDiscard ==
  /\ \E c \in Closes(wh, tick, "stopped") : wh' = [c EXCEPT !.finalized = FALSE]
  /\ tick' \in {0, tick} /\ UNCHANGED policy

WTick(ids) ==
  /\ ~wh.finalized /\ tick < MaxTick
  /\ Acted(ids)
  /\ tick' = tick + 1
  /\ wh' \in TickOutcomes(Logged(wh, tick, ids), tick + 1)

\* The loop raises inside a tick: before it is counted, before or after its rows exist.  The
\* per-tick rows are one here: a raise between them leaves the first of them, as WithTick does.
FailedTicks(w, t) ==
  {[tick |-> t, w |-> c] : c \in Closes(w, t, "failed")}
  \cup {[tick |-> t + 1, w |-> c] :
          c \in UNION {Closes(b, t + 1, "failed") :
                         b \in {w, WithEvents(w, t + 1)} \cup TickOutcomes(w, t + 1)}}

WTickFails(ids) ==
  /\ ~wh.finalized /\ tick < MaxTick
  /\ Acted(ids)
  /\ \E f \in FailedTicks(Logged(wh, tick, ids), tick) : tick' = f.tick /\ wh' = f.w

WAction(ids) == Acted(ids) /\ wh' = Logged(wh, tick, ids) /\ UNCHANGED tick

WFlush(ids) ==
  /\ Acted(ids)
  /\ \E f \in Flushes(Logged(wh, tick, ids)) : wh' = f.w
  /\ UNCHANGED tick

WFinalize(ids) ==
  /\ Acted(ids)
  /\ wh' \in Finalizes(Logged(wh, tick, ids), tick)
  /\ UNCHANGED tick

WReopen == wh' = Reopened(wh) /\ UNCHANGED <<tick, policy>>

Batches == UNION {[1 .. n -> 1 .. MaxActions] : n \in 0 .. MaxActions}

WarehouseNext ==
  \/ WSetup \/ WDiscard \/ WReopen
  \/ \E status \in {"stopped", "failed"} : WClose(status)
  \/ \E ids \in Batches : WTick(ids) \/ WTickFails(ids) \/ WAction(ids) \/ WFlush(ids) \/ WFinalize(ids)

WarehouseInit == tick = 0 /\ policy = 0 /\ wh = EmptyWarehouse

WarehouseSpec == WarehouseInit /\ [][WarehouseNext]_whVars

-----------------------------------------------------------------------------
(* Properties *)

\* Every value stays in its domain; the buffers are empty while no run is open.
WarehouseTypeOK ==
  /\ tick \in 0 .. MaxTick
  /\ policy \in Actions
  /\ wh \in WarehouseState

\* A run marked analysis_ready holds the per-tick rows of every tick it counts, its watermark is its
\* last tick and nothing of it waits in a buffer: a reader of a ready run never sees a partial one,
\* whatever flushes and status updates failed before (server.py _close/_finalize_warehouse_run).
ReadyRunComplete ==
  \A r \in Runs : wh.db[r].ready =>
     /\ wh.db[r].status = "completed"
     /\ wh.db[r].ticks = 1 .. wh.db[r].total
     /\ wh.db[r].mark = wh.db[r].total
     /\ r = wh.run => ~HasRows(wh) /\ tick = wh.db[r].total

\* No tick strictly below a run's durable watermark misses its rows, retried flushes included: a
\* batch that failed to commit is never skipped by a later one (persist_flush_bundle).
WatermarkCovers ==
  \A r \in Runs : \A t \in Ticks : t < wh.db[r].mark => t \in wh.db[r].ticks

\* A run that ended keeps the rows it ended with: nothing buffered before or after a close, a FINISH
\* or a failed open ever reaches a stopped or completed run.
EndedRunsFrozen ==
  [][\A r \in Runs : wh.db[r].status \in {"completed", "stopped"} =>
        /\ wh'.db[r].ticks = wh.db[r].ticks
        /\ wh'.db[r].events = wh.db[r].events
        /\ wh'.db[r].actions = wh.db[r].actions]_whVars
==============================================================================
