---------------------------- MODULE SessionProofs ----------------------------
(***************************************************************************)
(* What TLAPS proves of Warehouse and of Session, for every value of their *)
(* constants, faults included.                                             *)
(*                                                                         *)
(* First the warehouse on its own: its operations keep the record in its   *)
(* domain, a run is marked ready only when it is complete                  *)
(* (ReadyIsComplete), nothing below a watermark is missing                 *)
(* (NothingBelowWatermarkMissing), and the rows of an ended run stay as    *)
(* they are (EndedRunsKeepRows).  Session's proofs rest on its lemmas.     *)
(***************************************************************************)
EXTENDS Session, WellFoundedInduction, FiniteSetTheorems, TLAPS

USE WarehouseAssumption

-----------------------------------------------------------------------------
(* The warehouse *)

\* Every nonempty finite set of ticks has a largest element.
LEMMA LargestTick ==
  ASSUME NEW S \in SUBSET (0 .. MaxTick), S # {}
  PROVE  \E m \in S : \A t \in S : t <= m
<1> DEFINE U == 0 .. MaxTick
           Bad == {T \in SUBSET U : T # {} /\ ~ \E m \in T : \A t \in T : t <= m}
<1>1. IsFiniteSet(U)
  BY FS_Interval
<1>2. IsWellFoundedOn(StrictSubsetOrdering(U), FiniteSubsetsOf(U))
  BY FS_StrictSubsetOrderingWellFounded
<1>3. FiniteSubsetsOf(U) = SUBSET U
  BY <1>1, FS_FiniteSubsetsOfFinite
<1>4. SUFFICES ASSUME Bad # {} PROVE FALSE
  OBVIOUS
<1>5. PICK T \in Bad : \A V \in Bad : ~ (<<V, T>> \in StrictSubsetOrdering(U))
  <2> HIDE DEF U
  <2>1. Bad \subseteq FiniteSubsetsOf(U)
    BY <1>3
  <2> HIDE DEF Bad
  <2> QED
    BY <1>2, <1>4, <2>1, WFMin
<1>6. PICK x \in T : TRUE
  OBVIOUS
<1>7. CASE T \ {x} = {}
  BY <1>5, <1>7
<1>8. CASE T \ {x} # {}
  <2>1. <<T \ {x}, T>> \in StrictSubsetOrdering(U)
    BY <1>6 DEF StrictSubsetOrdering
  <2>2. T \ {x} \notin Bad
    BY <1>5, <2>1
  <2>3. PICK m \in T \ {x} : \A t \in T \ {x} : t <= m
    BY <1>5, <1>8, <2>2
  <2>4. x \in Nat /\ m \in Nat /\ T \subseteq Nat
    BY <1>5, <1>6, <2>3
  <2>5. \E k \in T : \A t \in T : t <= k
    <3>1. CASE x <= m
      BY <2>3, <2>4, <3>1
    <3>2. CASE m <= x
      BY <1>6, <2>3, <2>4, <3>2
    <3> QED
      BY <2>4, <3>1, <3>2
  <2> QED
    BY <1>5, <2>5
<1> QED
  BY <1>7, <1>8

-----------------------------------------------------------------------------
(* Each operation keeps the state in its domain, and finalized and opened as they were unless it   *)
(* is the one that decides them.                                                                   *)

Keeps(w, v) == v \in WarehouseState /\ v.finalized = w.finalized /\ v.opened = w.opened

LEMMA SeqElement ==
  ASSUME NEW S, NEW s \in Seq(S), NEW i \in DOMAIN s
  PROVE  s[i] \in S /\ i - 1 \in Nat
OBVIOUS

LEMMA LastElement ==
  ASSUME NEW S, NEW s \in Seq(S), s # <<>>
  PROVE  s[Len(s)] \in S
OBVIOUS

\* Buffered rows belong to ticks.
LEMMA BufferedTicksType ==
  ASSUME NEW w \in WarehouseState
  PROVE  BufferedTicks(w) \cup {w.mark} \subseteq 0 .. MaxTick
<1>1. ASSUME NEW i \in DOMAIN w.actions PROVE w.actions[i].tick \in 0 .. MaxTick
  <2>1. w.actions \in Seq(BufferedAction)
    BY DEF WarehouseState
  <2>2. w.actions[i] \in BufferedAction
    BY <2>1, SeqElement
  <2> QED
    BY <2>2 DEF BufferedAction
<1>2. w.ticks \subseteq 0 .. MaxTick /\ w.events \subseteq 0 .. MaxTick /\ w.mark \in 0 .. MaxTick
  BY DEF WarehouseState, Ticks
<1> QED
  BY <1>1, <1>2 DEF BufferedTicks

\* The tick computed for a flush is a tick, and no buffered row lies above it.
LEMMA MaxBufferedTickMax ==
  ASSUME NEW w \in WarehouseState
  PROVE  /\ MaxBufferedTick(w) \in 0 .. MaxTick
         /\ MaxBufferedTick(w) >= w.mark
         /\ \A t \in BufferedTicks(w) : t <= MaxBufferedTick(w)
<1> DEFINE S == BufferedTicks(w) \cup {w.mark}
<1>1. S \in SUBSET (0 .. MaxTick) /\ S # {}
  BY BufferedTicksType
<1>2. \E m \in S : \A t \in S : t <= m
  <2> HIDE DEF S
  <2> QED
    BY <1>1, LargestTick
<1>3. MaxBufferedTick(w) \in S /\ \A t \in S : t <= MaxBufferedTick(w)
  BY <1>2 DEF MaxBufferedTick
<1> QED
  BY <1>1, <1>3

LEMMA LoggedKeeps ==
  ASSUME NEW w \in WarehouseState, NEW t \in 0 .. MaxTick, NEW ids \in Seq(Actions)
  PROVE  Keeps(w, Logged(w, t, ids))
<1>1. [i \in 1 .. Len(ids) |-> [tick |-> t, id |-> ids[i]]] \in Seq(BufferedAction)
  BY DEF BufferedAction
<1>2. w.actions \o [i \in 1 .. Len(ids) |-> [tick |-> t, id |-> ids[i]]]
          \in Seq(BufferedAction)
  BY <1>1 DEF WarehouseState
<1> QED
  BY <1>2 DEF Logged, Keeps, WarehouseState

LEMMA WithRowType ==
  ASSUME NEW w \in WarehouseState, w.run # NoRun, NEW row \in RunRow
  PROVE  Keeps(w, WithRow(w, row)) /\ WithRow(w, row).run = w.run /\ Row(w) \in RunRow
<1>1. w.run \in Runs /\ w.db \in [Runs -> RunRow]
  BY DEF WarehouseState
<1>2. [w.db EXCEPT ![w.run] = row] \in [Runs -> RunRow]
  BY <1>1
<1> QED
  BY <1>1, <1>2 DEF WithRow, Row, Keeps, WarehouseState

LEMMA EmptiedKeeps ==
  ASSUME NEW w \in WarehouseState
  PROVE  Keeps(w, Emptied(w)) /\ Emptied(w).run = w.run
<1>1. <<>> \in Seq(BufferedAction)
  OBVIOUS
<1> QED
  BY <1>1 DEF Emptied, Keeps, WarehouseState

LEMMA WithRowsKeeps ==
  ASSUME NEW w \in WarehouseState, NEW t \in Ticks
  PROVE  Keeps(w, WithTick(w, t)) /\ Keeps(w, WithEvents(w, t))
BY DEF WithTick, WithEvents, Keeps, WarehouseState

LEMMA CommittedType ==
  ASSUME NEW w \in WarehouseState, NEW row \in RunRow
  PROVE  Committed(row, w) \in RunRow
<1>1. MaxBufferedTick(w) \in 0 .. MaxTick
  BY MaxBufferedTickMax
<1>2. Inserted(row.actions, BufferedActions(w)) \subseteq ActionRow
  <2>1. ASSUME NEW i \in DOMAIN w.actions
        PROVE  [tick |-> w.actions[i].tick, idx |-> i - 1, id |-> w.actions[i].id] \in ActionRow
    <3>1. w.actions \in Seq(BufferedAction)
      BY DEF WarehouseState
    <3>2. w.actions[i] \in BufferedAction /\ i - 1 \in Nat
      BY <3>1, SeqElement
    <3> QED
      BY <3>2 DEF ActionRow, BufferedAction
  <2> QED
    BY <2>1 DEF Inserted, BufferedActions, RunRow
<1>3. Raised(row.mark, MaxBufferedTick(w)) \in 0 .. MaxTick
  BY <1>1 DEF Raised, RunRow
<1> QED
  BY <1>2, <1>3 DEF Committed, RunRow, WarehouseState

LEMMA FlushesKeep ==
  ASSUME NEW w \in WarehouseState, NEW f \in Flushes(w)
  PROVE  Keeps(w, f.w) /\ f.ok \in BOOLEAN /\ f.w.run = w.run
<1>1. CASE ~HasRows(w)
  <2>1. f = [ok |-> TRUE, w |-> w]
    BY <1>1 DEF Flushes
  <2> QED
    BY <2>1 DEF Keeps
<1>2. CASE HasRows(w)
  <2>1. w.run # NoRun /\ Row(w) \in RunRow
    BY <1>2 DEF HasRows, WarehouseState, Row
  <2>2. Committed(Row(w), w) \in RunRow /\ MaxBufferedTick(w) \in 0 .. MaxTick
    BY <2>1, CommittedType, MaxBufferedTickMax
  <2> DEFINE v == Emptied(WithRow(w, Committed(Row(w), w)))
  <2>3. Keeps(w, v) /\ v.run = w.run
    BY <2>1, <2>2, WithRowType, EmptiedKeeps DEF Keeps
  <2>4. Keeps(w, Persisted(w)) /\ Persisted(w).run = w.run
    <3> HIDE DEF v
    <3>1. Persisted(w) = [v EXCEPT !.mark = MaxBufferedTick(w)]
      BY DEF Persisted, v
    <3> QED
      BY <2>2, <2>3, <3>1 DEF Keeps, WarehouseState
  <2>5. f = [ok |-> TRUE, w |-> Persisted(w)] \/ f = [ok |-> FALSE, w |-> w]
    BY <1>2 DEF Flushes
  <2>6. f.w \in {Persisted(w), w} /\ (f.ok = TRUE \/ f.ok = FALSE)
    BY <2>5
  <2> QED
    BY <2>4, <2>6 DEF Keeps
<1> QED
  BY <1>1, <1>2

LEMMA TickOutcomesKeep ==
  ASSUME NEW w \in WarehouseState, NEW t \in Ticks, NEW v \in TickOutcomes(w, t)
  PROVE  Keeps(w, v)
<1>1. PICK b \in {WithTick(w, t), WithTick(WithEvents(w, t), t)} :
        v = b \/ \E f \in Flushes(b) : v = f.w
  BY DEF TickOutcomes
<1>2. Keeps(w, b)
  BY <1>1, WithRowsKeeps DEF Keeps
<1> QED
  BY <1>1, <1>2, FlushesKeep DEF Keeps

LEMMA UpdatedKeeps ==
  ASSUME NEW w \in WarehouseState, w.run # NoRun, NEW ok \in BOOLEAN,
         NEW status \in Statuses, NEW ready \in BOOLEAN, NEW t \in 0 .. MaxTick
  PROVE  Keeps(w, Updated(w, ok, status, ready, t)) /\ Updated(w, ok, status, ready, t).run = w.run
<1> DEFINE row == [Row(w) EXCEPT !.status = status, !.ready = ready, !.total = t, !.mark = w.mark]
<1>1. Row(w) \in RunRow /\ w.mark \in 0 .. MaxTick
  BY DEF WarehouseState, Row
<1>2. row \in RunRow
  <2> HIDE DEF Row
  <2> QED
    BY <1>1 DEF RunRow
<1>3. Updated(w, ok, status, ready, t) \in {w, WithRow(w, row)}
  BY DEF Updated
<1> QED
  BY <1>2, <1>3, WithRowType DEF Keeps

LEMMA ClearedKeeps ==
  ASSUME NEW w \in WarehouseState
  PROVE  Keeps(w, Cleared(w)) /\ Cleared(w).run = NoRun
<1> DEFINE e == Emptied(w)
           g == [e EXCEPT !.run = NoRun]
<1>1. Keeps(w, e)
  BY EmptiedKeeps
<1>2. Keeps(w, g) /\ g.run = NoRun
  <2> HIDE DEF e
  <2> QED
    BY <1>1 DEF Keeps, WarehouseState
<1>3. Cleared(w) = [g EXCEPT !.mark = 0]
  <2>1. Cleared(w) = [e EXCEPT !.run = NoRun, !.mark = 0]
    BY DEF Cleared
  <2> HIDE DEF e
  <2> QED
    BY <2>1
<1> HIDE DEF g
<1>4. 0 \in 0 .. MaxTick
  OBVIOUS
<1>5. [g EXCEPT !.mark = 0] \in WarehouseState
  BY <1>2, <1>4 DEF Keeps, WarehouseState
<1>6. /\ [g EXCEPT !.mark = 0].run = g.run
      /\ [g EXCEPT !.mark = 0].finalized = g.finalized
      /\ [g EXCEPT !.mark = 0].opened = g.opened
  BY <1>2 DEF Keeps, WarehouseState
<1> QED
  BY <1>2, <1>3, <1>5, <1>6 DEF Keeps

LEMMA ClosesKeep ==
  ASSUME NEW w \in WarehouseState, NEW t \in 0 .. MaxTick, NEW status \in Statuses,
         NEW c \in Closes(w, t, status)
  PROVE  Keeps(w, c) /\ c.run = NoRun
<1>1. CASE w.run = NoRun
  BY <1>1 DEF Closes, Keeps
<1>2. CASE w.run # NoRun
  <2> DEFINE wanted == IF w.finalized THEN "completed" ELSE status
  <2>1. PICK f \in Flushes(w), ok \in BOOLEAN :
          c = Cleared(Updated(f.w, ok, IF f.ok THEN wanted ELSE "failed", f.ok /\ wanted = "completed", t))
    BY <1>2 DEF Closes
  <2>2. Keeps(w, f.w) /\ f.w.run # NoRun /\ f.ok \in BOOLEAN
    BY <1>2, FlushesKeep
  <2> DEFINE given == IF f.ok THEN wanted ELSE "failed"
             ready == f.ok /\ wanted = "completed"
  <2>4. Keeps(f.w, Updated(f.w, ok, given, ready, t))
    <3>1. given \in Statuses /\ ready \in BOOLEAN
      BY DEF Statuses
    <3>2. f.w \in WarehouseState
      BY <2>2 DEF Keeps
    <3> HIDE DEF given, ready
    <3> QED
      BY <2>2, <3>1, <3>2, UpdatedKeeps
  <2> QED
    BY <2>1, <2>2, <2>4, ClearedKeeps DEF Keeps
<1> QED
  BY <1>1, <1>2

LEMMA NoRowType == NoRow \in RunRow
BY DEF NoRow, RunRow, Statuses

LEMMA EmptyWarehouseType == EmptyWarehouse \in WarehouseState
<1>1. [r \in Runs |-> NoRow] \in [Runs -> RunRow]
  BY NoRowType
<1>2. <<>> \in Seq(BufferedAction) /\ 0 \in 0 .. MaxTick /\ 0 \in 0 .. MaxRuns
  OBVIOUS
<1> QED
  BY <1>1, <1>2 DEF EmptyWarehouse, WarehouseState

LEMMA OpensKeep ==
  ASSUME NEW w \in WarehouseState, WarehouseOn => w.opened < MaxRuns, NEW o \in Opens(w)
  PROVE  o \in WarehouseState /\ o.finalized = w.finalized
<1>1. CASE ~WarehouseOn
  BY <1>1 DEF Opens
<1>2. CASE WarehouseOn
  <2> DEFINE new          == w.opened + 1
             bare         == [Cleared(w) EXCEPT !.opened = new]
             started      == [bare EXCEPT !.run = new]
             made(status) == WithRow(started, [NoRow EXCEPT !.status = status])
  <2>1. new \in Runs /\ new \in 0 .. MaxRuns /\ new # NoRun
    BY <1>2 DEF WarehouseState, Runs, NoRun
  <2>2. bare \in WarehouseState /\ bare.finalized = w.finalized
    <3> DEFINE e == Cleared(w)
    <3>1. e \in WarehouseState /\ e.finalized = w.finalized
      BY ClearedKeeps DEF Keeps
    <3>2. bare = [e EXCEPT !.opened = new]
      OBVIOUS
    <3> HIDE DEF e, new, bare
    <3>3. [e EXCEPT !.opened = new] \in WarehouseState
      BY <2>1, <3>1 DEF WarehouseState
    <3>4. [e EXCEPT !.opened = new].finalized = e.finalized
      BY <3>1 DEF WarehouseState
    <3> QED
      BY <3>1, <3>2, <3>3, <3>4
  <2>3. started \in WarehouseState /\ started.finalized = w.finalized /\ started.run # NoRun
    <3> HIDE DEF bare, new
    <3> QED
      BY <2>1, <2>2 DEF started, WarehouseState
  <2>4. ASSUME NEW status \in Statuses
        PROVE  [NoRow EXCEPT !.status = status] \in RunRow
    BY NoRowType DEF RunRow
  <2>5. \A status \in {"running", "failed"} :
          made(status) \in WarehouseState /\ made(status).finalized = w.finalized
    <3> HIDE DEF started
    <3> QED
      BY <2>3, <2>4, WithRowType DEF Keeps, Statuses
  <2>6. <<[tick |-> 0, id |-> 0]>> \in Seq(BufferedAction)
    BY DEF Actions, BufferedAction
  <2>7. o \in {[made("running") EXCEPT !.actions = <<[tick |-> 0, id |-> 0]>>],
               [made("failed") EXCEPT !.run = NoRun], [made("running") EXCEPT !.run = NoRun], bare}
    BY <1>2 DEF Opens
  <2> HIDE DEF made, bare
  <2> QED
    BY <2>2, <2>5, <2>6, <2>7 DEF WarehouseState
<1> QED
  BY <1>1, <1>2

LEMMA FinalizesType ==
  ASSUME NEW w \in WarehouseState, NEW t \in 0 .. MaxTick, NEW v \in Finalizes(w, t)
  PROVE  v \in WarehouseState
<1>1. CASE w.run = NoRun
  BY <1>1 DEF Finalizes
<1>2. CASE w.run # NoRun
  <2>1. PICK f \in Flushes(w), ok \in BOOLEAN :
          LET u == Updated(f.w, ok, IF f.ok THEN "completed" ELSE "failed", f.ok, t)
          IN  v = IF ok THEN [u EXCEPT !.finalized = f.ok] ELSE u
    BY <1>2 DEF Finalizes
  <2>2. Keeps(w, f.w) /\ f.w.run # NoRun /\ f.ok \in BOOLEAN
    BY <1>2, FlushesKeep
  <2> DEFINE u == Updated(f.w, ok, IF f.ok THEN "completed" ELSE "failed", f.ok, t)
  <2>3. (IF f.ok THEN "completed" ELSE "failed") \in Statuses
    BY DEF Statuses
  <2>4. u \in WarehouseState
    BY <2>2, <2>3, UpdatedKeeps DEF Keeps
  <2>5. v = [u EXCEPT !.finalized = f.ok] \/ v = u
    BY <2>1
  <2> HIDE DEF u
  <2> QED
    BY <2>2, <2>4, <2>5 DEF WarehouseState
<1> QED
  BY <1>1, <1>2

LEMMA ReopenedType ==
  ASSUME NEW w \in WarehouseState
  PROVE  Reopened(w) \in WarehouseState /\ ~Reopened(w).finalized
<1>1. CASE w.run = NoRun
  BY <1>1 DEF Reopened, WarehouseState
<1>2. CASE w.run # NoRun
  <2> DEFINE u == WithRow(w, [Row(w) EXCEPT !.status = "running", !.ready = FALSE])
  <2>1. Row(w) \in RunRow
    BY <1>2 DEF WarehouseState, Row
  <2>2. [Row(w) EXCEPT !.status = "running", !.ready = FALSE] \in RunRow
    <3> HIDE DEF Row
    <3> QED
      BY <2>1 DEF RunRow, Statuses
  <2>3. u \in WarehouseState
    BY <1>2, <2>2, WithRowType DEF Keeps
  <2>4. Reopened(w) = [w EXCEPT !.finalized = FALSE] \/ Reopened(w) = [u EXCEPT !.finalized = FALSE]
    BY DEF Reopened
  <2> HIDE DEF u
  <2> QED
    BY <2>3, <2>4 DEF WarehouseState
<1> QED
  BY <1>1, <1>2

LEMMA FailedTicksKeep ==
  ASSUME NEW w \in WarehouseState, NEW t \in 0 .. MaxTick, t < MaxTick, NEW f \in FailedTicks(w, t)
  PROVE  f.tick \in {t, t + 1} /\ Keeps(w, f.w)
<1>1. t + 1 \in Ticks /\ t + 1 \in 0 .. MaxTick /\ "failed" \in Statuses
  BY DEF Ticks, Statuses
<1>2. \/ f.tick = t /\ f.w \in Closes(w, t, "failed")
      \/ /\ f.tick = t + 1
         /\ \E b \in {w, WithEvents(w, t + 1)} \cup TickOutcomes(w, t + 1) : f.w \in Closes(b, t + 1, "failed")
  BY DEF FailedTicks
<1>3. \A b \in {w, WithEvents(w, t + 1)} \cup TickOutcomes(w, t + 1) : Keeps(w, b)
  BY <1>1, WithRowsKeeps, TickOutcomesKeep DEF Keeps
<1> QED
  BY <1>1, <1>2, <1>3, ClosesKeep DEF Keeps

-----------------------------------------------------------------------------
(* What each operation does, field by field. *)

Rows(row) == <<row.ticks, row.events, row.actions>>

\* v differs from w only in the buffers, in the flags and in the row of w's run.
Frame(w, v) ==
  /\ v \in WarehouseState
  /\ v.run = w.run /\ v.opened = w.opened
  /\ \A r \in Runs : r # w.run => v.db[r] = w.db[r]

LEMMA FrameTrans ==
  ASSUME NEW u, NEW v, NEW w, Frame(u, v), Frame(v, w)
  PROVE  Frame(u, w)
BY DEF Frame

LEMMA FieldTypes ==
  ASSUME NEW w \in WarehouseState
  PROVE  /\ w.run \in Nat /\ w.opened \in Nat /\ w.mark \in 0 .. MaxTick
         /\ w.ticks \subseteq Ticks /\ w.events \subseteq Ticks
         /\ w.actions \in Seq(BufferedAction) /\ w.finalized \in BOOLEAN
         /\ w.db \in [Runs -> RunRow]
         /\ w.run # NoRun => w.run \in Runs /\ Row(w) \in RunRow
BY DEF WarehouseState, Runs, NoRun, Row

\* Replacing the row of the open run touches nothing else.
LEMMA WithRowFields ==
  ASSUME NEW w \in WarehouseState, w.run # NoRun, NEW row \in RunRow
  PROVE  LET v == WithRow(w, row)
         IN  /\ Frame(w, v) /\ Row(v) = row
             /\ v.ticks = w.ticks /\ v.events = w.events /\ v.actions = w.actions
             /\ v.mark = w.mark /\ v.finalized = w.finalized
<1>1. w.run \in Runs /\ w.db \in [Runs -> RunRow]
  BY FieldTypes
<1>2. WithRow(w, row) \in WarehouseState
  BY WithRowType DEF Keeps
<1> QED
  BY <1>1, <1>2 DEF WithRow, Frame, Row, WarehouseState

LEMMA PersistedFields ==
  ASSUME NEW w \in WarehouseState, w.run # NoRun
  PROVE  LET v == Persisted(w)
         IN  /\ Frame(w, v) /\ Row(v) = Committed(Row(w), w)
             /\ v.ticks = {} /\ v.events = {} /\ v.actions = <<>>
             /\ v.mark = MaxBufferedTick(w) /\ v.finalized = w.finalized
<1> DEFINE row == Committed(Row(w), w)
           u == WithRow(w, row)
           e == Emptied(u)
<1>1. row \in RunRow /\ MaxBufferedTick(w) \in 0 .. MaxTick
  BY FieldTypes, CommittedType, MaxBufferedTickMax
<1>2. Frame(w, u) /\ Row(u) = row /\ u.finalized = w.finalized
  <2> HIDE DEF row
  <2> QED
    BY <1>1, WithRowFields
<1>3. /\ Frame(w, e) /\ Row(e) = row /\ e.finalized = w.finalized
      /\ e.ticks = {} /\ e.events = {} /\ e.actions = <<>>
  <2> HIDE DEF u, row
  <2>1. u \in WarehouseState
    BY <1>2 DEF Frame
  <2>2. e \in WarehouseState
    BY <2>1, EmptiedKeeps DEF Keeps
  <2> QED
    BY <1>2, <2>1, <2>2 DEF Emptied, Frame, Row, WarehouseState
<1>4. Persisted(w) = [e EXCEPT !.mark = MaxBufferedTick(w)]
  BY DEF Persisted
<1> HIDE DEF e, row
<1>5. Persisted(w) \in WarehouseState
  BY <1>1, <1>3, <1>4 DEF Frame, WarehouseState
<1>6. /\ Persisted(w).run = e.run /\ Persisted(w).opened = e.opened /\ Persisted(w).db = e.db
      /\ Persisted(w).ticks = e.ticks /\ Persisted(w).events = e.events
      /\ Persisted(w).actions = e.actions /\ Persisted(w).finalized = e.finalized
      /\ Persisted(w).mark = MaxBufferedTick(w)
  BY <1>1, <1>3, <1>4 DEF Frame, WarehouseState
<1>7. Frame(w, Persisted(w))
  BY <1>3, <1>5, <1>6 DEF Frame
<1>8. Row(Persisted(w)) = Committed(Row(w), w)
  BY <1>3, <1>6 DEF Row, row
<1> QED
  BY <1>3, <1>6, <1>7, <1>8

\* A flush either commits what is buffered or changes nothing; it reports failure only when rows wait.
LEMMA FlushCases ==
  ASSUME NEW w \in WarehouseState, NEW f \in Flushes(w)
  PROVE  \/ f.w = w /\ f.ok = TRUE /\ ~HasRows(w)
         \/ f.w = w /\ f.ok = FALSE /\ HasRows(w)
         \/ f.w = Persisted(w) /\ f.ok = TRUE /\ HasRows(w)
<1>1. CASE ~HasRows(w)
  <2>1. f = [ok |-> TRUE, w |-> w]
    BY <1>1 DEF Flushes
  <2> QED
    BY <1>1, <2>1
<1>2. CASE HasRows(w)
  <2>1. f = [ok |-> TRUE, w |-> Persisted(w)] \/ f = [ok |-> FALSE, w |-> w]
    BY <1>2 DEF Flushes
  <2> QED
    BY <1>2, <2>1
<1> QED
  BY <1>1, <1>2

LEMMA UpdateFails ==
  ASSUME NEW w, NEW status, NEW ready, NEW t
  PROVE  Updated(w, FALSE, status, ready, t) = w
BY DEF Updated

LEMMA ClearedFields ==
  ASSUME NEW w \in WarehouseState
  PROVE  LET v == Cleared(w)
         IN  /\ v \in WarehouseState /\ v.run = NoRun /\ v.opened = w.opened
             /\ v.db = w.db /\ v.finalized = w.finalized /\ v.mark = 0
             /\ v.ticks = {} /\ v.events = {} /\ v.actions = <<>>
<1> DEFINE e == Emptied(w)
<1>1. e \in WarehouseState /\ Cleared(w) \in WarehouseState
  BY EmptiedKeeps, ClearedKeeps DEF Keeps
<1>2. /\ e.opened = w.opened /\ e.db = w.db /\ e.finalized = w.finalized
      /\ e.ticks = {} /\ e.events = {} /\ e.actions = <<>>
  BY DEF Emptied, WarehouseState
<1>3. Cleared(w) = [e EXCEPT !.run = NoRun, !.mark = 0]
  BY DEF Cleared
<1> HIDE DEF e
<1> QED
  BY <1>1, <1>2, <1>3 DEF WarehouseState

-----------------------------------------------------------------------------
(* The inductive invariant of the rows.  A run that is ready is complete and no row is missing      *)
(* below a watermark; and, which is what keeps that true, the rows of the open run, stored and      *)
(* buffered, are those of every tick so far, its stored watermark is the manager's, and it is       *)
(* completed exactly while it is finalized, with nothing buffered.                                  *)

Sound(row) ==
  /\ row.ready => row.status = "completed" /\ row.ticks = 1 .. row.total /\ row.mark = row.total
  /\ \A t \in Ticks : t < row.mark => t \in row.ticks

RunsSound(w) ==
  /\ w.run <= w.opened
  /\ \A r \in Runs : Sound(w.db[r]) /\ (r > w.opened => w.db[r] = NoRow)

\* n ticks are counted; events and actions may be buffered for ticks up to top.
Held(w, n, top) ==
  /\ Row(w).ticks \cup w.ticks = 1 .. n
  /\ \A t \in BufferedTicks(w) \cup {w.mark} : t <= top
  /\ Row(w).mark = w.mark
  /\ \A t \in Row(w).ticks : t <= w.mark

Marked(w, n) ==
  /\ Row(w).status \in {"running", "failed", "completed"}
  /\ Row(w).status = "completed" <=> w.finalized
  /\ Row(w).ready <=> w.finalized
  /\ w.finalized => ~HasRows(w) /\ Row(w).total = n

OpenRun(w, n, top) == w.run # NoRun => Held(w, n, top) /\ Marked(w, n)

Well(w, n, top) == w \in WarehouseState /\ RunsSound(w) /\ OpenRun(w, n, top)

\* The same runs are completed.
SameCompleted(w, v) ==
  \A r \in Runs : v.db[r].status = "completed" <=> w.db[r].status = "completed"

\* A change inside the open run that keeps finalized keeps every run's completion.
LEMMA FrameCompleted ==
  ASSUME NEW n, NEW top, NEW w, Well(w, n, top), NEW m, NEW top2, NEW v, Well(v, m, top2),
         Frame(w, v), v.finalized = w.finalized
  PROVE  SameCompleted(w, v)
<1> SUFFICES ASSUME NEW r \in Runs
             PROVE  v.db[r].status = "completed" <=> w.db[r].status = "completed"
  BY DEF SameCompleted
<1>1. CASE r # w.run
  BY <1>1 DEF Frame
<1>2. CASE r = w.run
  <2>1. w.run # NoRun /\ v.run = w.run
    BY <1>2 DEF Runs, NoRun, Frame
  <2> QED
    BY <1>2, <2>1 DEF Well, OpenRun, Marked, Row
<1> QED
  BY <1>1, <1>2

\* A change inside the open run keeps every other row sound.
LEMMA FrameSound ==
  ASSUME NEW w \in WarehouseState, NEW v, Frame(w, v), RunsSound(w), w.run # NoRun, Sound(Row(v))
  PROVE  RunsSound(v)
<1>1. w.run \in Runs /\ w.opened \in Nat /\ w.run <= w.opened
  BY FieldTypes DEF RunsSound
<1>2. ASSUME NEW r \in Runs PROVE Sound(v.db[r]) /\ (r > v.opened => v.db[r] = NoRow)
  <2>1. CASE r = w.run
    BY <1>1, <2>1 DEF Frame, Row, Runs
  <2>2. CASE r # w.run
    BY <2>2 DEF Frame, RunsSound
  <2> QED
    BY <2>1, <2>2
<1> QED
  BY <1>1, <1>2 DEF RunsSound, Frame

LEMMA LoggedWell ==
  ASSUME NEW n \in 0 .. MaxTick, NEW w, Well(w, n, n), NEW ids \in Seq(Actions),
         w.finalized => ids = <<>>
  PROVE  LET v == Logged(w, n, ids)
         IN  /\ Well(v, n, n) /\ Frame(w, v) /\ v.finalized = w.finalized
             /\ ids = <<>> => HasRows(v) = HasRows(w)
<1>1. CASE w.run = NoRun
  BY <1>1 DEF Logged, Well, Frame
<1>2. CASE w.run # NoRun
  <2> DEFINE more == [i \in 1 .. Len(ids) |-> [tick |-> n, id |-> ids[i]]]
             v == Logged(w, n, ids)
  <2>1. w \in WarehouseState /\ w.actions \in Seq(BufferedAction) /\ w.run \in Runs
    BY <1>2, FieldTypes DEF Well
  <2>2. more \in Seq(BufferedAction)
    BY DEF BufferedAction
  <2>3. v = [w EXCEPT !.actions = w.actions \o more]
    BY <1>2 DEF Logged
  <2>4. v \in WarehouseState
    BY <2>1, LoggedKeeps DEF Keeps
  <2>5. /\ v.run = w.run /\ v.opened = w.opened /\ v.db = w.db /\ v.ticks = w.ticks
        /\ v.events = w.events /\ v.mark = w.mark /\ v.finalized = w.finalized
        /\ v.actions = w.actions \o more
    <3> HIDE DEF v, more
    <3> QED
      BY <2>1, <2>3 DEF WarehouseState
  <2>6. Frame(w, v) /\ Row(v) = Row(w)
    <3> HIDE DEF v, more
    <3> QED
      BY <2>4, <2>5 DEF Frame, Row
  <2>7. ids = <<>> => v.actions = w.actions
    <3>1. ids = <<>> => more = <<>>
      OBVIOUS
    <3> HIDE DEF v, more
    <3> QED
      BY <2>1, <2>5, <3>1
  <2>8. ids = <<>> => HasRows(v) = HasRows(w)
    <3> HIDE DEF v, more
    <3> QED
      BY <2>5, <2>7 DEF HasRows
  <2>9. \A t \in BufferedTicks(v) : t \in BufferedTicks(w) \/ t = n
    <3>1. ASSUME NEW i \in DOMAIN v.actions
          PROVE  v.actions[i].tick \in BufferedTicks(w) \/ v.actions[i].tick = n
      <4>1. i \in 1 .. (Len(w.actions) + Len(more))
        <5> HIDE DEF v, more
        <5> QED
          BY <2>1, <2>2, <2>5, <3>1
      <4>2. CASE i <= Len(w.actions)
        <5>1. v.actions[i] = w.actions[i] /\ i \in DOMAIN w.actions
          <6> HIDE DEF v, more
          <6> QED
            BY <2>1, <2>2, <2>5, <4>1, <4>2
        <5> QED
          BY <5>1 DEF BufferedTicks
      <4>3. CASE i > Len(w.actions)
        <5>1. v.actions[i] = more[i - Len(w.actions)] /\ i - Len(w.actions) \in 1 .. Len(more)
          <6> HIDE DEF v, more
          <6> QED
            BY <2>1, <2>2, <2>5, <4>1, <4>3
        <5>2. more[i - Len(w.actions)].tick = n
          BY <5>1
        <5> QED
          BY <5>1, <5>2
      <4> QED
        BY <2>1, <4>1, <4>2, <4>3
    <3> HIDE DEF v
    <3> QED
      BY <2>5, <3>1 DEF BufferedTicks
  <2>10. Held(w, n, n) /\ Marked(w, n) /\ RunsSound(w)
    BY <1>2 DEF Well, OpenRun
  <2>11. Held(v, n, n)
    <3> HIDE DEF v, more
    <3> QED
      BY <2>5, <2>6, <2>9, <2>10 DEF Held
  <2>12. Marked(v, n)
    <3> HIDE DEF v, more
    <3> QED
      BY <2>5, <2>6, <2>8, <2>10 DEF Marked
  <2>13. RunsSound(v)
    <3> HIDE DEF v, more
    <3> QED
      BY <2>5, <2>10 DEF RunsSound
  <2> HIDE DEF v, more
  <2>14. Well(v, n, n) /\ Frame(w, v) /\ v.finalized = w.finalized /\ (ids = <<>> => HasRows(v) = HasRows(w))
    BY <2>4, <2>5, <2>6, <2>8, <2>11, <2>12, <2>13 DEF Well, OpenRun
  <2> QED
    BY <2>14 DEF v
<1> QED
  BY <1>1, <1>2

LEMMA WithTickWell ==
  ASSUME NEW n \in 0 .. MaxTick, n < MaxTick, NEW top \in {n, n + 1}, NEW w, Well(w, n, top), ~w.finalized
  PROVE  LET v == WithTick(w, n + 1)
         IN  Well(v, n + 1, n + 1) /\ Frame(w, v) /\ v.finalized = w.finalized
<1> DEFINE v == WithTick(w, n + 1)
<1>1. w \in WarehouseState /\ n + 1 \in Ticks
  BY DEF Well, Ticks
<1>2. v \in WarehouseState
  BY <1>1, WithRowsKeeps DEF Keeps
<1>3. CASE w.run = NoRun
  BY <1>2, <1>3 DEF WithTick, Well, Frame, OpenRun
<1>4. CASE w.run # NoRun
  <2>1. /\ v.run = w.run /\ v.opened = w.opened /\ v.db = w.db /\ v.ticks = w.ticks \cup {n + 1}
        /\ v.events = w.events /\ v.mark = w.mark /\ v.finalized = w.finalized
        /\ v.actions = w.actions
    BY <1>1, <1>4 DEF WithTick, WarehouseState
  <2> HIDE DEF v
  <2>2. Frame(w, v) /\ Row(v) = Row(w)
    BY <1>2, <2>1 DEF Frame, Row
  <2>3. Held(w, n, top) /\ Marked(w, n) /\ RunsSound(w)
    BY <1>4 DEF Well, OpenRun
  <2>4. BufferedTicks(v) = BufferedTicks(w) \cup {n + 1}
    BY <2>1 DEF BufferedTicks
  <2>5. BufferedTicks(w) \cup {w.mark} \subseteq Nat
    BY <1>1, BufferedTicksType
  <2>6. 1 .. (n + 1) = (1 .. n) \cup {n + 1}
    OBVIOUS
  <2>7. Held(v, n + 1, n + 1)
    BY <2>1, <2>2, <2>3, <2>4, <2>5, <2>6 DEF Held
  <2>8. Marked(v, n + 1) /\ RunsSound(v)
    BY <2>1, <2>2, <2>3 DEF Marked, RunsSound
  <2> QED
    BY <1>2, <2>1, <2>2, <2>7, <2>8 DEF Well, OpenRun, v
<1> QED
  BY <1>3, <1>4

LEMMA WithEventsWell ==
  ASSUME NEW n \in 0 .. MaxTick, n < MaxTick, NEW w, Well(w, n, n), ~w.finalized
  PROVE  LET v == WithEvents(w, n + 1)
         IN  Well(v, n, n + 1) /\ Frame(w, v) /\ v.finalized = w.finalized
<1> DEFINE v == WithEvents(w, n + 1)
<1>1. w \in WarehouseState /\ n + 1 \in Ticks
  BY DEF Well, Ticks
<1>2. v \in WarehouseState
  BY <1>1, WithRowsKeeps DEF Keeps
<1>3. CASE w.run = NoRun
  BY <1>2, <1>3 DEF WithEvents, Well, Frame, OpenRun
<1>4. CASE w.run # NoRun
  <2>1. /\ v.run = w.run /\ v.opened = w.opened /\ v.db = w.db /\ v.events = w.events \cup {n + 1}
        /\ v.ticks = w.ticks /\ v.mark = w.mark /\ v.finalized = w.finalized
        /\ v.actions = w.actions
    BY <1>1, <1>4 DEF WithEvents, WarehouseState
  <2> HIDE DEF v
  <2>2. Frame(w, v) /\ Row(v) = Row(w)
    BY <1>2, <2>1 DEF Frame, Row
  <2>3. Held(w, n, n) /\ Marked(w, n) /\ RunsSound(w)
    BY <1>4 DEF Well, OpenRun
  <2>4. BufferedTicks(v) = BufferedTicks(w) \cup {n + 1}
    BY <2>1 DEF BufferedTicks
  <2>5. BufferedTicks(w) \cup {w.mark} \subseteq Nat
    BY <1>1, BufferedTicksType
  <2>6. Held(v, n, n + 1)
    BY <2>1, <2>2, <2>3, <2>4, <2>5 DEF Held
  <2>7. Marked(v, n) /\ RunsSound(v)
    BY <2>1, <2>2, <2>3 DEF Marked, RunsSound
  <2> QED
    BY <1>2, <2>1, <2>2, <2>6, <2>7 DEF Well, OpenRun, v
<1> QED
  BY <1>3, <1>4

LEMMA FlushWell ==
  ASSUME NEW n \in 0 .. MaxTick, NEW top \in {n, n + 1}, top <= MaxTick,
         NEW w, Well(w, n, top), NEW f \in Flushes(w)
  PROVE  /\ Well(f.w, n, top) /\ Frame(w, f.w) /\ f.w.finalized = w.finalized
         /\ f.ok \in BOOLEAN
         /\ f.ok => ~HasRows(f.w)
         /\ ~HasRows(w) => f.w = w /\ f.ok
<1>1. w \in WarehouseState
  BY DEF Well
<1>2. CASE (f.w = w /\ f.ok = TRUE /\ ~HasRows(w)) \/ (f.w = w /\ f.ok = FALSE /\ HasRows(w))
  BY <1>1, <1>2 DEF Frame
<1>3. CASE f.w = Persisted(w) /\ f.ok = TRUE /\ HasRows(w)
  <2> DEFINE v == Persisted(w)
             row == Row(v)
             old == Row(w)
             m == MaxBufferedTick(w)
  <2>1. w.run # NoRun /\ w.run \in Runs /\ old \in RunRow /\ w.mark \in 0 .. MaxTick
    BY <1>1, <1>3, FieldTypes DEF HasRows
  <2>2. Held(w, n, top) /\ Marked(w, n) /\ RunsSound(w) /\ ~w.finalized
    BY <1>3, <2>1 DEF Well, OpenRun, Marked
  <2>3. /\ Frame(w, v) /\ row = Committed(old, w)
        /\ v.ticks = {} /\ v.events = {} /\ v.actions = <<>>
        /\ v.mark = m /\ v.finalized = w.finalized
    BY <1>1, <2>1, PersistedFields
  <2>4. /\ m \in BufferedTicks(w) \cup {w.mark} /\ m \in 0 .. MaxTick /\ m >= w.mark
        /\ \A t \in BufferedTicks(w) : t <= m
    <3>1. m \in 0 .. MaxTick /\ m >= w.mark /\ \A t \in BufferedTicks(w) : t <= m
      BY <1>1, MaxBufferedTickMax
    <3>2. \E k \in BufferedTicks(w) \cup {w.mark} : \A t \in BufferedTicks(w) \cup {w.mark} : t <= k
      BY <1>1, LargestTick, BufferedTicksType
    <3>3. m \in BufferedTicks(w) \cup {w.mark}
      BY <3>2 DEF MaxBufferedTick
    <3> QED
      BY <3>1, <3>3
  <2>5. /\ row.ticks = old.ticks \cup w.ticks /\ row.mark = Raised(old.mark, m)
        /\ row.status = old.status /\ row.ready = old.ready /\ row.total = old.total
    <3> HIDE DEF row, old, m
    <3>1. row = Committed(old, w)
      BY <2>3 DEF old
    <3> QED
      BY <2>1, <3>1 DEF Committed, RunRow, m
  <2> HIDE DEF v, row, old, m
  <2>6. row.mark = m
    BY <2>1, <2>2, <2>4, <2>5 DEF Raised, Held, old
  <2>7. row.ticks = 1 .. n /\ m <= top
    BY <2>2, <2>4, <2>5 DEF Held, old
  <2>8. \A t \in row.ticks : t <= m
    <3>1. w.ticks \subseteq BufferedTicks(w) /\ w.ticks \subseteq Ticks
      BY <1>1, FieldTypes DEF BufferedTicks
    <3>2. old.ticks \subseteq Ticks
      BY <2>1 DEF RunRow
    <3> QED
      BY <2>1, <2>2, <2>4, <2>5, <3>1, <3>2 DEF Held, old, Ticks
  <2>9. Sound(row)
    <3>1. ~row.ready
      BY <2>2, <2>5 DEF Marked, old
    <3>2. \A t \in Ticks : t < m => t \in 1 .. n
      BY <2>4, <2>7 DEF Ticks
    <3> QED
      BY <2>6, <2>7, <3>1, <3>2 DEF Sound
  <2>10. RunsSound(v)
    BY <1>1, <2>1, <2>2, <2>3, <2>9, FrameSound DEF row
  <2>11. BufferedTicks(v) = {}
    BY <2>3 DEF BufferedTicks
  <2>12. Held(v, n, top)
    BY <2>3, <2>6, <2>7, <2>8, <2>11 DEF Held, row
  <2>13. Marked(v, n)
    BY <2>2, <2>3, <2>5 DEF Marked, row, old
  <2>14. ~HasRows(v)
    BY <2>3 DEF HasRows
  <2> QED
    BY <1>3, <2>3, <2>10, <2>12, <2>13, <2>14 DEF Well, OpenRun, Frame, v
<1> QED
  BY <1>1, <1>2, <1>3, FlushCases

LEMMA TickOutcomesWell ==
  ASSUME NEW n \in 0 .. MaxTick, n < MaxTick, NEW w, Well(w, n, n), ~w.finalized,
         NEW v \in TickOutcomes(w, n + 1)
  PROVE  Well(v, n + 1, n + 1) /\ Frame(w, v) /\ v.finalized = w.finalized
<1> DEFINE e == WithEvents(w, n + 1)
<1>1. Well(e, n, n + 1) /\ Frame(w, e) /\ e.finalized = w.finalized
  BY WithEventsWell
<1>2. /\ Well(WithTick(w, n + 1), n + 1, n + 1)
      /\ Frame(w, WithTick(w, n + 1)) /\ WithTick(w, n + 1).finalized = w.finalized
  BY WithTickWell
<1>3. /\ Well(WithTick(e, n + 1), n + 1, n + 1)
      /\ Frame(e, WithTick(e, n + 1)) /\ WithTick(e, n + 1).finalized = e.finalized
  <2> HIDE DEF e
  <2> QED
    BY <1>1, WithTickWell
<1>4. PICK b \in {WithTick(w, n + 1), WithTick(e, n + 1)} : v = b \/ \E f \in Flushes(b) : v = f.w
  BY DEF TickOutcomes
<1>5. Well(b, n + 1, n + 1) /\ Frame(w, b) /\ b.finalized = w.finalized
  <2> HIDE DEF e
  <2> QED
    BY <1>1, <1>2, <1>3, <1>4, FrameTrans
<1>6. n + 1 \in 0 .. MaxTick
  OBVIOUS
<1>7. ASSUME NEW f \in Flushes(b), v = f.w
      PROVE  Well(v, n + 1, n + 1) /\ Frame(b, v) /\ v.finalized = b.finalized
  BY <1>5, <1>6, <1>7, FlushWell
<1> QED
  BY <1>4, <1>5, <1>7, FrameTrans

\* What a close leaves: every row sound, no run open, the same runs completed; the rows of other runs
\* as they were, and those of the closed run too when nothing was buffered.
Settled(w, c) ==
  /\ c \in WarehouseState /\ RunsSound(c)
  /\ c.run = NoRun /\ c.opened = w.opened /\ c.finalized = w.finalized
  /\ SameCompleted(w, c)
  /\ \A r \in Runs : r # w.run \/ ~HasRows(w) => Rows(c.db[r]) = Rows(w.db[r])

\* An update that records the tick reached leaves the open run's row sound.
LEMMA UpdatedSound ==
  ASSUME NEW n \in 0 .. MaxTick, NEW top \in {n, n + 1}, NEW w, Well(w, n, top), w.run # NoRun,
         NEW row \in RunRow, Rows(row) = Rows(Row(w)), row.mark = w.mark,
         row.ready => row.status = "completed" /\ row.total = n /\ ~HasRows(w) /\ w.mark = n
  PROVE  RunsSound(WithRow(w, row))
<1> DEFINE v == WithRow(w, row)
<1>1. w \in WarehouseState /\ RunsSound(w) /\ Held(w, n, top)
  BY DEF Well, OpenRun
<1>2. Frame(w, v) /\ Row(v) = row
  BY <1>1, WithRowFields
<1> HIDE DEF v
<1>3. row.ticks = Row(w).ticks
  BY DEF Rows
<1>4. row.ready => row.ticks = 1 .. row.total
  BY <1>1, <1>3 DEF Held, HasRows
<1>5. Sound(Row(w))
  BY <1>1, FieldTypes DEF RunsSound, Row
<1>6. Sound(row)
  BY <1>1, <1>3, <1>4, <1>5 DEF Sound, Held
<1> QED
  BY <1>1, <1>2, <1>6, FrameSound DEF v

LEMMA CloseWell ==
  ASSUME NEW n \in 0 .. MaxTick, NEW top \in {n, n + 1}, top <= MaxTick, NEW w, Well(w, n, top),
         NEW t \in 0 .. MaxTick, w.finalized => t = n,
         NEW status \in {"stopped", "failed"}, NEW c \in Closes(w, t, status)
  PROVE  Settled(w, c)
<1>0. w \in WarehouseState /\ RunsSound(w)
  BY DEF Well
<1>1. CASE w.run = NoRun
  BY <1>0, <1>1 DEF Closes, Settled, SameCompleted
<1>2. CASE w.run # NoRun
  <2> DEFINE wanted == IF w.finalized THEN "completed" ELSE status
  <2>1. PICK f \in Flushes(w), ok \in BOOLEAN :
          c = Cleared(Updated(f.w, ok, IF f.ok THEN wanted ELSE "failed", f.ok /\ wanted = "completed", t))
    BY <1>2 DEF Closes
  <2> DEFINE given == IF f.ok THEN wanted ELSE "failed"
             ready == f.ok /\ wanted = "completed"
             u == Updated(f.w, ok, given, ready, t)
  <2>2. /\ Well(f.w, n, top) /\ Frame(w, f.w) /\ f.w.finalized = w.finalized /\ f.ok \in BOOLEAN
        /\ f.ok => ~HasRows(f.w)
        /\ ~HasRows(w) => f.w = w /\ f.ok
    BY FlushWell
  <2>3. f.w \in WarehouseState /\ f.w.run # NoRun
    BY <1>2, <2>2 DEF Frame
  <2>a. SameCompleted(w, f.w)
    BY <2>2, FrameCompleted
  <2>b. Row(f.w).status = "completed" <=> w.finalized
    BY <2>2, <2>3 DEF Well, OpenRun, Marked
  <2>c. given = "completed" <=> w.finalized
    BY <1>2, <2>2 DEF Well, OpenRun, Marked
  <2>4. given \in Statuses /\ ready \in BOOLEAN
    BY DEF Statuses
  <2>5. ready => given = "completed" /\ t = n /\ ~HasRows(f.w) /\ f.w.mark = n
    <3>1. ready => f.ok /\ w.finalized
      OBVIOUS
    <3>2. w.finalized => f.w = w /\ Row(w).status = "completed" /\ Row(w).ready /\ Row(w).total = n
      BY <1>2, <2>2 DEF Well, OpenRun, Marked
    <3>3. Sound(Row(w)) /\ (w.run # NoRun => Row(w).mark = w.mark)
      BY <1>0, <1>2, FieldTypes DEF RunsSound, Row, Well, OpenRun, Held
    <3>4. w.finalized => w.mark = n
      BY <1>2, <3>2, <3>3 DEF Sound
    <3> QED
      BY <2>2, <3>1, <3>2, <3>4
  <2>6. /\ Frame(f.w, u) /\ RunsSound(u) /\ u.finalized = f.w.finalized /\ Rows(Row(u)) = Rows(Row(f.w))
        /\ Row(u).status = "completed" <=> w.finalized
    <3> HIDE DEF given, ready
    <3>1. CASE ok = TRUE
      <4> DEFINE old == Row(f.w)
                 row == [old EXCEPT !.status = given, !.ready = ready, !.total = t, !.mark = f.w.mark]
      <4>1. u = WithRow(f.w, row)
        BY <3>1 DEF Updated
      <4>2. old \in RunRow /\ f.w.mark \in 0 .. MaxTick
        BY <2>3, FieldTypes
      <4>3. /\ row \in RunRow /\ Rows(row) = Rows(old)
            /\ row.status = given /\ row.ready = ready /\ row.total = t /\ row.mark = f.w.mark
        <5> HIDE DEF old
        <5> QED
          BY <2>4, <4>2 DEF RunRow, Rows
      <4> HIDE DEF u, row
      <4>4. Frame(f.w, u) /\ u.finalized = f.w.finalized /\ Row(u) = row
        BY <2>3, <4>1, <4>3, WithRowFields
      <4>5. RunsSound(u)
        BY <2>2, <2>3, <2>5, <4>1, <4>3, UpdatedSound
      <4> QED
        BY <2>c, <4>3, <4>4, <4>5
    <3>2. CASE ok = FALSE
      <4>1. u = f.w
        BY <3>2, UpdateFails
      <4> HIDE DEF u
      <4> QED
        BY <2>2, <2>3, <2>b, <4>1 DEF Frame, Well
    <3> QED
      BY <3>1, <3>2
  <2> HIDE DEF u, given, ready, wanted
  <2>7. u \in WarehouseState
    BY <2>6 DEF Frame
  <2>8. c = Cleared(u)
    BY <2>1 DEF u, given, ready
  <2>9. /\ c \in WarehouseState /\ c.run = NoRun /\ c.opened = u.opened
        /\ c.db = u.db /\ c.finalized = u.finalized
    BY <2>7, <2>8, ClearedFields
  <2>10. RunsSound(c)
    BY <2>6, <2>7, <2>9, FieldTypes DEF RunsSound, NoRun
  <2>11. ASSUME NEW r \in Runs, r # w.run \/ ~HasRows(w) PROVE Rows(c.db[r]) = Rows(w.db[r])
    <3>1. CASE r # w.run
      BY <2>2, <2>6, <2>9, <3>1 DEF Frame
    <3>2. CASE r = w.run
      BY <2>2, <2>6, <2>9, <2>11, <3>2 DEF Frame, Row
    <3> QED
      BY <3>1, <3>2
  <2>12. SameCompleted(w, c)
    <3> SUFFICES ASSUME NEW r \in Runs
                 PROVE  c.db[r].status = "completed" <=> w.db[r].status = "completed"
      BY DEF SameCompleted
    <3>1. CASE r # w.run
      BY <2>2, <2>6, <2>9, <3>1 DEF Frame
    <3>2. CASE r = w.run
      BY <2>2, <2>6, <2>9, <2>a, <2>b, <3>2 DEF Frame, Row, SameCompleted
    <3> QED
      BY <3>1, <3>2
  <2> QED
    BY <2>2, <2>6, <2>9, <2>10, <2>11, <2>12 DEF Settled, Frame
<1> QED
  BY <1>1, <1>2

\* The rows are those of every tick counted, so the last of them is the watermark to record.
LEMMA MarkReached ==
  ASSUME NEW n \in 0 .. MaxTick, NEW w, Well(w, n, n), w.run # NoRun, ~HasRows(w)
  PROVE  w.mark = n
<1>1. w \in WarehouseState /\ Held(w, n, n)
  BY DEF Well, OpenRun
<1>2. w.mark \in 0 .. MaxTick /\ w.mark <= n
  BY <1>1, FieldTypes DEF Held
<1>3. Row(w).ticks = 1 .. n
  BY <1>1 DEF Held, HasRows
<1>4. n # 0 => n <= w.mark
  BY <1>1, <1>3 DEF Held
<1> QED
  BY <1>2, <1>4

LEMMA OpensWell ==
  ASSUME NEW w \in WarehouseState, RunsSound(w), w.run = NoRun, ~w.finalized,
         WarehouseOn => w.opened < MaxRuns, NEW o \in Opens(w)
  PROVE  /\ Well(o, 0, 0)
         /\ \A r \in Runs : r <= w.opened => o.db[r] = w.db[r]
         /\ \A r \in Runs : r > w.opened => o.db[r].status # "completed"
<1>1. CASE ~WarehouseOn
  BY <1>1 DEF Opens, Well, OpenRun, RunsSound, NoRow
<1>2. CASE WarehouseOn
  <2> DEFINE new          == w.opened + 1
             bare         == [Cleared(w) EXCEPT !.opened = new]
             started      == [bare EXCEPT !.run = new]
             fresh(status) == [NoRow EXCEPT !.status = status]
             made(status) == WithRow(started, fresh(status))
  <2>1. new \in Runs /\ new # NoRun /\ w.opened \in Nat
    BY <1>2 DEF WarehouseState, Runs, NoRun
  <2>2. /\ bare \in WarehouseState /\ ~bare.finalized /\ bare.opened = new /\ bare.run = NoRun
        /\ bare.db = w.db /\ bare.mark = 0
        /\ bare.ticks = {} /\ bare.events = {} /\ bare.actions = <<>>
    <3> DEFINE e == Cleared(w)
    <3>1. /\ e \in WarehouseState /\ e.run = NoRun /\ e.db = w.db /\ e.finalized = w.finalized
          /\ e.mark = 0 /\ e.ticks = {} /\ e.events = {} /\ e.actions = <<>>
      BY ClearedFields
    <3>2. bare = [e EXCEPT !.opened = new]
      OBVIOUS
    <3>3. new \in 0 .. MaxRuns
      BY <2>1 DEF Runs
    <3> HIDE DEF e, new, bare
    <3> QED
      BY <3>1, <3>2, <3>3 DEF WarehouseState
  <2> HIDE DEF bare
  <2>3. /\ started \in WarehouseState /\ ~started.finalized /\ started.opened = new /\ started.run = new
        /\ started.db = w.db /\ started.mark = 0
        /\ started.ticks = {} /\ started.events = {} /\ started.actions = <<>>
    <3> HIDE DEF new
    <3> QED
      BY <2>1, <2>2 DEF WarehouseState
  <2>4. ASSUME NEW status \in Statuses
        PROVE  /\ fresh(status) \in RunRow /\ fresh(status).status = status
               /\ ~fresh(status).ready /\ fresh(status).mark = 0 /\ fresh(status).ticks = {}
    <3>1. fresh(status) \in RunRow
      BY NoRowType DEF RunRow
    <3>2. /\ fresh(status).status = status
          /\ ~fresh(status).ready /\ fresh(status).mark = 0 /\ fresh(status).ticks = {}
      BY DEF NoRow
    <3> QED
      BY <3>1, <3>2
  <2> HIDE DEF started
  <2>5. \A r \in Runs : Sound(w.db[r]) /\ (r > w.opened => w.db[r] = NoRow)
    BY DEF RunsSound
  <2>6. RunsSound(bare)
    BY <2>1, <2>2, <2>5 DEF RunsSound, NoRun, Runs
  <2>7. ASSUME NEW status \in {"running", "failed"}
        PROVE  LET m == made(status)
               IN  /\ m \in WarehouseState /\ RunsSound(m) /\ m.run = new /\ m.opened = new
                   /\ Row(m) = fresh(status) /\ ~m.finalized /\ m.mark = 0
                   /\ m.ticks = {} /\ m.events = {} /\ m.actions = <<>>
                   /\ \A r \in Runs : r <= w.opened => m.db[r] = w.db[r]
    <3> DEFINE m == made(status)
    <3>1. /\ fresh(status) \in RunRow /\ fresh(status).status = status
          /\ ~fresh(status).ready /\ fresh(status).mark = 0 /\ fresh(status).ticks = {}
      BY <2>4 DEF Statuses
    <3> HIDE DEF fresh, new
    <3>2. /\ Frame(started, m) /\ Row(m) = fresh(status)
          /\ m.ticks = {} /\ m.events = {} /\ m.actions = <<>> /\ m.mark = 0 /\ ~m.finalized
      <4>1. started.run # NoRun
        BY <2>1, <2>3
      <4> QED
        BY <2>3, <3>1, <4>1, WithRowFields
    <3> HIDE DEF m
    <3>3. Sound(Row(m))
      BY <3>1, <3>2 DEF Sound, Ticks
    <3>4. \A r \in Runs : r <= w.opened => m.db[r] = w.db[r]
      BY <2>1, <2>3, <3>2 DEF Frame, new
    <3>5. m.run = new /\ m.opened = new /\ m \in WarehouseState
      BY <2>3, <3>2 DEF Frame
    <3>6. ASSUME NEW r \in Runs PROVE Sound(m.db[r]) /\ (r > new => m.db[r] = NoRow)
      <4>1. CASE r = new
        BY <3>3, <3>5, <4>1, <2>1 DEF Row, Runs
      <4>2. CASE r # new
        BY <2>1, <2>3, <2>5, <3>2, <4>2 DEF Frame, new, Runs
      <4> QED
        BY <4>1, <4>2
    <3>7. RunsSound(m)
      BY <2>1, <3>5, <3>6 DEF RunsSound, Runs
    <3> QED
      BY <3>2, <3>4, <3>5, <3>7 DEF m
  <2>8. <<[tick |-> 0, id |-> 0]>> \in Seq(BufferedAction)
    BY DEF Actions, BufferedAction
  <2>9. o \in {[made("running") EXCEPT !.actions = <<[tick |-> 0, id |-> 0]>>],
               [made("failed") EXCEPT !.run = NoRun], [made("running") EXCEPT !.run = NoRun], bare}
    BY <1>2 DEF Opens, bare, started
  <2>10. ASSUME o = bare PROVE Well(o, 0, 0) /\ \A r \in Runs : r <= w.opened => o.db[r] = w.db[r]
    BY <2>2, <2>6, <2>10 DEF Well, OpenRun
  <2>11. ASSUME NEW status \in {"running", "failed"}, o = [made(status) EXCEPT !.run = NoRun]
         PROVE  /\ Well(o, 0, 0)
                /\ \A r \in Runs : r <= w.opened => o.db[r] = w.db[r]
                /\ o.opened = new /\ o.db[new].status # "completed"
    <3> DEFINE m == made(status)
    <3>1. /\ m \in WarehouseState /\ RunsSound(m) /\ m.opened = new
          /\ m.db[new] = fresh(status)
          /\ \A r \in Runs : r <= w.opened => m.db[r] = w.db[r]
      BY <2>7 DEF Row
    <3>a. fresh(status).status # "completed"
      BY <2>4 DEF Statuses
    <3> HIDE DEF m, fresh
    <3>2. o \in WarehouseState /\ o.run = NoRun /\ o.opened = m.opened /\ o.db = m.db
      BY <2>11, <3>1 DEF WarehouseState, m
    <3>3. RunsSound(o)
      BY <2>1, <3>1, <3>2 DEF RunsSound, NoRun
    <3> QED
      BY <3>1, <3>2, <3>3, <3>a DEF Well, OpenRun
  <2>12. ASSUME o = [made("running") EXCEPT !.actions = <<[tick |-> 0, id |-> 0]>>]
         PROVE  /\ Well(o, 0, 0)
                /\ \A r \in Runs : r <= w.opened => o.db[r] = w.db[r]
                /\ o.opened = new /\ o.db[new].status # "completed"
    <3> DEFINE m == made("running")
    <3>1. /\ m \in WarehouseState /\ RunsSound(m) /\ m.run = new
          /\ Row(m) = fresh("running") /\ ~m.finalized /\ m.mark = 0
          /\ m.ticks = {} /\ m.events = {}
          /\ \A r \in Runs : r <= w.opened => m.db[r] = w.db[r]
      BY <2>7
    <3>2. /\ fresh("running").status = "running" /\ ~fresh("running").ready
          /\ fresh("running").mark = 0 /\ fresh("running").ticks = {}
      BY <2>4 DEF Statuses
    <3> HIDE DEF m, fresh
    <3>3. /\ o \in WarehouseState /\ o.run = m.run /\ o.opened = m.opened /\ o.db = m.db
          /\ o.finalized = m.finalized /\ o.mark = 0 /\ o.ticks = {} /\ o.events = {}
          /\ o.actions = <<[tick |-> 0, id |-> 0]>>
      BY <2>8, <2>12, <3>1 DEF WarehouseState, m
    <3>b. o.opened = new /\ o.db[new].status # "completed"
      BY <2>7, <3>1, <3>2, <3>3 DEF Row, m
    <3>4. Row(o) = Row(m) /\ RunsSound(o)
      BY <3>1, <3>3 DEF Row, RunsSound
    <3>5. BufferedTicks(o) = {0}
      <4>1. \A i \in DOMAIN o.actions : o.actions[i].tick = 0
        BY <3>3
      <4>2. 1 \in DOMAIN o.actions
        BY <3>3
      <4> QED
        BY <3>3, <4>1, <4>2 DEF BufferedTicks
    <3>6. Held(o, 0, 0)
      BY <3>1, <3>2, <3>3, <3>4, <3>5 DEF Held
    <3>7. Marked(o, 0)
      BY <3>1, <3>2, <3>3, <3>4 DEF Marked
    <3> QED
      BY <3>1, <3>3, <3>4, <3>6, <3>7, <3>b DEF Well, OpenRun
  <2>13. /\ Well(o, 0, 0)
         /\ \A r \in Runs : r <= w.opened => o.db[r] = w.db[r]
         /\ o.opened = new /\ o.db[new].status # "completed"
    <3>1. w.db[new].status # "completed"
      BY <2>1, <2>5 DEF NoRow, Runs
    <3> HIDE DEF new
    <3>2. CASE o = bare
      BY <2>2, <2>10, <3>1, <3>2 DEF new
    <3>3. CASE \E status \in {"running", "failed"} : o = [made(status) EXCEPT !.run = NoRun]
      BY <2>11, <3>3
    <3>4. CASE o = [made("running") EXCEPT !.actions = <<[tick |-> 0, id |-> 0]>>]
      BY <2>12, <3>4
    <3> HIDE DEF made
    <3> QED
      BY <2>9, <3>2, <3>3, <3>4
  <2>14. \A r \in Runs : r > o.opened => o.db[r] = NoRow
    BY <2>13 DEF Well, RunsSound
  <2>15. \A r \in Runs : r > w.opened => r = new \/ r > new
    BY <2>1 DEF Runs
  <2> QED
    BY <2>13, <2>14, <2>15 DEF NoRow
<1> QED
  BY <1>1, <1>2

LEMMA FinalizesWell ==
  ASSUME NEW n \in 0 .. MaxTick, NEW w, Well(w, n, n), NEW v \in Finalizes(w, n)
  PROVE  /\ Well(v, n, n) /\ Frame(w, v)
         /\ w.run # NoRun /\ ~HasRows(w) => Rows(Row(v)) = Rows(Row(w))
         /\ w.finalized => v.finalized
<1>1. CASE w.run = NoRun
  BY <1>1 DEF Finalizes, Well, Frame
<1>2. CASE w.run # NoRun
  <2>1. PICK f \in Flushes(w), ok \in BOOLEAN :
          LET u == Updated(f.w, ok, IF f.ok THEN "completed" ELSE "failed", f.ok, n)
          IN  v = IF ok THEN [u EXCEPT !.finalized = f.ok] ELSE u
    BY <1>2 DEF Finalizes
  <2>2. /\ Well(f.w, n, n) /\ Frame(w, f.w) /\ f.w.finalized = w.finalized /\ f.ok \in BOOLEAN
        /\ f.ok => ~HasRows(f.w)
        /\ ~HasRows(w) => f.w = w /\ f.ok
    BY FlushWell
  <2>3. f.w \in WarehouseState /\ f.w.run # NoRun
    BY <1>2, <2>2 DEF Frame
  <2>4. CASE ok = FALSE
    <3>1. v = f.w
      BY <2>1, <2>4, UpdateFails
    <3> QED
      BY <2>2, <3>1
  <2>5. CASE ok = TRUE
    <3> DEFINE given == IF f.ok THEN "completed" ELSE "failed"
               old == Row(f.w)
               row == [old EXCEPT !.status = given, !.ready = f.ok, !.total = n, !.mark = f.w.mark]
               u == WithRow(f.w, row)
    <3>1. v = [u EXCEPT !.finalized = f.ok]
      BY <2>1, <2>5 DEF Updated
    <3>2. old \in RunRow /\ f.w.mark \in 0 .. MaxTick
      BY <2>3, FieldTypes
    <3>3. given \in Statuses
      BY DEF Statuses
    <3>4. /\ row \in RunRow /\ Rows(row) = Rows(old)
          /\ row.status = given /\ row.ready = f.ok /\ row.total = n /\ row.mark = f.w.mark
      <4> HIDE DEF old, given
      <4> QED
        BY <2>2, <3>2, <3>3 DEF RunRow, Rows
    <3>5. given = "completed" <=> f.ok
      BY <2>2
    <3> HIDE DEF row, given
    <3>6. /\ Frame(f.w, u) /\ Row(u) = row
          /\ u.ticks = f.w.ticks /\ u.events = f.w.events /\ u.actions = f.w.actions /\ u.mark = f.w.mark
      BY <2>3, <3>4, WithRowFields
    <3>7. RunsSound(u)
      <4>1. row.ready => row.status = "completed" /\ row.total = n /\ ~HasRows(f.w) /\ f.w.mark = n
        BY <2>2, <2>3, <3>4, <3>5, MarkReached
      <4>2. Rows(row) = Rows(Row(f.w))
        BY <3>4
      <4> QED
        BY <2>2, <2>3, <3>4, <4>1, <4>2, UpdatedSound
    <3> HIDE DEF u, old
    <3>8. /\ v \in WarehouseState /\ v.run = u.run /\ v.opened = u.opened /\ v.db = u.db
          /\ v.ticks = u.ticks /\ v.events = u.events /\ v.actions = u.actions /\ v.mark = u.mark
          /\ v.finalized = f.ok
      BY <2>2, <3>1, <3>6 DEF Frame, WarehouseState
    <3>9. Row(v) = row /\ RunsSound(v) /\ Frame(w, v)
      BY <2>2, <3>6, <3>7, <3>8 DEF Row, RunsSound, Frame
    <3>10. BufferedTicks(v) = BufferedTicks(f.w)
      BY <3>6, <3>8 DEF BufferedTicks
    <3>11. row.ticks = Row(f.w).ticks
      BY <3>4 DEF Rows, old
    <3>12. Held(f.w, n, n)
      BY <2>2, <2>3 DEF Well, OpenRun
    <3>13. Held(v, n, n)
      BY <3>4, <3>6, <3>8, <3>9, <3>10, <3>11, <3>12 DEF Held
    <3>14. HasRows(v) <=> HasRows(f.w)
      BY <3>6, <3>8 DEF HasRows, Frame
    <3>15. row.status \in {"running", "failed", "completed"}
      BY <3>4 DEF given
    <3>16. Marked(v, n)
      BY <2>2, <3>4, <3>5, <3>8, <3>9, <3>14, <3>15 DEF Marked
    <3>17. ~HasRows(w) => Rows(Row(v)) = Rows(Row(w))
      BY <2>2, <3>4, <3>9 DEF old
    <3>18. w.finalized => v.finalized
      BY <1>2, <2>2, <3>8 DEF Well, OpenRun, Marked
    <3> QED
      BY <3>8, <3>9, <3>13, <3>16, <3>17, <3>18 DEF Well, OpenRun
  <2> QED
    BY <2>4, <2>5
<1> QED
  BY <1>1, <1>2

LEMMA ReopenedWell ==
  ASSUME NEW n \in 0 .. MaxTick, NEW w, Well(w, n, n)
  PROVE  /\ Well(Reopened(w), n, n) /\ Frame(w, Reopened(w))
         /\ w.run # NoRun => Rows(Row(Reopened(w))) = Rows(Row(w))
<1> DEFINE v == Reopened(w)
<1>1. w \in WarehouseState /\ RunsSound(w) /\ v \in WarehouseState /\ ~v.finalized
  BY ReopenedType DEF Well
<1>2. CASE ~w.finalized \/ w.run = NoRun
  <2>1. v = [w EXCEPT !.finalized = FALSE]
    BY <1>2 DEF Reopened
  <2> HIDE DEF v
  <2>2. /\ v.run = w.run /\ v.opened = w.opened /\ v.db = w.db /\ v.mark = w.mark
        /\ v.ticks = w.ticks /\ v.events = w.events /\ v.actions = w.actions
    BY <1>1, <2>1 DEF WarehouseState
  <2>3. Frame(w, v) /\ RunsSound(v) /\ Row(v) = Row(w) /\ BufferedTicks(v) = BufferedTicks(w)
    BY <1>1, <2>2 DEF Frame, RunsSound, Row, BufferedTicks
  <2>4. w.run # NoRun => Held(v, n, n) /\ Marked(v, n)
    BY <1>1, <1>2, <2>2, <2>3 DEF Well, OpenRun, Held, Marked
  <2> QED
    BY <1>1, <2>2, <2>3, <2>4 DEF Well, OpenRun, v
<1>3. CASE w.finalized /\ w.run # NoRun
  <2> DEFINE old == Row(w)
             row == [old EXCEPT !.status = "running", !.ready = FALSE]
             u == WithRow(w, row)
  <2>1. v = [u EXCEPT !.finalized = FALSE]
    BY <1>3 DEF Reopened
  <2>2. old \in RunRow /\ Held(w, n, n) /\ Sound(old)
    BY <1>1, <1>3, FieldTypes DEF Well, OpenRun, RunsSound, Row
  <2>3. /\ row \in RunRow /\ Rows(row) = Rows(old) /\ row.ticks = old.ticks
        /\ row.status = "running" /\ ~row.ready /\ row.mark = old.mark
    <3> HIDE DEF old
    <3> QED
      BY <2>2 DEF RunRow, Rows, Statuses
  <2> HIDE DEF row
  <2>4. /\ Frame(w, u) /\ Row(u) = row
        /\ u.ticks = w.ticks /\ u.events = w.events /\ u.actions = w.actions /\ u.mark = w.mark
    BY <1>1, <1>3, <2>3, WithRowFields
  <2>5. Sound(Row(u))
    BY <2>2, <2>3, <2>4 DEF Sound
  <2>6. RunsSound(u)
    BY <1>1, <1>3, <2>4, <2>5, FrameSound
  <2> HIDE DEF u, old, v
  <2>7. /\ v.run = u.run /\ v.opened = u.opened /\ v.db = u.db /\ v.mark = u.mark
        /\ v.ticks = u.ticks /\ v.events = u.events /\ v.actions = u.actions
    BY <2>1, <2>4 DEF Frame, WarehouseState
  <2>8. Frame(w, v) /\ RunsSound(v) /\ Row(v) = row
    BY <1>1, <2>4, <2>6, <2>7 DEF Frame, RunsSound, Row
  <2>9. BufferedTicks(v) = BufferedTicks(w)
    BY <2>4, <2>7 DEF BufferedTicks
  <2>10. Held(v, n, n)
    BY <2>2, <2>3, <2>4, <2>7, <2>8, <2>9 DEF Held, old
  <2>11. Marked(v, n)
    BY <1>1, <2>3, <2>8 DEF Marked
  <2> QED
    BY <1>1, <2>3, <2>8, <2>10, <2>11 DEF Well, OpenRun, v, old
<1> QED
  BY <1>1, <1>2, <1>3

LEMMA FailedTicksSettled ==
  ASSUME NEW n \in 0 .. MaxTick, n < MaxTick, NEW w, Well(w, n, n), ~w.finalized,
         NEW f \in FailedTicks(w, n)
  PROVE  /\ f.w \in WarehouseState /\ RunsSound(f.w) /\ f.w.run = NoRun
         /\ \A r \in Runs : r # w.run => Rows(f.w.db[r]) = Rows(w.db[r])
         /\ SameCompleted(w, f.w)
<1>1. n + 1 \in 0 .. MaxTick /\ n \in {n, n + 1} /\ n + 1 \in {n, n + 1} /\ n + 1 \in {n + 1, (n + 1) + 1}
  OBVIOUS
<1>2. \/ f.w \in Closes(w, n, "failed")
      \/ \E b \in {w, WithEvents(w, n + 1)} \cup TickOutcomes(w, n + 1) : f.w \in Closes(b, n + 1, "failed")
  BY DEF FailedTicks
<1>3. CASE f.w \in Closes(w, n, "failed")
  BY <1>1, <1>3, CloseWell DEF Settled
<1>4. CASE f.w \in Closes(w, n + 1, "failed")
  BY <1>1, <1>4, CloseWell DEF Settled
<1>5. CASE f.w \in Closes(WithEvents(w, n + 1), n + 1, "failed")
  <2> DEFINE b == WithEvents(w, n + 1)
  <2>1. Well(b, n, n + 1) /\ Frame(w, b) /\ ~b.finalized /\ b.finalized = w.finalized
    BY WithEventsWell
  <2> HIDE DEF b
  <2>2. Settled(b, f.w)
    BY <1>1, <1>5, <2>1, CloseWell DEF b
  <2>3. SameCompleted(w, b)
    BY <2>1, FrameCompleted
  <2> QED
    BY <2>1, <2>2, <2>3 DEF Settled, Frame, SameCompleted
<1>6. CASE \E b \in TickOutcomes(w, n + 1) : f.w \in Closes(b, n + 1, "failed")
  <2>1. PICK b \in TickOutcomes(w, n + 1) : f.w \in Closes(b, n + 1, "failed")
    BY <1>6
  <2>2. Well(b, n + 1, n + 1) /\ Frame(w, b) /\ ~b.finalized /\ b.finalized = w.finalized
    BY TickOutcomesWell
  <2>3. Settled(b, f.w)
    BY <1>1, <2>1, <2>2, CloseWell
  <2>4. SameCompleted(w, b)
    BY <2>2, FrameCompleted
  <2> QED
    BY <2>2, <2>3, <2>4 DEF Settled, Frame, SameCompleted
<1> QED
  BY <1>2, <1>3, <1>4, <1>5, <1>6

-----------------------------------------------------------------------------
(* The component's own steps *)

WInv ==
  /\ tick \in 0 .. MaxTick
  /\ policy \in Actions
  /\ Well(wh, tick, tick)

\* The rows of runs that ended are the same in v.
Frozen(w, v) ==
  \A r \in Runs : w.db[r].status \in {"completed", "stopped"} => Rows(v.db[r]) = Rows(w.db[r])

LEMMA BatchType ==
  ASSUME NEW ids \in Batches
  PROVE  ids \in Seq(Actions)
<1>1. PICK n \in 0 .. MaxActions : ids \in [1 .. n -> 1 .. MaxActions]
  BY DEF Batches
<1>2. ids \in [1 .. n -> Actions] /\ n \in Nat
  BY <1>1 DEF Actions
<1> QED
  BY <1>2

LEMMA ActedType ==
  ASSUME policy \in Actions, NEW ids \in Seq(Actions), Acted(ids)
  PROVE  policy' \in Actions
<1>1. CASE ids = <<>>
  BY <1>1 DEF Acted, InForce
<1>2. CASE ids # <<>>
  BY <1>2, LastElement DEF Acted, InForce
<1> QED
  BY <1>1, <1>2

\* A run that ended is not the open one, or nothing of it is buffered.
LEMMA EndedRun ==
  ASSUME NEW n \in 0 .. MaxTick, NEW w, Well(w, n, n),
         NEW r \in Runs, w.db[r].status \in {"completed", "stopped"}
  PROVE  /\ r <= w.opened
         /\ r = w.run => w.run # NoRun /\ w.finalized /\ ~HasRows(w)
<1>1. r <= w.opened
  <2>1. r > w.opened => w.db[r] = NoRow
    BY DEF Well, RunsSound
  <2>2. r \in Nat /\ w.opened \in Nat
    BY FieldTypes DEF Well, Runs
  <2> QED
    BY <2>1, <2>2 DEF NoRow
<1>2. ASSUME r = w.run PROVE w.run # NoRun /\ w.finalized /\ ~HasRows(w)
  <2>1. w.run # NoRun
    BY <1>2 DEF Runs, NoRun
  <2> QED
    BY <1>2, <2>1 DEF Well, OpenRun, Marked, Row
<1> QED
  BY <1>1, <1>2

LEMMA FrameFrozen ==
  ASSUME NEW n \in 0 .. MaxTick, NEW w, Well(w, n, n), NEW v, Frame(w, v),
         w.run # NoRun /\ w.finalized /\ ~HasRows(w) => Rows(Row(v)) = Rows(Row(w))
  PROVE  Frozen(w, v)
<1> SUFFICES ASSUME NEW r \in Runs, w.db[r].status \in {"completed", "stopped"}
             PROVE  Rows(v.db[r]) = Rows(w.db[r])
  BY DEF Frozen
<1>1. r = w.run => w.run # NoRun /\ w.finalized /\ ~HasRows(w)
  BY EndedRun
<1> QED
  BY <1>1 DEF Frame, Row

LEMMA SettledFrozen ==
  ASSUME NEW n \in 0 .. MaxTick, NEW w, Well(w, n, n), NEW c, Settled(w, c)
  PROVE  Frozen(w, c)
BY EndedRun DEF Frozen, Settled

\* A closed warehouse is well whatever the tick.
LEMMA ClosedWell ==
  ASSUME NEW c \in WarehouseState, c.run = NoRun, RunsSound(c), NEW n
  PROVE  Well(c, n, n)
BY DEF Well, OpenRun

LEMMA Unfinalized ==
  ASSUME NEW c \in WarehouseState, c.run = NoRun, RunsSound(c)
  PROVE  LET v == [c EXCEPT !.finalized = FALSE]
         IN  /\ v \in WarehouseState /\ v.run = NoRun /\ RunsSound(v) /\ ~v.finalized
             /\ v.db = c.db /\ v.opened = c.opened
<1>1. LET v == [c EXCEPT !.finalized = FALSE]
      IN  v \in WarehouseState /\ v.run = NoRun /\ ~v.finalized /\ v.db = c.db /\ v.opened = c.opened
  BY DEF WarehouseState
<1> QED
  BY <1>1 DEF RunsSound

LEMMA SetupStep == WInv /\ WSetup => WInv' /\ Frozen(wh, wh')
<1> SUFFICES ASSUME WInv, WSetup PROVE WInv' /\ Frozen(wh, wh')
  OBVIOUS
<1>1. PICK c \in Closes(wh, tick, "stopped") : wh' \in Opens([c EXCEPT !.finalized = FALSE])
  BY DEF WSetup
<1>2. Settled(wh, c) /\ Frozen(wh, c)
  BY CloseWell, SettledFrozen DEF WInv
<1> DEFINE v == [c EXCEPT !.finalized = FALSE]
<1>3. /\ v \in WarehouseState /\ v.run = NoRun /\ RunsSound(v) /\ ~v.finalized
      /\ v.db = c.db /\ v.opened = wh.opened
  BY <1>2, Unfinalized DEF Settled
<1> HIDE DEF v
<1>4. Well(wh', 0, 0) /\ \A r \in Runs : r <= wh.opened => (wh').db[r] = c.db[r]
  <2>1. WarehouseOn => v.opened < MaxRuns
    BY <1>3 DEF WSetup
  <2>2. wh' \in Opens(v)
    BY <1>1 DEF v
  <2>3. Well(wh', 0, 0) /\ \A r \in Runs : r <= v.opened => (wh').db[r] = v.db[r]
    BY <1>3, <2>1, <2>2, OpensWell
  <2> QED
    BY <1>3, <2>3
<1>5. tick' = 0 /\ policy' = 0
  BY DEF WSetup
<1>6. WInv'
  BY <1>4, <1>5 DEF WInv, Actions
<1>7. Frozen(wh, wh')
  <2> SUFFICES ASSUME NEW r \in Runs, wh.db[r].status \in {"completed", "stopped"}
               PROVE  Rows((wh').db[r]) = Rows(wh.db[r])
    BY DEF Frozen
  <2>1. r <= wh.opened
    BY EndedRun DEF WInv
  <2> QED
    BY <1>2, <1>4, <2>1 DEF Frozen
<1> QED
  BY <1>6, <1>7

LEMMA CloseStep ==
  ASSUME WInv, NEW status \in {"stopped", "failed"}, WClose(status)
  PROVE  WInv' /\ Frozen(wh, wh')
<1>1. Settled(wh, wh')
  BY CloseWell DEF WInv, WClose
<1> QED
  BY <1>1, SettledFrozen, ClosedWell DEF WInv, WClose, Settled

LEMMA DiscardStep == WInv /\ WDiscard => WInv' /\ Frozen(wh, wh')
<1> SUFFICES ASSUME WInv, WDiscard PROVE WInv' /\ Frozen(wh, wh')
  OBVIOUS
<1>1. PICK c \in Closes(wh, tick, "stopped") : wh' = [c EXCEPT !.finalized = FALSE]
  BY DEF WDiscard
<1>2. Settled(wh, c) /\ Frozen(wh, c)
  BY CloseWell, SettledFrozen DEF WInv
<1>3. wh' \in WarehouseState /\ (wh').run = NoRun /\ RunsSound(wh') /\ (wh').db = c.db
  BY <1>1, <1>2, Unfinalized DEF Settled
<1>4. tick' \in 0 .. MaxTick /\ policy' \in Actions
  BY DEF WInv, WDiscard
<1>5. Well(wh', tick', tick')
  BY <1>3, ClosedWell
<1> QED
  BY <1>2, <1>3, <1>4, <1>5 DEF WInv, Frozen

LEMMA ReopenStep == WInv /\ WReopen => WInv' /\ Frozen(wh, wh')
BY ReopenedWell, FrameFrozen DEF WInv, WReopen

\* The batch logged before a step changes no stored row, and is empty in a finished run.
LEMMA LoggedStep ==
  ASSUME WInv, NEW ids \in Seq(Actions), Acted(ids)
  PROVE  LET l == Logged(wh, tick, ids)
         IN  /\ Well(l, tick, tick) /\ Frame(wh, l) /\ l.finalized = wh.finalized
             /\ wh.finalized => HasRows(l) = HasRows(wh)
             /\ policy' \in Actions
             /\ wh.run # NoRun => Row(l) = Row(wh)
<1>1. wh.finalized => ids = <<>>
  BY DEF Acted
<1>2. wh \in WarehouseState
  BY DEF WInv, Well
<1>3. wh.run # NoRun => Row(Logged(wh, tick, ids)) = Row(wh)
  BY <1>2 DEF Logged, Row, WarehouseState
<1> QED
  BY <1>1, <1>3, LoggedWell, ActedType DEF WInv

LEMMA LogThen ==
  ASSUME WInv, NEW ids \in Seq(Actions), Acted(ids), tick' = tick,
         Well(wh', tick, tick), Frame(Logged(wh, tick, ids), wh'),
         LET l == Logged(wh, tick, ids)
         IN  l.run # NoRun /\ ~HasRows(l) => Rows(Row(wh')) = Rows(Row(l))
  PROVE  WInv' /\ Frozen(wh, wh')
<1> DEFINE l == Logged(wh, tick, ids)
<1>1. /\ Well(l, tick, tick) /\ Frame(wh, l) /\ l.finalized = wh.finalized
      /\ wh.finalized => HasRows(l) = HasRows(wh)
      /\ policy' \in Actions
      /\ wh.run # NoRun => Row(l) = Row(wh)
  BY LoggedStep
<1> HIDE DEF l
<1>2. WInv'
  BY <1>1 DEF WInv
<1>3. Frame(wh, wh')
  BY <1>1, FrameTrans DEF l
<1>4. wh.run # NoRun /\ wh.finalized /\ ~HasRows(wh) => Rows(Row(wh')) = Rows(Row(wh))
  BY <1>1 DEF Frame, l
<1> QED
  BY <1>2, <1>3, <1>4, FrameFrozen DEF WInv

LEMMA ActionStep ==
  ASSUME WInv, NEW ids \in Seq(Actions), WAction(ids)
  PROVE  WInv' /\ Frozen(wh, wh')
<1>1. Acted(ids) /\ wh' = Logged(wh, tick, ids) /\ tick' = tick
  BY DEF WAction
<1>2. Well(wh', tick, tick)
  BY <1>1, LoggedStep
<1>3. Frame(wh', wh')
  BY <1>2 DEF Well, Frame
<1> QED
  BY <1>1, <1>2, <1>3, LogThen

LEMMA FlushStep ==
  ASSUME WInv, NEW ids \in Seq(Actions), WFlush(ids)
  PROVE  WInv' /\ Frozen(wh, wh')
<1> DEFINE l == Logged(wh, tick, ids)
<1>1. Acted(ids) /\ tick' = tick
  BY DEF WFlush
<1>2. PICK f \in Flushes(l) : wh' = f.w
  BY DEF WFlush
<1>3. Well(l, tick, tick)
  BY <1>1, LoggedStep
<1>4. tick \in 0 .. MaxTick /\ tick \in {tick, tick + 1}
  BY DEF WInv
<1>5. Well(wh', tick, tick) /\ Frame(l, wh') /\ (~HasRows(l) => wh' = l)
  <2> HIDE DEF l
  <2> QED
    BY <1>2, <1>3, <1>4, FlushWell
<1> QED
  BY <1>1, <1>5, LogThen

LEMMA FinalizeStep ==
  ASSUME WInv, NEW ids \in Seq(Actions), WFinalize(ids)
  PROVE  WInv' /\ Frozen(wh, wh')
<1> DEFINE l == Logged(wh, tick, ids)
<1>1. Acted(ids) /\ tick' = tick /\ wh' \in Finalizes(l, tick) /\ tick \in 0 .. MaxTick
  BY DEF WFinalize, WInv
<1>2. Well(l, tick, tick)
  BY <1>1, LoggedStep
<1>3. /\ Well(wh', tick, tick) /\ Frame(l, wh')
      /\ l.run # NoRun /\ ~HasRows(l) => Rows(Row(wh')) = Rows(Row(l))
  <2> HIDE DEF l
  <2> QED
    BY <1>1, <1>2, FinalizesWell
<1> QED
  BY <1>1, <1>3, LogThen

LEMMA TickStep ==
  ASSUME WInv, NEW ids \in Seq(Actions), WTick(ids)
  PROVE  WInv' /\ Frozen(wh, wh')
<1> DEFINE l == Logged(wh, tick, ids)
<1>1. /\ Acted(ids) /\ tick' = tick + 1 /\ wh' \in TickOutcomes(l, tick + 1)
      /\ tick \in 0 .. MaxTick /\ tick < MaxTick /\ ~wh.finalized
  BY DEF WTick, WInv
<1>2. Well(l, tick, tick) /\ Frame(wh, l) /\ ~l.finalized /\ policy' \in Actions
  BY <1>1, LoggedStep
<1> HIDE DEF l
<1>3. Well(wh', tick + 1, tick + 1) /\ Frame(l, wh')
  BY <1>1, <1>2, TickOutcomesWell
<1>4. tick' \in 0 .. MaxTick /\ Well(wh', tick', tick')
  BY <1>1, <1>3
<1>5. WInv'
  BY <1>2, <1>4 DEF WInv
<1>6. Frozen(wh, wh')
  BY <1>1, <1>2, <1>3, FrameTrans, FrameFrozen DEF WInv
<1> QED
  BY <1>5, <1>6

LEMMA TickFailsStep ==
  ASSUME WInv, NEW ids \in Seq(Actions), WTickFails(ids)
  PROVE  WInv' /\ Frozen(wh, wh')
<1> DEFINE l == Logged(wh, tick, ids)
<1>1. /\ Acted(ids) /\ tick \in 0 .. MaxTick /\ tick < MaxTick /\ ~wh.finalized
      /\ \E f \in FailedTicks(l, tick) : tick' = f.tick /\ wh' = f.w
  BY DEF WTickFails, WInv
<1>2. Well(l, tick, tick) /\ Frame(wh, l) /\ ~l.finalized /\ policy' \in Actions
  BY <1>1, LoggedStep
<1> HIDE DEF l
<1>3. PICK f \in FailedTicks(l, tick) : tick' = f.tick /\ wh' = f.w
  BY <1>1
<1>4. /\ wh' \in WarehouseState /\ RunsSound(wh') /\ (wh').run = NoRun
      /\ \A r \in Runs : r # l.run => Rows((wh').db[r]) = Rows(l.db[r])
  BY <1>1, <1>2, <1>3, FailedTicksSettled
<1>5. tick' \in 0 .. MaxTick
  BY <1>1, <1>2, <1>3, FailedTicksKeep DEF Well
<1>6. WInv'
  BY <1>2, <1>4, <1>5, ClosedWell DEF WInv
<1>7. Frozen(wh, wh')
  <2> SUFFICES ASSUME NEW r \in Runs, wh.db[r].status \in {"completed", "stopped"}
               PROVE  Rows((wh').db[r]) = Rows(wh.db[r])
    BY DEF Frozen
  <2>1. r # wh.run
    BY <1>1, EndedRun DEF WInv
  <2> QED
    BY <1>2, <1>4, <2>1 DEF Frame
<1> QED
  BY <1>6, <1>7

LEMMA WarehouseInitInv == WarehouseInit => WInv
<1> SUFFICES ASSUME WarehouseInit PROVE WInv
  OBVIOUS
<1>1. wh \in WarehouseState
  BY EmptyWarehouseType DEF WarehouseInit
<1>2. wh.run = NoRun /\ wh.opened = 0 /\ \A r \in Runs : wh.db[r] = NoRow
  BY DEF WarehouseInit, EmptyWarehouse
<1>3. Sound(NoRow)
  BY DEF Sound, NoRow, Ticks
<1>4. RunsSound(wh)
  BY <1>2, <1>3 DEF RunsSound, NoRun
<1> QED
  BY <1>1, <1>2, <1>4, ClosedWell DEF WInv, WarehouseInit, Actions

LEMMA WarehouseStep == WInv /\ WarehouseNext => WInv' /\ Frozen(wh, wh')
<1> SUFFICES ASSUME WInv, WarehouseNext PROVE WInv' /\ Frozen(wh, wh')
  OBVIOUS
<1>1. CASE WSetup
  BY <1>1, SetupStep
<1>2. CASE WDiscard
  BY <1>2, DiscardStep
<1>3. CASE WReopen
  BY <1>3, ReopenStep
<1>4. CASE \E status \in {"stopped", "failed"} : WClose(status)
  BY <1>4, CloseStep
<1>5. CASE \E ids \in Batches : WTick(ids) \/ WTickFails(ids) \/ WAction(ids) \/ WFlush(ids) \/ WFinalize(ids)
  <2>1. PICK ids \in Batches : WTick(ids) \/ WTickFails(ids) \/ WAction(ids) \/ WFlush(ids) \/ WFinalize(ids)
    BY <1>5
  <2>2. ids \in Seq(Actions)
    BY BatchType
  <2> QED
    BY <2>1, <2>2, TickStep, TickFailsStep, ActionStep, FlushStep, FinalizeStep
<1> QED
  BY <1>1, <1>2, <1>3, <1>4, <1>5 DEF WarehouseNext

LEMMA WarehouseStutter == WInv /\ UNCHANGED whVars => WInv' /\ Frozen(wh, wh')
BY DEF WInv, whVars, Frozen

LEMMA WarehouseInvariant == WarehouseSpec => []WInv
<1>1. WInv /\ [WarehouseNext]_whVars => WInv'
  BY WarehouseStep, WarehouseStutter
<1> QED
  BY <1>1, WarehouseInitInv, PTL DEF WarehouseSpec

\* Every value of the warehouse on its own stays in its domain.
THEOREM WarehouseTypeCorrect == WarehouseSpec => []WarehouseTypeOK
<1>1. WInv => WarehouseTypeOK
  BY DEF WInv, Well, WarehouseTypeOK
<1> QED
  BY <1>1, WarehouseInvariant, PTL

\* A run read as ready is complete, whatever flushes and status updates failed before
\* (server.py _close_warehouse_run, _finalize_warehouse_run).
LEMMA ReadyHolds == WInv => ReadyRunComplete
<1> SUFFICES ASSUME WInv, NEW r \in Runs, wh.db[r].ready
             PROVE  /\ wh.db[r].status = "completed"
                    /\ wh.db[r].ticks = 1 .. wh.db[r].total
                    /\ wh.db[r].mark = wh.db[r].total
                    /\ r = wh.run => ~HasRows(wh) /\ tick = wh.db[r].total
  BY DEF ReadyRunComplete
<1>1. Sound(wh.db[r])
  BY DEF WInv, Well, RunsSound
<1>2. ASSUME r = wh.run PROVE ~HasRows(wh) /\ tick = wh.db[r].total
  <2>1. wh.run # NoRun
    BY <1>2 DEF Runs, NoRun
  <2> QED
    BY <1>2, <2>1 DEF WInv, Well, OpenRun, Marked, Row
<1> QED
  BY <1>1, <1>2 DEF Sound

THEOREM ReadyIsComplete == WarehouseSpec => []ReadyRunComplete
BY ReadyHolds, WarehouseInvariant, PTL

\* No tick strictly below a run's durable watermark misses its rows (persist_flush_bundle).
LEMMA WatermarkHolds == WInv => WatermarkCovers
BY DEF WInv, Well, RunsSound, Sound, WatermarkCovers

THEOREM NothingBelowWatermarkMissing == WarehouseSpec => []WatermarkCovers
BY WatermarkHolds, WarehouseInvariant, PTL

\* A stopped or completed run keeps the rows it ended with: nothing buffered before or after a
\* close, a FINISH or a failed open reaches it.
THEOREM EndedRunsKeepRows == WarehouseSpec => EndedRunsFrozen
<1>1. Frozen(wh, wh') =>
        \A r \in Runs : wh.db[r].status \in {"completed", "stopped"} =>
          /\ wh'.db[r].ticks = wh.db[r].ticks
          /\ wh'.db[r].events = wh.db[r].events
          /\ wh'.db[r].actions = wh.db[r].actions
  BY DEF Frozen, Rows
<1> QED
  BY <1>1, WarehouseStep, WarehouseInvariant, PTL DEF WarehouseSpec, EndedRunsFrozen

-----------------------------------------------------------------------------
(* The session *)

USE SessionAssumption

-----------------------------------------------------------------------------
(* Type correctness *)

\* The parts of TypeOK beside the warehouse's.
FlagsOK ==
  /\ economy \in BOOLEAN /\ isRunning \in BOOLEAN /\ notified \in BOOLEAN /\ finished \in BOOLEAN
  /\ cancelled \in BOOLEAN /\ paused \in BOOLEAN /\ stale \in BOOLEAN

DataOK ==
  /\ horizon \in 0 .. MaxTick
  /\ taken \in 0 .. MaxActions
  /\ pending \in Seq(1 .. MaxActions)
  /\ hpc \in HandlerPcs

TaskOK(l) ==
  /\ l \in [pc : LoopPcs, left : Seq(1 .. MaxActions)]
  /\ l.left # <<>> => l.pc \in {"receipts", "hreceipts"}

LEMMA TypeParts ==
  TypeOK <=> WarehouseTypeOK /\ FlagsOK /\ DataOK /\ TaskOK(loop) /\ (cancelled => ~LoopDone)
BY DEF TypeOK, FlagsOK, DataOK, TaskOK

LEMMA InForceType ==
  ASSUME NEW p \in Actions, NEW ids \in Seq(1 .. MaxActions)
  PROVE  InForce(p, ids) \in Actions
<1>1. CASE ids = <<>>
  BY <1>1 DEF InForce
<1>2. CASE ids # <<>>
  BY <1>2, LastElement DEF InForce, Actions
<1> QED
  BY <1>1, <1>2

LEMMA AtType ==
  ASSUME NEW pc \in LoopPcs, NEW left \in Seq(1 .. MaxActions),
         left # <<>> => pc \in {"receipts", "hreceipts"}
  PROVE  TaskOK(At(pc, left)) /\ At(pc, left).pc = pc
BY DEF At, TaskOK

LEMMA IdleType ==
  ASSUME NEW pc \in LoopPcs
  PROVE  TaskOK(At(pc, <<>>)) /\ At(pc, <<>>).pc = pc
<1>1. <<>> \in Seq(1 .. MaxActions)
  OBVIOUS
<1> QED
  BY <1>1, AtType

LEMMA DrainedKeeps ==
  ASSUME TypeOK, NEW w \in WarehouseState
  PROVE  Keeps(w, Drained(w))
<1>1. pending \in Seq(Actions) /\ tick \in 0 .. MaxTick
  BY DEF TypeOK, WarehouseTypeOK, Actions
<1>2. Keeps(w, Logged(w, tick, pending)) /\ Keeps(w, w)
  BY <1>1, LoggedKeeps DEF Keeps
<1> QED
  BY <1>2 DEF Drained

LEMMA DrainType ==
  ASSUME TypeOK, Drain
  PROVE  policy' \in Actions /\ pending' = <<>>
BY InForceType DEF TypeOK, WarehouseTypeOK, Drain

LEMMA InitType == Init => TypeOK
<1> SUFFICES ASSUME Init PROVE TypeOK
  OBVIOUS
<1>1. WarehouseTypeOK
  BY EmptyWarehouseType DEF Init, WarehouseInit, WarehouseTypeOK, Actions
<1>2. FlagsOK
  BY DEF Init, FlagsOK
<1>3. DataOK
  BY DEF Init, DataOK, HandlerPcs, NoHorizon
<1>4. TaskOK(loop)
  BY IdleType DEF Init, LoopPcs
<1> QED
  BY <1>1, <1>2, <1>3, <1>4, TypeParts DEF Init

LEMMA TailType ==
  ASSUME NEW S, NEW s \in Seq(S), Len(s) > 1
  PROVE  Tail(s) \in Seq(S)
OBVIOUS

\* A step of the loop, but for what it does to the warehouse.
LEMMA LoopControlType ==
  ASSUME TypeOK, LoopNext
  PROVE  FlagsOK' /\ DataOK' /\ TaskOK(loop') /\ (cancelled' => ~LoopDone')
<1>a. <<>> \in Seq(1 .. MaxActions) /\ pending \in Seq(1 .. MaxActions) /\ loop.left \in Seq(1 .. MaxActions)
  BY DEF TypeOK
<1>b. {loop.left[i] : i \in 2 .. Len(loop.left)} \subseteq 1 .. MaxActions
  BY <1>a
<1>c. Len(loop.left) > 1 => Tail(loop.left) \in Seq(1 .. MaxActions)
  BY <1>a, TailType
<1> USE DEF TypeOK, LoopNext, LoopBegins, FrameSent, NoticeSent, ReceiptSent, LastReceiptSent,
       LastHorizonReceiptSent, SendFails, ErrorSent, LoopUnwinds, LoopTop, LoopEnds, HorizonReached,
       HorizonDrains, BoundaryDrains, BoundarySteps, Notice, Fails, Step, StepFails, LoopExits, Drain,
       LoopRuns, LoopDone, whVars, control, configs, observed
<1>1. FlagsOK'
  BY ZenonT(60) DEF FlagsOK
<1>2. DataOK'
  BY <1>a, <1>b DEF DataOK
<1>3. TaskOK(loop')
  <2>1. \/ loop' = loop
        \/ \E pc \in LoopPcs : loop' = At(pc, <<>>)
        \/ loop' = At("receipts", pending)
        \/ loop' = At("hreceipts", pending)
        \/ loop.pc \in {"receipts", "hreceipts"} /\ Len(loop.left) > 1 /\ loop' = At(loop.pc, Tail(loop.left))
    BY DEF LoopPcs
  <2>2. TaskOK(loop)
    BY DEF TaskOK
  <2> QED
    BY <1>a, <1>c, <2>1, <2>2, IdleType, AtType, ZenonT(60) DEF LoopPcs
<1>4. cancelled' => ~LoopDone'
  BY DEF At
<1> QED
  BY <1>1, <1>2, <1>3, <1>4

\* A step of the handler, but for what it does to the warehouse.
LEMMA HandlerControlType ==
  ASSUME TypeOK, Command \/ HaltNext \/ (\E status \in {"stopped", "failed"} : Disconnect(status))
  PROVE  FlagsOK' /\ DataOK' /\ TaskOK(loop') /\ (cancelled' => ~LoopDone')
<1>a. <<>> \in Seq(1 .. MaxActions) /\ pending \in Seq(1 .. MaxActions)
  BY DEF TypeOK
<1>b. \A a \in 1 .. MaxActions : Append(pending, a) \in Seq(1 .. MaxActions)
  BY <1>a
<1>c. tick \in 0 .. MaxTick
  BY DEF TypeOK, WarehouseTypeOK
<1> USE DEF TypeOK, Command, Setup, SetupFails, StartDefault, Start, Extend, Reset, Config, Stop,
       Finish, Halt, Tails, StopTail, FinishTail, HaltNext, LoopJoined, FirstWaitExpires,
       SecondWaitExpires, Disconnect, FreshRun, CancelLoop, StartLoop, LoopDone, Drain,
       whVars, control, configs, observed
<1>1. FlagsOK'
  BY ZenonT(60) DEF FlagsOK
<1>2. DataOK'
  <2>1. horizon' \in 0 .. MaxTick
    BY <1>c, SMTT(40) DEF NoHorizon
  <2>2. taken' \in 0 .. MaxActions
    OBVIOUS
  <2>3. pending' \in Seq(1 .. MaxActions)
    <3>1. pending' \in {<<>>, pending} \/ (taken' \in 1 .. MaxActions /\ pending' = Append(pending, taken'))
      OBVIOUS
    <3> QED
      BY <1>a, <1>b, <3>1
  <2>4. hpc' \in HandlerPcs
    BY DEF HandlerPcs
  <2> QED
    BY <2>1, <2>2, <2>3, <2>4 DEF DataOK
<1>3. TaskOK(loop')
  BY IdleType DEF TaskOK, LoopPcs
<1>4. cancelled' => ~LoopDone'
  BY DEF At
<1> QED
  BY <1>1, <1>2, <1>3, <1>4

\* What a step of the loop does to the warehouse.
LEMMA LoopWarehouseType ==
  ASSUME TypeOK, LoopNext
  PROVE  WarehouseTypeOK'
<1>a. wh \in WarehouseState /\ tick \in 0 .. MaxTick /\ policy \in Actions
  BY DEF TypeOK, WarehouseTypeOK
<1>b. (wh' = wh /\ tick' = tick /\ policy' = policy) => WarehouseTypeOK'
  BY <1>a DEF WarehouseTypeOK
<1>c. (wh' = Drained(wh) /\ tick' = tick /\ Drain) => WarehouseTypeOK'
  BY <1>a, DrainedKeeps, DrainType DEF WarehouseTypeOK, Keeps
<1>d. (Step(wh) /\ policy' = policy) => WarehouseTypeOK'
  <2> SUFFICES ASSUME Step(wh), policy' = policy PROVE WarehouseTypeOK'
    OBVIOUS
  <2>1. tick + 1 \in Ticks /\ tick' = tick + 1 /\ tick' \in 0 .. MaxTick /\ wh' \in TickOutcomes(wh, tick + 1)
    BY <1>a DEF Step, Ticks
  <2> QED
    BY <1>a, <2>1, TickOutcomesKeep DEF WarehouseTypeOK, Keeps
<1>e. (StepFails(wh) /\ policy' = policy) => WarehouseTypeOK'
  <2> SUFFICES ASSUME StepFails(wh), policy' = policy PROVE WarehouseTypeOK'
    OBVIOUS
  <2>1. tick < MaxTick /\ \E f \in FailedTicks(wh, tick) : tick' = f.tick /\ wh' = f.w
    BY DEF StepFails, Fails
  <2>2. tick' \in {tick, tick + 1} /\ wh' \in WarehouseState
    BY <1>a, <2>1, FailedTicksKeep DEF Keeps
  <2> QED
    BY <1>a, <2>1, <2>2 DEF WarehouseTypeOK
<1>f. SendFails => WarehouseTypeOK'
  <2> SUFFICES ASSUME SendFails PROVE WarehouseTypeOK'
    OBVIOUS
  <2>1. tick' = tick /\ policy' = policy /\ wh' \in Closes(wh, tick, "failed")
    BY DEF SendFails, Fails
  <2> QED
    BY <1>a, <2>1, ClosesKeep DEF WarehouseTypeOK, Keeps, Statuses
<1> QED
  BY <1>b, <1>c, <1>d, <1>e, <1>f
  DEF LoopNext, LoopBegins, FrameSent, NoticeSent, ReceiptSent, LastReceiptSent,
      LastHorizonReceiptSent, ErrorSent, LoopUnwinds, LoopTop, LoopEnds, HorizonReached,
      HorizonDrains, BoundaryDrains, BoundarySteps, whVars

LEMMA ReplacedType ==
  ASSUME NEW w \in WarehouseState
  PROVE  /\ [w EXCEPT !.finalized = FALSE] \in WarehouseState
         /\ ~[w EXCEPT !.finalized = FALSE].finalized
         /\ [w EXCEPT !.finalized = FALSE].opened = w.opened
BY DEF WarehouseState

LEMMA FreshRunType ==
  ASSUME TypeOK, NEW h \in 0 .. MaxTick, FreshRun(h)
  PROVE  WarehouseTypeOK' /\ ~wh'.finalized
<1>1. PICK c \in Closes(wh, tick, "stopped") : wh' \in Opens([c EXCEPT !.finalized = FALSE])
  BY DEF FreshRun
<1>2. Keeps(wh, c) /\ wh \in WarehouseState
  BY ClosesKeep DEF TypeOK, WarehouseTypeOK, Statuses
<1>3. wh' \in WarehouseState /\ ~wh'.finalized
  BY <1>1, <1>2, ReplacedType, OpensKeep DEF Keeps, FreshRun
<1> QED
  BY <1>3 DEF FreshRun, WarehouseTypeOK, Actions

\* The tail of STOP or FINISH.
LEMMA TailsType ==
  ASSUME TypeOK, NEW cmd, Tails(cmd)
  PROVE  WarehouseTypeOK'
<1>1. Drain /\ tick' = tick /\ ((\E f \in Flushes(Drained(wh)) : wh' = f.w) \/ wh' \in Finalizes(Drained(wh), tick))
  BY DEF Tails, StopTail, FinishTail
<1>2. wh \in WarehouseState /\ tick \in 0 .. MaxTick
  BY DEF TypeOK, WarehouseTypeOK
<1>3. Drained(wh) \in WarehouseState
  BY <1>2, DrainedKeeps DEF Keeps
<1>4. wh' \in WarehouseState
  BY <1>1, <1>2, <1>3, FlushesKeep, FinalizesType DEF Keeps
<1> QED
  BY <1>1, <1>2, <1>4, DrainType DEF WarehouseTypeOK

\* What a step of the handler does to the warehouse.
LEMMA HandlerWarehouseType ==
  ASSUME TypeOK, Command \/ HaltNext \/ (\E status \in {"stopped", "failed"} : Disconnect(status))
  PROVE  WarehouseTypeOK'
<1>a. wh \in WarehouseState /\ tick \in 0 .. MaxTick /\ policy \in Actions
  BY DEF TypeOK, WarehouseTypeOK
<1>b. (wh' = wh /\ tick' = tick /\ policy' = policy) => WarehouseTypeOK'
  BY <1>a DEF WarehouseTypeOK
<1>c. ASSUME NEW status \in {"stopped", "failed"}, NEW c \in Closes(wh, tick, status)
      PROVE  c \in WarehouseState /\ [c EXCEPT !.finalized = FALSE] \in WarehouseState
  BY <1>a, ClosesKeep, ReplacedType DEF Keeps, Statuses
<1>1. CASE Setup \/ StartDefault
  BY <1>1, FreshRunType DEF Setup, StartDefault, NoHorizon
<1>2. CASE SetupFails
  <2>1. PICK c \in Closes(wh, tick, "stopped") : wh' \in {c, [c EXCEPT !.finalized = FALSE]}
    BY <1>2 DEF SetupFails
  <2>2. tick' \in {0, tick} /\ policy' = policy
    BY <1>2 DEF SetupFails
  <2>3. wh' \in WarehouseState
    BY <2>1, <1>c
  <2>4. tick' \in 0 .. MaxTick
    BY <2>2, <1>a
  <2> QED
    BY <2>2, <2>3, <2>4, <1>a DEF WarehouseTypeOK
<1>3. CASE Start \/ Extend
  <2>1. wh' \in {wh, Reopened(wh)} /\ tick' = tick /\ policy' = policy
    BY <1>3 DEF Start, Extend
  <2> QED
    BY <1>a, <2>1, ReopenedType DEF WarehouseTypeOK
<1>4. CASE Reset
  BY <1>4, <1>a, <1>c DEF Reset, WarehouseTypeOK
<1>5. CASE Config
  <2>1. taken' \in 1 .. MaxActions /\ tick' = tick
    BY <1>5 DEF Config, TypeOK, whVars
  <2>2. <<taken'>> \in Seq(Actions) /\ taken' \in Actions
    BY <2>1 DEF Actions
  <2>3. wh' \in {wh, Logged(wh, tick, <<taken'>>)} /\ policy' \in {policy, taken'}
    BY <1>5 DEF Config
  <2> QED
    BY <1>a, <2>1, <2>2, <2>3, LoggedKeeps DEF WarehouseTypeOK, Keeps
<1>6. CASE Stop \/ Finish
  BY <1>6, <1>b, TailsType DEF Stop, Finish, Halt, whVars
<1>7. CASE HaltNext
  BY <1>7, <1>b, TailsType DEF HaltNext, LoopJoined, FirstWaitExpires, SecondWaitExpires, whVars
<1>8. CASE \E status \in {"stopped", "failed"} : Disconnect(status)
  BY <1>8, <1>a, <1>c DEF Disconnect, WarehouseTypeOK
<1> QED
  BY <1>1, <1>2, <1>3, <1>4, <1>5, <1>6, <1>7, <1>8 DEF Command

\* A state and its successor with every variable unchanged.
LEMMA StutterType == TypeOK /\ UNCHANGED vars => TypeOK'
BY DEF TypeOK, WarehouseTypeOK, LoopDone, vars, whVars, control, configs, observed

LEMMA NextType == TypeOK /\ [Next]_vars => TypeOK'
<1> SUFFICES ASSUME TypeOK, [Next]_vars PROVE TypeOK'
  OBVIOUS
<1>1. CASE LoopNext
  BY <1>1, LoopControlType, LoopWarehouseType DEF TypeOK, FlagsOK, DataOK, TaskOK
<1>2. CASE Command \/ HaltNext \/ (\E status \in {"stopped", "failed"} : Disconnect(status))
  BY <1>2, HandlerControlType, HandlerWarehouseType DEF TypeOK, FlagsOK, DataOK, TaskOK
<1>3. CASE Ended \/ UNCHANGED vars
  BY <1>3, StutterType DEF Ended
<1> QED
  BY <1>1, <1>2, <1>3 DEF Next

\* Every variable of the session stays in its domain, for any number of ticks, runs and actions and
\* any batch size, whichever tasks fail, stall or are cancelled.
THEOREM TypeCorrect == Spec => []TypeOK
<1>1. Init => TypeOK
  BY InitType
<1>2. TypeOK /\ [Next]_vars => TypeOK'
  BY NextType
<1> QED
  BY <1>1, <1>2, PTL DEF Spec

-----------------------------------------------------------------------------
(* The control invariant.  HorizonNeverPassed is not inductive: the tick is executed one await     *)
(* after the horizon test, and the test is repeated only for a task that was not cancelled.        *)

\* A task left over from a replaced run is cancelled, a halting handler has cleared is_running, a
\* live loop past its preparation has an economy and stays below the horizon while it sends receipts,
\* and a finished run has is_running only when START asked for its notice again.
ControlInv ==
  /\ stale => cancelled
  /\ hpc # "ready" => ~isRunning
  /\ HorizonNeverPassed
  /\ ~LoopDone /\ ~cancelled /\ loop.pc # "new" => economy
  /\ loop.pc = "receipts" /\ ~cancelled => ~AtHorizon
  /\ (finished \/ wh.finalized) /\ isRunning => AtHorizon

LEMMA InitControl == Init => ControlInv
BY DEF Init, ControlInv, HorizonNeverPassed, LoopDone, At, WarehouseInit, EmptyWarehouse

\* A step of the loop leaves finalized alone, and ticks only a run that may tick.
LEMMA LoopTicks ==
  ASSUME TypeOK, ControlInv, LoopNext
  PROVE  /\ wh'.finalized = wh.finalized
         /\ \/ tick' = tick
            \/ tick' = tick + 1 /\ isRunning /\ economy /\ ~AtHorizon /\ ~cancelled
<1>a. wh \in WarehouseState /\ tick \in 0 .. MaxTick
  BY DEF TypeOK, WarehouseTypeOK
<1> DEFINE Goal == /\ wh'.finalized = wh.finalized
                   /\ \/ tick' = tick
                      \/ tick' = tick + 1 /\ isRunning /\ economy /\ ~AtHorizon /\ ~cancelled
           May  == isRunning /\ economy /\ ~AtHorizon /\ ~cancelled
<1>1. ASSUME Step(wh), May PROVE Goal
  <2>1. tick + 1 \in Ticks /\ tick' = tick + 1 /\ wh' \in TickOutcomes(wh, tick + 1)
    BY <1>1, <1>a DEF Step, Ticks
  <2> QED
    BY <1>1, <1>a, <2>1, TickOutcomesKeep DEF Keeps
<1>2. ASSUME StepFails(wh), May PROVE Goal
  <2>1. tick < MaxTick /\ \E f \in FailedTicks(wh, tick) : tick' = f.tick /\ wh' = f.w
    BY <1>2 DEF StepFails, Fails
  <2> QED
    BY <1>2, <1>a, <2>1, FailedTicksKeep DEF Keeps
<1>3. ASSUME SendFails PROVE Goal
  <2>1. tick' = tick /\ wh' \in Closes(wh, tick, "failed")
    BY <1>3 DEF SendFails, Fails
  <2> QED
    BY <1>a, <2>1, ClosesKeep DEF Keeps, Statuses
<1>4. ASSUME tick' = tick, wh' \in {wh, Drained(wh)} PROVE Goal
  BY <1>4, <1>a, DrainedKeeps DEF Keeps
<1>5. \/ Step(wh) /\ May
      \/ StepFails(wh) /\ May
      \/ SendFails
      \/ tick' = tick /\ wh' \in {wh, Drained(wh)}
  BY DEF ControlInv, LoopNext, LoopBegins, FrameSent, NoticeSent, ReceiptSent, LastReceiptSent,
         LastHorizonReceiptSent, ErrorSent, LoopUnwinds, LoopTop, LoopEnds, HorizonReached,
         HorizonDrains, BoundaryDrains, BoundarySteps, LoopRuns, LoopDone, whVars
<1> QED
  BY <1>1, <1>2, <1>3, <1>4, <1>5

LEMMA LoopControl ==
  ASSUME TypeOK, ControlInv, LoopNext
  PROVE  ControlInv'
<1>a. tick \in Nat /\ horizon \in Nat
  BY DEF TypeOK, WarehouseTypeOK
<1>b. economy' = economy /\ horizon' = horizon /\ finished' = finished /\ hpc' = hpc /\ isRunning' \in {isRunning, FALSE}
  BY DEF LoopNext, LoopBegins, FrameSent, NoticeSent, ReceiptSent, LastReceiptSent,
       LastHorizonReceiptSent, SendFails, ErrorSent, LoopUnwinds, LoopTop, LoopEnds, HorizonReached,
       HorizonDrains, BoundaryDrains, BoundarySteps, Notice, Fails, Step, StepFails, control
<1>1. (stale => cancelled)'
  BY DEF ControlInv, LoopNext, LoopBegins, FrameSent, NoticeSent, ReceiptSent, LastReceiptSent,
       LastHorizonReceiptSent, SendFails, ErrorSent, LoopUnwinds, LoopTop, LoopEnds, HorizonReached,
       HorizonDrains, BoundaryDrains, BoundarySteps, Notice, Fails, Step, StepFails, LoopExits,
       LoopRuns, observed
<1>2. (hpc # "ready" => ~isRunning)'
  BY <1>b DEF ControlInv
<1>3. HorizonNeverPassed'
  BY <1>a, <1>b, LoopTicks DEF ControlInv, HorizonNeverPassed, AtHorizon, AtHorizonOf, NoHorizon
<1>4. (~LoopDone /\ ~cancelled /\ loop.pc # "new" => economy)'
  BY <1>b DEF ControlInv, LoopNext, LoopBegins, FrameSent, NoticeSent, ReceiptSent, LastReceiptSent,
       LastHorizonReceiptSent, SendFails, ErrorSent, LoopUnwinds, LoopTop, LoopEnds, HorizonReached,
       HorizonDrains, BoundaryDrains, BoundarySteps, Notice, Fails, Step, StepFails, LoopExits,
       LoopRuns, LoopDone, At
<1>5. (loop.pc = "receipts" /\ ~cancelled => ~AtHorizon)'
  <2>1. \/ loop'.pc # "receipts"
        \/ cancelled'
        \/ tick' = tick /\ ~AtHorizon
    BY DEF ControlInv, LoopNext, LoopBegins, FrameSent, NoticeSent, ReceiptSent, LastReceiptSent,
       LastHorizonReceiptSent, SendFails, ErrorSent, LoopUnwinds, LoopTop, LoopEnds, HorizonReached,
       HorizonDrains, BoundaryDrains, BoundarySteps, Notice, Fails, Step, StepFails, LoopExits,
       LoopRuns, LoopDone, At, whVars
  <2> QED
    BY <1>b, <2>1 DEF AtHorizon
<1>6. ((finished \/ wh.finalized) /\ isRunning => AtHorizon)'
  <2>1. AtHorizon => AtHorizon'
    BY <1>a, <1>b, LoopTicks DEF AtHorizon, AtHorizonOf
  <2> QED
    BY <1>b, <2>1, LoopTicks DEF ControlInv
<1> QED
  BY <1>1, <1>2, <1>3, <1>4, <1>5, <1>6 DEF ControlInv

\* A run that a command leaves running may tick, or is at its horizon as before.
LEMMA HandlerResumes ==
  ASSUME TypeOK, ControlInv, Command \/ HaltNext \/ (\E status \in {"stopped", "failed"} : Disconnect(status)),
         isRunning'
  PROVE  /\ hpc = "ready"
         /\ \/ ~finished' /\ ~wh'.finalized
            \/ finished' = finished /\ wh'.finalized = wh.finalized /\ tick' = tick /\ horizon' = horizon
               /\ (AtHorizon \/ isRunning)
<1>a. wh \in WarehouseState /\ tick \in 0 .. MaxTick
  BY DEF TypeOK, WarehouseTypeOK
<1>1. CASE Setup \/ SetupFails \/ Reset \/ Stop \/ Finish \/ LoopJoined \/ \E status \in {"stopped", "failed"} : Disconnect(status)
  BY <1>1 DEF Setup, SetupFails, Reset, Stop, Finish, Halt, LoopJoined, Tails, Disconnect, CancelLoop
<1>2. CASE FirstWaitExpires \/ SecondWaitExpires
  BY <1>2 DEF FirstWaitExpires, SecondWaitExpires, ControlInv, control
<1>3. CASE StartDefault
  <2>1. FreshRun(NoHorizon) /\ NoHorizon \in 0 .. MaxTick /\ hpc = "ready"
    BY <1>3 DEF StartDefault, Received, NoHorizon
  <2> QED
    BY <2>1, FreshRunType DEF FreshRun
<1>4. CASE Start
  <2>1. hpc = "ready"
    BY <1>4 DEF Start, Received
  <2>2. CASE AtHorizon
    BY <1>4, <2>1, <2>2 DEF Start
  <2>3. CASE ~AtHorizon
    <3>1. ~finished' /\ wh' = Reopened(wh)
      BY <1>4, <2>3 DEF Start
    <3> QED
      BY <1>a, <2>1, <3>1, ReopenedType
  <2> QED
    BY <2>2, <2>3
<1>5. CASE Extend
  <2>1. hpc = "ready" /\ ~finished' /\ wh' = Reopened(wh)
    BY <1>5 DEF Extend, Received
  <2> QED
    BY <1>a, <2>1, ReopenedType
<1>6. CASE Config
  <2>1. hpc = "ready" /\ isRunning /\ wh' = wh /\ UNCHANGED <<tick, control>>
    BY <1>6 DEF Config, Received, control
  <2> QED
    BY <2>1 DEF control
<1> QED
  BY <1>1, <1>2, <1>3, <1>4, <1>5, <1>6 DEF Command, HaltNext

LEMMA HandlerControl ==
  ASSUME TypeOK, ControlInv, Command \/ HaltNext \/ (\E status \in {"stopped", "failed"} : Disconnect(status))
  PROVE  ControlInv'
<1>a. tick \in Nat /\ horizon \in Nat
  BY DEF TypeOK, WarehouseTypeOK
<1>b. horizon' \in Nat
  BY HandlerControlType DEF DataOK
<1> USE DEF Command, Setup, SetupFails, StartDefault, Start, Extend, Reset, Config, Stop,
       Finish, Halt, Tails, StopTail, FinishTail, HaltNext, LoopJoined, FirstWaitExpires,
       SecondWaitExpires, Disconnect, FreshRun, CancelLoop, StartLoop, LoopDone,
       whVars, control, configs, observed
<1>1. (stale => cancelled)'
  BY DEF ControlInv, TypeOK
<1>2. (hpc # "ready" => ~isRunning)'
  BY DEF ControlInv, Received
<1>3. HorizonNeverPassed'
  <2>1. \/ tick' = 0
        \/ ~economy'
        \/ economy' = economy /\ tick' = tick /\ horizon' = horizon
        \/ tick' = tick /\ \E n \in 1 .. MaxExtend : horizon' = (IF horizon = NoHorizon THEN tick ELSE horizon) + n /\ economy
    OBVIOUS
  <2>2. economy' /\ horizon' # NoHorizon => tick' <= horizon'
    <3>1. CASE tick' = 0
      BY <3>1, <1>b
    <3>2. CASE tick' = tick /\ \E n \in 1 .. MaxExtend : horizon' = (IF horizon = NoHorizon THEN tick ELSE horizon) + n /\ economy
      BY <3>2, <1>a DEF ControlInv, HorizonNeverPassed
    <3> QED
      BY <2>1, <3>1, <3>2 DEF ControlInv, HorizonNeverPassed
  <2> QED
    BY <2>2 DEF HorizonNeverPassed
<1>4. (~LoopDone /\ ~cancelled /\ loop.pc # "new" => economy)'
  BY DEF ControlInv, At
<1>5. (loop.pc = "receipts" /\ ~cancelled => ~AtHorizon)'
  <2>1. \/ loop'.pc # "receipts"
        \/ cancelled'
        \/ loop' = loop /\ cancelled' = cancelled /\ tick' = tick /\ horizon' = horizon
        \/ tick' = tick /\ \E n \in 1 .. MaxExtend : horizon' = (IF horizon = NoHorizon THEN tick ELSE horizon) + n
           /\ economy /\ cancelled' = cancelled
    <3>1. CASE Setup \/ SetupFails \/ Reset \/ \E status \in {"stopped", "failed"} : Disconnect(status)
      BY <3>1
    <3>2. CASE StartDefault
      BY <3>2 DEF At
    <3>3. CASE HaltNext
      BY <3>3
    <3>4. CASE Start \/ Config \/ Stop \/ Finish
      BY <3>4 DEF At
    <3>5. CASE Extend
      BY <3>5 DEF At
    <3> QED
      BY <3>1, <3>2, <3>3, <3>4, <3>5
  <2>2. CASE tick' = tick /\ \E n \in 1 .. MaxExtend : horizon' = (IF horizon = NoHorizon THEN tick ELSE horizon) + n
             /\ economy /\ cancelled' = cancelled
    <3>1. ~AtHorizon'
      BY <2>2, <1>a DEF ControlInv, HorizonNeverPassed, AtHorizon, AtHorizonOf, NoHorizon
    <3> QED
      BY <3>1
  <2> QED
    BY <2>1, <2>2 DEF ControlInv, AtHorizon
<1>6. ((finished \/ wh.finalized) /\ isRunning => AtHorizon)'
  <2>1. CASE isRunning'
    <3> HIDE DEF Command, Disconnect, HaltNext
    <3> QED
      BY <2>1, HandlerResumes DEF ControlInv, AtHorizon
  <2>2. CASE ~isRunning'
    BY <2>2
  <2> QED
    BY <2>1, <2>2
<1> QED
  BY <1>1, <1>2, <1>3, <1>4, <1>5, <1>6 DEF ControlInv

LEMMA NextControl == TypeOK /\ ControlInv /\ [Next]_vars => ControlInv'
<1> SUFFICES ASSUME TypeOK, ControlInv, [Next]_vars PROVE ControlInv'
  OBVIOUS
<1>1. CASE Ended \/ UNCHANGED vars
  BY <1>1 DEF Ended, ControlInv, HorizonNeverPassed, AtHorizon, LoopDone, vars, whVars, control, observed
<1> QED
  BY <1>1, LoopControl, HandlerControl DEF Next

\* The two invariants the theorems below rest on.
LEMMA Invariants == Spec => [](TypeOK /\ ControlInv)
<1>1. Init => TypeOK /\ ControlInv
  BY InitType, InitControl
<1>2. TypeOK /\ ControlInv /\ [Next]_vars => TypeOK' /\ ControlInv'
  BY NextType, NextControl
<1> QED
  BY <1>1, <1>2, PTL DEF Spec

\* A step that executes a tick: the loop's, live, below the horizon, of a run that is not finished.
LEMMA TicksAllowed ==
  ASSUME TypeOK, ControlInv, [Next]_vars, Ticked
  PROVE  LoopNext /\ tick' = tick + 1 /\ ~AtHorizon /\ hpc = "ready" /\ ~finished /\ ~wh.finalized /\ ~stale
<1>a. tick \in Nat /\ tick' > tick
  BY DEF TypeOK, WarehouseTypeOK, Ticked
<1>1. LoopNext
  <2>1. CASE Command \/ HaltNext \/ \E status \in {"stopped", "failed"} : Disconnect(status)
    <3>1. tick' \in {0, tick}
      BY <2>1 DEF Command, Setup, SetupFails, StartDefault, Start, Extend, Reset, Config, Stop,
         Finish, Halt, Tails, HaltNext, LoopJoined, FirstWaitExpires, SecondWaitExpires, Disconnect,
         FreshRun, whVars
    <3> QED
      BY <1>a, <3>1
  <2>2. CASE Ended \/ UNCHANGED vars
    BY <1>a, <2>2 DEF Ended, vars, whVars
  <2> QED
    BY <2>1, <2>2 DEF Next
<1>2. tick' = tick + 1 /\ isRunning /\ ~AtHorizon /\ ~cancelled
  BY <1>a, <1>1, LoopTicks
<1> QED
  BY <1>1, <1>2 DEF ControlInv

\* The loop never runs past the horizon, however CONFIG receipts, EXTEND, START, RESET, cancellation
\* and failures interleave with it, for any horizon.
THEOREM NeverPastHorizon == Spec => []HorizonNeverPassed
<1>1. ControlInv => HorizonNeverPassed
  BY DEF ControlInv
<1> QED
  BY <1>1, Invariants, PTL

\* No tick is executed between the moment the handler took STOP or FINISH and its answer.
THEOREM HaltIsBoundary == Spec => HaltIsHardBoundary
<1>1. TypeOK /\ ControlInv /\ [Next]_vars => [Ticked => hpc = "ready"]_vars
  BY TicksAllowed
<1> QED
  BY <1>1, Invariants, PTL DEF Spec, HaltIsHardBoundary

\* A finished or finalized run is never ticked before it is reopened.
THEOREM FinishedIsFinal == Spec => FinishedNeverTicks
<1>1. TypeOK /\ ControlInv /\ [Next]_vars => [Ticked => ~finished /\ ~wh.finalized]_vars
  BY TicksAllowed
<1> QED
  BY <1>1, Invariants, PTL DEF Spec, FinishedNeverTicks

\* A task left over from before a SETUP or RESET never steps the economy.
THEOREM StaleIsInert == Spec => StaleLoopNeverTicks
<1>1. TypeOK /\ ControlInv /\ [Next]_vars => [Ticked => ~stale]_vars
  BY TicksAllowed
<1> QED
  BY <1>1, Invariants, PTL DEF Spec, StaleLoopNeverTicks

-----------------------------------------------------------------------------
(* The session implements Lifecycle. *)

LEMMA InitLifecycle == Init => Life!Init
BY DEF Init, WarehouseInit, Life!Init, Mode, NoHorizon

LEMMA LoopLifecycle ==
  ASSUME TypeOK, ControlInv, LoopNext
  PROVE  Life!Next \/ UNCHANGED Life!vars
<1>1. economy' = economy /\ horizon' = horizon /\ finished' = finished /\ isRunning' \in {isRunning, FALSE}
  BY DEF LoopNext, LoopBegins, FrameSent, NoticeSent, ReceiptSent, LastReceiptSent,
       LastHorizonReceiptSent, SendFails, ErrorSent, LoopUnwinds, LoopTop, LoopEnds, HorizonReached,
       HorizonDrains, BoundaryDrains, BoundarySteps, Notice, Fails, Step, StepFails, control
<1>2. isRunning \in BOOLEAN /\ isRunning' \in BOOLEAN
  BY <1>1 DEF TypeOK
<1>3. CASE tick' = tick
  <2>1. Mode' = Mode \/ (Mode = "running" /\ Mode' = "idle")
    BY <1>1, <1>2 DEF Mode
  <2> QED
    BY <1>1, <1>3, <2>1 DEF Life!Next, Life!Pause, Life!vars
<1>4. CASE tick' = tick + 1 /\ isRunning /\ economy /\ ~AtHorizon
  <2>1. ~finished
    BY <1>4 DEF ControlInv
  <2>2. Life!Week
    BY <1>1, <1>4, <2>1 DEF Life!Week, Life!Reached, Mode, AtHorizon, AtHorizonOf, NoHorizon
  <2> QED
    BY <2>2 DEF Life!Next
<1> QED
  BY <1>3, <1>4, LoopTicks

LEMMA HandlerLifecycle ==
  ASSUME TypeOK, ControlInv, Command \/ HaltNext \/ (\E status \in {"stopped", "failed"} : Disconnect(status))
  PROVE  Life!Next \/ UNCHANGED Life!vars
<1>a. /\ economy \in BOOLEAN /\ isRunning \in BOOLEAN /\ finished \in BOOLEAN
      /\ tick \in 0 .. MaxTick /\ horizon \in 0 .. MaxTick
  BY DEF TypeOK, WarehouseTypeOK
<1>b. horizon' \in 0 .. MaxTick
  BY HandlerControlType DEF DataOK
<1>1. CASE Setup
  <2>1. Life!Build
    BY <1>1, <1>b DEF Setup, FreshRun, CancelLoop, Life!Build, Mode
  <2> QED
    BY <2>1 DEF Life!Next
<1>2. CASE SetupFails
  <2>1. ~isRunning /\ ~economy' /\ tick' \in {0, tick}
    BY <1>2 DEF SetupFails
  <2>2. Life!Discard
    BY <1>b, <2>1 DEF Life!Discard, Mode
  <2> QED
    BY <2>2 DEF Life!Next
<1>3. CASE StartDefault
  <2>1. Life!Build
    BY <1>3, <1>b DEF StartDefault, FreshRun, StartLoop, Life!Build, Mode, NoHorizon
  <2> QED
    BY <2>1 DEF Life!Next
<1>4. CASE Start
  <2>1. economy /\ economy' /\ isRunning' /\ UNCHANGED <<tick, horizon>>
    BY <1>4 DEF Start, StartLoop
  <2>2. CASE AtHorizon /\ finished
    <3>1. finished' = finished
      BY <1>4, <2>2 DEF Start
    <3> QED
      BY <2>1, <2>2, <3>1 DEF Life!vars, Mode
  <2>3. CASE ~(AtHorizon /\ finished)
    <3>1. finished' = FALSE
      BY <1>4, <1>a, <2>3 DEF Start
    <3>2. Life!Resume
      BY <1>a, <2>1, <2>3, <3>1
      DEF Life!Resume, Life!Reached, Mode, AtHorizon, AtHorizonOf, NoHorizon
    <3> QED
      BY <3>2 DEF Life!Next
  <2> QED
    BY <2>2, <2>3
<1>5. CASE Extend
  <2>1. economy /\ economy' /\ isRunning' /\ ~finished' /\ tick' = tick
    BY <1>5 DEF Extend, StartLoop
  <2>2. horizon' > tick /\ horizon' > horizon
    <3>1. \E n \in 1 .. MaxExtend : horizon' = (IF horizon = NoHorizon THEN tick ELSE horizon) + n
      BY <1>5 DEF Extend
    <3> QED
      BY <1>a, <2>1, <3>1 DEF ControlInv, HorizonNeverPassed, NoHorizon
  <2>3. Life!Resume
    BY <1>a, <1>b, <2>1, <2>2 DEF Life!Resume, Life!Reached, Mode
  <2> QED
    BY <2>3 DEF Life!Next
<1>6. CASE Reset
  <2>1. Life!Rewind
    BY <1>6, <1>a DEF Reset, CancelLoop, Life!Rewind, Mode
  <2> QED
    BY <2>1 DEF Life!Next
<1>7. CASE Config \/ FirstWaitExpires \/ SecondWaitExpires
  BY <1>7 DEF Config, FirstWaitExpires, SecondWaitExpires, whVars, control, Life!vars, Mode
<1>8. ASSUME UNCHANGED <<tick, economy, horizon>>, ~isRunning', finished' \in {finished, TRUE}
      PROVE  Life!Next \/ UNCHANGED Life!vars
  <2>1. CASE ~economy
    BY <1>8, <2>1 DEF Life!vars, Mode
  <2>2. CASE economy /\ finished' # finished
    BY <1>8, <1>a, <2>2 DEF Life!Next, Life!Finish, Mode
  <2>3. CASE economy /\ finished' = finished
    BY <1>8, <1>a, <2>3 DEF Life!Next, Life!Pause, Life!vars, Mode
  <2> QED
    BY <1>a, <2>1, <2>2, <2>3
<1>9. CASE Stop \/ Finish \/ LoopJoined \/ \E status \in {"stopped", "failed"} : Disconnect(status)
  <2>1. UNCHANGED <<tick, economy, horizon>> /\ ~isRunning' /\ finished' \in {finished, TRUE}
    BY <1>9 DEF Stop, Finish, Halt, LoopJoined, Tails, StopTail, FinishTail, Disconnect, CancelLoop, whVars
  <2> QED
    BY <1>8, <2>1
<1> QED
  BY <1>1, <1>2, <1>3, <1>4, <1>5, <1>6, <1>7, <1>9 DEF Command, HaltNext

LEMMA NextLifecycle == TypeOK /\ ControlInv /\ [Next]_vars => [Life!Next]_(Life!vars)
<1> SUFFICES ASSUME TypeOK, ControlInv, [Next]_vars PROVE Life!Next \/ UNCHANGED Life!vars
  OBVIOUS
<1>1. CASE Ended \/ UNCHANGED vars
  BY <1>1 DEF Ended, vars, whVars, control, Life!vars, Mode
<1> QED
  BY <1>1, LoopLifecycle, HandlerLifecycle DEF Next

\* The session implements Lifecycle: under every interleaving of the handler with the loop, and with
\* every fault, the client sees a clock that runs only between START or EXTEND and the next pause, and
\* a finished run that only a resume with weeks left, a RESET or a SETUP brings back.
THEOREM SessionImplementsLifecycle == Spec => ImplementsLifecycle
<1>1. Init => Life!Init
  BY InitLifecycle
<1>2. TypeOK /\ ControlInv /\ [Next]_vars => [Life!Next]_(Life!vars)
  BY NextLifecycle
<1> QED
  BY <1>1, <1>2, Invariants, PTL DEF Spec, ImplementsLifecycle, Life!Spec

-----------------------------------------------------------------------------
(* The session implements Warehouse, its persistence contract. *)

\* No more CONFIG wait than were taken, and a finished run has none waiting.
QueueInv ==
  /\ Len(pending) <= taken
  /\ wh.finalized => finished
  /\ finished => pending = <<>> \/ ~economy

Handler == Command \/ HaltNext \/ \E status \in {"stopped", "failed"} : Disconnect(status)

LEMMA InitQueue == Init => QueueInv
BY DEF Init, QueueInv, WarehouseInit, EmptyWarehouse

LEMMA LoopQueue ==
  ASSUME TypeOK, ControlInv, QueueInv, LoopNext
  PROVE  QueueInv'
<1>1. pending' \in {pending, <<>>} /\ taken' = taken /\ economy' = economy /\ finished' = finished
  BY DEF LoopNext, LoopBegins, FrameSent, NoticeSent, ReceiptSent, LastReceiptSent,
       LastHorizonReceiptSent, SendFails, ErrorSent, LoopUnwinds, LoopTop, LoopEnds, HorizonReached,
       HorizonDrains, BoundaryDrains, BoundarySteps, Notice, Fails, Step, StepFails, Drain,
       control, configs
<1>2. wh'.finalized = wh.finalized
  BY LoopTicks
<1>3. Len(<<>>) <= taken
  BY DEF TypeOK
<1> QED
  BY <1>1, <1>2, <1>3 DEF QueueInv

LEMMA HandlerQueue ==
  ASSUME TypeOK, QueueInv, Handler
  PROVE  QueueInv'
<1>a. /\ wh \in WarehouseState /\ tick \in 0 .. MaxTick /\ taken \in Nat
      /\ pending \in Seq(1 .. MaxActions) /\ finished \in BOOLEAN
  BY DEF TypeOK, WarehouseTypeOK
<1>b. ASSUME NEW status \in {"stopped", "failed"}, NEW c \in Closes(wh, tick, status)
      PROVE  c.finalized = wh.finalized /\ ~[c EXCEPT !.finalized = FALSE].finalized
  BY <1>a, ClosesKeep, ReplacedType DEF Keeps, Statuses
<1>c. ASSUME pending' = <<>>, taken' = taken, wh'.finalized => finished' PROVE QueueInv'
  BY <1>a, <1>c DEF QueueInv
<1>d. ASSUME UNCHANGED <<pending, taken, economy, finished>>, wh'.finalized = wh.finalized PROVE QueueInv'
  BY <1>d DEF QueueInv
<1>1. CASE Setup \/ StartDefault
  <2>1. PICK h \in 0 .. MaxTick : FreshRun(h)
    BY <1>1 DEF Setup, StartDefault, NoHorizon
  <2>2. ~wh'.finalized
    BY <2>1, FreshRunType
  <2> QED
    BY <2>1, <2>2, <1>c DEF FreshRun
<1>2. CASE SetupFails
  <2>1. /\ taken' = taken /\ economy' = FALSE /\ pending' \in {pending, <<>>}
        /\ \/ ~wh'.finalized
           \/ wh'.finalized = wh.finalized /\ finished' = finished
    BY <1>2, <1>b DEF SetupFails
  <2> QED
    BY <1>a, <2>1 DEF QueueInv
<1>3. CASE Start \/ Extend
  <2>1. UNCHANGED <<pending, taken, economy>>
    BY <1>3 DEF Start, Extend, configs
  <2>2. \/ finished' = finished /\ wh' = wh
        \/ ~finished' /\ wh' = Reopened(wh)
    BY <1>3 DEF Start, Extend
  <2>3. wh' = Reopened(wh) => ~wh'.finalized
    BY <1>a, ReopenedType
  <2> QED
    BY <2>1, <2>2, <2>3 DEF QueueInv
<1>4. CASE Reset
  <2>1. ~wh'.finalized
    BY <1>4, <1>b DEF Reset
  <2> QED
    BY <1>4, <1>c, <2>1 DEF Reset
<1>5. CASE Config
  <2>1. ~finished /\ finished' = finished /\ taken' = taken + 1
    BY <1>5 DEF Config, control
  <2>2. taken' \in 1 .. MaxActions /\ <<taken'>> \in Seq(Actions)
    BY <1>5, <1>a DEF Config, Actions, TypeOK
  <2>3. wh' \in {wh, Logged(wh, tick, <<taken'>>)} /\ pending' \in {pending, Append(pending, taken')}
    BY <1>5 DEF Config
  <2>4. wh'.finalized = wh.finalized
    <3>1. Keeps(wh, Logged(wh, tick, <<taken'>>))
      BY <1>a, <2>2, LoggedKeeps
    <3> QED
      BY <2>3, <3>1 DEF Keeps
  <2>5. Len(pending') <= Len(pending) + 1
    BY <1>a, <2>2, <2>3
  <2>6. Len(pending') \in Nat /\ Len(pending) \in Nat
    BY <1>a, <2>2, <2>3
  <2> QED
    BY <1>a, <2>1, <2>4, <2>5, <2>6 DEF QueueInv
<1>6. ASSUME NEW cmd \in {"stop", "finish"}, Tails(cmd) PROVE QueueInv'
  <2>1. /\ pending' = <<>> /\ taken' = taken
        /\ \/ cmd = "stop" /\ finished' = finished /\ \E f \in Flushes(Drained(wh)) : wh' = f.w
           \/ cmd = "finish" /\ finished' = TRUE
    BY <1>6 DEF Tails, StopTail, FinishTail, Drain
  <2>2. Drained(wh) \in WarehouseState /\ Drained(wh).finalized = wh.finalized
    BY <1>a, DrainedKeeps DEF Keeps
  <2>3. wh'.finalized => finished'
    BY <2>1, <2>2, FlushesKeep DEF Keeps, QueueInv
  <2> QED
    BY <1>c, <2>1, <2>3
<1>7. CASE Stop \/ Finish \/ LoopJoined
  BY <1>6, <1>7, <1>d DEF Stop, Finish, Halt, LoopJoined, whVars, configs
<1>8. CASE FirstWaitExpires \/ SecondWaitExpires
  BY <1>8, <1>d DEF FirstWaitExpires, SecondWaitExpires, whVars, configs, control
<1>9. CASE \E status \in {"stopped", "failed"} : Disconnect(status)
  BY <1>9, <1>b, <1>d DEF Disconnect, configs
<1> QED
  BY <1>1, <1>2, <1>3, <1>4, <1>5, <1>7, <1>8, <1>9 DEF Handler, Command, HaltNext

LEMMA NextQueue == TypeOK /\ ControlInv /\ QueueInv /\ [Next]_vars => QueueInv'
<1> SUFFICES ASSUME TypeOK, ControlInv, QueueInv, [Next]_vars PROVE QueueInv'
  OBVIOUS
<1>1. CASE Ended \/ UNCHANGED vars
  BY <1>1 DEF Ended, QueueInv, vars, whVars, control, configs
<1> QED
  BY <1>1, LoopQueue, HandlerQueue DEF Next, Handler

LEMMA EmptyBatch ==
  <<>> \in Batches /\ \A w \in WarehouseState : \A t : Logged(w, t, <<>>) = w
<1>1. <<>> \in Batches
  <2>1. <<>> \in [1 .. 0 -> 1 .. MaxActions] /\ 0 \in 0 .. MaxActions
    OBVIOUS
  <2> QED
    BY <2>1 DEF Batches
<1>2. ASSUME NEW w \in WarehouseState, NEW t PROVE Logged(w, t, <<>>) = w
  <2> DEFINE more == [i \in 1 .. Len(<<>>) |-> [tick |-> t, id |-> <<>>[i]]]
  <2>1. more = <<>>
    OBVIOUS
  <2>2. w.actions \o more = w.actions
    <3> HIDE DEF more
    <3> QED
      BY <2>1 DEF WarehouseState
  <2>3. [w EXCEPT !.actions = w.actions \o more] = w
    <3> HIDE DEF more
    <3> QED
      BY <2>2 DEF WarehouseState
  <2> QED
    BY <2>3 DEF Logged
<1> QED
  BY <1>1, <1>2

LEMMA ActedNothing == policy' = policy => Acted(<<>>)
BY DEF Acted, InForce

LEMMA ShortBatch ==
  ASSUME NEW s \in Seq(1 .. MaxActions), Len(s) <= MaxActions
  PROVE  s \in Batches
<1>1. s \in [1 .. Len(s) -> 1 .. MaxActions] /\ Len(s) \in 0 .. MaxActions
  OBVIOUS
<1> QED
  BY <1>1 DEF Batches

\* What a drain applies: the queue, or nothing without an economy.
LEMMA DrainBatch ==
  ASSUME TypeOK, QueueInv, Drain
  PROVE  \E ids \in Batches : Acted(ids) /\ Drained(wh) = Logged(wh, tick, ids)
<1>1. wh \in WarehouseState /\ pending \in Seq(1 .. MaxActions) /\ taken \in 0 .. MaxActions
  BY DEF TypeOK, WarehouseTypeOK
<1>2. CASE economy
  <2>1. Len(pending) <= MaxActions
    BY <1>1 DEF QueueInv
  <2>2. pending \in Batches
    BY <1>1, <2>1, ShortBatch
  <2>3. Acted(pending) /\ Drained(wh) = Logged(wh, tick, pending)
    BY <1>2 DEF Acted, Drain, Drained, QueueInv
  <2> QED
    BY <2>2, <2>3
<1>3. CASE ~economy
  BY <1>1, <1>3, EmptyBatch, ActedNothing DEF Drain, Drained
<1> QED
  BY <1>2, <1>3

\* A segment of the session as a step of the warehouse: only START and EXTEND reopen a run, and only
\* FINISH finalizes one.
RunStep ==
  \/ WSetup \/ WDiscard
  \/ \E status \in {"stopped", "failed"} : WClose(status)
  \/ \E ids \in Batches : WTick(ids) \/ WTickFails(ids) \/ WAction(ids) \/ WFlush(ids)

SessionStep ==
  \/ RunStep
  \/ WReopen /\ isRunning' /\ ~finished'
  \/ finished' /\ \E ids \in Batches : WFinalize(ids)

LEMMA LoopImplements ==
  ASSUME TypeOK, ControlInv, QueueInv, LoopNext
  PROVE  SessionStep \/ UNCHANGED whVars
<1>a. wh \in WarehouseState /\ Logged(wh, tick, <<>>) = wh /\ <<>> \in Batches
  BY EmptyBatch DEF TypeOK, WarehouseTypeOK
<1> DEFINE May == isRunning /\ economy /\ ~AtHorizon /\ ~cancelled
<1>1. ASSUME Step(wh), policy' = policy, May PROVE SessionStep
  <2>1. WTick(<<>>)
    BY <1>1, <1>a, ActedNothing DEF Step, WTick, ControlInv
  <2> QED
    BY <1>a, <2>1 DEF SessionStep, RunStep
<1>2. ASSUME StepFails(wh), policy' = policy, May PROVE SessionStep
  <2>1. WTickFails(<<>>)
    BY <1>2, <1>a, ActedNothing DEF StepFails, Fails, WTickFails, ControlInv
  <2> QED
    BY <1>a, <2>1 DEF SessionStep, RunStep
<1>3. ASSUME SendFails PROVE SessionStep
  <2>1. WClose("failed")
    BY <1>3 DEF SendFails, Fails, WClose
  <2> QED
    BY <2>1 DEF SessionStep, RunStep
<1>4. ASSUME Drain, wh' = Drained(wh), tick' = tick PROVE SessionStep
  <2>1. PICK ids \in Batches : Acted(ids) /\ Drained(wh) = Logged(wh, tick, ids)
    BY <1>4, DrainBatch
  <2>2. WAction(ids)
    BY <1>4, <2>1 DEF WAction
  <2> QED
    BY <2>1, <2>2 DEF SessionStep, RunStep
<1>5. \/ Step(wh) /\ policy' = policy /\ May
      \/ StepFails(wh) /\ policy' = policy /\ May
      \/ SendFails
      \/ Drain /\ wh' = Drained(wh) /\ tick' = tick
      \/ UNCHANGED whVars
  BY DEF ControlInv, LoopNext, LoopBegins, FrameSent, NoticeSent, ReceiptSent, LastReceiptSent,
         LastHorizonReceiptSent, ErrorSent, LoopUnwinds, LoopTop, LoopEnds, HorizonReached,
         HorizonDrains, BoundaryDrains, BoundarySteps, LoopRuns, LoopDone, whVars
<1> QED
  BY <1>1, <1>2, <1>3, <1>4, <1>5

LEMMA HandlerImplements ==
  ASSUME TypeOK, QueueInv, Handler
  PROVE  SessionStep \/ UNCHANGED whVars
<1>a. wh \in WarehouseState /\ taken \in 0 .. MaxActions
  BY DEF TypeOK, WarehouseTypeOK
<1>1. CASE Setup \/ StartDefault
  <2>1. WSetup
    BY <1>1 DEF Setup, StartDefault, FreshRun, WSetup
  <2> QED
    BY <2>1 DEF SessionStep, RunStep
<1>2. CASE SetupFails
  <2>1. WClose("stopped") \/ WDiscard
    BY <1>2 DEF SetupFails, WClose, WDiscard
  <2> QED
    BY <2>1 DEF SessionStep, RunStep
<1>3. CASE Start \/ Extend
  <2>1. (WReopen /\ isRunning' /\ ~finished') \/ UNCHANGED whVars
    BY <1>3 DEF Start, Extend, StartLoop, WReopen, whVars
  <2> QED
    BY <2>1 DEF SessionStep, RunStep
<1>4. CASE Reset
  <2>1. WDiscard
    BY <1>4 DEF Reset, WDiscard
  <2> QED
    BY <2>1 DEF SessionStep, RunStep
<1>5. CASE Config
  <2>1. CASE isRunning
    BY <1>5, <2>1 DEF Config, whVars
  <2>2. CASE ~isRunning
    <3>1. taken' \in 1 .. MaxActions /\ 1 <= MaxActions /\ ~wh.finalized
      BY <1>5, <1>a DEF Config, QueueInv
    <3>2. <<taken'>> \in Seq(1 .. MaxActions) /\ Len(<<taken'>>) = 1
      BY <3>1
    <3>3. <<taken'>> \in Batches
      BY <3>1, <3>2, ShortBatch
    <3>4. WAction(<<taken'>>)
      BY <1>5, <2>2, <3>1 DEF Config, WAction, Acted, InForce
    <3> QED
      BY <3>3, <3>4 DEF SessionStep, RunStep
  <2> QED
    BY <2>1, <2>2
<1>6. ASSUME NEW cmd \in {"stop", "finish"}, Tails(cmd) PROVE SessionStep
  <2>1. Drain /\ tick' = tick
    BY <1>6 DEF Tails, StopTail, FinishTail
  <2>2. PICK ids \in Batches : Acted(ids) /\ Drained(wh) = Logged(wh, tick, ids)
    BY <2>1, DrainBatch
  <2>3. \/ \E f \in Flushes(Drained(wh)) : wh' = f.w
        \/ wh' \in Finalizes(Drained(wh), tick) /\ finished'
    BY <1>6 DEF Tails, StopTail, FinishTail
  <2>4. WFlush(ids) \/ (WFinalize(ids) /\ finished')
    BY <2>1, <2>2, <2>3 DEF WFlush, WFinalize
  <2> QED
    BY <2>2, <2>4 DEF SessionStep, RunStep
<1>7. CASE Stop \/ Finish \/ LoopJoined
  BY <1>6, <1>7 DEF Stop, Finish, Halt, LoopJoined
<1>8. CASE FirstWaitExpires \/ SecondWaitExpires
  BY <1>8 DEF FirstWaitExpires, SecondWaitExpires
<1>9. CASE \E status \in {"stopped", "failed"} : Disconnect(status)
  <2>1. \E status \in {"stopped", "failed"} : WClose(status)
    BY <1>9 DEF Disconnect, WClose
  <2> QED
    BY <2>1 DEF SessionStep, RunStep
<1> QED
  BY <1>1, <1>2, <1>3, <1>4, <1>5, <1>7, <1>8, <1>9 DEF Handler, Command, HaltNext

LEMMA SessionWarehouse ==
  TypeOK /\ ControlInv /\ QueueInv /\ [Next]_vars => SessionStep \/ UNCHANGED whVars
<1> SUFFICES ASSUME TypeOK, ControlInv, QueueInv, [Next]_vars PROVE SessionStep \/ UNCHANGED whVars
  OBVIOUS
<1>1. CASE Ended \/ UNCHANGED vars
  BY <1>1 DEF Ended, vars
<1> QED
  BY <1>1, LoopImplements, HandlerImplements DEF Next, Handler

LEMMA NextWarehouse == TypeOK /\ ControlInv /\ QueueInv /\ [Next]_vars => [WarehouseNext]_whVars
BY SessionWarehouse DEF SessionStep, RunStep, WarehouseNext

LEMMA QueueInvariant == Spec => []QueueInv
<1>1. TypeOK /\ ControlInv /\ QueueInv /\ [Next]_vars => QueueInv'
  BY NextQueue
<1> QED
  BY <1>1, InitQueue, Invariants, PTL DEF Spec

\* The session keeps the contract of Warehouse under every interleaving of the loop with the handler
\* and every fault: no tick and no policy row between FINISH and reopen, each segment one operation.
THEOREM SessionImplementsWarehouse == Spec => ImplementsWarehouse
<1>1. Init => WarehouseInit
  BY DEF Init
<1>2. TypeOK /\ ControlInv /\ QueueInv /\ [Next]_vars => [WarehouseNext]_whVars
  BY NextWarehouse
<1> QED
  BY <1>1, <1>2, Invariants, QueueInvariant, PTL DEF Spec, ImplementsWarehouse, WarehouseSpec

LEMMA SessionRows == Spec => []WInv
BY SessionImplementsWarehouse, WarehouseInvariant DEF ImplementsWarehouse

(* Which runs are completed, step by step. *)

\* The run that stops or starts being completed is the one the session keeps open, and its row says
\* what finalized says.
Recompleted(w, v) ==
  \A r \in Runs :
    (v.db[r].status = "completed") # (w.db[r].status = "completed") =>
      /\ r = w.run /\ r = v.run
      /\ w.finalized # v.finalized
      /\ v.db[r].status = IF v.finalized THEN "completed" ELSE "running"

LEMMA SetupCompleted == WInv /\ (WSetup \/ WDiscard) => SameCompleted(wh, wh')
<1> SUFFICES ASSUME WInv, WSetup \/ WDiscard PROVE SameCompleted(wh, wh')
  OBVIOUS
<1>1. PICK c \in Closes(wh, tick, "stopped") :
        \/ WSetup /\ wh' \in Opens([c EXCEPT !.finalized = FALSE])
        \/ wh' = [c EXCEPT !.finalized = FALSE]
  BY DEF WSetup, WDiscard
<1>2. Settled(wh, c)
  BY CloseWell DEF WInv
<1> DEFINE v == [c EXCEPT !.finalized = FALSE]
<1>3. /\ v \in WarehouseState /\ v.run = NoRun /\ RunsSound(v) /\ ~v.finalized
      /\ v.db = c.db /\ v.opened = c.opened
  BY <1>2, Unfinalized DEF Settled
<1>4. SameCompleted(wh, v)
  BY <1>2, <1>3 DEF Settled, SameCompleted
<1>5. CASE WSetup /\ wh' \in Opens(v)
  <2>1. WarehouseOn => v.opened < MaxRuns
    BY <1>2, <1>3, <1>5 DEF WSetup, Settled
  <2> HIDE DEF v
  <2>2. /\ \A r \in Runs : r <= v.opened => (wh').db[r] = v.db[r]
        /\ \A r \in Runs : r > v.opened => (wh').db[r].status # "completed"
    BY <1>3, <1>5, <2>1, OpensWell
  <2>3. \A r \in Runs : r > v.opened => v.db[r].status # "completed"
    BY <1>3 DEF RunsSound, NoRow
  <2>4. \A r \in Runs : r <= v.opened \/ r > v.opened
    BY <1>3, FieldTypes DEF Runs
  <2> QED
    BY <1>4, <2>2, <2>3, <2>4 DEF SameCompleted
<1> QED
  BY <1>1, <1>4, <1>5

\* A batch logged first changes no status.
LEMMA LoggedCompleted ==
  ASSUME WInv, NEW ids \in Seq(Actions), Acted(ids)
  PROVE  LET l == Logged(wh, tick, ids)
         IN  Well(l, tick, tick) /\ Frame(wh, l) /\ l.finalized = wh.finalized /\ SameCompleted(wh, l)
BY LoggedStep, FrameCompleted DEF WInv

LEMMA BatchCompleted ==
  ASSUME WInv, NEW ids \in Seq(Actions), WTick(ids) \/ WTickFails(ids) \/ WAction(ids) \/ WFlush(ids)
  PROVE  SameCompleted(wh, wh')
<1> DEFINE l == Logged(wh, tick, ids)
<1>1. Acted(ids) /\ tick \in 0 .. MaxTick
  BY DEF WTick, WTickFails, WAction, WFlush, WInv
<1>2. Well(l, tick, tick) /\ Frame(wh, l) /\ l.finalized = wh.finalized /\ SameCompleted(wh, l)
  BY <1>1, LoggedCompleted
<1>3. CASE WAction(ids)
  BY <1>2, <1>3 DEF WAction
<1>4. CASE WTick(ids)
  <2>1. wh' \in TickOutcomes(l, tick + 1) /\ tick < MaxTick /\ ~l.finalized
    BY <1>2, <1>4 DEF WTick
  <2> HIDE DEF l
  <2>2. Well(wh', tick + 1, tick + 1) /\ Frame(l, wh') /\ (wh').finalized = l.finalized
    BY <1>1, <1>2, <2>1, TickOutcomesWell
  <2>3. SameCompleted(l, wh')
    BY <1>2, <2>2, FrameCompleted
  <2> QED
    BY <1>2, <2>3 DEF SameCompleted
<1>5. CASE WTickFails(ids)
  <2>1. tick < MaxTick /\ ~l.finalized /\ \E f \in FailedTicks(l, tick) : wh' = f.w
    BY <1>2, <1>5 DEF WTickFails
  <2> HIDE DEF l
  <2>2. SameCompleted(l, wh')
    BY <1>1, <1>2, <2>1, FailedTicksSettled
  <2> QED
    BY <1>2, <2>2 DEF SameCompleted
<1>6. CASE WFlush(ids)
  <2>1. PICK f \in Flushes(l) : wh' = f.w
    BY <1>6 DEF WFlush
  <2> HIDE DEF l
  <2>2. tick \in {tick, tick + 1} /\ tick <= MaxTick
    BY <1>1
  <2>3. Well(wh', tick, tick) /\ Frame(l, wh') /\ (wh').finalized = l.finalized
    BY <1>1, <1>2, <2>1, <2>2, FlushWell
  <2>4. SameCompleted(l, wh')
    BY <1>2, <2>3, FrameCompleted
  <2> QED
    BY <1>2, <2>4 DEF SameCompleted
<1> QED
  BY <1>3, <1>4, <1>5, <1>6

LEMMA RunStepCompleted == WInv /\ RunStep => SameCompleted(wh, wh')
<1> SUFFICES ASSUME WInv, RunStep PROVE SameCompleted(wh, wh')
  OBVIOUS
<1>1. CASE WSetup \/ WDiscard
  BY <1>1, SetupCompleted
<1>2. CASE \E status \in {"stopped", "failed"} : WClose(status)
  BY <1>2, CloseWell DEF WInv, WClose, Settled
<1>3. CASE \E ids \in Batches : WTick(ids) \/ WTickFails(ids) \/ WAction(ids) \/ WFlush(ids)
  BY <1>3, BatchType, BatchCompleted
<1> QED
  BY <1>1, <1>2, <1>3 DEF RunStep

\* A step inside the open run that may finalize it, or may return it to running.
LEMMA FrameRecompleted ==
  ASSUME NEW n, NEW w, Well(w, n, n), NEW v, Well(v, n, n), Frame(w, v),
         w.finalized /\ ~v.finalized /\ w.run # NoRun => Row(v).status = "running"
  PROVE  Recompleted(w, v)
<1> SUFFICES ASSUME NEW r \in Runs, (v.db[r].status = "completed") # (w.db[r].status = "completed")
             PROVE  /\ r = w.run /\ r = v.run
                    /\ w.finalized # v.finalized
                    /\ v.db[r].status = IF v.finalized THEN "completed" ELSE "running"
  BY DEF Recompleted
<1>1. r = w.run /\ r = v.run /\ w.run # NoRun
  BY DEF Frame, Runs, NoRun
<1>2. /\ w.db[r].status = "completed" <=> w.finalized
      /\ v.db[r].status = "completed" <=> v.finalized
  BY <1>1 DEF Well, OpenRun, Marked, Row
<1>3. w.finalized \in BOOLEAN /\ v.finalized \in BOOLEAN
  BY FieldTypes DEF Well
<1> QED
  BY <1>1, <1>2, <1>3 DEF Row

LEMMA ReopenCompleted == WInv /\ WReopen => Recompleted(wh, wh') /\ ~(wh').finalized
<1> SUFFICES ASSUME WInv, WReopen PROVE Recompleted(wh, wh') /\ ~(wh').finalized
  OBVIOUS
<1>1. wh \in WarehouseState /\ wh' = Reopened(wh) /\ tick \in 0 .. MaxTick
  BY DEF WReopen, WInv, Well
<1>2. Well(wh', tick, tick) /\ Frame(wh, wh') /\ ~(wh').finalized
  BY <1>1, ReopenedWell, ReopenedType DEF WInv
<1>3. ASSUME wh.finalized, wh.run # NoRun PROVE Row(wh').status = "running"
  <2> DEFINE row == [Row(wh) EXCEPT !.status = "running", !.ready = FALSE]
             u == WithRow(wh, row)
  <2>1. Row(wh) \in RunRow
    BY <1>1, <1>3, FieldTypes
  <2>2. row \in RunRow /\ row.status = "running"
    <3> HIDE DEF Row
    <3> QED
      BY <2>1 DEF RunRow, Statuses
  <2>3. wh' = [u EXCEPT !.finalized = FALSE]
    BY <1>1, <1>3 DEF Reopened
  <2> HIDE DEF row
  <2>4. Frame(wh, u) /\ Row(u) = row
    BY <1>1, <1>3, <2>2, WithRowFields
  <2> HIDE DEF u
  <2>5. (wh').run = u.run /\ (wh').db = u.db
    BY <2>3, <2>4 DEF Frame, WarehouseState
  <2> QED
    BY <2>2, <2>4, <2>5 DEF Row
<1> QED
  BY <1>2, <1>3, FrameRecompleted DEF WInv

LEMMA FinalizeCompleted ==
  ASSUME WInv, NEW ids \in Seq(Actions), WFinalize(ids)
  PROVE  \A r \in Runs :
           /\ wh.db[r].status = "completed" => (wh').db[r].status = "completed"
           /\ (wh').db[r].status = "completed" /\ wh.db[r].status # "completed" =>
                r = wh.run /\ (wh').finalized
<1> DEFINE l == Logged(wh, tick, ids)
<1>1. Acted(ids) /\ wh' \in Finalizes(l, tick) /\ tick \in 0 .. MaxTick
  BY DEF WFinalize, WInv
<1>2. Well(l, tick, tick) /\ Frame(wh, l) /\ l.finalized = wh.finalized
  BY <1>1, LoggedCompleted
<1> HIDE DEF l
<1>3. Well(wh', tick, tick) /\ Frame(l, wh') /\ (l.finalized => (wh').finalized)
  BY <1>1, <1>2, FinalizesWell
<1>4. wh.finalized \in BOOLEAN /\ (wh').finalized \in BOOLEAN
  BY <1>3, FieldTypes DEF WInv, Well
<1>5. Recompleted(wh, wh') /\ (wh.finalized => (wh').finalized)
  BY <1>2, <1>3, FrameTrans, FrameRecompleted DEF WInv
<1> QED
  BY <1>4, <1>5 DEF Recompleted

\* Through the refinement the session inherits what is proved of the rows.  Of every run: once FINISH
\* completed it, its row stays completed, through disconnect, crash, RESET and the runs that follow,
\* until START or EXTEND lets the session's own run tick again; and nothing but FINISH completes one.
THEOREM FinishedStaysCompleted == Spec => CompletedUntilResumed
<1>1. TypeOK /\ ControlInv /\ QueueInv /\ WInv /\ [Next]_vars =>
        [\A r \in Runs :
           LET was == wh.db[r].status = "completed"
               is  == wh'.db[r].status = "completed"
           IN  /\ was /\ ~is => /\ r = wh.run /\ r = wh'.run /\ wh'.db[r].status = "running"
                                /\ isRunning' /\ ~finished'
               /\ is /\ ~was => r = wh.run /\ finished' /\ wh'.finalized]_vars
  <2> SUFFICES ASSUME TypeOK, ControlInv, QueueInv, WInv, [Next]_vars, NEW r \in Runs
               PROVE  LET was == wh.db[r].status = "completed"
                          is  == wh'.db[r].status = "completed"
                      IN  /\ was /\ ~is => /\ r = wh.run /\ r = wh'.run /\ wh'.db[r].status = "running"
                                           /\ isRunning' /\ ~finished'
                          /\ is /\ ~was => r = wh.run /\ finished' /\ wh'.finalized
    OBVIOUS
  <2>1. CASE RunStep \/ UNCHANGED whVars
    BY <2>1, RunStepCompleted DEF SameCompleted, whVars
  <2>2. CASE WReopen /\ isRunning' /\ ~finished'
    BY <2>2, ReopenCompleted DEF Recompleted
  <2>3. CASE finished' /\ \E ids \in Batches : WFinalize(ids)
    BY <2>3, BatchType, FinalizeCompleted
  <2> QED
    BY <2>1, <2>2, <2>3, SessionWarehouse DEF SessionStep
<1> QED
  BY <1>1, Invariants, QueueInvariant, SessionRows, PTL DEF Spec, CompletedUntilResumed

\* A run read as ready is complete, and no row is missing strictly below a watermark, through every
\* fault of the session.
THEOREM SessionRunsReady == Spec => [](ReadyRunComplete /\ WatermarkCovers)
BY ReadyHolds, WatermarkHolds, SessionRows, PTL

-----------------------------------------------------------------------------
(* Pauses leave no backlog.  HaltedWithoutBacklog is not inductive: the notice of the horizon sets  *)
(* paused again after a STOP whose waits expired left its CONFIG queued.                            *)

\* CONFIG waits behind a pause only while the handler halts the loop, or after the loop was cancelled
\* or failed; a halt whose first wait expired has cancelled the loop.
BacklogInv ==
  /\ paused /\ ~isRunning /\ hpc = "ready" => pending = <<>>
  /\ ~LoopDone /\ ~cancelled /\ loop.pc # "err" /\ ~isRunning /\ hpc = "ready" => pending = <<>>
  /\ hpc \in {"stop2", "finish2"} /\ ~LoopDone => cancelled

LEMMA InitBacklog == Init => BacklogInv
BY DEF Init, BacklogInv

LEMMA LoopBacklog ==
  ASSUME TypeOK, BacklogInv, LoopNext
  PROVE  BacklogInv'
<1>1. hpc' = hpc
  BY DEF LoopNext, LoopBegins, FrameSent, NoticeSent, ReceiptSent, LastReceiptSent,
       LastHorizonReceiptSent, SendFails, ErrorSent, LoopUnwinds, LoopTop, LoopEnds, HorizonReached,
       HorizonDrains, BoundaryDrains, BoundarySteps, Notice, Fails, Step, StepFails, control
<1>2. \/ LoopDone' /\ UNCHANGED <<paused, isRunning, pending>>
      \/ LoopDone' /\ pending = <<>> /\ pending' = pending
      \/ cancelled' = cancelled /\ ~cancelled /\ ~LoopDone /\ pending' = <<>>
      \/ cancelled' = cancelled /\ ~cancelled /\ ~LoopDone /\ loop'.pc = "err" /\ ~paused'
      \/ /\ cancelled' = cancelled /\ ~cancelled /\ ~LoopDone /\ loop.pc # "err"
         /\ UNCHANGED <<isRunning, pending>>
  BY DEF LoopNext, LoopBegins, FrameSent, NoticeSent, ReceiptSent, LastReceiptSent,
       LastHorizonReceiptSent, SendFails, ErrorSent, LoopUnwinds, LoopTop, LoopEnds, HorizonReached,
       HorizonDrains, BoundaryDrains, BoundarySteps, Notice, Fails, Step, StepFails, LoopExits, Drain,
       LoopRuns, LoopDone, At, whVars, control, configs, observed
<1> QED
  BY <1>1, <1>2 DEF BacklogInv, LoopDone

LEMMA HandlerBacklog ==
  ASSUME TypeOK, ControlInv, BacklogInv, Handler
  PROVE  BacklogInv'
<1>1. CASE Setup \/ Reset \/ StartDefault
  BY <1>1 DEF Setup, Reset, StartDefault, FreshRun, BacklogInv, Received
<1>2. CASE SetupFails
  BY <1>2 DEF SetupFails, CancelLoop, BacklogInv, Received, LoopDone
<1>3. CASE Start \/ Extend
  BY <1>3 DEF Start, Extend, StartLoop, BacklogInv, Received
<1>4. CASE Config
  BY <1>4 DEF Config, BacklogInv, Received, control, observed, LoopDone
<1>5. ASSUME NEW cmd \in {"stop", "finish"}, Tails(cmd) PROVE BacklogInv'
  BY <1>5 DEF Tails, StopTail, FinishTail, Drain, BacklogInv
<1>6. CASE Stop \/ Finish
  BY <1>5, <1>6 DEF Stop, Finish, Halt, BacklogInv, configs, LoopDone
<1>7. CASE HaltNext
  BY <1>5, <1>7 DEF HaltNext, LoopJoined, FirstWaitExpires, SecondWaitExpires, BacklogInv, LoopDone, configs, control
<1>8. CASE \E status \in {"stopped", "failed"} : Disconnect(status)
  BY <1>8 DEF Disconnect, BacklogInv
<1> QED
  BY <1>1, <1>2, <1>3, <1>4, <1>6, <1>7, <1>8 DEF Handler, Command

LEMMA BacklogInvariant == Spec => []BacklogInv
<1>1. TypeOK /\ ControlInv /\ BacklogInv /\ [Next]_vars => BacklogInv'
  <2> SUFFICES ASSUME TypeOK, ControlInv, BacklogInv, [Next]_vars PROVE BacklogInv'
    OBVIOUS
  <2>1. CASE Ended \/ UNCHANGED vars
    BY <2>1 DEF Ended, BacklogInv, LoopDone, vars, control, configs, observed
  <2> QED
    BY <2>1, LoopBacklog, HandlerBacklog DEF Next, Handler
<1> QED
  BY <1>1, InitBacklog, Invariants, PTL DEF Spec

\* A pause the client was told of, and a FINISH, leave no CONFIG queued that a later drain could apply
\* over a newer one, whichever waits expire and whenever the loop fails.
THEOREM PauseLeavesNoBacklog == Spec => []HaltedWithoutBacklog
<1>1. BacklogInv /\ QueueInv => HaltedWithoutBacklog
  BY DEF BacklogInv, QueueInv, HaltedWithoutBacklog
<1> QED
  BY <1>1, BacklogInvariant, QueueInvariant, PTL

-----------------------------------------------------------------------------
(* Policy changes are applied in the order they were taken, as long as the loop neither fails nor  *)
(* outlives its cancellation: then CONFIG is applied at once only when none is queued.             *)

Orderly == ~LoopMayFail /\ ~CancelMayStall

\* The CONFIG in force is older than every queued one, and the queue is in arrival order.
OrderInv ==
  /\ policy <= taken
  /\ \A i \in DOMAIN pending : policy < pending[i] /\ pending[i] <= taken
  /\ \A i, j \in DOMAIN pending : i < j => pending[i] < pending[j]
  /\ ~isRunning /\ hpc = "ready" => pending = <<>>

NeverBack == policy' >= policy \/ (policy' = 0 /\ tick' = 0)

LEMMA InitOrder == Init => OrderInv
BY DEF Init, WarehouseInit, OrderInv

\* An empty queue is in order.
LEMMA EmptyOrder ==
  ASSUME pending' = <<>>, policy' <= taken'
  PROVE  OrderInv'
<1>1. DOMAIN pending' = {}
  OBVIOUS
<1> QED
  BY <1>1 DEF OrderInv

LEMMA DrainOrder ==
  ASSUME TypeOK, OrderInv, Drain, taken' = taken
  PROVE  OrderInv' /\ NeverBack
<1>1. pending \in Seq(1 .. MaxActions) /\ policy \in Nat /\ taken \in Nat /\ pending' = <<>>
  BY DEF TypeOK, WarehouseTypeOK, Actions, Drain
<1>2. policy' >= policy /\ policy' <= taken
  <2>1. CASE economy /\ pending # <<>>
    <3>1. Len(pending) \in DOMAIN pending /\ policy' = pending[Len(pending)] /\ policy' \in Nat
      BY <1>1, <2>1 DEF Drain, InForce
    <3> QED
      BY <1>1, <3>1 DEF OrderInv
  <2>2. CASE ~economy \/ pending = <<>>
    BY <1>1, <2>2 DEF Drain, InForce, OrderInv
  <2> QED
    BY <2>1, <2>2
<1> QED
  BY <1>1, <1>2, EmptyOrder DEF NeverBack

LEMMA KeptOrder ==
  ASSUME TypeOK, OrderInv, UNCHANGED <<policy, pending, taken>>,
         ~isRunning' /\ hpc' = "ready" => pending = <<>>
  PROVE  OrderInv' /\ NeverBack
BY DEF OrderInv, NeverBack, TypeOK, WarehouseTypeOK, Actions

LEMMA LoopOrder ==
  ASSUME Orderly, TypeOK, OrderInv, LoopNext
  PROVE  OrderInv' /\ NeverBack
<1>1. hpc' = hpc /\ taken' = taken
  BY DEF LoopNext, LoopBegins, FrameSent, NoticeSent, ReceiptSent, LastReceiptSent,
       LastHorizonReceiptSent, SendFails, ErrorSent, LoopUnwinds, LoopTop, LoopEnds, HorizonReached,
       HorizonDrains, BoundaryDrains, BoundarySteps, Notice, Fails, Step, StepFails, control, configs
<1>2. \/ Drain
      \/ UNCHANGED <<policy, pending>> /\ (isRunning' = isRunning \/ pending = <<>>)
  BY DEF Orderly, LoopNext, LoopBegins, FrameSent, NoticeSent, ReceiptSent, LastReceiptSent,
       LastHorizonReceiptSent, SendFails, ErrorSent, LoopUnwinds, LoopTop, LoopEnds, HorizonReached,
       HorizonDrains, BoundaryDrains, BoundarySteps, Notice, Fails, Step, StepFails, LoopExits,
       whVars, control, configs
<1>3. CASE Drain
  BY <1>1, <1>3, DrainOrder
<1>4. CASE UNCHANGED <<policy, pending>> /\ (isRunning' = isRunning \/ pending = <<>>)
  <2>1. ~isRunning' /\ hpc' = "ready" => pending = <<>>
    BY <1>1, <1>4 DEF OrderInv
  <2> QED
    BY <1>1, <1>4, <2>1, KeptOrder
<1> QED
  BY <1>2, <1>3, <1>4

LEMMA HandlerOrder ==
  ASSUME Orderly, TypeOK, ControlInv, OrderInv, Handler
  PROVE  OrderInv' /\ NeverBack
<1>a. policy \in Nat /\ taken \in Nat /\ pending \in Seq(1 .. MaxActions)
  BY DEF TypeOK, WarehouseTypeOK, Actions
<1>1. CASE Setup \/ StartDefault
  <2>1. pending' = <<>> /\ policy' = 0 /\ tick' = 0 /\ taken' = taken
    BY <1>1 DEF Setup, StartDefault, FreshRun
  <2> QED
    BY <1>a, <2>1, EmptyOrder DEF NeverBack
<1>2. CASE Reset
  <2>1. pending' = <<>> /\ policy' = policy /\ taken' = taken
    BY <1>2 DEF Reset
  <2> QED
    BY <1>a, <2>1, EmptyOrder DEF NeverBack, OrderInv
<1>3. CASE SetupFails
  <2>1. pending = <<>> /\ pending' = <<>> /\ policy' = policy /\ taken' = taken
    BY <1>3 DEF SetupFails, Received, OrderInv
  <2> QED
    BY <1>a, <2>1, EmptyOrder DEF NeverBack, OrderInv
<1>4. CASE Start \/ Extend
  BY <1>4, KeptOrder DEF Start, Extend, StartLoop, configs
<1>5. CASE Config
  <2>1. taken' = taken + 1 /\ hpc' = hpc /\ isRunning' = isRunning /\ hpc = "ready"
    BY <1>5 DEF Config, Received, control
  <2>2. CASE isRunning
    <3>1. pending' = Append(pending, taken + 1) /\ policy' = policy
      BY <1>5, <2>1, <2>2 DEF Config
    <3>2. DOMAIN pending' = 1 .. (Len(pending) + 1) /\ Len(pending) \in Nat
      BY <1>a, <3>1
    <3>3. \A i \in DOMAIN pending' : \/ i \in DOMAIN pending /\ pending'[i] = pending[i]
                                     \/ i = Len(pending) + 1 /\ pending'[i] = taken + 1
      BY <1>a, <3>1
    <3>4. \A i \in DOMAIN pending : pending[i] \in Nat /\ i \in Nat /\ i <= Len(pending)
      BY <1>a
    <3>5. \A i \in DOMAIN pending' : policy' < pending'[i] /\ pending'[i] <= taken'
      BY <1>a, <2>1, <3>1, <3>3, <3>4 DEF OrderInv
    <3>6. \A i, j \in DOMAIN pending' : i < j => pending'[i] < pending'[j]
      BY <1>a, <3>2, <3>3, <3>4 DEF OrderInv
    <3> QED
      BY <1>a, <2>1, <2>2, <3>1, <3>5, <3>6 DEF OrderInv, NeverBack
  <2>3. CASE ~isRunning
    <3>1. pending' = pending /\ pending = <<>> /\ policy' = taken + 1
      BY <1>5, <2>1, <2>3 DEF Config, OrderInv
    <3> QED
      BY <1>a, <2>1, <3>1, EmptyOrder DEF OrderInv, NeverBack
  <2> QED
    BY <2>2, <2>3
<1>6. ASSUME NEW cmd \in {"stop", "finish"}, Tails(cmd) PROVE OrderInv' /\ NeverBack
  BY <1>6, DrainOrder DEF Tails, StopTail, FinishTail
<1>7. CASE Stop \/ Finish \/ LoopJoined
  BY <1>6, <1>7, KeptOrder DEF Stop, Finish, Halt, LoopJoined, whVars, configs
<1>8. CASE FirstWaitExpires \/ SecondWaitExpires
  BY <1>8, KeptOrder DEF FirstWaitExpires, SecondWaitExpires, Orderly, whVars, configs
<1>9. CASE \E status \in {"stopped", "failed"} : Disconnect(status)
  BY <1>9, KeptOrder DEF Disconnect, configs
<1> QED
  BY <1>1, <1>2, <1>3, <1>4, <1>5, <1>7, <1>8, <1>9 DEF Handler, Command, HaltNext

LEMMA NextOrder == Orderly /\ TypeOK /\ ControlInv /\ OrderInv /\ [Next]_vars => OrderInv' /\ NeverBack
<1> SUFFICES ASSUME Orderly, TypeOK, ControlInv, OrderInv, [Next]_vars PROVE OrderInv' /\ NeverBack
  OBVIOUS
<1>1. CASE Ended \/ UNCHANGED vars
  BY <1>1, KeptOrder DEF Ended, OrderInv, vars, whVars, control, configs
<1> QED
  BY <1>1, LoopOrder, HandlerOrder DEF Next, Handler

\* A policy change is never overwritten by an older one, whether the client waits for its answers or
\* not.  A failed or stalled loop is excluded: it leaves its queue behind.
THEOREM PolicyKeepsOrder ==
  ASSUME ~LoopMayFail, ~CancelMayStall
  PROVE  Spec => PolicyNeverRollsBack
<1>1. Orderly
  BY DEF Orderly
<1>2. TypeOK /\ ControlInv /\ OrderInv /\ [Next]_vars => OrderInv' /\ NeverBack
  BY <1>1, NextOrder
<1>3. Spec => []OrderInv
  BY <1>2, InitOrder, Invariants, PTL DEF Spec
<1>4. TypeOK /\ ControlInv /\ OrderInv /\ [Next]_vars => [policy' >= policy \/ (policy' = 0 /\ tick' = 0)]_vars
  BY <1>2 DEF NeverBack
<1> QED
  BY <1>3, <1>4, Invariants, PTL DEF Spec, PolicyNeverRollsBack
==============================================================================
