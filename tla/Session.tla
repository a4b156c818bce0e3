------------------------------- MODULE Session -------------------------------
(***************************************************************************)
(* One WebSocket session of server.py: the command handler                 *)
(* (websocket_endpoint) and the tick loop (SimulationManager.run_loop) are *)
(* two asyncio tasks that share one SimulationManager.  A task runs        *)
(* without interruption from one await to the next, so an action below is  *)
(* such a segment and the program counters name the awaits:                *)
(*                                                                         *)
(*   loop.pc  "none"      no task, or the task is done                     *)
(*            "new"       created, not run yet (or preparing the LLM)      *)
(*            "receipts"  sending the CONFIG receipts before a tick        *)
(*            "hreceipts" sending the CONFIG receipts at the horizon       *)
(*            "notice"    sending HORIZON_REACHED                          *)
(*            "frame"     sending a tick frame, then sleeping              *)
(*            "err"       sending the error after an exception             *)
(*   loop.left            receipts of the segment not delivered yet        *)
(*   hpc      "ready"     waiting for a command                            *)
(*            "stop1", "stop2", "finish1", "finish2"  the two waits of     *)
(*                        halt_background_loop, for STOP and for FINISH    *)
(*            "closed"    the connection is gone                           *)
(*                                                                         *)
(* A CONFIG is its number: policy holds the number of the one applied      *)
(* last.  Replies that change nothing are left out, refusals included.     *)
(***************************************************************************)
EXTENDS Warehouse

CONSTANTS
  Horizons,        \* the horizon_ticks a SETUP may ask for; NoHorizon is the legacy default
  MaxExtend,       \* the most ticks one EXTEND adds
  LoopMayFail,     \* an exception may end the loop: a tick raises, or a send fails
  CancelMayStall,  \* a cancelled loop may outlive the second wait of STOP and FINISH
  Pipelined        \* the client may send a command before the last one was answered

NoHorizon == 0

ASSUME SessionAssumption ==
  /\ Horizons \subseteq 0 .. MaxTick
  /\ MaxExtend \in Nat
  /\ LoopMayFail \in BOOLEAN
  /\ CancelMayStall \in BOOLEAN
  /\ Pipelined \in BOOLEAN

VARIABLES
  economy,    \* the session has an economy
  isRunning,  \* is_running
  horizon,    \* horizon_tick
  notified,   \* horizon_notified
  finished,   \* run_finished
  pending,    \* pending_config_updates, oldest first
  taken,      \* how many CONFIG commands were accepted
  loop,       \* the loop task
  cancelled,  \* run_task.cancel() was called on the live task
  hpc,        \* the command handler
  (* Observers, read by properties only. *)
  paused,     \* the last lifecycle message told the client that no tick will follow
  stale       \* the live loop task was created before the last SETUP or RESET

control  == <<economy, isRunning, horizon, notified, finished>>
configs  == <<pending, taken>>
observed == <<paused, stale>>
vars     == <<whVars, control, configs, loop, cancelled, hpc, observed>>

LoopPcs == {"none", "new", "receipts", "hreceipts", "notice", "frame", "err"}
HandlerPcs == {"ready", "stop1", "stop2", "finish1", "finish2", "closed"}

At(pc, left) == [pc |-> pc, left |-> left]

LoopDone   == loop.pc = "none"
Connected  == hpc # "closed"
\* Mutant of AtHorizonOf: off by one.
PastHorizonOf(h, t) == h # NoHorizon /\ t > h

AtHorizonOf(h, t) == h # NoHorizon /\ t >= h
AtHorizon  == AtHorizonOf(horizon, tick)

Init ==
  /\ WarehouseInit
  /\ economy = FALSE /\ isRunning = FALSE /\ horizon = NoHorizon
  /\ notified = FALSE /\ finished = FALSE
  /\ pending = <<>> /\ taken = 0
  /\ loop = At("none", <<>>) /\ cancelled = FALSE
  /\ hpc = "ready"
  /\ paused = TRUE /\ stale = FALSE

-----------------------------------------------------------------------------
(* Applying CONFIG *)

\* drain_pending_config_updates: every queued action takes effect, in arrival order.
\* w is the warehouse state its rows go to.  Without an economy nothing is applied.
Drained(w) == IF economy THEN Logged(w, tick, pending) ELSE w

Drain ==
  /\ pending' = <<>>
  /\ policy' = IF economy THEN InForce(policy, pending) ELSE policy

-----------------------------------------------------------------------------
(* The tick loop.  A cancelled task does nothing but unwind. *)

LoopRuns(pc) == loop.pc = pc /\ ~cancelled

LoopExits ==
  /\ loop' = At("none", <<>>) /\ stale' = FALSE

\* economy.step() and everything up to the frame send; w already holds this tick's policy rows.
Step(w) ==
  /\ tick < MaxTick
  /\ tick' = tick + 1
  /\ wh' \in TickOutcomes(w, tick + 1)
  /\ loop' = At("frame", <<>>)
  /\ UNCHANGED <<control, taken, cancelled, hpc, observed>>

\* The except branch: the run is closed as failed and the client is sent an error.
Fails(outcomes) ==
  /\ LoopMayFail
  /\ \E f \in outcomes : tick' = f.tick /\ wh' = f.w
  /\ isRunning' = FALSE
  /\ loop' = At("err", <<>>)
  /\ paused' = FALSE
  /\ UNCHANGED <<economy, horizon, notified, finished, taken, cancelled, hpc, stale>>

StepFails(w) == tick < MaxTick /\ Fails(FailedTicks(w, tick))

\* At the horizon, once the receipts are out: one notice per horizon, else the loop condition again,
\* which is_running, cleared on arrival at the horizon, fails unless EXTEND or START set it since.
Notice ==
  /\ AtHorizon /\ ~notified
  /\ notified' = TRUE
  /\ loop' = At("notice", <<>>)
  /\ paused' = TRUE
  /\ UNCHANGED <<economy, horizon, finished, taken, cancelled, hpc, stale>>

\* The loop condition fails.
LoopEnds ==
  /\ ~isRunning
  /\ LoopExits
  /\ UNCHANGED <<whVars, control, configs, cancelled, hpc, paused>>

\* The horizon with no CONFIG queued: the notice, or the end of the task when it was sent before.
HorizonReached ==
  /\ isRunning /\ AtHorizon /\ pending = <<>>
  /\ isRunning' = FALSE
  /\ \/ Notice
     \/ /\ notified
        /\ LoopExits
        /\ UNCHANGED <<economy, horizon, notified, finished, taken, cancelled, hpc, paused>>
  /\ UNCHANGED <<whVars, pending>>

\* Mutant of HorizonDrains: CONFIG queued in the final tick is left queued.
HorizonDiscards ==
  /\ isRunning /\ AtHorizon /\ pending # <<>>
  /\ isRunning' = FALSE
  /\ LoopExits
  /\ UNCHANGED <<whVars, economy, horizon, notified, finished, configs, cancelled, hpc, paused>>

\* The horizon with CONFIG queued in the final tick: it applies now, its receipts before the notice.
HorizonDrains ==
  /\ isRunning /\ AtHorizon /\ pending # <<>>
  /\ isRunning' = FALSE
  /\ Drain /\ wh' = Drained(wh)
  /\ loop' = At("hreceipts", pending)
  /\ UNCHANGED <<tick, economy, horizon, notified, finished, taken, cancelled, hpc, observed>>

\* A tick boundary with CONFIG queued: it applies now, its receipts before the tick.
BoundaryDrains ==
  /\ isRunning /\ ~AtHorizon /\ pending # <<>>
  /\ Drain /\ wh' = Drained(wh)
  /\ loop' = At("receipts", pending)
  /\ UNCHANGED <<tick, control, taken, cancelled, hpc, observed>>

BoundarySteps ==
  /\ isRunning /\ ~AtHorizon /\ pending = <<>>
  /\ Step(wh) \/ StepFails(wh)
  /\ UNCHANGED <<policy, pending>>

\* The loop condition and what follows up to the next await.
LoopTop == LoopEnds \/ HorizonReached \/ HorizonDrains \/ BoundaryDrains \/ BoundarySteps

LoopBegins ==
  /\ LoopRuns("new")
  /\ \/ economy /\ LoopTop
     \/ /\ ~economy
        /\ LoopExits
        /\ UNCHANGED <<whVars, control, configs, cancelled, hpc, paused>>

FrameSent == LoopRuns("frame") /\ LoopTop

NoticeSent == LoopRuns("notice") /\ LoopTop

\* One receipt is delivered and another is left.
ReceiptSent ==
  /\ LoopRuns("receipts") \/ LoopRuns("hreceipts")
  /\ Len(loop.left) > 1
  /\ loop' = At(loop.pc, Tail(loop.left))
  /\ UNCHANGED <<whVars, control, configs, cancelled, hpc, observed>>

\* Mutant of LastReceiptSent: is_running is not tested again before the tick.
LastReceiptSteps ==
  /\ LoopRuns("receipts")
  /\ Len(loop.left) = 1
  /\ Step(wh) \/ StepFails(wh)
  /\ UNCHANGED <<policy, pending>>

\* The last receipt before a tick: a STOP or FINISH handled meanwhile ends the run here.
LastReceiptSent ==
  /\ LoopRuns("receipts")
  /\ Len(loop.left) = 1
  /\ \/ /\ ~isRunning
        /\ LoopExits
        /\ UNCHANGED <<whVars, control, configs, cancelled, hpc, paused>>
     \/ /\ isRunning
        /\ Step(wh) \/ StepFails(wh)
        /\ UNCHANGED <<policy, pending>>

\* Mutant of LastHorizonReceiptSent: the loop breaks when there is no notice to send.
LastHorizonReceiptBreaks ==
  /\ LoopRuns("hreceipts")
  /\ Len(loop.left) = 1
  /\ \/ Notice /\ UNCHANGED <<whVars, isRunning, pending>>
     \/ /\ ~AtHorizon \/ notified
        /\ LoopExits
        /\ UNCHANGED <<whVars, control, configs, cancelled, hpc, paused>>

LastHorizonReceiptSent ==
  /\ LoopRuns("hreceipts")
  /\ Len(loop.left) = 1
  /\ \/ Notice /\ UNCHANGED <<whVars, isRunning, pending>>
     \/ (~AtHorizon \/ notified) /\ LoopTop

\* A send raises: the receipts not delivered are lost with it.
SendFails ==
  /\ \E pc \in {"receipts", "hreceipts", "notice", "frame"} : LoopRuns(pc)
  /\ Fails({[tick |-> tick, w |-> c] : c \in Closes(wh, tick, "failed")})
  /\ UNCHANGED <<policy, pending>>

ErrorSent ==
  /\ LoopRuns("err")
  /\ LoopExits
  /\ UNCHANGED <<whVars, control, configs, cancelled, hpc, paused>>

\* CancelledError is raised at the await; it is not an Exception, so only the finally block runs.
LoopUnwinds ==
  /\ cancelled /\ ~LoopDone
  /\ LoopExits
  /\ cancelled' = FALSE
  /\ UNCHANGED <<whVars, control, configs, hpc, paused>>

LoopNext ==
  \/ LoopBegins \/ FrameSent \/ NoticeSent
  \/ ReceiptSent \/ LastReceiptSent \/ LastHorizonReceiptSent
  \/ SendFails \/ ErrorSent \/ LoopUnwinds

-----------------------------------------------------------------------------
(* The command handler.  A client that waits for each answer sends its next *)
(* command through the event loop, which resumes a cancelled task first.    *)

Received == hpc = "ready" /\ (Pipelined \/ ~cancelled)

\* Mutant of CancelLoop: a task that is already done is cancelled too.
CancelDoneLoop == isRunning' = FALSE /\ cancelled' = TRUE

\* Mutant of CancelLoop: is_running is cleared, the task is not cancelled.
UncancelledLoop == isRunning' = FALSE /\ UNCHANGED cancelled

\* stop_background_loop(cancel=True)
CancelLoop == isRunning' = FALSE /\ cancelled' = ~LoopDone

\* start_background_loop: a task that is not done is taken to be running on, cancelled or not.
StartLoop ==
  /\ isRunning' = TRUE
  /\ loop' = IF LoopDone THEN At("new", <<>>) ELSE loop
  /\ paused' = FALSE

\* What initialize leaves when it succeeds, but for the loop.
FreshRun(h) ==
  /\ economy' = TRUE
  /\ horizon' = h /\ notified' = FALSE /\ finished' = FALSE
  /\ pending' = <<>> /\ tick' = 0 /\ policy' = 0
  /\ WarehouseOn => wh.opened < MaxRuns
  /\ \E c \in Closes(wh, tick, "stopped") : wh' \in Opens([c EXCEPT !.finalized = FALSE])
  /\ stale' = ~LoopDone
  /\ UNCHANGED <<taken, hpc>>

Setup ==
  /\ Received /\ ~isRunning
  /\ CancelLoop
  /\ \E h \in Horizons : FreshRun(h)
  /\ paused' = TRUE
  /\ UNCHANGED loop

\* A SETUP (or the default one of START) that is refused by validation or by the experiment
\* registry, whose economy cannot be built, or that fails after it was built: the previous run is
\* closed and nothing runnable is left.
SetupFails ==
  /\ Received /\ ~isRunning
  /\ CancelLoop
  /\ economy' = FALSE
  /\ stale' = ~LoopDone
  /\ \E c \in Closes(wh, tick, "stopped") :
       \/ wh' = c /\ UNCHANGED <<tick, horizon, notified, finished, pending>>
       \/ /\ wh' = [c EXCEPT !.finalized = FALSE]
          /\ horizon' \in Horizons /\ notified' = FALSE /\ finished' = FALSE
          /\ UNCHANGED <<tick, pending>> \/ (tick' = 0 /\ pending' = <<>>)
  /\ UNCHANGED <<policy, taken, loop, hpc, paused>>

\* START without an economy builds the default one, which has no horizon.
StartDefault ==
  /\ Received /\ ~economy
  /\ FreshRun(NoHorizon)
  /\ cancelled' = ~LoopDone
  /\ StartLoop

\* Mutant of Start: START at the horizon reopens the finished run, which cannot tick.
StartReopensAlways ==
  /\ Received /\ economy
  /\ IF AtHorizon THEN notified' = FALSE ELSE UNCHANGED notified
  /\ wh' = Reopened(wh) /\ finished' = FALSE
  /\ StartLoop
  /\ UNCHANGED <<tick, policy, economy, horizon, configs, cancelled, hpc, stale>>

\* START reopens a finished run that can tick; at the horizon it only asks for the notice again.
Start ==
  /\ Received /\ economy
  /\ \/ AtHorizon /\ notified' = FALSE /\ UNCHANGED <<wh, finished>>
     \/ ~AtHorizon /\ wh' = Reopened(wh) /\ finished' = FALSE /\ UNCHANGED notified
  /\ StartLoop
  /\ UNCHANGED <<tick, policy, economy, horizon, configs, cancelled, hpc, stale>>

Extend ==
  /\ Received /\ economy
  /\ \E n \in 1 .. MaxExtend :
       LET base == IF horizon = NoHorizon THEN tick ELSE horizon
       IN  base + n <= MaxTick /\ horizon' = base + n
  /\ notified' = FALSE /\ finished' = FALSE
  /\ wh' = Reopened(wh)
  /\ StartLoop
  /\ UNCHANGED <<tick, policy, economy, configs, cancelled, hpc, stale>>

Reset ==
  /\ Received
  /\ CancelLoop
  /\ notified' = FALSE /\ finished' = FALSE
  /\ pending' = <<>> /\ tick' = 0
  /\ \E c \in Closes(wh, tick, "stopped") : wh' = [c EXCEPT !.finalized = FALSE]
  /\ paused' = TRUE /\ stale' = ~LoopDone
  /\ UNCHANGED <<policy, economy, horizon, taken, loop, hpc>>

\* Mutant of Config: a finished run accepts CONFIG.
ConfigAfterFinish ==
  /\ Received /\ economy
  /\ taken < MaxActions
  /\ taken' = taken + 1
  /\ IF isRunning
     THEN pending' = Append(pending, taken') /\ UNCHANGED <<policy, wh>>
     ELSE policy' = taken' /\ wh' = Logged(wh, tick, <<taken'>>) /\ UNCHANGED pending
  /\ UNCHANGED <<tick, control, loop, cancelled, hpc, observed>>

\* update_config: queued while the loop runs, applied at once while it is paused.
Config ==
  /\ Received /\ economy /\ ~finished
  /\ taken < MaxActions
  /\ taken' = taken + 1
  /\ IF isRunning
     THEN pending' = Append(pending, taken') /\ UNCHANGED <<policy, wh>>
     ELSE policy' = taken' /\ wh' = Logged(wh, tick, <<taken'>>) /\ UNCHANGED pending
  /\ UNCHANGED <<tick, control, loop, cancelled, hpc, observed>>

\* Mutant of StopTail: queued CONFIG is not drained.
StopTailUndrained ==
  /\ \E f \in Flushes(wh) : wh' = f.w
  /\ UNCHANGED <<policy, pending, finished>>

\* STOP once the loop is gone: drain, flush, STOPPED.
StopTail ==
  /\ Drain
  /\ \E f \in Flushes(Drained(wh)) : wh' = f.w
  /\ UNCHANGED finished

\* FINISH once the loop is gone: drain, finalize, FINISHED.
FinishTail ==
  /\ Drain
  /\ wh' \in Finalizes(Drained(wh), tick)
  /\ finished' = TRUE

Tails(cmd) ==
  /\ \/ cmd = "stop" /\ StopTail
     \/ cmd = "finish" /\ FinishTail
  /\ isRunning' = FALSE
  /\ hpc' = "ready"
  /\ paused' = TRUE
  /\ UNCHANGED <<tick, economy, horizon, notified, taken, loop, cancelled, stale>>

\* halt_background_loop: clear is_running, wait, cancel when the wait expires, wait again.
Halt(cmd, wait1) ==
  /\ Received
  /\ \/ LoopDone /\ Tails(cmd)
     \/ /\ ~LoopDone
        /\ isRunning' = FALSE
        /\ hpc' = wait1
        /\ UNCHANGED <<whVars, economy, horizon, notified, finished, configs, loop, cancelled, observed>>

Stop   == Halt("stop", "stop1")
Finish == economy /\ Halt("finish", "finish1")

\* Mutant of LoopJoined: the second wait is never answered.
LoopJoinedOnce ==
  /\ LoopDone
  /\ \/ hpc = "stop1" /\ Tails("stop")
     \/ hpc = "finish1" /\ Tails("finish")

LoopJoined ==
  /\ LoopDone
  /\ \/ hpc \in {"stop1", "stop2"} /\ Tails("stop")
     \/ hpc \in {"finish1", "finish2"} /\ Tails("finish")

FirstWaitExpires ==
  /\ ~LoopDone
  /\ \/ hpc = "stop1" /\ hpc' = "stop2"
     \/ hpc = "finish1" /\ hpc' = "finish2"
  /\ cancelled' = TRUE
  /\ UNCHANGED <<whVars, control, configs, loop, observed>>

\* STOP failed, FINISH failed: nothing is drained, flushed or finalized behind a live loop.
SecondWaitExpires ==
  /\ CancelMayStall /\ ~LoopDone
  /\ hpc \in {"stop2", "finish2"}
  /\ hpc' = "ready" /\ paused' = FALSE
  /\ UNCHANGED <<whVars, control, configs, loop, cancelled, stale>>

\* The client disconnects ("stopped"), or the handler raises ("failed"), a command's reply included.
Disconnect(status) ==
  /\ hpc = "ready"
  /\ hpc' = "closed"
  /\ CancelLoop
  /\ wh' \in Closes(wh, tick, status)
  /\ UNCHANGED <<tick, policy, economy, horizon, notified, finished, configs, loop, observed>>

Command ==
  \/ Setup \/ SetupFails \/ StartDefault \/ Start \/ Extend \/ Reset \/ Config \/ Stop \/ Finish

HaltNext == LoopJoined \/ FirstWaitExpires \/ SecondWaitExpires

\* A closed session with no task left does nothing more; any other standstill is a deadlock.
Ended == ~Connected /\ LoopDone /\ UNCHANGED vars

Next ==
  \/ LoopNext
  \/ Command
  \/ HaltNext
  \/ \E status \in {"stopped", "failed"} : Disconnect(status)
  \/ Ended

Spec == Init /\ [][Next]_vars

\* Every send and sleep of the loop completes and every wait of the handler ends; nothing is owed
\* by the client, and no failure is.
FairSpec == Spec /\ WF_vars(LoopNext) /\ WF_vars(LoopJoined \/ FirstWaitExpires)

-----------------------------------------------------------------------------
(* The lifecycle the session implements: a finished run stays finished until its loop may tick. *)

Mode ==
  IF ~economy THEN "empty"
  ELSE IF finished THEN "finished"
  ELSE IF isRunning THEN "running" ELSE "idle"

Life == INSTANCE Lifecycle WITH mode <- Mode, tick <- tick, horizon <- horizon

-----------------------------------------------------------------------------
(* Properties *)

\* Every variable stays in its domain, a cancellation waits only for a live task, and receipts are
\* outstanding only where the loop sends them.
TypeOK ==
  /\ WarehouseTypeOK
  /\ economy \in BOOLEAN /\ isRunning \in BOOLEAN /\ notified \in BOOLEAN /\ finished \in BOOLEAN
  /\ horizon \in 0 .. MaxTick
  /\ taken \in 0 .. MaxActions
  /\ pending \in Seq(1 .. MaxActions)
  /\ loop \in [pc : LoopPcs, left : Seq(1 .. MaxActions)]
  /\ loop.left # <<>> => loop.pc \in {"receipts", "hreceipts"}
  /\ cancelled \in BOOLEAN /\ (cancelled => ~LoopDone)
  /\ hpc \in HandlerPcs
  /\ paused \in BOOLEAN /\ stale \in BOOLEAN

Ticked == tick' > tick

\* The loop never runs past the horizon, however CONFIG receipts, EXTEND, START and RESET interleave
\* with it: the tick is executed after an await that follows the horizon test.
HorizonNeverPassed == economy /\ horizon # NoHorizon => tick <= horizon

\* STOP and FINISH are hard boundaries: once the handler took one, no tick is executed before it is
\* answered, even when it arrives while the loop sends the receipts that precede a tick.
HaltIsHardBoundary == [][Ticked => hpc = "ready"]_vars

\* A finished run is never ticked, in memory or in the warehouse, before it is reopened.
FinishedNeverTicks == [][Ticked => ~finished /\ ~wh.finalized]_vars

\* A loop task created before a SETUP or RESET never steps the economy after it.
StaleLoopNeverTicks == [][Ticked => ~stale]_vars

\* A pause has no CONFIG queued behind it that a later drain could apply over a newer one: neither when
\* the client was told that no tick will follow, nor once the run is finished.
HaltedWithoutBacklog ==
  /\ paused /\ ~isRunning /\ hpc = "ready" => pending = <<>>
  /\ finished => pending = <<>> \/ ~economy

\* A policy change is never overwritten by an older one (STOP's comment in websocket_endpoint, and
\* the horizon branch's in the loop): the CONFIG in force only ever grows, but for a new SETUP.
PolicyNeverRollsBack == [][policy' >= policy \/ (policy' = 0 /\ tick' = 0)]_vars

\* A running session has a task that will tick: is_running without one leaves a client that was
\* sent STARTED waiting for frames for ever.
RunningHasLoop == isRunning /\ hpc = "ready" => ~LoopDone /\ ~cancelled /\ loop.pc # "err"

\* Only FINISH completes a run's row, and no disconnect, crash, failed flush, RESET or later run takes
\* that back: of all rows, the session's own is returned to running, and only by the START or EXTEND
\* that lets its loop tick again (_close_warehouse_run's run_finalized test, WEBSOCKET_PROTOCOL.md).
CompletedUntilResumed ==
  [][\A r \in Runs :
       LET was == wh.db[r].status = "completed"
           is  == wh'.db[r].status = "completed"
       IN  /\ was /\ ~is => /\ r = wh.run /\ r = wh'.run /\ wh'.db[r].status = "running"
                            /\ isRunning' /\ ~finished'
           /\ is /\ ~was => r = wh.run /\ finished' /\ wh'.finalized]_vars

\* The session keeps the promise of Lifecycle: the clock runs only between START or EXTEND and the
\* next pause, up to the horizon, and a FINISH is undone only by resuming a run that can still tick.
ImplementsLifecycle == Life!Spec

\* The session keeps the contract of Warehouse: no tick and no policy row between FINISH and reopen.
ImplementsWarehouse == WarehouseSpec

\* STOP and FINISH are always answered: the waits end whatever the loop does.
HaltAnswered == (hpc \notin {"ready", "closed"}) ~> (hpc = "ready")

\* A running session makes progress: it ticks, reaches its horizon, or somebody stops it.
RunningProgresses ==
  \A t \in 0 .. MaxTick - 1 :
     (isRunning /\ tick = t) ~> (~isRunning \/ tick # t)

\* A queued CONFIG is applied or discarded: no action waits for ever.
QueueDrains == (pending # <<>> /\ horizon # NoHorizon) ~> (pending = <<>> \/ ~Connected)
==============================================================================
