-------------------------- MODULE LlmGovernmentProofs --------------------------
(***************************************************************************)
(* What TLAPS proves of LlmGovernment: the invariants and the action       *)
(* properties of run llm, for every horizon, cadence and number of queued  *)
(* CONFIGs.                                                                *)
(***************************************************************************)
EXTENDS LlmGovernment, TLAPS

USE LlmAssumption

\* A task that was cut is unwinding or has unwound: it has no result to collect.
CutHasNoResult == task.cut => task.pc \in {"cancelling", "cancelled"}

\* The receipts of a boundary are sent before the horizon: the tick that follows may be counted.
ReceiptsBeforeHorizon == loop = "receipts" /\ isRunning => week < MaxWeek

\* The loop waits for a provider only while there is no advisor, and, at a due week, only for a
\* government that is on and has its slot free: while a loop lives the handler applies no CONFIG.
LoopInv ==
  /\ loop # "off" => isRunning \/ halting
  /\ loop \in {"prepare", "connect"} => ~advisor
  /\ loop = "connect" => enabled /\ Free(task)

LlmInv ==
  /\ TypeOK
  /\ ThinkingOnlyWhileEnabled
  /\ CutHasNoResult
  /\ CutNeverApplied
  /\ ReceiptsBeforeHorizon
  /\ LoopInv

-----------------------------------------------------------------------------
(* The operators of CONFIG and of the task *)

LEMMA EmptySlots == NoTask \in Task /\ NoneYet \in Decision /\ 0 \in 0 .. MaxWeek
BY DEF NoTask, Task, NoneYet, Decision

\* CONFIG keeps the lever, the switch and the slot in their domains.
LEMMA ConfigTypes ==
  ASSUME NEW cfgs \in Seq(Configs), NEW t \in Task, NEW l \in Setters, enabled \in BOOLEAN
  PROVE  /\ LeverAfter(cfgs, l) \in Setters
         /\ EnabledAfter(cfgs) \in BOOLEAN
         /\ TaskAfter(cfgs, t) \in Task
<1>1. LeverAfter(cfgs, l) \in Setters
  BY DEF LeverAfter, Setters
<1>2. EnabledAfter(cfgs) \in BOOLEAN
  BY DEF EnabledAfter
<1>3. TaskAfter(cfgs, t) \in Task
  BY DEF TaskAfter, Task
<1> QED
  BY <1>1, <1>2, <1>3

\* A batch that leaves a task thinking left it alone, and the government on if it was on.
LEMMA ThinkingAfter ==
  ASSUME NEW cfgs \in Seq(Configs), NEW t \in Task, TaskAfter(cfgs, t).pc = "thinking"
  PROVE  t.pc = "thinking" /\ (enabled => EnabledAfter(cfgs))
<1>1. ~Holds(cfgs, "off") /\ t.pc = "thinking"
  BY DEF TaskAfter, Task
<1> QED
  BY <1>1 DEF EnabledAfter

\* CONFIG keeps the three invariants of the slot; latest is not touched by it.
Slot(t, on) ==
  /\ t \in Task
  /\ t.pc = "thinking" => on /\ advisor
  /\ t.cut => t.pc \in {"cancelling", "cancelled"}

LEMMA ConfigKeepsSlot ==
  ASSUME NEW cfgs \in Seq(Configs), NEW t, Slot(t, enabled), enabled \in BOOLEAN
  PROVE  Slot(TaskAfter(cfgs, t), EnabledAfter(cfgs))
<1>1. t \in Task
  BY DEF Slot
<1>2. TaskAfter(cfgs, t) \in Task
  BY <1>1 DEF TaskAfter, Task
<1>3. TaskAfter(cfgs, t).pc = "thinking" => EnabledAfter(cfgs) /\ advisor
  BY <1>1, ThinkingAfter DEF Slot
<1>4. TaskAfter(cfgs, t).cut => TaskAfter(cfgs, t).pc \in {"cancelling", "cancelled"}
  BY <1>1 DEF TaskAfter, Task, Slot
<1> QED
  BY <1>2, <1>3, <1>4 DEF Slot

\* What a decision leaves: the lever and latest in their domains, and no cut one among them.
LEMMA DecidedType ==
  ASSUME TypeOK, CutHasNoResult, CutNeverApplied, NEW d \in Decided(task)
  PROVE  d.lever \in Setters /\ d.latest \in Decision /\ ~d.latest.cut
<1>1. CASE ~enabled
  BY <1>1 DEF Decided, TypeOK, CutNeverApplied
<1>2. CASE enabled /\ task.pc \in {"done", "failed"}
  <2>1. task \in Task /\ ~task.cut /\ lever \in Setters
    BY <1>2 DEF TypeOK, CutHasNoResult, Task
  <2>2. PICK st \in {"applied", "error"}, l \in Setters :
           d = [lever |-> l, latest |-> [status |-> st, week |-> task.week, cut |-> task.cut]]
    <3>1. CASE task.pc = "done"
      <4>1. PICK l \in {lever, "llm"} :
               d = [lever |-> l, latest |-> [status |-> "applied", week |-> task.week, cut |-> task.cut]]
        BY <1>2, <3>1 DEF Decided
      <4> QED
        BY <2>1, <4>1 DEF Setters
    <3>2. CASE task.pc = "failed"
      <4>1. d = [lever |-> lever, latest |-> [status |-> "error", week |-> task.week, cut |-> task.cut]]
        BY <1>2, <3>2 DEF Decided
      <4> QED
        BY <2>1, <4>1
    <3> QED
      BY <1>2, <3>1, <3>2
  <2>3. [status |-> st, week |-> task.week, cut |-> task.cut] \in Decision
    BY <2>1 DEF Task, Decision
  <2> QED
    BY <2>1, <2>2, <2>3
<1>3. CASE enabled /\ task.pc \notin {"done", "failed"}
  BY <1>3 DEF Decided, TypeOK, CutNeverApplied
<1> QED
  BY <1>1, <1>2, <1>3

\* A tick keeps the slot: it asks only a government that is on and has its advisor.
LEMMA StepKeepsSlot ==
  ASSUME TypeOK, NEW t, Slot(t, enabled), week < MaxWeek, Step(t, enabled)
  PROVE  Slot(task', enabled) /\ week' \in 0 .. MaxWeek /\ loop' \in Loops
<1>1. week + 1 \in 0 .. MaxWeek
  BY DEF TypeOK
<1>2. CASE Due(week + 1, enabled) /\ Free(t) /\ advisor
  <2>1. enabled /\ task' = Asked(week + 1) /\ week' = week + 1 /\ loop' = "frame"
    BY <1>2 DEF Step, Due
  <2>2. Asked(week + 1) \in Task
    BY <1>1 DEF Asked, Task
  <2> QED
    BY <1>1, <1>2, <2>1, <2>2 DEF Slot, Asked, Loops
<1>3. CASE ~(Due(week + 1, enabled) /\ Free(t) /\ advisor)
  BY <1>1, <1>3 DEF Step, Loops
<1> QED
  BY <1>2, <1>3

-----------------------------------------------------------------------------
(* The inductive invariant *)

LEMMA InitInv == Init => LlmInv
<1> SUFFICES ASSUME Init PROVE LlmInv
  OBVIOUS
<1>1. NoTask \in Task /\ NoneYet \in Decision /\ 0 \in 0 .. MaxWeek
  BY EmptySlots
<1>2. <<>> \in Seq(Configs) /\ Len(<<>>) <= MaxQueue
  OBVIOUS
<1>3. TypeOK
  BY <1>1, <1>2 DEF Init, TypeOK, Setters, Loops
<1> QED
  BY <1>3 DEF Init, LlmInv, ThinkingOnlyWhileEnabled, CutHasNoResult, CutNeverApplied, NoTask, NoneYet,
     ReceiptsBeforeHorizon, LoopInv

\* A boundary keeps the invariant.
LEMMA BoundaryKeeps ==
  ASSUME LlmInv, Boundary
  PROVE  LlmInv'
<1> DEFINE c == Collected(task)
<1>1. Slot(task, enabled) /\ Slot(c, enabled) /\ TypeOK
  BY DEF LlmInv, TypeOK, ThinkingOnlyWhileEnabled, CutHasNoResult, Slot, Collected, NoTask, Task, Done
<1>2. lever' \in Setters /\ latest' \in Decision /\ ~latest'.cut
  <2>1. PICK d \in Decided(task) : lever' = LeverAfter(queue, d.lever) /\ latest' = d.latest
    BY DEF Boundary
  <2>2. d.lever \in Setters /\ d.latest \in Decision /\ ~d.latest.cut
    BY <2>1, DecidedType DEF LlmInv
  <2> QED
    BY <2>1, <2>2 DEF LeverAfter, Setters
<1>3. UNCHANGED <<advisor, isRunning, halting>> /\ queue' = <<>> /\ week < MaxWeek /\ isRunning
  BY DEF Boundary
<1>4. /\ Slot(task', enabled')
      /\ week' \in 0 .. MaxWeek /\ loop' \in Loops /\ enabled' \in BOOLEAN
      /\ loop' = "receipts" => week' < MaxWeek
      /\ loop' \in {"prepare", "connect"} => ~advisor /\ enabled' /\ Free(task')
  <2>1. CASE queue = <<>>
    <3>1. Step(c, enabled)
      BY <2>1 DEF Boundary
    <3>2. enabled' = enabled
      <4>1. DOMAIN queue = {}
        BY <2>1
      <4> QED
        BY <1>1, <4>1 DEF Boundary, EnabledAfter, Holds, TypeOK
    <3>3. loop' \in {"frame", "connect"} /\ (loop' = "connect" => ~advisor /\ enabled /\ Free(task'))
      BY <3>1 DEF Step, Due
    <3> HIDE DEF c
    <3> QED
      BY <1>1, <1>3, <3>1, <3>2, <3>3, StepKeepsSlot DEF TypeOK
  <2>2. CASE queue # <<>>
    <3>1. task' = TaskAfter(queue, c) /\ loop' = "receipts" /\ week' = week /\ enabled' = EnabledAfter(queue)
      BY <2>2 DEF Boundary
    <3> HIDE DEF c
    <3> QED
      BY <1>1, <1>3, <3>1, ConfigKeepsSlot DEF TypeOK, Loops, EnabledAfter
  <2> QED
    BY <2>1, <2>2
<1>5. queue' \in Seq(Configs) /\ Len(queue') <= MaxQueue
  BY <1>3
<1>6. Slot(task', enabled') => task' \in Task /\ ThinkingOnlyWhileEnabled' /\ CutHasNoResult'
  BY <1>3 DEF Slot, ThinkingOnlyWhileEnabled, CutHasNoResult
<1> QED
  BY <1>1, <1>2, <1>3, <1>4, <1>5, <1>6 DEF LlmInv, TypeOK, CutNeverApplied, ReceiptsBeforeHorizon, LoopInv

\* Applying CONFIGs outside a boundary keeps what the invariant says of lever, switch and slot.
LEMMA ConfigsKeep ==
  ASSUME LlmInv, NEW cfgs \in Seq(Configs), ApplyConfigs(cfgs), UNCHANGED advisor
  PROVE  /\ lever' \in Setters /\ enabled' \in BOOLEAN /\ task' \in Task
         /\ ThinkingOnlyWhileEnabled' /\ CutHasNoResult'
<1>1. Slot(task, enabled) /\ enabled \in BOOLEAN /\ lever \in Setters
  BY DEF LlmInv, TypeOK, ThinkingOnlyWhileEnabled, CutHasNoResult, Slot
<1>2. Slot(task', enabled')
  BY <1>1, ConfigKeepsSlot DEF ApplyConfigs
<1>3. lever' \in Setters /\ enabled' \in BOOLEAN
  BY <1>1 DEF ApplyConfigs, LeverAfter, EnabledAfter, Setters
<1> QED
  BY <1>2, <1>3 DEF Slot, ThinkingOnlyWhileEnabled, CutHasNoResult

\* The loop condition and a boundary keep the invariant.
LEMMA LoopTopKeeps ==
  ASSUME LlmInv, LoopTop
  PROVE  LlmInv'
<1> USE DEF LlmInv
<1>1. CASE LoopEnds
  BY <1>1 DEF LoopEnds, government, TypeOK, ThinkingOnlyWhileEnabled, CutHasNoResult, CutNeverApplied,
     ReceiptsBeforeHorizon, LoopInv, Loops
<1>2. CASE HorizonReached
  <2>1. /\ lever' \in Setters /\ enabled' \in BOOLEAN /\ task' \in Task
        /\ ThinkingOnlyWhileEnabled' /\ CutHasNoResult'
    BY <1>2, ConfigsKeep DEF HorizonReached, TypeOK
  <2>2. queue' \in Seq(Configs) /\ Len(queue') <= MaxQueue
    BY <1>2 DEF HorizonReached
  <2> QED
    BY <1>2, <2>1, <2>2 DEF HorizonReached, TypeOK, CutNeverApplied,
       ReceiptsBeforeHorizon, LoopInv, Loops
<1>3. CASE Boundary
  BY <1>3, BoundaryKeeps
<1> QED
  BY <1>1, <1>2, <1>3 DEF LoopTop

\* Every step keeps the invariant.
LEMMA NextInv == LlmInv /\ [Next]_vars => LlmInv'
<1> SUFFICES ASSUME LlmInv, [Next]_vars PROVE LlmInv'
  OBVIOUS
<1> USE DEF LlmInv
<1>1. CASE TaskEnds
  BY <1>1 DEF TaskEnds, Free, Done, TypeOK, ThinkingOnlyWhileEnabled, CutHasNoResult, CutNeverApplied,
     ReceiptsBeforeHorizon, LoopInv, Task
<1>2. CASE LoopBegins
  <2>1. CASE enabled /\ ~advisor
    BY <1>2, <2>1 DEF LoopBegins, government, TypeOK, ThinkingOnlyWhileEnabled, CutHasNoResult,
       CutNeverApplied, ReceiptsBeforeHorizon, LoopInv, Loops
  <2> QED
    BY <1>2, <2>1, LoopTopKeeps DEF LoopBegins
<1>3. CASE FrameSent
  BY <1>3, LoopTopKeeps DEF FrameSent
<1>4. CASE Prepared
  BY <1>4 DEF Prepared, Connects, TypeOK, ThinkingOnlyWhileEnabled, CutHasNoResult, CutNeverApplied,
     ReceiptsBeforeHorizon, LoopInv, Loops
<1>5. CASE ReceiptsSent
  <2>1. Slot(task, enabled)
    BY DEF TypeOK, ThinkingOnlyWhileEnabled, CutHasNoResult, Slot
  <2>2. CASE isRunning
    <3>1. week < MaxWeek /\ Step(task, enabled)
      BY <1>5, <2>2 DEF ReceiptsSent, ReceiptsBeforeHorizon
    <3>2. Slot(task', enabled) /\ week' \in 0 .. MaxWeek /\ loop' \in Loops
      BY <2>1, <3>1, StepKeepsSlot
    <3>3. loop' \in {"frame", "connect"} /\ (loop' = "connect" => ~advisor /\ enabled /\ Free(task'))
      BY <3>1 DEF Step, Due
    <3> QED
      BY <1>5, <3>2, <3>3 DEF ReceiptsSent, Slot, TypeOK, ThinkingOnlyWhileEnabled, CutHasNoResult,
         CutNeverApplied, ReceiptsBeforeHorizon, LoopInv
  <2>3. CASE ~isRunning
    BY <1>5, <2>3 DEF ReceiptsSent, TypeOK, ThinkingOnlyWhileEnabled, CutHasNoResult, CutNeverApplied,
       ReceiptsBeforeHorizon, LoopInv, Loops
  <2> QED
    BY <2>2, <2>3
<1>6. CASE ConnectedAtDueWeek
  <2>1. Asked(week) \in Task /\ Asked(week).pc = "thinking" /\ ~Asked(week).cut
    BY DEF Asked, Task, TypeOK
  <2>2. /\ ~advisor /\ loop' = "frame" /\ (isRunning \/ halting)
        /\ UNCHANGED <<week, lever, latest, queue, isRunning, halting>>
    BY <1>6 DEF ConnectedAtDueWeek, LoopInv
  <2>3. task.pc # "thinking"
    BY <2>2 DEF ThinkingOnlyWhileEnabled
  <2>4. \/ advisor' = TRUE /\ enabled' = enabled /\ task' = Asked(week)
        \/ advisor' = FALSE /\ enabled' = FALSE /\ task' = task
    BY <1>6 DEF ConnectedAtDueWeek, Connects
  <2>5. CASE advisor' = TRUE /\ enabled' = enabled /\ task' = Asked(week)
    <3>1. enabled
      BY <1>6 DEF ConnectedAtDueWeek, LoopInv
    <3> QED
      BY <2>1, <2>2, <2>5, <3>1 DEF TypeOK, ThinkingOnlyWhileEnabled, CutHasNoResult, CutNeverApplied,
         ReceiptsBeforeHorizon, LoopInv, Loops
  <2>6. CASE advisor' = FALSE /\ enabled' = FALSE /\ task' = task
    BY <2>2, <2>3, <2>6 DEF TypeOK, ThinkingOnlyWhileEnabled, CutHasNoResult, CutNeverApplied,
       ReceiptsBeforeHorizon, LoopInv, Loops
  <2> QED
    BY <2>4, <2>5, <2>6
<1>7. CASE LoopFails
  BY <1>7 DEF LoopFails, government, TypeOK, ThinkingOnlyWhileEnabled, CutHasNoResult,
     CutNeverApplied, ReceiptsBeforeHorizon, LoopInv, Loops
<1>8. CASE Stop
  BY <1>8 DEF Stop, government, TypeOK, ThinkingOnlyWhileEnabled, CutHasNoResult,
     CutNeverApplied, ReceiptsBeforeHorizon, LoopInv, Loops
<1>9. CASE WaitExpires
  BY <1>9 DEF WaitExpires, government, TypeOK, ThinkingOnlyWhileEnabled, CutHasNoResult,
     CutNeverApplied, ReceiptsBeforeHorizon, LoopInv, Loops
<1>10. CASE Start
  BY <1>10 DEF Start, government, TypeOK, ThinkingOnlyWhileEnabled, CutHasNoResult,
     CutNeverApplied, ReceiptsBeforeHorizon, LoopInv, Loops
<1>11. CASE Reset
  <2>1. queue' \in Seq(Configs) /\ Len(queue') <= MaxQueue
    BY <1>11 DEF Reset
  <2> QED
    BY <1>11, <2>1 DEF Reset, government, TypeOK, ThinkingOnlyWhileEnabled, CutHasNoResult,
       CutNeverApplied, ReceiptsBeforeHorizon, LoopInv, Loops
<1>12. CASE Setup
  <2>1. queue' \in Seq(Configs) /\ Len(queue') <= MaxQueue
    BY <1>12 DEF Setup
  <2>2. task' \in Task /\ latest' \in Decision /\ week' \in 0 .. MaxWeek
    BY <1>12, EmptySlots DEF Setup
  <2> QED
    BY <1>12, <2>1, <2>2 DEF Setup, TypeOK, ThinkingOnlyWhileEnabled, CutHasNoResult, CutNeverApplied,
       ReceiptsBeforeHorizon, LoopInv, Loops, NoTask, NoneYet, Setters
<1>13. CASE Halted
  <2>1. /\ lever' \in Setters /\ enabled' \in BOOLEAN /\ task' \in Task
        /\ ThinkingOnlyWhileEnabled' /\ CutHasNoResult'
    BY <1>13, ConfigsKeep DEF Halted, TypeOK
  <2>2. queue' \in Seq(Configs) /\ Len(queue') <= MaxQueue
    BY <1>13 DEF Halted
  <2> QED
    BY <1>13, <2>1, <2>2 DEF Halted, TypeOK, CutNeverApplied, ReceiptsBeforeHorizon, LoopInv
<1>14. ASSUME NEW g \in Configs, Config(g) PROVE LlmInv'
  <2>1. CASE isRunning
    <3>1. Append(queue, g) \in Seq(Configs) /\ Len(Append(queue, g)) = Len(queue) + 1
      BY <1>14 DEF TypeOK
    <3> QED
      BY <1>14, <2>1, <3>1 DEF Config, government, TypeOK, ThinkingOnlyWhileEnabled, CutHasNoResult,
         CutNeverApplied, ReceiptsBeforeHorizon, LoopInv
  <2>2. CASE ~isRunning
    <3>1. ApplyConfigs(<<g>>) /\ UNCHANGED <<advisor, latest, queue, week, isRunning, loop, halting>>
      BY <1>14, <2>2 DEF Config
    <3>2. /\ lever' \in Setters /\ enabled' \in BOOLEAN /\ task' \in Task
          /\ ThinkingOnlyWhileEnabled' /\ CutHasNoResult'
      <4>1. <<g>> \in Seq(Configs)
        OBVIOUS
      <4> HIDE DEF LlmInv
      <4> QED
        BY <3>1, <4>1, ConfigsKeep
    <3>3. loop = "off"
      BY <1>14, <2>2 DEF Config, LoopInv
    <3> QED
      BY <3>1, <3>2, <3>3 DEF TypeOK, CutNeverApplied, ReceiptsBeforeHorizon, LoopInv
  <2> QED
    BY <2>1, <2>2
<1>15. CASE UNCHANGED vars
  BY <1>15 DEF vars, government, TypeOK, ThinkingOnlyWhileEnabled, CutHasNoResult, CutNeverApplied,
     ReceiptsBeforeHorizon, LoopInv
<1> QED
  BY <1>1, <1>2, <1>3, <1>4, <1>5, <1>6, <1>7, <1>8,
     <1>9, <1>10, <1>11, <1>12, <1>13, <1>14, <1>15
     DEF Next

LEMMA SpecInv == Spec => []LlmInv
BY InitInv, NextInv, PTL DEF Spec

\* No call to the provider is under way for a government that is switched off, and no decision that
\* was being computed when it was switched off is ever applied.
THEOREM SwitchedOffIsOff == Spec => [](ThinkingOnlyWhileEnabled /\ CutNeverApplied)
<1>1. LlmInv => ThinkingOnlyWhileEnabled /\ CutNeverApplied
  BY DEF LlmInv
<1> QED
  BY <1>1, SpecInv, PTL

\* Every variable stays in its domain.
THEOREM LlmTypeCorrect == Spec => []TypeOK
<1>1. LlmInv => TypeOK
  BY DEF LlmInv
<1> QED
  BY <1>1, SpecInv, PTL
-----------------------------------------------------------------------------
(* What no step does *)

\* Every step is a boundary, or leaves the lever to CONFIG and SETUP and begins no receipts.
LEMMA LeverMoves ==
  ASSUME Next
  PROVE  \/ Boundary
         \/ lever' \in {lever, "user", "setup"} /\ (loop' = "receipts" => loop = "receipts")
<1>1. CASE LoopBegins \/ FrameSent
  BY <1>1 DEF LoopBegins, FrameSent, LoopTop, LoopEnds, HorizonReached, ApplyConfigs, LeverAfter, government
<1>2. CASE Prepared \/ ReceiptsSent \/ ConnectedAtDueWeek \/ LoopFails \/ TaskEnds
  BY <1>2 DEF Prepared, ReceiptsSent, ConnectedAtDueWeek, LoopFails, TaskEnds, government
<1>3. CASE Setup \/ Start \/ Reset \/ Stop \/ WaitExpires
  BY <1>3 DEF Setup, Start, Reset, Stop, WaitExpires, government
<1>4. CASE Halted
  BY <1>4 DEF Halted, ApplyConfigs, LeverAfter
<1>5. ASSUME NEW g \in Configs, Config(g)
      PROVE  lever' \in {lever, "user", "setup"} /\ (loop' = "receipts" => loop = "receipts")
  BY <1>5 DEF Config, ApplyConfigs, LeverAfter, government
<1> QED
  BY <1>1, <1>2, <1>3, <1>4, <1>5 DEF Next

\* The advisor moves the lever only while the government is on, on a result that came before.
THEOREM AdvisorOnlyWhileOn == Spec => OffMeansOff
<1> DEFINE Moves == lever' = "llm" /\ lever # "llm" => enabled /\ task.pc = "done"
<1>1. Next => Moves
  <2> SUFFICES ASSUME Next, lever' = "llm", lever # "llm" PROVE enabled /\ task.pc = "done"
    OBVIOUS
  <2>1. Boundary
    BY LeverMoves
  <2>2. PICK d \in Decided(task) : lever' = LeverAfter(queue, d.lever)
    BY <2>1 DEF Boundary
  <2>3. d.lever = "llm"
    BY <2>2 DEF LeverAfter
  <2>4. enabled
    BY <2>2, <2>3 DEF Decided
  <2>5. CASE task.pc = "failed"
    BY <2>2, <2>3, <2>4, <2>5 DEF Decided
  <2>6. CASE task.pc \notin {"done", "failed"}
    BY <2>2, <2>3, <2>4, <2>6 DEF Decided
  <2> QED
    BY <2>4, <2>5, <2>6
<1>2. [Next]_vars => [Moves]_vars
  BY <1>1
<1> QED
  BY <1>2, PTL DEF Spec, OffMeansOff

\* A CONFIG queued for a boundary has the last word there over a decision applied at it.
THEOREM ConfigHasTheLastWord == Spec => QueuedConfigWins
<1> DEFINE Wins == Holds(queue, "set") /\ loop' = "receipts" /\ loop # "receipts" => lever' = "user"
<1>1. Next => Wins
  <2> SUFFICES ASSUME Next, Holds(queue, "set"), loop' = "receipts", loop # "receipts" PROVE lever' = "user"
    OBVIOUS
  <2>1. Boundary
    BY LeverMoves
  <2> QED
    BY <2>1 DEF Boundary, LeverAfter
<1>2. [Next]_vars => [Wins]_vars
  BY <1>1
<1> QED
  BY <1>2, PTL DEF Spec, QueuedConfigWins

\* A call under way is never forgotten for a new one: only SETUP empties its slot.
THEOREM CallsAreKept == Spec => InFlightKept
<1> DEFINE Kept == task.pc \in {"thinking", "cancelling"} => task'.week = task.week \/ task' = NoTask
<1>1. LlmInv /\ Next => Kept
  <2> SUFFICES ASSUME LlmInv, Next, task.pc \in {"thinking", "cancelling"}
               PROVE  task'.week = task.week \/ task' = NoTask
    OBVIOUS
  <2>1. task \in Task /\ ~Done(task) /\ ~Free(task) /\ Collected(task) = task
    BY DEF LlmInv, TypeOK, Done, Free, Collected
  <2>2. \A cfgs : TaskAfter(cfgs, task).week = task.week
    BY <2>1 DEF TaskAfter, Task
  <2>3. \A on : Step(task, on) => task' = task
    BY <2>1 DEF Step
  <2>4. ASSUME LoopTop PROVE task'.week = task.week
    <3>1. CASE LoopEnds
      BY <3>1 DEF LoopEnds, government
    <3>2. CASE HorizonReached
      BY <2>2, <3>2 DEF HorizonReached, ApplyConfigs
    <3>3. CASE Boundary
      BY <2>1, <2>2, <2>3, <3>3 DEF Boundary
    <3> QED
      BY <2>4, <3>1, <3>2, <3>3 DEF LoopTop
  <2>5. CASE LoopBegins \/ FrameSent
    BY <2>4, <2>5 DEF LoopBegins, FrameSent, government
  <2>6. CASE TaskEnds
    BY <2>1, <2>6 DEF TaskEnds, Task
  <2>7. CASE ReceiptsSent
    BY <2>3, <2>7 DEF ReceiptsSent
  <2>8. CASE ConnectedAtDueWeek
    BY <2>1, <2>8 DEF ConnectedAtDueWeek, LlmInv, LoopInv
  <2>9. CASE Prepared \/ LoopFails \/ Start \/ Reset \/ Stop \/ WaitExpires
    BY <2>9 DEF Prepared, LoopFails, Start, Reset, Stop, WaitExpires, government
  <2>10. CASE Setup
    BY <2>10 DEF Setup
  <2>11. CASE Halted
    BY <2>2, <2>11 DEF Halted, ApplyConfigs
  <2>12. ASSUME NEW g \in Configs, Config(g) PROVE task'.week = task.week
    BY <2>2, <2>12 DEF Config, ApplyConfigs, government
  <2> QED
    BY <2>5, <2>6, <2>7, <2>8, <2>9, <2>10, <2>11, <2>12 DEF Next
<1>2. LlmInv /\ [Next]_vars => [Kept]_vars
  BY <1>1
<1> QED
  BY <1>2, SpecInv, PTL DEF Spec, InFlightKept
==============================================================================
