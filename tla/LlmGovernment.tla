--------------------------- MODULE LlmGovernment ---------------------------
(***************************************************************************)
(* The LLM government of a session (server.py): at due weeks the loop asks *)
(* an advisor, in a task of its own, for a decision on a copy of the       *)
(* economy; a later tick boundary collects the result and applies it.      *)
(* CONFIG switches the government on and off, or sets the lever itself,    *)
(* at a boundary or at once while the session is paused.                   *)
(*                                                                         *)
(*   loop  "off"      no loop task, or one that runs no more of its code   *)
(*         "new"      created, not run yet                                 *)
(*         "prepare"  connecting to the provider before the first tick     *)
(*         "receipts" sending the CONFIG receipts of a boundary            *)
(*         "connect"  connecting to the provider at a due week             *)
(*         "frame"    sending the tick frame, then sleeping                *)
(*   task  llm_task: "none", "thinking", "cancelling" (cancel() called,    *)
(*         not yet unwound), "done", "failed", "cancelled"                 *)
(*                                                                         *)
(* The lever is the name of the one who set it last.  A loop task that is  *)
(* cancelled runs none of this code again (Session, StaleLoopNeverTicks),  *)
(* so cancelling it makes it "off".  FINISH is a STOP and EXTEND a START   *)
(* here; a SETUP that fails leaves no economy, hence nothing to run.  The  *)
(* initial state is the one a SETUP leaves.                                *)
(* pending_llm_decision is filled and emptied within one segment, so it is *)
(* no variable.  llm_status and the decision's rows are left out.          *)
(***************************************************************************)
EXTENDS Integers, Sequences

CONSTANTS
  MaxWeek,    \* the week the horizon falls in, and the bound on the weeks
  StartWeek,  \* the first week a decision is due
  Interval,   \* government_decision_interval
  MaxQueue    \* bound on the CONFIGs queued at a time

ASSUME LlmAssumption ==
  /\ MaxWeek \in Nat /\ StartWeek \in Nat /\ MaxQueue \in Nat
  /\ Interval \in Nat \ {0}

VARIABLES
  week,       \* economy.current_tick
  lever,      \* who set the lever last
  enabled,    \* config.llm.enable_llm_government
  advisor,    \* llm_government is there
  task,       \* llm_task
  latest,     \* latest_government_decision
  queue,      \* pending_config_updates
  isRunning,  \* is_running
  loop,       \* the loop task
  halting     \* the handler waits for the loop in STOP

government == <<lever, enabled, advisor, task, latest>>
vars       == <<week, government, queue, isRunning, loop, halting>>

Configs == {"on", "off", "set"}
Setters == {"setup", "user", "llm"}
Loops   == {"off", "new", "prepare", "receipts", "connect", "frame"}

\* cut: the task was thinking when the government was switched off.
Task     == [pc : {"none", "thinking", "cancelling", "done", "failed", "cancelled"},
             week : 0 .. MaxWeek, cut : BOOLEAN]
NoTask   == [pc |-> "none", week |-> 0, cut |-> FALSE]
Decision == [status : {"none", "applied", "error"}, week : 0 .. MaxWeek, cut : BOOLEAN]
NoneYet  == [status |-> "none", week |-> 0, cut |-> FALSE]

Init ==
  /\ week = 0 /\ lever = "setup" /\ enabled \in BOOLEAN /\ advisor = FALSE
  /\ task = NoTask /\ latest = NoneYet
  /\ queue = <<>> /\ isRunning = FALSE /\ loop = "off" /\ halting = FALSE

-----------------------------------------------------------------------------
(* CONFIG *)

Holds(cfgs, c) == \E i \in DOMAIN cfgs : cfgs[i] = c

\* What a batch of CONFIGs leaves, applied in order: the last toggle counts.
EnabledAfter(cfgs) ==
  \/ enabled /\ ~Holds(cfgs, "off")
  \/ \E i \in DOMAIN cfgs : cfgs[i] = "on" /\ \A j \in DOMAIN cfgs : j > i => cfgs[j] # "off"

\* Mutant of LeverAfter: a decision of the same boundary is applied after the CONFIGs.
LeverDecidedLast(cfgs, l) == IF Holds(cfgs, "set") /\ l # "llm" THEN "user" ELSE l

LeverAfter(cfgs, l) == IF Holds(cfgs, "set") THEN "user" ELSE l

\* Mutant of TaskAfter: the task is not cancelled.
TaskUncancelled(cfgs, t) ==
  IF Holds(cfgs, "off") /\ t.pc = "thinking" THEN [t EXCEPT !.cut = TRUE] ELSE t

\* Switching off cancels a task that is not done.
TaskAfter(cfgs, t) ==
  IF Holds(cfgs, "off") /\ t.pc = "thinking" THEN [t EXCEPT !.pc = "cancelling", !.cut = TRUE] ELSE t

ApplyConfigs(cfgs) ==
  /\ lever' = LeverAfter(cfgs, lever)
  /\ enabled' = EnabledAfter(cfgs)
  /\ task' = TaskAfter(cfgs, task)

-----------------------------------------------------------------------------
(* The task *)

Done(t) == t.pc \in {"done", "failed", "cancelled"}

\* The provider answers, or the task raises, or it unwinds from a cancellation.
TaskEnds ==
  /\ \/ task.pc = "thinking" /\ \E pc \in {"done", "failed"} : task' = [task EXCEPT !.pc = pc]
     \/ task.pc = "cancelling" /\ task' = [task EXCEPT !.pc = "cancelled"]
  /\ UNCHANGED <<week, lever, enabled, advisor, latest, queue, isRunning, loop, halting>>

\* Mutant of Decided: whether the government is still on is not tested.
DecidedAnyway(t) ==
  CASE t.pc = "done"   -> {[lever |-> l, latest |-> [status |-> "applied", week |-> t.week, cut |-> t.cut]] :
                             l \in {lever, "llm"}}
    [] t.pc = "failed" -> {[lever |-> lever, latest |-> [status |-> "error", week |-> t.week, cut |-> t.cut]]}
    [] OTHER           -> {[lever |-> lever, latest |-> latest]}

\* What collecting t and applying its result leaves.  A decision may ask for no change, or one the
\* live government rejects; a failed task counts as a decision without changes.  The result is
\* dropped when the government was switched off meanwhile, and a cancelled task has none.
Decided(t) ==
  IF ~enabled THEN {[lever |-> lever, latest |-> latest]}
  ELSE CASE t.pc = "done"   -> {[lever |-> l, latest |-> [status |-> "applied", week |-> t.week, cut |-> t.cut]] :
                                  l \in {lever, "llm"}}
         [] t.pc = "failed" -> {[lever |-> lever, latest |-> [status |-> "error", week |-> t.week, cut |-> t.cut]]}
         [] OTHER           -> {[lever |-> lever, latest |-> latest]}

Collected(t) == IF Done(t) THEN NoTask ELSE t

-----------------------------------------------------------------------------
(* The loop *)

Due(w, on) == on /\ w >= StartWeek /\ (w - StartWeek) % Interval = 0

\* Mutant of Free: a task in flight is replaced.
AlwaysFree(t) == TRUE

\* The slot may take a new task: a task that is done counts as free, collected or not.
Free(t) == t.pc = "none" \/ Done(t)

\* Mutant of Asked: the snapshot is dated one week ahead.
AskedAhead(w) == [pc |-> "thinking", week |-> w + 1, cut |-> FALSE]

Asked(w) == [pc |-> "thinking", week |-> w, cut |-> FALSE]

\* economy.step(), then a new task if one is due; t and on are the slot and the switch by then.
Step(t, on) ==
  /\ week' = week + 1
  /\ IF Due(week + 1, on) /\ Free(t)
     THEN IF advisor THEN task' = Asked(week + 1) /\ loop' = "frame"
          ELSE task' = t /\ loop' = "connect"
     ELSE task' = t /\ loop' = "frame"

LoopEnds ==
  /\ ~isRunning
  /\ loop' = "off"
  /\ UNCHANGED <<week, government, queue, isRunning, halting>>

\* At the horizon queued CONFIGs apply, a finished task is not collected.
HorizonReached ==
  /\ isRunning /\ week = MaxWeek
  /\ isRunning' = FALSE /\ loop' = "off"
  /\ ApplyConfigs(queue) /\ queue' = <<>>
  /\ UNCHANGED <<week, advisor, latest, halting>>

\* A tick boundary: collect, apply, then the queued CONFIGs; without receipts to send, the tick.
Boundary ==
  /\ isRunning /\ week < MaxWeek
  /\ \E d \in Decided(task) : lever' = LeverAfter(queue, d.lever) /\ latest' = d.latest
  /\ enabled' = EnabledAfter(queue)
  /\ queue' = <<>>
  /\ IF queue = <<>>
     THEN Step(Collected(task), enabled)
     ELSE task' = TaskAfter(queue, Collected(task)) /\ loop' = "receipts" /\ UNCHANGED week
  /\ UNCHANGED <<advisor, isRunning, halting>>

LoopTop == LoopEnds \/ HorizonReached \/ Boundary

LoopBegins ==
  /\ loop = "new"
  /\ IF enabled /\ ~advisor
     THEN loop' = "prepare" /\ UNCHANGED <<week, government, queue, isRunning, halting>>
     ELSE LoopTop

\* _ensure_llm_government: without a provider the government is switched off.
Connects ==
  \/ advisor' = TRUE /\ UNCHANGED enabled
  \/ advisor' = FALSE /\ enabled' = FALSE

\* The wait for the provider ends; the loop condition is the next segment's.
Prepared ==
  /\ loop = "prepare"
  /\ Connects
  /\ loop' = "new"
  /\ UNCHANGED <<week, lever, task, latest, queue, isRunning, halting>>

ReceiptsSent ==
  /\ loop = "receipts"
  /\ IF isRunning THEN Step(task, enabled) ELSE loop' = "off" /\ UNCHANGED <<week, task>>
  /\ UNCHANGED <<lever, enabled, advisor, latest, queue, isRunning, halting>>

ConnectedAtDueWeek ==
  /\ loop = "connect"
  /\ Connects
  /\ task' = IF advisor' THEN Asked(week) ELSE task
  /\ loop' = "frame"
  /\ UNCHANGED <<week, lever, latest, queue, isRunning, halting>>

FrameSent == loop = "frame" /\ LoopTop

\* A tick or a send raises: the loop is over, the task and the queue stay.
LoopFails ==
  /\ loop \in {"receipts", "frame"}
  /\ isRunning' = FALSE /\ loop' = "off"
  /\ UNCHANGED <<week, government, queue, halting>>

-----------------------------------------------------------------------------
(* The command handler *)

\* initialize: a new economy, without the task, the advisor and the decision of the old one.
Setup ==
  /\ ~halting /\ ~isRunning
  /\ week' = 0 /\ lever' = "setup" /\ enabled' \in BOOLEAN /\ advisor' = FALSE
  /\ task' = NoTask /\ latest' = NoneYet /\ queue' = <<>>
  /\ loop' = "off"
  /\ UNCHANGED <<isRunning, halting>>

Start ==
  /\ ~halting /\ ~isRunning /\ loop = "off"
  /\ isRunning' = TRUE /\ loop' = "new"
  /\ UNCHANGED <<week, government, queue, halting>>

\* The lifecycle part of RESET; the economy, its advisor and its task are kept.
Reset ==
  /\ ~halting
  /\ isRunning' = FALSE /\ loop' = "off" /\ queue' = <<>>
  /\ UNCHANGED <<week, government, halting>>

\* Queued while the session runs, applied at once while it is paused.
Config(c) ==
  /\ ~halting
  /\ IF isRunning
     THEN Len(queue) < MaxQueue /\ queue' = Append(queue, c) /\ UNCHANGED government
     ELSE ApplyConfigs(<<c>>) /\ UNCHANGED <<advisor, latest, queue>>
  /\ UNCHANGED <<week, isRunning, loop, halting>>

Stop ==
  /\ ~halting
  /\ isRunning' = FALSE /\ halting' = TRUE
  /\ UNCHANGED <<week, government, queue, loop>>

\* The loop outlived the first wait of STOP and is cancelled.
WaitExpires ==
  /\ halting /\ loop # "off"
  /\ loop' = "off"
  /\ UNCHANGED <<week, government, queue, isRunning, halting>>

\* The loop is over: what is queued applies now.
Halted ==
  /\ halting /\ loop = "off"
  /\ halting' = FALSE
  /\ ApplyConfigs(queue) /\ queue' = <<>>
  /\ UNCHANGED <<week, advisor, latest, isRunning, loop>>

Next ==
  \/ TaskEnds
  \/ LoopBegins \/ Prepared \/ ReceiptsSent \/ ConnectedAtDueWeek \/ FrameSent \/ LoopFails
  \/ Setup \/ Start \/ Reset \/ Stop \/ WaitExpires \/ Halted
  \/ \E c \in Configs : Config(c)

Spec == Init /\ [][Next]_vars

-----------------------------------------------------------------------------
(* Properties *)

\* Every variable stays in its domain.
TypeOK ==
  /\ week \in 0 .. MaxWeek /\ lever \in Setters /\ enabled \in BOOLEAN /\ advisor \in BOOLEAN
  /\ task \in Task /\ latest \in Decision
  /\ queue \in Seq(Configs) /\ Len(queue) <= MaxQueue
  /\ isRunning \in BOOLEAN /\ loop \in Loops /\ halting \in BOOLEAN

\* No call to the provider is under way for a government that is switched off, whether CONFIG did it
\* at a boundary, while paused or behind a STOP, or the connection failed.
ThinkingOnlyWhileEnabled == task.pc = "thinking" => enabled /\ advisor

\* A decision that was being computed when the government was switched off is never applied, not
\* even after it is switched on again (_apply_config_updates cancels llm_task).
CutNeverApplied == ~latest.cut

\* The advisor moves the lever only while the government is on, on a result that came before.
OffMeansOff == [][lever' = "llm" /\ lever # "llm" => enabled /\ task.pc = "done"]_vars

\* A CONFIG queued for a boundary has the last word there over a decision applied at it.
QueuedConfigWins ==
  [][Holds(queue, "set") /\ loop' = "receipts" /\ loop # "receipts" => lever' = "user"]_vars

\* A call under way is never forgotten for a new one: only SETUP empties its slot.
InFlightKept ==
  [][task.pc \in {"thinking", "cancelling"} => task'.week = task.week \/ task' = NoTask]_vars

\* "A completed task moves into a pending slot" (openwiki/llm/government.md): a result leaves the
\* slot only by being collected, or with its economy, and not under a new task.
ResultsCollected == [][task.pc = "done" => task' \in {task, NoTask} \/ latest' # latest]_vars
==============================================================================
