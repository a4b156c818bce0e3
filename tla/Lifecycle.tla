------------------------------ MODULE Lifecycle ------------------------------
(***************************************************************************)
(* What one simulation session promises its client, with no tasks, queues  *)
(* or messages: a clock that advances by one week at a time only while it  *)
(* runs, never past its horizon and never after FINISH, until the run is   *)
(* resumed with weeks left, rewound or replaced.  Session implements it.   *)
(***************************************************************************)
EXTENDS Integers

CONSTANT MaxTick   \* bound on the horizon

VARIABLES
  mode,     \* "empty" (no economy), "idle", "running", "finished"
  tick,     \* weeks executed
  horizon   \* the week at which the clock stops; 0 for none

vars == <<mode, tick, horizon>>

Reached(h, t) == h # 0 /\ t >= h

Init == mode = "empty" /\ tick = 0 /\ horizon = 0

\* SETUP replaces the run while it does not run; START without one also starts the default run.
Build ==
  /\ mode # "running"
  /\ tick' = 0 /\ horizon' \in 0 .. MaxTick
  /\ \/ mode' = "idle"
     \/ mode = "empty" /\ horizon' = 0 /\ mode' = "running"

\* A SETUP that fails leaves nothing runnable.
Discard ==
  /\ mode # "running"
  /\ mode' = "empty" /\ tick' \in {0, tick} /\ horizon' \in 0 .. MaxTick

\* START and EXTEND.  A finished run goes on only if it has a week left.
Resume ==
  /\ mode # "empty" /\ mode' = "running"
  /\ \/ horizon' = horizon
     \/ horizon' \in tick + 1 .. MaxTick /\ horizon' > horizon
  /\ mode = "finished" => ~Reached(horizon', tick)
  /\ tick' = tick

\* One week; the session may stop in it, when the step raises.
Week ==
  /\ mode = "running" /\ ~Reached(horizon, tick)
  /\ tick' = tick + 1
  /\ mode' \in {"running", "idle"}
  /\ horizon' = horizon

Pause == mode = "running" /\ mode' = "idle" /\ UNCHANGED <<tick, horizon>>

Finish == mode # "empty" /\ mode' = "finished" /\ UNCHANGED <<tick, horizon>>

Rewind ==
  /\ tick' = 0 /\ horizon' = horizon
  /\ mode' = IF mode = "empty" THEN "empty" ELSE "idle"

Next == Build \/ Discard \/ Resume \/ Week \/ Pause \/ Finish \/ Rewind

Spec == Init /\ [][Next]_vars
==============================================================================
