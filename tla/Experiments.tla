----------------------------- MODULE Experiments -----------------------------
(***************************************************************************)
(* The two process-wide registries the sessions share: SessionRegistry     *)
(* (server.py), which admits WebSocket sessions, and ExperimentRegistry    *)
(* (experiments.py), which reserves the arms of matched comparisons.  A    *)
(* SETUP, a START without an economy and the end of a session change them  *)
(* in one segment without an await, so each is one action; a session is    *)
(* open between two awaits before its handler can clean up after it.       *)
(***************************************************************************)
EXTENDS Totals

CONSTANTS
  Sessions,      \* session ids
  Names,         \* experiment ids
  Labels,        \* arm labels
  Worlds,        \* world keys together with the experiment's owner
  ArmCounts,     \* the arm_count a SETUP may carry
  Sizes,         \* the num_households a SETUP may carry
  Budget,        \* HOUSEHOLD_BUDGET
  MaxArms,       \* MAX_ARMS
  MaxSessions    \* ECOSIM_MAX_SESSIONS

ASSUME ExperimentsAssumption ==
  /\ ArmCounts \subseteq Nat /\ Sizes \subseteq Nat
  /\ Budget \in Nat /\ MaxArms \in Nat /\ MaxSessions \in Nat \ {0}

VARIABLES
  sessions,     \* SessionRegistry.sessions
  conn,         \* "unused", "greeting", "open" or "gone", per session id
  experiments,  \* ExperimentRegistry._experiments
  bySession,    \* ExperimentRegistry._by_session
  arm,          \* per session, the arm its manager runs: experiment_id, arm_label and its SETUP
  economy       \* per session, whether it has an economy

regVars == <<experiments, bySession>>
vars    == <<sessions, conn, regVars, arm, economy>>

NoArm == [exp |-> "none"]

Request == [exp : Names, label : Labels, count : ArmCounts, size : Sizes, world : Worlds]

PerArmCap(count) == Budget \div (IF count > 1 THEN count ELSE 1)

Reserved(arms) == Total([l \in DOMAIN arms |-> arms[l].size])

Init ==
  /\ sessions = {} /\ conn = [s \in Sessions |-> "unused"]
  /\ experiments = <<>> /\ bySession = <<>>
  /\ arm = [s \in Sessions |-> NoArm] /\ economy = [s \in Sessions |-> FALSE]

-----------------------------------------------------------------------------
(* ExperimentRegistry: operations on reg = [exps, by] *)

Registry == [exps |-> experiments, by |-> bySession]

Without(f, k) == Restrict(f, DOMAIN f \ {k})
With(f, k, v) == [x \in DOMAIN f \cup {k} |-> IF x = k THEN v ELSE f[x]]

\* release: the reservation goes from both indexes, and the experiment with its last arm.
Release(reg, s) ==
  IF s \notin DOMAIN reg.by THEN reg
  ELSE LET e    == reg.by[s].exp
           left == Without(reg.exps[e].arms, reg.by[s].label)
       IN  [exps |-> IF left = <<>> THEN Without(reg.exps, e)
                     ELSE [reg.exps EXCEPT ![e].arms = left],
            by   |-> Without(reg.by, s)]

\* The record an arm joins: the experiment's, or a new one made for it.
RecordFor(reg, q) ==
  IF q.exp \in DOMAIN reg.exps THEN reg.exps[q.exp]
  ELSE [count |-> q.count, world |-> q.world, arms |-> <<>>]

\* Mutant of Admits: the per-arm cap is not checked.
AdmitsAnySize(reg, q) ==
  LET rec == RecordFor(reg, q)
  IN  /\ q.count \in 1 .. MaxArms
      /\ rec.count = q.count /\ rec.world = q.world
      /\ q.label \notin DOMAIN rec.arms
      /\ Cardinality(DOMAIN rec.arms) < rec.count
      /\ Reserved(rec.arms) + q.size <= Budget

\* Mutant of Admits: an arm may join an experiment created with another arm count.
AdmitsAnyCount(reg, q) ==
  LET rec == RecordFor(reg, q)
  IN  /\ q.count \in 1 .. MaxArms
      /\ q.size <= PerArmCap(q.count)
      /\ rec.world = q.world
      /\ q.label \notin DOMAIN rec.arms
      /\ Cardinality(DOMAIN rec.arms) < rec.count
      /\ Reserved(rec.arms) + q.size <= Budget

\* The checks of reserve, once the session's earlier reservation is released.
Admits(reg, q) ==
  LET rec == RecordFor(reg, q)
  IN  /\ q.count \in 1 .. MaxArms
      /\ q.size <= PerArmCap(q.count)
      /\ rec.count = q.count /\ rec.world = q.world
      /\ q.label \notin DOMAIN rec.arms
      /\ Cardinality(DOMAIN rec.arms) < rec.count
      /\ Reserved(rec.arms) + q.size <= Budget

\* reserve, when it admits q.
Joined(reg, s, q) ==
  LET rec  == RecordFor(reg, q)
      arms == With(rec.arms, q.label, [session |-> s, size |-> q.size])
  IN  [exps |-> With(reg.exps, q.exp, [rec EXCEPT !.arms = arms]),
       by   |-> With(reg.by, s, [exp |-> q.exp, label |-> q.label])]

SetRegistry(reg) == experiments' = reg.exps /\ bySession' = reg.by

-----------------------------------------------------------------------------
(* Sessions *)

\* open_session: refused when the registry is full.
OpenSession(s) ==
  /\ conn[s] = "unused"
  /\ Cardinality(sessions) < MaxSessions
  /\ sessions' = sessions \cup {s}
  /\ conn' = [conn EXCEPT ![s] = "greeting"]
  /\ UNCHANGED <<regVars, arm, economy>>

Greeted(s) ==
  /\ conn[s] = "greeting"
  /\ conn' = [conn EXCEPT ![s] = "open"]
  /\ UNCHANGED <<sessions, regVars, arm, economy>>

\* The client is gone when SESSION is sent: the send raises outside the handler's try block.
GreetingFails(s) ==
  /\ conn[s] = "greeting"
  /\ conn' = [conn EXCEPT ![s] = "gone"]
  /\ UNCHANGED <<sessions, regVars, arm, economy>>

\* What every SETUP does first, a refused one included: the session has no economy and no arm.
Discarded(s) == Release(Registry, s)

\* A SETUP without an experiment, or a START that builds the default economy.
SetupAlone(s) ==
  /\ conn[s] = "open"
  /\ SetRegistry(Discarded(s))
  /\ arm' = [arm EXCEPT ![s] = NoArm]
  /\ economy' = [economy EXCEPT ![s] = TRUE]
  /\ UNCHANGED <<sessions, conn>>

SetupArm(s, q) ==
  /\ conn[s] = "open"
  /\ Admits(Discarded(s), q)
  /\ SetRegistry(Joined(Discarded(s), s, q))
  /\ arm' = [arm EXCEPT ![s] = q]
  /\ economy' = [economy EXCEPT ![s] = TRUE]
  /\ UNCHANGED <<sessions, conn>>

\* Mutant of SetupArmFails: the reservation of an arm whose economy cannot be built is kept.
SetupArmFailsReserved(s, q) ==
  /\ conn[s] = "open"
  /\ LET reg == Discarded(s)
     IN  SetRegistry(IF Admits(reg, q) THEN Joined(reg, s, q) ELSE reg)
  /\ arm' = [arm EXCEPT ![s] = NoArm]
  /\ economy' = [economy EXCEPT ![s] = FALSE]
  /\ UNCHANGED <<sessions, conn>>

\* The SETUP of an arm is refused by the registry, or admitted and its economy cannot be built.
SetupArmFails(s, q) ==
  /\ conn[s] = "open"
  /\ LET reg == Discarded(s)
     IN  SetRegistry(IF Admits(reg, q) THEN Release(Joined(reg, s, q), s) ELSE reg)
  /\ arm' = [arm EXCEPT ![s] = NoArm]
  /\ economy' = [economy EXCEPT ![s] = FALSE]
  /\ UNCHANGED <<sessions, conn>>

\* close_session, after a disconnect or an exception of the handler.  The id is never used again; it
\* stands for a fresh one afterwards.
CloseSession(s) ==
  /\ conn[s] = "open"
  /\ conn' = [conn EXCEPT ![s] = "unused"]
  /\ sessions' = sessions \ {s}
  /\ SetRegistry(Discarded(s))
  /\ arm' = [arm EXCEPT ![s] = NoArm]
  /\ economy' = [economy EXCEPT ![s] = FALSE]

Next ==
  \E s \in Sessions :
    \/ OpenSession(s) \/ Greeted(s) \/ GreetingFails(s)
    \/ SetupAlone(s)
    \/ \E q \in Request : SetupArm(s, q) \/ SetupArmFails(s, q)
    \/ CloseSession(s)

Spec == Init /\ [][Next]_vars

-----------------------------------------------------------------------------
(* Properties *)

TypeOK ==
  /\ sessions \subseteq Sessions
  /\ conn \in [Sessions -> {"unused", "greeting", "open", "gone"}]
  /\ DOMAIN experiments \subseteq Names
  /\ \A e \in DOMAIN experiments :
        /\ experiments[e].count \in 1 .. MaxArms /\ experiments[e].world \in Worlds
        /\ DOMAIN experiments[e].arms \in (SUBSET Labels) \ {{}}
        /\ \A l \in DOMAIN experiments[e].arms : experiments[e].arms[l] \in [session : Sessions, size : Sizes]
  /\ DOMAIN bySession \subseteq Sessions
  /\ \A s \in DOMAIN bySession : bySession[s] \in [exp : Names, label : Labels]
  /\ \A s \in Sessions : arm[s] = NoArm \/ arm[s] \in Request
  /\ economy \in [Sessions -> BOOLEAN]

Live(s) == s \in sessions /\ economy[s]

\* The registry and the sessions agree: a reservation exists exactly for a live session that runs the
\* arm, and both indexes name it.  A SETUP refused or failing at any point, a SETUP that replaces an
\* arm and the end of a session leave no arm blocked (comments in _initialize_scoped).
ReservedIffRunning ==
  /\ TypeOK
  /\ \A s \in Sessions : s \in DOMAIN bySession <=> Live(s) /\ arm[s] # NoArm
  /\ \A s \in DOMAIN bySession :
        /\ bySession[s] = [exp |-> arm[s].exp, label |-> arm[s].label]
        /\ bySession[s].exp \in DOMAIN experiments
        /\ bySession[s].label \in DOMAIN experiments[bySession[s].exp].arms
  /\ \A e \in DOMAIN experiments : \A l \in DOMAIN experiments[e].arms :
        LET s == experiments[e].arms[l].session
        IN  s \in DOMAIN bySession /\ bySession[s] = [exp |-> e, label |-> l]

\* An experiment has room for every arm it was created for, at full size: no arm that respects the
\* per-arm cap is ever refused for the household budget, in whatever order arms come, leave and return.
RoomForEveryArm ==
  \A e \in DOMAIN experiments :
     LET rec == experiments[e]
     IN  Reserved(rec.arms) + (rec.count - Cardinality(DOMAIN rec.arms)) * PerArmCap(rec.count) <= Budget

\* The running arms of one experiment are comparable: same world, owner and arm count, distinct labels.
ArmsMatched ==
  \A s, t \in Sessions :
     s # t /\ Live(s) /\ Live(t) /\ arm[s] # NoArm /\ arm[t] # NoArm /\ arm[s].exp = arm[t].exp =>
        arm[s].world = arm[t].world /\ arm[s].count = arm[t].count /\ arm[s].label # arm[t].label

==============================================================================
