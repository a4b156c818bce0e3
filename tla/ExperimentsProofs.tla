-------------------------- MODULE ExperimentsProofs --------------------------
(***************************************************************************)
(* What TLAPS proves of Experiments, for any number of sessions,           *)
(* experiments and labels and any budget: the two indexes of the registry, *)
(* the sessions and the arms they run agree, running arms are comparable,  *)
(* and an experiment always has room for every arm it was created for.     *)
(***************************************************************************)
EXTENDS Experiments, TotalsProofs

USE ExperimentsAssumption

-----------------------------------------------------------------------------
(* The registry *)

ArmRecord == [session : Sessions, size : Sizes]

\* One experiment: the arms it has, and what they have in common.
ExperimentOK(x) ==
  /\ x \in [count : 1 .. MaxArms, world : Worlds, arms : UNION {[L -> ArmRecord] : L \in SUBSET Labels}]
  /\ DOMAIN x.arms # {}

\* The two indexes are inverse to each other.
RegistryOK(reg) ==
  /\ DOMAIN reg.exps \subseteq Names /\ DOMAIN reg.by \subseteq Sessions
  /\ \A e \in DOMAIN reg.exps : ExperimentOK(reg.exps[e])
  /\ \A s \in DOMAIN reg.by :
        /\ reg.by[s] \in [exp : Names, label : Labels]
        /\ reg.by[s].exp \in DOMAIN reg.exps
        /\ reg.by[s].label \in DOMAIN reg.exps[reg.by[s].exp].arms
        /\ reg.exps[reg.by[s].exp].arms[reg.by[s].label].session = s
  /\ \A e \in DOMAIN reg.exps : \A l \in DOMAIN reg.exps[e].arms :
        /\ reg.exps[e].arms[l].session \in DOMAIN reg.by
        /\ reg.by[reg.exps[e].arms[l].session] = [exp |-> e, label |-> l]

\* new is reg but for the arm of session s: whatever experiment is in both has kept its terms.
Otherwise(reg, new, s) ==
  /\ DOMAIN new.by \ {s} = DOMAIN reg.by \ {s}
  /\ \A t \in DOMAIN reg.by \ {s} : new.by[t] = reg.by[t]
  /\ \A e \in DOMAIN new.exps \cap DOMAIN reg.exps :
        new.exps[e].count = reg.exps[e].count /\ new.exps[e].world = reg.exps[e].world

\* An experiment from which an arm is taken.
LEMMA ArmTaken ==
  ASSUME NEW x, ExperimentOK(x), NEW l
  PROVE  LET left == Without(x.arms, l)
         IN  /\ DOMAIN left = DOMAIN x.arms \ {l}
             /\ \A k \in DOMAIN left : left[k] = x.arms[k]
             /\ left # <<>> => ExperimentOK([count |-> x.count, world |-> x.world, arms |-> left])
<1> DEFINE left == Without(x.arms, l)
<1>1. /\ DOMAIN left = DOMAIN x.arms \ {l}
      /\ \A k \in DOMAIN left : left[k] = x.arms[k]
  BY DEF Without, Restrict
<1>2. DOMAIN x.arms \subseteq Labels /\ \A k \in DOMAIN x.arms : x.arms[k] \in ArmRecord
  BY DEF ExperimentOK
<1>3. left \in [DOMAIN left -> ArmRecord] /\ DOMAIN left \in SUBSET Labels
  BY <1>1, <1>2 DEF Without, Restrict
<1>4. left # <<>> => DOMAIN left # {}
  BY <1>1 DEF Without, Restrict
<1>5. left \in UNION {[L -> ArmRecord] : L \in SUBSET Labels}
  BY <1>3
<1>6. x.count \in 1 .. MaxArms /\ x.world \in Worlds
  BY DEF ExperimentOK
<1> HIDE DEF left
<1>7. left # <<>> => ExperimentOK([count |-> x.count, world |-> x.world, arms |-> left])
  BY <1>4, <1>5, <1>6 DEF ExperimentOK
<1> QED
  BY <1>1, <1>7 DEF left

\* Setting the arms of an experiment is building its record anew.
LEMMA ArmsSet ==
  ASSUME NEW x, ExperimentOK(x), NEW arms
  PROVE  [x EXCEPT !.arms = arms] = [count |-> x.count, world |-> x.world, arms |-> arms]
BY DEF ExperimentOK

\* release keeps the indexes inverse, takes the session out and leaves everybody else alone.
LEMMA ReleaseKeeps ==
  ASSUME NEW reg, RegistryOK(reg), NEW s \in Sessions
  PROVE  /\ RegistryOK(Release(reg, s))
         /\ s \notin DOMAIN Release(reg, s).by
         /\ Otherwise(reg, Release(reg, s), s)
         /\ DOMAIN Release(reg, s).exps \subseteq DOMAIN reg.exps
<1>1. CASE s \notin DOMAIN reg.by
  BY <1>1 DEF Release, Otherwise
<1>2. CASE s \in DOMAIN reg.by
  <2> DEFINE e    == reg.by[s].exp
             l    == reg.by[s].label
             left == Without(reg.exps[e].arms, l)
             y    == [count |-> reg.exps[e].count, world |-> reg.exps[e].world, arms |-> left]
             exps == IF left = <<>> THEN Without(reg.exps, e) ELSE [reg.exps EXCEPT ![e] = y]
             by   == Without(reg.by, s)
  <2>1. e \in DOMAIN reg.exps /\ l \in DOMAIN reg.exps[e].arms /\ ExperimentOK(reg.exps[e])
    BY <1>2 DEF RegistryOK
  <2>2. /\ DOMAIN by = DOMAIN reg.by \ {s}
        /\ \A t \in DOMAIN by : by[t] = reg.by[t]
    BY DEF Without, Restrict
  <2>3. Release(reg, s).exps = exps /\ Release(reg, s).by = by
    <3>1. [reg.exps[e] EXCEPT !.arms = left] = y
      BY <2>1, ArmsSet
    <3>2. [reg.exps EXCEPT ![e].arms = left] = [reg.exps EXCEPT ![e] = y]
      BY <3>1
    <3> QED
      BY <1>2, <3>2 DEF Release
  <2>4. /\ DOMAIN left = DOMAIN reg.exps[e].arms \ {l}
        /\ \A k \in DOMAIN left : left[k] = reg.exps[e].arms[k]
        /\ left # <<>> => ExperimentOK(y)
        /\ y.arms = left /\ y.count = reg.exps[e].count /\ y.world = reg.exps[e].world
    BY <2>1, ArmTaken
  <2>5. left = <<>> => DOMAIN left = {}
    OBVIOUS
  <2> HIDE DEF left, y
  <2>6. /\ DOMAIN exps = IF left = <<>> THEN DOMAIN reg.exps \ {e} ELSE DOMAIN reg.exps
        /\ \A x \in DOMAIN exps : x # e => exps[x] = reg.exps[x]
        /\ e \in DOMAIN exps => left # <<>> /\ exps[e] = y
    <3>1. CASE left = <<>>
      BY <3>1, <2>1 DEF Without, Restrict
    <3>2. CASE left # <<>>
      BY <3>2, <2>1
    <3> QED
      BY <3>1, <3>2
  <2> HIDE DEF exps, by, e, l
  \* The arm taken is the only one of s.
  <2>7. \A x \in DOMAIN exps : \A k \in DOMAIN exps[x].arms :
          /\ k \in DOMAIN reg.exps[x].arms /\ exps[x].arms[k] = reg.exps[x].arms[k]
          /\ ~(x = e /\ k = l)
    BY <2>4, <2>6
  <2>8. \A x \in DOMAIN exps : \A k \in DOMAIN exps[x].arms :
          /\ exps[x].arms[k].session \in DOMAIN by
          /\ by[exps[x].arms[k].session] = [exp |-> x, label |-> k]
    <3> SUFFICES ASSUME NEW x \in DOMAIN exps, NEW k \in DOMAIN exps[x].arms
                 PROVE  /\ exps[x].arms[k].session \in DOMAIN by
                        /\ by[exps[x].arms[k].session] = [exp |-> x, label |-> k]
      OBVIOUS
    <3>1. x \in DOMAIN reg.exps
      BY <2>6
    <3>2. /\ exps[x].arms[k].session \in DOMAIN reg.by
          /\ reg.by[exps[x].arms[k].session] = [exp |-> x, label |-> k]
      BY <3>1, <2>7 DEF RegistryOK
    <3>3. exps[x].arms[k].session # s
      BY <3>2, <2>7 DEF e, l
    <3> QED
      BY <3>2, <3>3, <2>2
  <2>9. \A t \in DOMAIN by : /\ by[t] \in [exp : Names, label : Labels]
                             /\ by[t].exp \in DOMAIN exps /\ by[t].label \in DOMAIN exps[by[t].exp].arms
                             /\ exps[by[t].exp].arms[by[t].label].session = t
    <3> SUFFICES ASSUME NEW t \in DOMAIN by
                 PROVE  /\ by[t] \in [exp : Names, label : Labels]
                        /\ by[t].exp \in DOMAIN exps /\ by[t].label \in DOMAIN exps[by[t].exp].arms
                        /\ exps[by[t].exp].arms[by[t].label].session = t
      OBVIOUS
    <3>1. /\ reg.by[t] \in [exp : Names, label : Labels] /\ by[t] = reg.by[t] /\ t # s
          /\ reg.by[t].exp \in DOMAIN reg.exps /\ reg.by[t].label \in DOMAIN reg.exps[reg.by[t].exp].arms
          /\ reg.exps[reg.by[t].exp].arms[reg.by[t].label].session = t
      BY <2>2 DEF RegistryOK
    <3>2. CASE by[t].exp # e
      BY <3>1, <3>2, <2>6
    <3>3. CASE by[t].exp = e
      <4>1. by[t].label # l
        <5>1. reg.exps[e].arms[l].session = s /\ reg.exps[reg.by[t].exp].arms[reg.by[t].label].session = t
          BY <1>2, <2>2 DEF RegistryOK, e, l
        <5> QED
          BY <5>1, <3>1, <3>3
      <4> QED
        BY <3>1, <3>3, <4>1, <2>4, <2>5, <2>6
    <3> QED
      BY <3>2, <3>3
  <2> QED
    <3>1. PICK new : new = Release(reg, s)
      OBVIOUS
    <3>2. new.exps = exps /\ new.by = by
      BY <2>3, <3>1
    <3>3. RegistryOK(new)
      <4>1. \A x \in DOMAIN exps : ExperimentOK(exps[x])
        BY <2>4, <2>6 DEF RegistryOK
      <4> QED
        <5>1. DOMAIN exps \subseteq Names /\ DOMAIN by \subseteq Sessions
          BY <2>2, <2>6 DEF RegistryOK
        <5> QED
          BY <3>2, <4>1, <5>1, <2>8, <2>9 DEF RegistryOK
    <3>4. s \notin DOMAIN new.by
      BY <2>2, <3>2
    <3>5. DOMAIN new.exps \subseteq DOMAIN reg.exps
      BY <2>6, <3>2
    <3>6. Otherwise(reg, new, s)
      <4>1. DOMAIN new.by \ {s} = DOMAIN reg.by \ {s} /\ \A t \in DOMAIN reg.by \ {s} : new.by[t] = reg.by[t]
        BY <2>2, <3>2
      <4>2. \A x \in DOMAIN exps \cap DOMAIN reg.exps :
              exps[x].count = reg.exps[x].count /\ exps[x].world = reg.exps[x].world
        BY <2>4, <2>6 DEF e
      <4> QED
        BY <3>2, <4>1, <4>2 DEF Otherwise
    <3> QED
      BY <3>1, <3>3, <3>4, <3>5, <3>6
<1> QED
  BY <1>1, <1>2

\* reserve, of a session that has no arm, for an arm it admits: the same, and the experiment is of
\* the terms the session asked for.
LEMMA JoinKeeps ==
  ASSUME NEW reg, RegistryOK(reg), NEW s \in Sessions, s \notin DOMAIN reg.by,
         NEW q \in Request, Admits(reg, q)
  PROVE  LET new == Joined(reg, s, q)
         IN  /\ RegistryOK(new) /\ Otherwise(reg, new, s)
             /\ s \in DOMAIN new.by /\ new.by[s] = [exp |-> q.exp, label |-> q.label]
             /\ q.exp \in DOMAIN new.exps
             /\ new.exps[q.exp].count = q.count /\ new.exps[q.exp].world = q.world
             /\ DOMAIN reg.exps \subseteq DOMAIN new.exps
<1> DEFINE rec  == RecordFor(reg, q)
           mine == [session |-> s, size |-> q.size]
           arms == With(rec.arms, q.label, mine)
           y    == [count |-> q.count, world |-> q.world, arms |-> arms]
           exps == With(reg.exps, q.exp, y)
           by   == With(reg.by, s, [exp |-> q.exp, label |-> q.label])
<1>1. q.exp \in Names /\ q.label \in Labels /\ q.size \in Sizes /\ q.world \in Worlds
  BY DEF Request
<1>2. /\ q.count \in 1 .. MaxArms /\ rec.count = q.count /\ rec.world = q.world
      /\ q.label \notin DOMAIN rec.arms
  BY DEF Admits
<1>3. /\ rec.arms \in [DOMAIN rec.arms -> ArmRecord] /\ DOMAIN rec.arms \subseteq Labels
      /\ rec = [count |-> rec.count, world |-> rec.world, arms |-> rec.arms]
  <2>1. CASE q.exp \in DOMAIN reg.exps
    <3>1. rec = reg.exps[q.exp] /\ ExperimentOK(rec)
      BY <2>1 DEF RecordFor, RegistryOK
    <3> HIDE DEF rec
    <3> QED
      BY <3>1 DEF ExperimentOK
  <2>2. CASE q.exp \notin DOMAIN reg.exps
    BY <2>2 DEF RecordFor
  <2> QED
    BY <2>1, <2>2
<1>4. q.exp \in DOMAIN reg.exps => rec = reg.exps[q.exp]
  BY DEF RecordFor
<1>5. q.exp \notin DOMAIN reg.exps => DOMAIN rec.arms = {}
  BY DEF RecordFor
<1>6. mine \in ArmRecord /\ mine.session = s
  BY <1>1 DEF ArmRecord
<1> HIDE DEF rec, mine
<1>7. /\ DOMAIN arms = {q.label} \cup DOMAIN rec.arms
      /\ arms[q.label] = mine
      /\ \A l \in DOMAIN rec.arms : arms[l] = rec.arms[l]
      /\ arms \in [DOMAIN arms -> ArmRecord]
  <2>1. /\ DOMAIN arms = {q.label} \cup DOMAIN rec.arms /\ arms[q.label] = mine
        /\ \A l \in DOMAIN rec.arms \ {q.label} : arms[l] = rec.arms[l]
        /\ arms = [l \in DOMAIN arms |-> arms[l]]
    BY DEF With
  <2> HIDE DEF arms
  <2> QED
    BY <2>1, <1>2, <1>3, <1>6
<1>8. Joined(reg, s, q).exps = exps /\ Joined(reg, s, q).by = by
  <2>1. [rec EXCEPT !.arms = arms] = y
    BY <1>2, <1>3
  <2> QED
    BY <2>1 DEF Joined, rec, mine
<1> HIDE DEF arms
<1>9. ExperimentOK(y) /\ y.count = q.count /\ y.world = q.world /\ y.arms = arms
  <2>1. arms \in UNION {[L -> ArmRecord] : L \in SUBSET Labels}
    BY <1>1, <1>3, <1>7
  <2> QED
    BY <2>1, <1>1, <1>2, <1>7 DEF ExperimentOK
<1> HIDE DEF y
<1>10. /\ DOMAIN exps = {q.exp} \cup DOMAIN reg.exps /\ exps[q.exp] = y
       /\ \A e \in DOMAIN reg.exps \ {q.exp} : exps[e] = reg.exps[e]
  BY DEF With
<1>11. /\ DOMAIN by = {s} \cup DOMAIN reg.by /\ by[s] = [exp |-> q.exp, label |-> q.label]
       /\ \A t \in DOMAIN reg.by : by[t] = reg.by[t]
  BY DEF With
<1> HIDE DEF exps, by
<1>12. \A t \in DOMAIN by :
         /\ by[t] \in [exp : Names, label : Labels]
         /\ by[t].exp \in DOMAIN exps /\ by[t].label \in DOMAIN exps[by[t].exp].arms
         /\ exps[by[t].exp].arms[by[t].label].session = t
  <2>1. ASSUME NEW t \in DOMAIN reg.by
        PROVE  /\ by[t] \in [exp : Names, label : Labels]
               /\ by[t].exp \in DOMAIN exps /\ by[t].label \in DOMAIN exps[by[t].exp].arms
               /\ exps[by[t].exp].arms[by[t].label].session = t
    <3>1. /\ by[t] = reg.by[t] /\ by[t] \in [exp : Names, label : Labels]
          /\ by[t].exp \in DOMAIN reg.exps /\ by[t].label \in DOMAIN reg.exps[by[t].exp].arms
          /\ reg.exps[by[t].exp].arms[by[t].label].session = t
      BY <1>11 DEF RegistryOK
    <3>2. CASE by[t].exp = q.exp
      BY <3>1, <3>2, <1>4, <1>7, <1>9, <1>10
    <3>3. CASE by[t].exp # q.exp
      BY <3>1, <3>3, <1>10
    <3> QED
      BY <3>2, <3>3
  <2>2. /\ by[s] \in [exp : Names, label : Labels]
        /\ by[s].exp \in DOMAIN exps /\ by[s].label \in DOMAIN exps[by[s].exp].arms
        /\ exps[by[s].exp].arms[by[s].label].session = s
    BY <1>1, <1>6, <1>7, <1>9, <1>10, <1>11
  <2> QED
    BY <2>1, <2>2, <1>11
<1>13. \A e \in DOMAIN exps : \A l \in DOMAIN exps[e].arms :
         exps[e].arms[l].session \in DOMAIN by /\ by[exps[e].arms[l].session] = [exp |-> e, label |-> l]
  <2> SUFFICES ASSUME NEW e \in DOMAIN exps, NEW l \in DOMAIN exps[e].arms
               PROVE  /\ exps[e].arms[l].session \in DOMAIN by
                      /\ by[exps[e].arms[l].session] = [exp |-> e, label |-> l]
    OBVIOUS
  <2>1. CASE e = q.exp /\ l = q.label
    BY <2>1, <1>6, <1>7, <1>9, <1>10, <1>11
  <2>2. CASE ~(e = q.exp /\ l = q.label)
    <3>1. e \in DOMAIN reg.exps /\ l \in DOMAIN reg.exps[e].arms /\ exps[e].arms[l] = reg.exps[e].arms[l]
      BY <2>2, <1>4, <1>5, <1>7, <1>9, <1>10
    <3>2. /\ reg.exps[e].arms[l].session \in DOMAIN reg.by
          /\ reg.by[reg.exps[e].arms[l].session] = [exp |-> e, label |-> l]
      BY <3>1 DEF RegistryOK
    <3> QED
      BY <3>1, <3>2, <1>11
  <2> QED
    BY <2>1, <2>2
<1>14. \A e \in DOMAIN exps : ExperimentOK(exps[e])
  BY <1>9, <1>10 DEF RegistryOK
<1>15. DOMAIN exps \subseteq Names /\ DOMAIN by \subseteq Sessions
  BY <1>1, <1>10, <1>11 DEF RegistryOK
<1>16. RegistryOK(Joined(reg, s, q))
  BY <1>8, <1>12, <1>13, <1>14, <1>15 DEF RegistryOK
<1>17. \A e \in DOMAIN reg.exps : exps[e].count = reg.exps[e].count /\ exps[e].world = reg.exps[e].world
  BY <1>2, <1>4, <1>9, <1>10
<1> QED
  BY <1>8, <1>9, <1>10, <1>11, <1>16, <1>17 DEF Otherwise

-----------------------------------------------------------------------------
(* The sessions *)

SessionsOK ==
  /\ sessions \subseteq Sessions
  /\ conn \in [Sessions -> {"unused", "greeting", "open", "gone"}]
  /\ arm \in [Sessions -> Request \cup {NoArm}] /\ economy \in [Sessions -> BOOLEAN]
  /\ \A s \in Sessions : /\ conn[s] \in {"greeting", "open"} => s \in sessions
                         /\ conn[s] # "open" => ~economy[s]

\* A session holds an arm exactly when it runs it, on the terms of the experiment.
LinkedTo(reg, s) ==
  /\ s \in DOMAIN reg.by <=> economy[s] /\ arm[s] # NoArm
  /\ s \in DOMAIN reg.by =>
       /\ reg.by[s] = [exp |-> arm[s].exp, label |-> arm[s].label]
       /\ reg.exps[arm[s].exp].count = arm[s].count /\ reg.exps[arm[s].exp].world = arm[s].world

ExperimentsInv ==
  /\ RegistryOK(Registry) /\ SessionsOK
  /\ \A s \in Sessions : LinkedTo(Registry, s)

LEMMA NoArmIsNoRequest == NoArm \notin Request
<1>1. "count" \notin DOMAIN NoArm
  BY DEF NoArm
<1>2. \A q \in Request : "count" \in DOMAIN q
  BY DEF Request
<1> QED
  BY <1>1, <1>2

\* What a session does to the registry leaves the arms of the others theirs.
LEMMA OthersKeepTheirs ==
  ASSUME NEW reg, RegistryOK(reg), NEW new, RegistryOK(new), NEW s \in Sessions,
         Otherwise(reg, new, s), \A t \in Sessions \ {s} : LinkedTo(reg, t)
  PROVE  \A t \in Sessions \ {s} : LinkedTo(new, t)
<1> SUFFICES ASSUME NEW t \in Sessions \ {s} PROVE LinkedTo(new, t)
  OBVIOUS
<1>1. t \in DOMAIN new.by <=> t \in DOMAIN reg.by
  BY DEF Otherwise
<1>2. CASE t \in DOMAIN reg.by
  <2>1. new.by[t] = reg.by[t] /\ reg.by[t] = [exp |-> arm[t].exp, label |-> arm[t].label]
    BY <1>2 DEF Otherwise, LinkedTo
  <2>2. arm[t].exp \in DOMAIN reg.exps /\ arm[t].exp \in DOMAIN new.exps
    <3>1. reg.by[t].exp \in DOMAIN reg.exps
      BY <1>2 DEF RegistryOK
    <3>2. new.by[t].exp \in DOMAIN new.exps
      BY <1>1, <1>2 DEF RegistryOK
    <3>3. reg.by[t].exp = arm[t].exp /\ new.by[t].exp = arm[t].exp
      BY <2>1
    <3> QED
      BY <3>1, <3>2, <3>3
  <2> QED
    BY <1>1, <1>2, <2>1, <2>2 DEF Otherwise, LinkedTo
<1>3. CASE t \notin DOMAIN reg.by
  BY <1>1, <1>3 DEF LinkedTo
<1> QED
  BY <1>2, <1>3

\* The first thing a SETUP does.
LEMMA DiscardKeeps ==
  ASSUME ExperimentsInv, NEW s \in Sessions
  PROVE  /\ RegistryOK(Discarded(s)) /\ s \notin DOMAIN Discarded(s).by
         /\ \A t \in Sessions \ {s} : LinkedTo(Discarded(s), t)
<1>1. RegistryOK(Registry) /\ \A t \in Sessions \ {s} : LinkedTo(Registry, t)
  BY DEF ExperimentsInv
<1>2. /\ RegistryOK(Discarded(s)) /\ s \notin DOMAIN Discarded(s).by
      /\ Otherwise(Registry, Discarded(s), s)
  BY <1>1, ReleaseKeeps DEF Discarded
<1> HIDE DEF Discarded
<1> QED
  BY <1>1, <1>2, OthersKeepTheirs

\* A step of session s that sets the registry to reg.
LEMMA StepKeeps ==
  ASSUME NEW s \in Sessions, NEW reg, RegistryOK(reg), SetRegistry(reg),
         \A t \in Sessions \ {s} : LinkedTo(reg, t),
         \A t \in Sessions \ {s} : arm'[t] = arm[t] /\ economy'[t] = economy[t],
         SessionsOK', LinkedTo(Registry, s)'
  PROVE  ExperimentsInv'
<1>1. experiments' = reg.exps /\ bySession' = reg.by
  BY DEF SetRegistry
<1>2. RegistryOK(Registry)'
  BY <1>1, ZenonT(60) DEF RegistryOK, Registry
<1>3. \A t \in Sessions \ {s} : LinkedTo(Registry, t)'
  BY <1>1 DEF LinkedTo, Registry
<1> QED
  BY <1>2, <1>3 DEF ExperimentsInv

\* The invariant holds at the beginning and is kept by every step.
LEMMA InvInit == Init => ExperimentsInv
<1> SUFFICES ASSUME Init PROVE ExperimentsInv
  OBVIOUS
<1>1. DOMAIN experiments = {} /\ DOMAIN bySession = {}
  BY DEF Init
<1>2. RegistryOK(Registry)
  BY <1>1 DEF RegistryOK, Registry
<1>3. SessionsOK
  BY DEF SessionsOK, Init
<1>4. \A s \in Sessions : LinkedTo(Registry, s)
  BY <1>1 DEF LinkedTo, Registry, Init
<1> QED
  BY <1>2, <1>3, <1>4 DEF ExperimentsInv

LEMMA InvStep == ExperimentsInv /\ [Next]_vars => ExperimentsInv'
<1> SUFFICES ASSUME ExperimentsInv, [Next]_vars PROVE ExperimentsInv'
  OBVIOUS
<1>0. SessionsOK
  BY DEF ExperimentsInv
<1>1. ASSUME UNCHANGED <<regVars, arm, economy>>, SessionsOK' PROVE ExperimentsInv'
  BY <1>1 DEF ExperimentsInv, RegistryOK, Registry, LinkedTo, regVars
<1>2. ASSUME NEW s \in Sessions, OpenSession(s) \/ Greeted(s) \/ GreetingFails(s) PROVE ExperimentsInv'
  <2>1. SessionsOK'
    <3>1. CASE OpenSession(s)
      BY <1>0, <3>1 DEF SessionsOK, OpenSession
    <3>2. CASE Greeted(s)
      BY <1>0, <3>2 DEF SessionsOK, Greeted
    <3>3. CASE GreetingFails(s)
      BY <1>0, <3>3 DEF SessionsOK, GreetingFails
    <3> QED
      BY <1>2, <3>1, <3>2, <3>3
  <2>2. UNCHANGED <<regVars, arm, economy>>
    BY <1>2 DEF OpenSession, Greeted, GreetingFails
  <2> QED
    BY <1>1, <2>1, <2>2
<1>3. ASSUME NEW s \in Sessions, SetupAlone(s) PROVE ExperimentsInv'
  <2>1. SessionsOK' /\ \A t \in Sessions \ {s} : arm'[t] = arm[t] /\ economy'[t] = economy[t]
    BY <1>0, <1>3 DEF SessionsOK, SetupAlone
  <2>2. SetRegistry(Discarded(s)) /\ arm'[s] = NoArm
    BY <1>0, <1>3 DEF SetupAlone, SessionsOK
  <2>3. LinkedTo(Registry, s)'
    BY <2>2, DiscardKeeps DEF LinkedTo, Registry, SetRegistry
  <2> QED
    BY <2>1, <2>2, <2>3, DiscardKeeps, StepKeeps
<1>4. ASSUME NEW s \in Sessions, NEW q \in Request, SetupArm(s, q) PROVE ExperimentsInv'
  <2> DEFINE reg == Discarded(s)
             new == Joined(reg, s, q)
  <2>1. /\ SessionsOK' /\ arm'[s] = q /\ economy'[s] = TRUE
        /\ \A t \in Sessions \ {s} : arm'[t] = arm[t] /\ economy'[t] = economy[t]
    BY <1>0, <1>4 DEF SessionsOK, SetupArm
  <2>2. Admits(reg, q) /\ SetRegistry(new)
    BY <1>4 DEF SetupArm
  <2>3. /\ RegistryOK(reg) /\ s \notin DOMAIN reg.by
        /\ \A t \in Sessions \ {s} : LinkedTo(reg, t)
    BY DiscardKeeps
  <2> HIDE DEF reg
  <2>4. /\ RegistryOK(new) /\ Otherwise(reg, new, s)
        /\ s \in DOMAIN new.by /\ new.by[s] = [exp |-> q.exp, label |-> q.label]
        /\ new.exps[q.exp].count = q.count /\ new.exps[q.exp].world = q.world
    BY <2>2, <2>3, JoinKeeps
  <2> HIDE DEF new
  <2>5. \A t \in Sessions \ {s} : LinkedTo(new, t)
    BY <2>3, <2>4, OthersKeepTheirs
  <2>6. LinkedTo(Registry, s)'
    BY <2>1, <2>2, <2>4, NoArmIsNoRequest DEF LinkedTo, Registry, SetRegistry
  <2> QED
    BY <2>1, <2>2, <2>4, <2>5, <2>6, StepKeeps
<1>5. ASSUME NEW s \in Sessions, NEW q \in Request, SetupArmFails(s, q) PROVE ExperimentsInv'
  <2> DEFINE reg == Discarded(s)
             new == IF Admits(reg, q) THEN Release(Joined(reg, s, q), s) ELSE reg
  <2>1. /\ SessionsOK' /\ arm'[s] = NoArm
        /\ \A t \in Sessions \ {s} : arm'[t] = arm[t] /\ economy'[t] = economy[t]
    BY <1>0, <1>5 DEF SessionsOK, SetupArmFails
  <2>2. SetRegistry(new)
    BY <1>5 DEF SetupArmFails
  <2>3. /\ RegistryOK(reg) /\ s \notin DOMAIN reg.by
        /\ \A t \in Sessions \ {s} : LinkedTo(reg, t)
    BY DiscardKeeps
  <2> HIDE DEF reg
  <2>4. /\ RegistryOK(new) /\ s \notin DOMAIN new.by
        /\ \A t \in Sessions \ {s} : LinkedTo(new, t)
    <3>1. CASE Admits(reg, q)
      <4> DEFINE joined == Joined(reg, s, q)
      <4>1. RegistryOK(joined) /\ Otherwise(reg, joined, s)
        BY <2>3, <3>1, JoinKeeps
      <4> HIDE DEF joined
      <4>2. \A t \in Sessions \ {s} : LinkedTo(joined, t)
        BY <2>3, <4>1, OthersKeepTheirs
      <4>3. /\ RegistryOK(Release(joined, s)) /\ s \notin DOMAIN Release(joined, s).by
            /\ Otherwise(joined, Release(joined, s), s)
        BY <4>1, ReleaseKeeps
      <4>4. \A t \in Sessions \ {s} : LinkedTo(Release(joined, s), t)
        BY <4>1, <4>2, <4>3, OthersKeepTheirs
      <4> QED
        BY <3>1, <4>3, <4>4 DEF joined
    <3>2. CASE ~Admits(reg, q)
      BY <2>3, <3>2
    <3> QED
      BY <3>1, <3>2
  <2> HIDE DEF new
  <2>5. LinkedTo(Registry, s)'
    BY <2>1, <2>2, <2>4 DEF LinkedTo, Registry, SetRegistry
  <2> QED
    BY <2>1, <2>2, <2>4, <2>5, StepKeeps
<1>6. ASSUME NEW s \in Sessions, CloseSession(s) PROVE ExperimentsInv'
  <2>1. SessionsOK' /\ \A t \in Sessions \ {s} : arm'[t] = arm[t] /\ economy'[t] = economy[t]
    BY <1>0, <1>6 DEF SessionsOK, CloseSession
  <2>2. SetRegistry(Discarded(s)) /\ arm'[s] = NoArm
    BY <1>0, <1>6 DEF CloseSession, SessionsOK
  <2>3. LinkedTo(Registry, s)'
    BY <2>2, DiscardKeeps DEF LinkedTo, Registry, SetRegistry
  <2> QED
    BY <2>1, <2>2, <2>3, DiscardKeeps, StepKeeps
<1>7. CASE UNCHANGED vars
  <2>1. SessionsOK' /\ UNCHANGED <<regVars, arm, economy>>
    BY <1>0, <1>7 DEF SessionsOK, vars
  <2> QED
    BY <1>1, <2>1
<1> QED
  BY <1>2, <1>3, <1>4, <1>5, <1>6, <1>7 DEF Next

LEMMA InvAlways == Spec => []ExperimentsInv
BY InvInit, InvStep, PTL DEF Spec

-----------------------------------------------------------------------------
LEMMA InvImpliesTypes == ExperimentsInv => TypeOK
<1> SUFFICES ASSUME ExperimentsInv PROVE TypeOK
  OBVIOUS
<1>1. RegistryOK(Registry) /\ SessionsOK
  BY DEF ExperimentsInv
<1>2. \A e \in DOMAIN experiments :
        /\ experiments[e].count \in 1 .. MaxArms /\ experiments[e].world \in Worlds
        /\ DOMAIN experiments[e].arms \in (SUBSET Labels) \ {{}}
        /\ \A l \in DOMAIN experiments[e].arms : experiments[e].arms[l] \in ArmRecord
  <2> SUFFICES ASSUME NEW e \in DOMAIN experiments
               PROVE  /\ experiments[e].count \in 1 .. MaxArms /\ experiments[e].world \in Worlds
                      /\ DOMAIN experiments[e].arms \in (SUBSET Labels) \ {{}}
                      /\ \A l \in DOMAIN experiments[e].arms : experiments[e].arms[l] \in ArmRecord
    OBVIOUS
  <2>1. ExperimentOK(experiments[e])
    BY <1>1 DEF RegistryOK, Registry
  <2>2. PICK L \in SUBSET Labels : experiments[e].arms \in [L -> ArmRecord]
    BY <2>1 DEF ExperimentOK
  <2>3. DOMAIN experiments[e].arms = L /\ L # {}
    BY <2>1, <2>2 DEF ExperimentOK
  <2>4. experiments[e].count \in 1 .. MaxArms /\ experiments[e].world \in Worlds
    BY <2>1 DEF ExperimentOK
  <2> QED
    BY <2>2, <2>3, <2>4
<1>3. /\ DOMAIN experiments \subseteq Names /\ DOMAIN bySession \subseteq Sessions
      /\ \A s \in DOMAIN bySession : bySession[s] \in [exp : Names, label : Labels]
  BY <1>1 DEF RegistryOK, Registry
<1> QED
  BY <1>1, <1>2, <1>3 DEF TypeOK, SessionsOK, ArmRecord

\* A reservation exists exactly for a live session that runs the arm, and both indexes name it, after
\* any SETUP, refusal, failure, replacement and end of a session.
THEOREM ReservationsMatchSessions == Spec => []ReservedIffRunning
<1>1. ExperimentsInv => ReservedIffRunning
  <2> SUFFICES ASSUME ExperimentsInv PROVE ReservedIffRunning
    OBVIOUS
  <2>1. /\ RegistryOK(Registry) /\ SessionsOK /\ TypeOK
        /\ \A s \in Sessions : LinkedTo(Registry, s)
    BY InvImpliesTypes DEF ExperimentsInv
  <2>2. \A s \in Sessions : Live(s) <=> economy[s]
    BY <2>1 DEF Live, SessionsOK
  <2>3. \A s \in Sessions : s \in DOMAIN bySession <=> Live(s) /\ arm[s] # NoArm
    BY <2>1, <2>2 DEF LinkedTo, Registry
  <2>4. \A s \in DOMAIN bySession :
          /\ s \in Sessions
          /\ bySession[s] = [exp |-> arm[s].exp, label |-> arm[s].label]
          /\ bySession[s].exp \in DOMAIN experiments
          /\ bySession[s].label \in DOMAIN experiments[bySession[s].exp].arms
    BY <2>1 DEF LinkedTo, RegistryOK, Registry
  <2>5. \A e \in DOMAIN experiments : \A l \in DOMAIN experiments[e].arms :
          LET s == experiments[e].arms[l].session
          IN  s \in DOMAIN bySession /\ bySession[s] = [exp |-> e, label |-> l]
    BY <2>1 DEF RegistryOK, Registry
  <2> QED
    BY <2>1, <2>3, <2>4, <2>5 DEF ReservedIffRunning
<1> QED
  BY <1>1, InvAlways, PTL

\* The running arms of one experiment are of one world, owner and arm count, under labels of their own.
THEOREM RunningArmsMatch == Spec => []ArmsMatched
<1>1. ExperimentsInv => ArmsMatched
  <2> SUFFICES ASSUME ExperimentsInv, NEW s \in Sessions, NEW t \in Sessions, s # t,
                      economy[s], economy[t], arm[s] # NoArm, arm[t] # NoArm, arm[s].exp = arm[t].exp
               PROVE  arm[s].world = arm[t].world /\ arm[s].count = arm[t].count /\ arm[s].label # arm[t].label
    BY DEF ArmsMatched, Live
  <2>1. s \in DOMAIN bySession /\ t \in DOMAIN bySession /\ LinkedTo(Registry, s) /\ LinkedTo(Registry, t)
    BY DEF ExperimentsInv, LinkedTo, Registry
  <2>2. /\ bySession[s] = [exp |-> arm[s].exp, label |-> arm[s].label]
        /\ bySession[t] = [exp |-> arm[t].exp, label |-> arm[t].label]
        /\ arm[s].world = arm[t].world /\ arm[s].count = arm[t].count
    BY <2>1 DEF LinkedTo, Registry
  <2>3. /\ experiments[arm[s].exp].arms[arm[s].label].session = s
        /\ experiments[arm[t].exp].arms[arm[t].label].session = t
    BY <2>1, <2>2 DEF ExperimentsInv, RegistryOK, Registry
  <2> QED
    BY <2>2, <2>3
<1> QED
  BY <1>1, InvAlways, PTL

-----------------------------------------------------------------------------
(* Room for every arm *)

\* An experiment has no more arms than it was created for, each no larger than its cap.
Capped(x) ==
  /\ IsFiniteSet(DOMAIN x.arms) /\ Cardinality(DOMAIN x.arms) <= x.count
  /\ \A l \in DOMAIN x.arms : x.arms[l].size <= PerArmCap(x.count)

AllCapped(reg) == \A e \in DOMAIN reg.exps : Capped(reg.exps[e])

LEMMA ReleaseCapped ==
  ASSUME NEW reg, RegistryOK(reg), AllCapped(reg), NEW s \in Sessions
  PROVE  AllCapped(Release(reg, s))
<1>1. CASE s \notin DOMAIN reg.by
  BY <1>1 DEF Release
<1>2. CASE s \in DOMAIN reg.by
  <2> DEFINE e    == reg.by[s].exp
             l    == reg.by[s].label
             left == Without(reg.exps[e].arms, l)
             y    == [count |-> reg.exps[e].count, world |-> reg.exps[e].world, arms |-> left]
             exps == IF left = <<>> THEN Without(reg.exps, e) ELSE [reg.exps EXCEPT ![e] = y]
  <2>1. e \in DOMAIN reg.exps /\ l \in DOMAIN reg.exps[e].arms /\ ExperimentOK(reg.exps[e]) /\ Capped(reg.exps[e])
    BY <1>2 DEF RegistryOK, AllCapped
  <2>2. Release(reg, s).exps = exps
    <3>1. [reg.exps[e] EXCEPT !.arms = left] = y
      BY <2>1, ArmsSet
    <3>2. [reg.exps EXCEPT ![e].arms = left] = [reg.exps EXCEPT ![e] = y]
      BY <3>1
    <3> QED
      BY <1>2, <3>2 DEF Release
  <2>3. /\ DOMAIN left = DOMAIN reg.exps[e].arms \ {l}
        /\ \A k \in DOMAIN left : left[k] = reg.exps[e].arms[k]
    BY <2>1, ArmTaken
  <2>4. y.arms = left /\ y.count = reg.exps[e].count
    OBVIOUS
  <2>5. reg.exps[e].count \in Nat
    BY <2>1 DEF ExperimentOK
  <2> HIDE DEF left, y
  <2>6. Capped(y)
    <3>1. /\ IsFiniteSet(DOMAIN reg.exps[e].arms) /\ Cardinality(DOMAIN reg.exps[e].arms) <= reg.exps[e].count
          /\ \A k \in DOMAIN reg.exps[e].arms : reg.exps[e].arms[k].size <= PerArmCap(reg.exps[e].count)
      BY <2>1 DEF Capped
    <3>2. /\ IsFiniteSet(DOMAIN left) /\ Cardinality(DOMAIN left) = Cardinality(DOMAIN reg.exps[e].arms) - 1
          /\ Cardinality(DOMAIN reg.exps[e].arms) \in Nat
      <4>1. PICK S : S = DOMAIN reg.exps[e].arms
        OBVIOUS
      <4>2. IsFiniteSet(S) /\ l \in S
        BY <2>1, <3>1, <4>1
      <4>3. /\ IsFiniteSet(S \ {l}) /\ Cardinality(S \ {l}) = Cardinality(S) - 1 /\ Cardinality(S) \in Nat
        BY <4>2, FS_RemoveElement, FS_CardinalityType, ZenonT(60)
      <4> QED
        BY <2>3, <4>1, <4>3
    <3>3. Cardinality(DOMAIN left) <= reg.exps[e].count
      <4>1. \A a, b, c \in Nat : a = b - 1 /\ b <= c => a <= c
        OBVIOUS
      <4>2. Cardinality(DOMAIN left) \in Nat
        BY <3>2, FS_CardinalityType
      <4>3. Cardinality(DOMAIN reg.exps[e].arms) <= reg.exps[e].count
        BY <3>1
      <4> QED
        BY <2>5, <3>2, <4>1, <4>2, <4>3
    <3> QED
      BY <2>3, <2>4, <3>1, <3>2, <3>3 DEF Capped
  <2>7. \A x \in DOMAIN exps : x \in DOMAIN reg.exps /\ (exps[x] = reg.exps[x] \/ exps[x] = y)
    <3>1. CASE left = <<>>
      BY <3>1, <2>1 DEF Without, Restrict
    <3>2. CASE left # <<>>
      BY <3>2, <2>1
    <3> QED
      BY <3>1, <3>2
  <2> HIDE DEF exps
  <2> QED
    BY <2>2, <2>6, <2>7 DEF AllCapped
<1> QED
  BY <1>1, <1>2

LEMMA JoinCapped ==
  ASSUME NEW reg, RegistryOK(reg), AllCapped(reg), NEW s \in Sessions, NEW q \in Request, Admits(reg, q)
  PROVE  AllCapped(Joined(reg, s, q))
<1> DEFINE rec  == RecordFor(reg, q)
           mine == [session |-> s, size |-> q.size]
           arms == With(rec.arms, q.label, mine)
           y    == [count |-> q.count, world |-> q.world, arms |-> arms]
           exps == With(reg.exps, q.exp, y)
<1>1. /\ q.count \in 1 .. MaxArms /\ rec.count = q.count /\ rec.world = q.world
      /\ q.label \notin DOMAIN rec.arms /\ q.size <= PerArmCap(q.count)
      /\ Cardinality(DOMAIN rec.arms) < rec.count
  BY DEF Admits
<1>2. /\ IsFiniteSet(DOMAIN rec.arms) /\ \A l \in DOMAIN rec.arms : rec.arms[l].size <= PerArmCap(rec.count)
      /\ rec = [count |-> rec.count, world |-> rec.world, arms |-> rec.arms]
  <2>1. CASE q.exp \in DOMAIN reg.exps
    <3>1. rec = reg.exps[q.exp] /\ ExperimentOK(rec) /\ Capped(rec)
      BY <2>1 DEF RecordFor, RegistryOK, AllCapped
    <3> HIDE DEF rec
    <3> QED
      BY <3>1 DEF ExperimentOK, Capped
  <2>2. CASE q.exp \notin DOMAIN reg.exps
    <3>1. rec = [count |-> q.count, world |-> q.world, arms |-> <<>>]
      BY <2>2 DEF RecordFor
    <3>2. DOMAIN rec.arms = {}
      BY <3>1
    <3> HIDE DEF rec
    <3> QED
      BY <3>1, <3>2, FS_EmptySet
  <2> QED
    BY <2>1, <2>2
<1> HIDE DEF rec
<1>3. /\ DOMAIN arms = DOMAIN rec.arms \cup {q.label} /\ arms[q.label] = mine
      /\ \A l \in DOMAIN rec.arms : arms[l] = rec.arms[l]
  BY <1>1 DEF With
<1>4. mine.size = q.size
  OBVIOUS
<1>5. Joined(reg, s, q).exps = exps
  <2>1. [rec EXCEPT !.arms = arms] = y
    BY <1>1, <1>2
  <2> QED
    BY <2>1 DEF Joined, rec
<1>6. y.arms = arms /\ y.count = q.count
  OBVIOUS
<1> HIDE DEF arms, mine, y
<1>7. Capped(y)
  <2>1. IsFiniteSet(DOMAIN arms) /\ Cardinality(DOMAIN arms) = Cardinality(DOMAIN rec.arms) + 1
    BY <1>1, <1>2, <1>3, FS_AddElement
  <2>2. Cardinality(DOMAIN rec.arms) \in Nat /\ q.count \in Nat
    BY <1>1, <1>2, FS_CardinalityType
  <2>3. Cardinality(DOMAIN arms) <= q.count
    BY <1>1, <2>1, <2>2
  <2>4. \A l \in DOMAIN arms : arms[l].size <= PerArmCap(q.count)
    BY <1>1, <1>2, <1>3, <1>4
  <2> QED
    BY <1>6, <2>1, <2>3, <2>4 DEF Capped
<1>8. \A x \in DOMAIN exps : exps[x] = y \/ (x \in DOMAIN reg.exps /\ exps[x] = reg.exps[x])
  BY DEF With
<1> HIDE DEF exps
<1> QED
  BY <1>5, <1>7, <1>8 DEF AllCapped

RoomInv == ExperimentsInv /\ AllCapped(Registry)

LEMMA RoomStep == RoomInv /\ [Next]_vars => RoomInv'
<1> SUFFICES ASSUME RoomInv, [Next]_vars PROVE AllCapped(Registry)'
  BY InvStep DEF RoomInv
<1>1. ExperimentsInv /\ RegistryOK(Registry) /\ AllCapped(Registry)
  BY DEF RoomInv, ExperimentsInv
<1>2. ASSUME NEW reg, AllCapped(reg), SetRegistry(reg) PROVE AllCapped(Registry)'
  BY <1>2 DEF AllCapped, Registry, SetRegistry
<1>3. ASSUME UNCHANGED regVars PROVE AllCapped(Registry)'
  BY <1>1, <1>3 DEF AllCapped, Registry, regVars
<1>4. \A s \in Sessions : RegistryOK(Discarded(s)) /\ AllCapped(Discarded(s)) /\ s \notin DOMAIN Discarded(s).by
  BY <1>1, DiscardKeeps, ReleaseCapped DEF Discarded
<1>5. ASSUME NEW s \in Sessions, NEW q \in Request, SetupArm(s, q) PROVE AllCapped(Registry)'
  <2>1. Admits(Discarded(s), q) /\ SetRegistry(Joined(Discarded(s), s, q))
    BY <1>5 DEF SetupArm
  <2> QED
    BY <1>2, <1>4, <2>1, JoinCapped
<1>6. ASSUME NEW s \in Sessions, NEW q \in Request, SetupArmFails(s, q) PROVE AllCapped(Registry)'
  <2> DEFINE reg == Discarded(s)
             joined == Joined(reg, s, q)
  <2>1. SetRegistry(IF Admits(reg, q) THEN Release(joined, s) ELSE reg)
    BY <1>6 DEF SetupArmFails
  <2>2. RegistryOK(reg) /\ AllCapped(reg) /\ s \notin DOMAIN reg.by
    BY <1>4
  <2> HIDE DEF reg
  <2>3. CASE Admits(reg, q)
    <3>1. RegistryOK(joined) /\ AllCapped(joined)
      BY <2>2, <2>3, JoinKeeps, JoinCapped
    <3> HIDE DEF joined
    <3>2. AllCapped(Release(joined, s))
      BY <3>1, ReleaseCapped
    <3> QED
      BY <1>2, <2>1, <2>3, <3>2
  <2>4. CASE ~Admits(reg, q)
    BY <1>2, <2>1, <2>2, <2>4
  <2> QED
    BY <2>3, <2>4
<1>7. ASSUME NEW s \in Sessions, SetupAlone(s) \/ CloseSession(s) PROVE AllCapped(Registry)'
  <2>1. SetRegistry(Discarded(s))
    BY <1>7 DEF SetupAlone, CloseSession
  <2> QED
    BY <1>2, <1>4, <2>1
<1>8. ASSUME NEW s \in Sessions, OpenSession(s) \/ Greeted(s) \/ GreetingFails(s) PROVE AllCapped(Registry)'
  BY <1>3, <1>8 DEF OpenSession, Greeted, GreetingFails
<1>9. CASE UNCHANGED vars
  BY <1>3, <1>9 DEF vars
<1> QED
  BY <1>5, <1>6, <1>7, <1>8, <1>9 DEF Next

\* Equal caps leave room: what the present arms use of the budget is no more than their caps.
LEMMA CapsLeaveRoom ==
  ASSUME NEW x, ExperimentOK(x), Capped(x)
  PROVE  Reserved(x.arms) + (x.count - Cardinality(DOMAIN x.arms)) * PerArmCap(x.count) <= Budget
<1> DEFINE D == DOMAIN x.arms
           sizes == [l \in D |-> x.arms[l].size]
           n == x.count
           k == Cardinality(D)
           cap == PerArmCap(n)
           caps == [l \in D |-> cap]
<1>1. n \in Nat \ {0} /\ Budget \in Nat /\ \A l \in D : x.arms[l] \in ArmRecord
  BY DEF ExperimentOK
<1>2. cap \in Nat /\ n * cap <= Budget
  <2>1. cap = Budget \div n
    BY <1>1 DEF PerArmCap
  <2>2. \A a \in Nat, b \in Nat \ {0} : a \div b \in Nat /\ b * (a \div b) <= a
    OBVIOUS
  <2> QED
    BY <1>1, <2>1, <2>2
<1>3. IsFiniteSet(D) /\ k \in Nat /\ k <= n /\ \A l \in D : x.arms[l].size <= cap
  BY FS_CardinalityType DEF Capped
<1>4. sizes \in [D -> Nat]
  BY <1>1 DEF ArmRecord
<1> HIDE DEF cap
<1>5. caps \in [D -> Int] /\ sizes \in [D -> Int] /\ \A l \in D : sizes[l] <= caps[l]
  BY <1>2, <1>3, <1>4
<1>6. Total(caps) = cap * k
  <2>1. cap \in Int
    BY <1>2
  <2> QED
    BY <1>3, <2>1, TotalConst
<1> HIDE DEF D, sizes, caps, k
<1>7. Total(sizes) <= Total(caps) /\ Total(sizes) \in Nat
  BY <1>3, <1>4, <1>5, TotalMonotone, TotalNat
<1>8. \A t, a, b, c, m \in Nat : t <= c * b /\ b <= a /\ a * c <= m => t + (a - b) * c <= m
  <2> SUFFICES ASSUME NEW t \in Nat, NEW a \in Nat, NEW b \in Nat, NEW c \in Nat, NEW m \in Nat,
                      t <= c * b, b <= a, a * c <= m
               PROVE  t + (a - b) * c <= m
    OBVIOUS
  <2>1. (a - b) * c = a * c - c * b /\ a * c \in Nat /\ c * b \in Nat
    OBVIOUS
  <2> QED
    BY <2>1
<1>9. Total(sizes) + (n - k) * cap <= Budget
  BY <1>1, <1>2, <1>3, <1>6, <1>7, <1>8
<1> QED
  BY <1>9 DEF Reserved, D, sizes, k, cap

\* No arm that respects the per-arm cap is ever refused for the household budget, in whatever order
\* the arms of an experiment come, fail, leave and return.
THEOREM RoomIsKept == Spec => []RoomForEveryArm
<1>1. Init => RoomInv
  <2>1. Init => AllCapped(Registry)
    BY DEF Init, AllCapped, Registry
  <2> QED
    BY <2>1, InvInit DEF RoomInv
<1>2. RoomInv => RoomForEveryArm
  <2> SUFFICES ASSUME RoomInv, NEW e \in DOMAIN experiments
               PROVE  Reserved(experiments[e].arms)
                        + (experiments[e].count - Cardinality(DOMAIN experiments[e].arms)) * PerArmCap(experiments[e].count)
                        <= Budget
    BY DEF RoomForEveryArm
  <2>1. ExperimentOK(experiments[e]) /\ Capped(experiments[e])
    BY DEF RoomInv, ExperimentsInv, RegistryOK, AllCapped, Registry
  <2> QED
    BY <2>1, CapsLeaveRoom
<1> QED
  BY <1>1, <1>2, RoomStep, PTL DEF Spec
=============================================================================
